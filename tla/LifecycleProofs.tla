--------------------------- MODULE LifecycleProofs ---------------------------
(***************************************************************************)
(* The safety of an execution's log outside the decisions, for any limits, *)
(* any schedule of crashes and failed calls and any interleaving with      *)
(* reads.                                                                  *)
(*                                                                         *)
(* No purge outruns the dispatcher, for any number of overlapping engines, *)
(* as long as nobody archives or deletes by hand.  A continuation is safe  *)
(* because the floor it read can only have risen since.  An archival or a  *)
(* deletion purges everything; it is safe because its command was          *)
(* scheduled by the dispatcher when it processed the terminal event, and   *)
(* nothing can be appended after that event: an engine that still wants to *)
(* append a continuation decided on an older head and will conflict.       *)
(*                                                                         *)
(* The types hold for any number of engines, by hand or not.  That what a  *)
(* read returns is right, and that a deletion leaves nothing, is proved    *)
(* for one engine at a time: the segments a continuation lists then join   *)
(* up (Chain), the log is cut in front of the last base only (LogInv), and *)
(* a deletion has in hand what is left of them (DelInv).                   *)
(***************************************************************************)
EXTENDS Lifecycle, TLAPS

Fields == DOMAIN Idle
Removing == {"aread", "aput", "aexpire", "apurge", "derive", "objects", "dpurge"}
Continuing == {"read", "put", "continue"}
\* The fields of a hand that its pc does not depend on.
Loose == {"lo", "hi", "list", "floor"}

\* What an engine has in hand, h, against the floor, the head and the end.
HandOK(h, fl, hd, en) ==
  /\ DOMAIN h = Fields
  /\ h.n \in Nat /\ h.n <= hd
  /\ h.floor \in Nat /\ h.floor <= fl
  /\ h.pc \in Removing => en /\ fl = hd
  /\ h.pc \in Continuing /\ en => h.n < hd
  /\ h.pc = "save" /\ en => h.over \/ h.n < hd

LogOK(fi, fl, hd, en) ==
  /\ fi \in Nat /\ fl \in Nat /\ hd \in Nat /\ en \in BOOLEAN
  /\ fi <= fl + 1 /\ fl <= hd

IInv ==
  /\ LogOK(first, floor, head, ended)
  /\ DOMAIN eng = Engines
  /\ \A e \in Engines : HandOK(eng[e], floor, head, ended)
  /\ cmds # {} => ended /\ floor = head

LEMMA MaxOfTwo ==
    ASSUME NEW a \in Nat, NEW b \in Nat
    PROVE  Max({a, b}) \in Nat /\ Max({a, b}) = IF a <= b THEN b ELSE a
  BY DEF Max

LEMMA MinOfTwo ==
    ASSUME NEW a \in Nat, NEW b \in Nat
    PROVE  Min({a, b}) \in Nat /\ Min({a, b}) = IF a <= b THEN a ELSE b
  BY DEF Min

LEMMA IdleOK ==
    ASSUME NEW fl \in Nat, NEW hd \in Nat, NEW en
    PROVE  HandOK(Idle, fl, hd, en)
  BY DEF HandOK, Idle, Fields, Removing, Continuing

\* A step of one engine that leaves the log's bounds alone.
LEMMA OneHand ==
    ASSUME IInv, NEW e \in Engines, NEW h,
           eng' = [eng EXCEPT ![e] = h],
           HandOK(h, floor, head, ended)
    PROVE  DOMAIN eng' = Engines /\ \A x \in Engines : HandOK(eng'[x], floor, head, ended)
  BY DEF IInv

LEMMA GotoOK ==
    ASSUME IInv, NEW e \in Engines, NEW pc,
           HandOK([eng[e] EXCEPT !.pc = pc], floor, head, ended), Goto(e, pc)
    PROVE  DOMAIN eng' = Engines /\ \A x \in Engines : HandOK(eng'[x], floor, head, ended)
  <1>1. eng' = [eng EXCEPT ![e] = [eng[e] EXCEPT !.pc = pc]]
    BY DEF Goto
  <1> QED
    BY <1>1, OneHand

LEMMA DoneOK ==
    ASSUME IInv, NEW e \in Engines, Done(e)
    PROVE  DOMAIN eng' = Engines /\ \A x \in Engines : HandOK(eng'[x], floor, head, ended)
  <1>1. HandOK(Idle, floor, head, ended)
    BY IdleOK DEF IInv, LogOK
  <1> QED
    BY <1>1, OneHand DEF Done

\* A hand that may go on to pc: what HandOK asks of the new pc.
LEMMA NewPc ==
    ASSUME NEW h, NEW fl, NEW hd, NEW en, HandOK(h, fl, hd, en), NEW pc,
           pc \in Removing => en /\ fl = hd,
           pc \in Continuing /\ en => h.n < hd,
           pc # "save"
    PROVE  HandOK([h EXCEPT !.pc = pc], fl, hd, en)
  <1> DEFINE g == [h EXCEPT !.pc = pc]
  <1>1. "pc" \in Fields /\ "n" \in Fields /\ "floor" \in Fields
    BY DEF Fields, Idle
  <1>2. DOMAIN g = Fields /\ g.pc = pc /\ g.n = h.n /\ g.floor = h.floor
    BY <1>1 DEF HandOK
  <1> QED
    BY <1>2 DEF HandOK

LEMMA OtherField ==
    ASSUME NEW h, NEW fl, NEW hd, NEW en, HandOK(h, fl, hd, en), NEW v,
           NEW f \in Loose,
           f = "floor" => v \in Nat /\ v <= fl
    PROVE  HandOK([h EXCEPT ![f] = v], fl, hd, en) /\ [h EXCEPT ![f] = v].n = h.n
  <1> DEFINE g == [h EXCEPT ![f] = v]
  <1>1. {"pc", "n", "floor", "over"} \subseteq Fields
    BY DEF Fields, Idle
  <1>2. f # "pc" /\ f # "n" /\ f # "over"
    BY DEF Loose
  <1>3. /\ DOMAIN g = Fields /\ g.pc = h.pc /\ g.n = h.n
        /\ g.floor = IF f = "floor" THEN v ELSE h.floor
        /\ g.over = h.over
    BY <1>1, <1>2, Zenon DEF HandOK
  <1> QED
    BY <1>3 DEF HandOK

LEMMA FieldThenPc ==
    ASSUME NEW h, NEW fl, NEW hd, NEW en, HandOK(h, fl, hd, en), NEW v,
           NEW f \in Loose,
           f = "floor" => v \in Nat /\ v <= fl,
           NEW pc, pc \in Removing => en /\ fl = hd,
           pc \in Continuing /\ en => h.n < hd,
           pc # "save"
    PROVE  HandOK([[h EXCEPT ![f] = v] EXCEPT !.pc = pc], fl, hd, en)
  <1> DEFINE g == [[h EXCEPT ![f] = v] EXCEPT !.pc = pc]
  <1>1. {"pc", "n", "floor", "over"} \subseteq Fields
    BY DEF Fields, Idle
  <1>2. f # "pc" /\ f # "n" /\ f # "over"
    BY DEF Loose
  <1>3. /\ DOMAIN g = Fields /\ g.pc = pc /\ g.n = h.n
        /\ g.floor = IF f = "floor" THEN v ELSE h.floor
    BY <1>1, <1>2, Zenon DEF HandOK
  <1> QED
    BY <1>3 DEF HandOK

\* Everything a step leaves alone.
LEMMA Frame ==
    ASSUME IInv, UNCHANGED <<first, floor, head, ended>>,
           DOMAIN eng' = Engines,
           \A x \in Engines : HandOK(eng'[x], floor, head, ended),
           cmds' # {} => ended /\ floor = head
    PROVE  IInv'
  BY DEF IInv

----------------------------------------------------------------------------
\* A decision and its housekeeping.

LEMMA DecideOK ==
    ASSUME IInv, NEW e \in Engines, Decide(e)
    PROVE  IInv'
  <1> DEFINE pc == Housekeeping(head + 1, ended')
             g == [Idle EXCEPT !.n = head + 1, !.over = ended', !.pc = pc]
  <1>1. /\ ~ended /\ head' = head + 1 /\ ended' \in BOOLEAN
        /\ UNCHANGED <<first, floor, cmds>>
        /\ eng' = [eng EXCEPT ![e] = IF pc = "idle" THEN Idle ELSE g]
    BY Zenon DEF Decide
  <1>2. LogOK(first, floor, head, ended)
    BY DEF IInv
  <1>3. LogOK(first, floor, head', ended')
    BY <1>1, <1>2 DEF LogOK
  <1>4. cmds' = {}
    BY <1>1 DEF IInv
  <1>5. pc \in {"save", "idle"} \/ (pc = "read" /\ ~ended')
    BY DEF Housekeeping
  <1>6. HandOK(Idle, floor, head', ended')
    <2>1. floor \in Nat /\ head' \in Nat
      BY <1>3 DEF LogOK
    <2> QED
      BY <2>1, IdleOK, Zenon
  <1>7. HandOK(g, floor, head', ended')
    <2>1. /\ DOMAIN g = Fields /\ g.pc = pc /\ g.n = head + 1 /\ g.floor = 0
          /\ g.over = ended'
      BY DEF Fields, Idle
    <2>2. /\ pc \notin Removing
          /\ pc \in Continuing => ~ended'
      BY <1>5 DEF Removing, Continuing
    <2>3. head \in Nat /\ floor \in Nat
      BY <1>2 DEF LogOK
    <2> HIDE DEF pc, g
    <2> QED
      BY <1>1, <2>1, <2>2, <2>3 DEF HandOK
  <1>8. ASSUME NEW x \in Engines
        PROVE  HandOK(eng[x], floor, head', ended')
    <2>1. HandOK(eng[x], floor, head, ended)
      BY DEF IInv
    <2>2. head \in Nat
      BY <1>2 DEF LogOK
    <2> QED
      BY <1>1, <2>1, <2>2 DEF HandOK
  <1>9. ASSUME NEW x \in Engines
        PROVE  HandOK(eng'[x], floor, head', ended')
    <2>1. eng'[x] \in {Idle, g, eng[x]}
      BY <1>1, Zenon DEF IInv
    <2> HIDE DEF g
    <2> QED
      BY <1>6, <1>7, <1>8, <2>1
  <1>10. DOMAIN eng' = Engines
    BY <1>1, Zenon DEF IInv
  <1> QED
    BY <1>1, <1>3, <1>4, <1>9, <1>10 DEF IInv

LEMMA SaveOK ==
    ASSUME IInv, NEW e \in Engines, Save(e)
    PROVE  IInv'
  <1>1. /\ eng[e].pc = "save" /\ UNCHANGED <<first, floor, head, ended, cmds>>
        /\ (~eng[e].over /\ Goto(e, "read")) \/ Done(e)
    BY DEF Save, At
  <1>2. HandOK(eng[e], floor, head, ended)
    BY DEF IInv
  <1>3. ~eng[e].over => HandOK([eng[e] EXCEPT !.pc = "read"], floor, head, ended)
    <2>1. ~eng[e].over /\ ended => eng[e].n < head
      BY <1>1, <1>2 DEF HandOK
    <2>2. "read" \notin Removing
      BY DEF Removing
    <2> QED
      BY <1>2, <2>1, <2>2, NewPc
  <1>4. DOMAIN eng' = Engines /\ \A x \in Engines : HandOK(eng'[x], floor, head, ended)
    <2>1. CASE ~eng[e].over /\ Goto(e, "read")
      BY <1>3, <2>1, GotoOK
    <2>2. CASE Done(e)
      BY <2>2, DoneOK
    <2> QED
      BY <1>1, <2>1, <2>2
  <1>5. cmds' # {} => ended /\ floor = head
    BY <1>1 DEF IInv
  <1> QED
    BY <1>1, <1>4, <1>5, Frame

LEMMA ReadSegmentOK ==
    ASSUME IInv, NEW e \in Engines, ReadSegment(e)
    PROVE  IInv'
  <1> DEFINE lo == Max({first, BaseOf(eng[e].n)})
             g == [[eng[e] EXCEPT !.lo = lo] EXCEPT !.pc = "put"]
  <1>1. /\ eng[e].pc = "read" /\ UNCHANGED <<first, floor, head, ended, cmds>>
        /\ Done(e) \/ eng' = [eng EXCEPT ![e].lo = lo, ![e].pc = "put"]
    BY Zenon DEF ReadSegment, At
  <1> HIDE DEF lo
  <1>2. HandOK(eng[e], floor, head, ended)
    BY DEF IInv
  <1>3. HandOK(g, floor, head, ended)
    <2>1. ended => eng[e].n < head
      BY <1>1, <1>2 DEF HandOK, Continuing
    <2>2. "put" \notin Removing /\ "read" \in Continuing
      BY DEF Removing, Continuing
    <2> QED
      BY <1>2, <2>1, <2>2, FieldThenPc DEF Loose
  <1>4. DOMAIN eng' = Engines /\ \A x \in Engines : HandOK(eng'[x], floor, head, ended)
    <2>1. CASE Done(e)
      BY <2>1, DoneOK
    <2>2. CASE eng' = [eng EXCEPT ![e].lo = lo, ![e].pc = "put"]
      <3>1. eng' = [eng EXCEPT ![e] = g]
        BY <2>2 DEF IInv
      <3> HIDE DEF g
      <3> QED
        BY <1>3, <3>1, OneHand
    <2> QED
      BY <1>1, <2>1, <2>2
  <1>5. cmds' # {} => ended /\ floor = head
    BY <1>1 DEF IInv
  <1> QED
    BY <1>1, <1>4, <1>5, Frame

LEMMA PutSegmentOK ==
    ASSUME IInv, NEW e \in Engines, PutSegment(e)
    PROVE  IInv'
  <1>1. /\ eng[e].pc = "put" /\ UNCHANGED <<first, floor, head, ended, cmds>>
        /\ Goto(e, "continue")
    BY DEF PutSegment, At
  <1>2. HandOK(eng[e], floor, head, ended)
    BY DEF IInv
  <1>3. HandOK([eng[e] EXCEPT !.pc = "continue"], floor, head, ended)
    <2>1. ended => eng[e].n < head
      BY <1>1, <1>2 DEF HandOK, Continuing
    <2>2. "continue" \notin Removing
      BY DEF Removing
    <2> QED
      BY <1>2, <2>1, <2>2, NewPc
  <1>4. DOMAIN eng' = Engines /\ \A x \in Engines : HandOK(eng'[x], floor, head, ended)
    BY <1>1, <1>3, GotoOK
  <1>5. cmds' # {} => ended /\ floor = head
    BY <1>1 DEF IInv
  <1> QED
    BY <1>1, <1>4, <1>5, Frame

\* A continuation that lands found the head it was decided on: the execution
\* has not ended, so nothing is being removed.
LEMMA AppendContinuedOK ==
    ASSUME IInv, NEW e \in Engines, AppendContinued(e)
    PROVE  IInv'
  <1>1. eng[e].pc = "continue" /\ UNCHANGED <<first, floor, ended, cmds>>
    BY DEF AppendContinued, At
  <1>2. HandOK(eng[e], floor, head, ended) /\ LogOK(first, floor, head, ended)
    BY DEF IInv
  <1>3. CASE head # eng[e].n
    <2>1. Done(e) /\ head' = head
      BY <1>3 DEF AppendContinued
    <2>2. cmds' # {} => ended /\ floor = head
      BY <1>1 DEF IInv
    <2> QED
      BY <1>1, <2>1, <2>2, DoneOK, Frame
  <1>4. CASE head = eng[e].n
    <2> DEFINE g == [[eng[e] EXCEPT !.n = head + 1] EXCEPT !.pc = "resave"]
    <2>1. /\ head' = head + 1
          /\ eng' = [eng EXCEPT ![e].n = head + 1, ![e].pc = "resave"]
      BY <1>4, Zenon DEF AppendContinued
    <2>2. ~ended /\ head \in Nat
      BY <1>1, <1>2, <1>4 DEF HandOK, LogOK, Continuing
    <2>3. cmds' = {}
      BY <1>1, <2>2 DEF IInv
    <2>4. LogOK(first, floor, head', ended)
      BY <1>2, <2>1 DEF LogOK
    <2>5. HandOK(g, floor, head', ended)
      <3>1. {"pc", "n", "floor", "over"} \subseteq Fields
        BY DEF Fields, Idle
      <3>2. /\ DOMAIN g = Fields /\ g.pc = "resave" /\ g.n = head + 1
            /\ g.floor = eng[e].floor
        BY <1>2, <3>1, Zenon DEF HandOK
      <3>3. "resave" \notin Removing
        BY DEF Removing
      <3> HIDE DEF g
      <3> QED
        BY <1>2, <2>1, <2>2, <3>2, <3>3 DEF HandOK
    <2>6. ASSUME NEW x \in Engines
          PROVE  HandOK(eng[x], floor, head', ended)
      <3>1. HandOK(eng[x], floor, head, ended)
        BY DEF IInv
      <3> QED
        BY <2>1, <2>2, <3>1 DEF HandOK
    <2>7. eng' = [eng EXCEPT ![e] = g]
      BY <2>1 DEF IInv
    <2>8. ASSUME NEW x \in Engines
          PROVE  HandOK(eng'[x], floor, head', ended)
      <3> HIDE DEF g
      <3>1. eng'[x] \in {g, eng[x]}
        BY <2>7, Zenon DEF IInv
      <3> QED
        BY <2>5, <2>6, <3>1
    <2>9. DOMAIN eng' = Engines
      BY <2>7, Zenon DEF IInv
    <2> QED
      BY <1>1, <2>3, <2>4, <2>8, <2>9 DEF IInv
  <1> QED
    BY <1>3, <1>4

LEMMA SaveContinuedOK ==
    ASSUME IInv, NEW e \in Engines, SaveContinued(e)
    PROVE  IInv'
  <1>1. UNCHANGED <<first, floor, head, ended, cmds>> /\ Goto(e, "floor")
    BY DEF SaveContinued
  <1>2. HandOK([eng[e] EXCEPT !.pc = "floor"], floor, head, ended)
    <2>1. HandOK(eng[e], floor, head, ended)
      BY DEF IInv
    <2>2. "floor" \notin Removing /\ "floor" \notin Continuing
      BY DEF Removing, Continuing
    <2> QED
      BY <2>1, <2>2, NewPc
  <1>3. DOMAIN eng' = Engines /\ \A x \in Engines : HandOK(eng'[x], floor, head, ended)
    BY <1>1, <1>2, GotoOK
  <1>4. cmds' # {} => ended /\ floor = head
    BY <1>1 DEF IInv
  <1> QED
    BY <1>1, <1>3, <1>4, Frame

LEMMA ReadFloorOK ==
    ASSUME IInv, NEW e \in Engines, ReadFloor(e)
    PROVE  IInv'
  <1> DEFINE g == [[eng[e] EXCEPT !.floor = floor] EXCEPT !.pc = "purge"]
  <1>1. /\ UNCHANGED <<first, floor, head, ended, cmds>>
        /\ Done(e) \/ eng' = [eng EXCEPT ![e].floor = floor, ![e].pc = "purge"]
    BY Zenon DEF ReadFloor
  <1>2. HandOK(eng[e], floor, head, ended) /\ floor \in Nat
    BY DEF IInv, LogOK
  <1>3. HandOK(g, floor, head, ended)
    <2>1. "purge" \notin Removing /\ "purge" \notin Continuing /\ "floor" \in Loose
      BY DEF Removing, Continuing, Loose
    <2>2. floor <= floor
      BY <1>2
    <2> QED
      BY <1>2, <2>1, <2>2, FieldThenPc
  <1>4. DOMAIN eng' = Engines /\ \A x \in Engines : HandOK(eng'[x], floor, head, ended)
    <2>1. CASE Done(e)
      BY <2>1, DoneOK
    <2>2. CASE eng' = [eng EXCEPT ![e].floor = floor, ![e].pc = "purge"]
      <3>1. eng' = [eng EXCEPT ![e] = g]
        BY <2>2 DEF IInv
      <3> HIDE DEF g
      <3> QED
        BY <1>3, <3>1, OneHand
    <2> QED
      BY <1>1, <2>1, <2>2
  <1>5. cmds' # {} => ended /\ floor = head
    BY <1>1 DEF IInv
  <1> QED
    BY <1>1, <1>4, <1>5, Frame

\* The floor read before the purge was reached by the dispatcher.
LEMMA PurgeOK ==
    ASSUME IInv, NEW e \in Engines, Purge(e)
    PROVE  IInv'
  <1> DEFINE m == Min({eng[e].n, eng[e].floor + 1})
  <1>1. /\ UNCHANGED <<floor, head, ended, cmds>> /\ Done(e)
        /\ first' = Max({first, m})
    BY DEF Purge
  <1>2. HandOK(eng[e], floor, head, ended) /\ LogOK(first, floor, head, ended)
    BY DEF IInv
  <1>3. eng[e].n \in Nat /\ eng[e].floor \in Nat /\ eng[e].floor <= floor
    BY <1>2 DEF HandOK
  <1>4. m \in Nat /\ m <= eng[e].floor + 1
    <2>1. eng[e].floor + 1 \in Nat
      BY <1>3
    <2>2. m \in Nat /\ m = IF eng[e].n <= eng[e].floor + 1 THEN eng[e].n ELSE eng[e].floor + 1
      BY <1>3, <2>1, MinOfTwo
    <2> HIDE DEF m
    <2> QED
      BY <1>3, <2>2
  <1> HIDE DEF m
  <1>5. first' \in Nat /\ first' = IF first <= m THEN m ELSE first
    <2>1. first \in Nat
      BY <1>2 DEF LogOK
    <2> QED
      BY <1>1, <1>4, <2>1, MaxOfTwo
  <1>6. LogOK(first', floor, head, ended)
    BY <1>2, <1>3, <1>4, <1>5 DEF LogOK
  <1>7. DOMAIN eng' = Engines /\ \A x \in Engines : HandOK(eng'[x], floor, head, ended)
    BY <1>1, DoneOK
  <1> QED
    BY <1>1, <1>6, <1>7 DEF IInv

----------------------------------------------------------------------------
\* Archival and deletion: everything was dispatched before they began.

\* A step within them, that purges all of the log or none of it.
LEMMA RemovalStep ==
    ASSUME IInv, NEW e \in Engines, eng[e].pc \in Removing,
           NEW h, eng' = [eng EXCEPT ![e] = h], HandOK(h, floor, head, ended),
           first' \in {first, head + 1}, UNCHANGED <<floor, head, ended>>
    PROVE  IInv'
  <1>1. ended /\ floor = head
    BY DEF IInv, HandOK
  <1>2. LogOK(first', floor, head, ended)
    BY <1>1 DEF IInv, LogOK
  <1>3. DOMAIN eng' = Engines /\ \A x \in Engines : HandOK(eng'[x], floor, head, ended)
    BY OneHand
  <1> QED
    BY <1>1, <1>2, <1>3 DEF IInv

LEMMA RemovalGoto ==
    ASSUME IInv, NEW e \in Engines, eng[e].pc \in Removing,
           NEW pc \in Removing \cup {"aclean"}, Goto(e, pc),
           first' \in {first, head + 1}, UNCHANGED <<floor, head, ended>>
    PROVE  IInv'
  <1>1. HandOK(eng[e], floor, head, ended)
    BY DEF IInv
  <1>2. ended /\ floor = head
    BY <1>1 DEF HandOK
  <1>3. pc \notin Continuing /\ pc # "save"
    BY DEF Removing, Continuing
  <1>4. HandOK([eng[e] EXCEPT !.pc = pc], floor, head, ended)
    BY <1>1, <1>2, <1>3, NewPc
  <1> QED
    BY <1>4, RemovalStep DEF Goto

LEMMA RemovalDone ==
    ASSUME IInv, NEW e \in Engines, eng[e].pc \in Removing, Done(e),
           first' \in {first, head + 1}, UNCHANGED <<floor, head, ended>>
    PROVE  IInv'
  <1>1. HandOK(Idle, floor, head, ended)
    BY IdleOK DEF IInv, LogOK
  <1> QED
    BY <1>1, RemovalStep DEF Done

LEMMA ArchiveOK ==
    ASSUME IInv, ~Manual, NEW e \in Engines, Archive(e)
    PROVE  IInv'
  <1>1. /\ UNCHANGED <<first, floor, head, ended>>
        /\ ended /\ floor = head
        /\ Goto(e, "aread") \/ UNCHANGED eng
    BY DEF Archive, Asked, IInv
  <1>2. HandOK(eng[e], floor, head, ended)
    BY DEF IInv
  <1>3. HandOK([eng[e] EXCEPT !.pc = "aread"], floor, head, ended)
    <2>1. "aread" \notin Continuing
      BY DEF Continuing
    <2> QED
      BY <1>1, <1>2, <2>1, NewPc
  <1>4. DOMAIN eng' = Engines /\ \A x \in Engines : HandOK(eng'[x], floor, head, ended)
    <2>1. CASE Goto(e, "aread")
      BY <1>3, <2>1, GotoOK
    <2>2. CASE UNCHANGED eng
      BY <2>2 DEF IInv
    <2> QED
      BY <1>1, <2>1, <2>2
  <1> QED
    BY <1>1, <1>4, Frame

LEMMA ArchiveStepsOK ==
    ASSUME IInv, NEW e \in Engines,
           ArchiveRead(e) \/ ArchivePut(e) \/ ArchiveExpire(e) \/ ArchivePurge(e)
    PROVE  IInv'
  <1>1. CASE ArchiveRead(e)
    <2> DEFINE g == [[[eng[e] EXCEPT !.lo = first] EXCEPT !.hi = head] EXCEPT !.pc = "aput"]
    <2>1. /\ eng[e].pc = "aread" /\ UNCHANGED <<first, floor, head, ended>>
          /\ eng' = [eng EXCEPT ![e].lo = first, ![e].hi = head, ![e].pc = "aput"]
      BY <1>1, Zenon DEF ArchiveRead, At
    <2>2. eng' = [eng EXCEPT ![e] = g]
      BY <2>1 DEF IInv
    <2>3. HandOK(eng[e], floor, head, ended) /\ eng[e].pc \in Removing
      BY <2>1 DEF IInv, Removing
    <2>4. HandOK(g, floor, head, ended)
      <3>1. {"pc", "n", "floor", "over"} \subseteq Fields
        BY DEF Fields, Idle
      <3>2. /\ DOMAIN g = Fields /\ g.pc = "aput" /\ g.n = eng[e].n
            /\ g.floor = eng[e].floor
        BY <2>3, <3>1, Zenon DEF HandOK
      <3>3. "aput" \notin Continuing
        BY DEF Continuing
      <3> HIDE DEF g
      <3> QED
        BY <2>3, <3>2, <3>3 DEF HandOK
    <2> HIDE DEF g
    <2> QED
      BY <2>1, <2>2, <2>3, <2>4, RemovalStep
  <1>2. CASE ArchivePut(e)
    <2>1. /\ eng[e].pc \in Removing /\ Goto(e, "aexpire")
          /\ UNCHANGED <<first, floor, head, ended>>
      BY <1>2 DEF ArchivePut, ArchiveThen, At, Removing
    <2>2. "aexpire" \in Removing
      BY DEF Removing
    <2> QED
      BY <2>1, <2>2, RemovalGoto
  <1>3. CASE ArchiveExpire(e)
    <2>1. /\ eng[e].pc \in Removing /\ Goto(e, "apurge")
          /\ UNCHANGED <<first, floor, head, ended>>
      BY <1>3 DEF ArchiveExpire, ArchiveThen, At, Removing
    <2>2. "apurge" \in Removing
      BY DEF Removing
    <2> QED
      BY <2>1, <2>2, RemovalGoto
  <1>4. CASE ArchivePurge(e)
    <2>1. /\ eng[e].pc \in Removing /\ Goto(e, "aclean")
          /\ UNCHANGED <<floor, head, ended>> /\ first' = head + 1
      BY <1>4 DEF ArchivePurge, ArchiveThen, At, Removing
    <2> QED
      BY <2>1, RemovalGoto
  <1> QED
    BY <1>1, <1>2, <1>3, <1>4

LEMMA ArchiveCleanOK ==
    ASSUME IInv, NEW e \in Engines, ArchiveClean(e)
    PROVE  IInv'
  <1>1. UNCHANGED <<first, floor, head, ended>> /\ Done(e) /\ cmds' \subseteq cmds
    BY DEF ArchiveClean, Either
  <1>2. cmds' # {} => ended /\ floor = head
    BY <1>1 DEF IInv
  <1> QED
    BY <1>1, <1>2, DoneOK, Frame

LEMMA DeleteOK ==
    ASSUME IInv, ~Manual, NEW e \in Engines, Delete(e)
    PROVE  IInv'
  <1> DEFINE l == IF Live \/ arch # << >> THEN SegmentsOf(head) ELSE << >>
             g == [[eng[e] EXCEPT !.pc = "derive"] EXCEPT !.list = l]
  <1>1. /\ UNCHANGED <<first, floor, head, ended, cmds>>
        /\ ended /\ floor = head
        /\ eng' = [eng EXCEPT ![e].pc = "derive", ![e].list = l]
    BY Zenon DEF Delete, Asked, IInv
  <1> HIDE DEF l
  <1>2. HandOK(eng[e], floor, head, ended)
    BY DEF IInv
  <1>3. HandOK(g, floor, head, ended)
    <2>1. {"pc", "n", "floor", "over"} \subseteq Fields
      BY DEF Fields, Idle
    <2>2. /\ DOMAIN g = Fields /\ g.pc = "derive" /\ g.n = eng[e].n
          /\ g.floor = eng[e].floor
      BY <1>2, <2>1, Zenon DEF HandOK
    <2>3. "derive" \notin Continuing
      BY DEF Continuing
    <2> HIDE DEF g
    <2> QED
      BY <1>1, <1>2, <2>2, <2>3 DEF HandOK
  <1>4. eng' = [eng EXCEPT ![e] = g]
    BY <1>1 DEF IInv
  <1> HIDE DEF g
  <1>5. DOMAIN eng' = Engines /\ \A x \in Engines : HandOK(eng'[x], floor, head, ended)
    BY <1>3, <1>4, OneHand
  <1> QED
    BY <1>1, <1>5, Frame

LEMMA DeleteStepsOK ==
    ASSUME IInv, NEW e \in Engines,
           DeleteDerived(e) \/ DeleteObjects(e) \/ DeletePurge(e)
    PROVE  IInv'
  <1>0. "objects" \in Removing /\ "dpurge" \in Removing /\ "derive" \in Removing
    BY DEF Removing
  <1>1. CASE DeleteDerived(e)
    <2>1. /\ eng[e].pc \in Removing
          /\ Goto(e, "objects") \/ Done(e)
          /\ UNCHANGED <<first, floor, head, ended>>
      BY <1>0, <1>1 DEF DeleteDerived, Either, At
    <2> QED
      BY <1>0, <2>1, RemovalGoto, RemovalDone
  <1>2. CASE DeleteObjects(e)
    <2> DEFINE g == [eng[e] EXCEPT !.list = Tail(@)]
    <2>1. /\ eng[e].pc \in Removing /\ UNCHANGED <<first, floor, head, ended>>
          /\ Goto(e, "dpurge") \/ eng' = [eng EXCEPT ![e].list = Tail(@)]
      BY <1>0, <1>2, Zenon DEF DeleteObjects, At
    <2>2. CASE eng' = [eng EXCEPT ![e].list = Tail(@)]
      <3>1. HandOK(eng[e], floor, head, ended)
        BY DEF IInv
      <3>2. HandOK(g, floor, head, ended)
        <4>1. {"pc", "n", "floor", "over"} \subseteq Fields
          BY DEF Fields, Idle
        <4>2. /\ DOMAIN g = Fields /\ g.pc = eng[e].pc /\ g.n = eng[e].n
              /\ g.floor = eng[e].floor /\ g.over = eng[e].over
          BY <3>1, <4>1, Zenon DEF HandOK
        <4> HIDE DEF g
        <4> QED
          BY <3>1, <4>2 DEF HandOK
      <3>3. eng' = [eng EXCEPT ![e] = g]
        BY <2>2 DEF IInv
      <3> HIDE DEF g
      <3> QED
        BY <2>1, <3>2, <3>3, RemovalStep
    <2> QED
      BY <1>0, <2>1, <2>2, RemovalGoto
  <1>3. CASE DeletePurge(e)
    <2>1. /\ eng[e].pc \in Removing /\ Done(e)
          /\ UNCHANGED <<floor, head, ended>> /\ first' = head + 1
      BY <1>0, <1>3 DEF DeletePurge, At
    <2> QED
      BY <2>1, RemovalDone
  <1> QED
    BY <1>1, <1>2, <1>3

----------------------------------------------------------------------------
\* The dispatcher, time, crashes and readers.

LEMMA DispatchOK ==
    ASSUME IInv, Dispatch
    PROVE  IInv'
  <1>1. /\ floor < head /\ floor' = Max({floor + 1, first})
        /\ UNCHANGED <<first, head, ended, eng>>
        /\ (ended /\ floor' = head) \/ cmds' = cmds
    BY DEF Dispatch
  <1>2. LogOK(first, floor, head, ended)
    BY DEF IInv
  <1>3. floor' = floor + 1
    <2>1. first \in Nat /\ floor + 1 \in Nat /\ first <= floor + 1
      BY <1>2 DEF LogOK
    <2>2. Max({floor + 1, first}) = IF floor + 1 <= first THEN first ELSE floor + 1
      BY <2>1, MaxOfTwo
    <2> QED
      BY <1>1, <2>1, <2>2
  <1>4. LogOK(first, floor', head, ended)
    BY <1>1, <1>2, <1>3 DEF LogOK
  <1>5. floor # head /\ cmds = {}
    BY <1>1, <1>2 DEF IInv, LogOK
  <1>6. cmds' # {} => ended /\ floor' = head
    BY <1>1, <1>5
  <1>7. ASSUME NEW x \in Engines
        PROVE  HandOK(eng[x], floor', head, ended)
    <2>1. HandOK(eng[x], floor, head, ended)
      BY DEF IInv
    <2>2. floor \in Nat
      BY <1>2 DEF LogOK
    <2> QED
      BY <1>3, <1>5, <2>1, <2>2 DEF HandOK
  <1> QED
    BY <1>1, <1>4, <1>6, <1>7 DEF IInv

LEMMA StopOK ==
    ASSUME IInv, NEW e \in Engines, Stop(e)
    PROVE  IInv'
  <1>1. UNCHANGED <<first, floor, head, ended, cmds>> /\ Done(e)
    BY DEF Stop
  <1>2. cmds' # {} => ended /\ floor = head
    BY <1>1 DEF IInv
  <1> QED
    BY <1>1, <1>2, DoneOK, Frame

LEMMA UntouchedOK ==
    ASSUME IInv, UNCHANGED <<first, floor, head, ended, cmds, eng>>
    PROVE  IInv'
  BY DEF IInv

LEMMA ReadsTouchNothing ==
    ASSUME Reads
    PROVE  UNCHANGED <<first, floor, head, ended, cmds, eng>>
  BY DEF Reads, StartRead, ReadSnapshot, ReadLog, FirstSeq, ReadLive,
         ReadSegments, ReadArchive, system

LEMMA WorkOK ==
    ASSUME IInv, ~Manual, NEW e \in Engines, Work(e)
    PROVE  IInv'
  BY Zenon, SaveOK, ReadSegmentOK, PutSegmentOK, AppendContinuedOK, SaveContinuedOK,
     ReadFloorOK, PurgeOK, ArchiveOK, ArchiveStepsOK, ArchiveCleanOK, DeleteOK,
     DeleteStepsOK DEF Work

LEMMA IInvInit == Init => IInv
  <1> SUFFICES ASSUME Init PROVE IInv
    OBVIOUS
  <1>0. first = 1 /\ head = 1 /\ ended = FALSE /\ floor = 0
    BY DEF Init
  <1>1. LogOK(first, floor, head, ended) /\ cmds = {} /\ eng = [e \in Engines |-> Idle]
    <2>1. ended \in BOOLEAN
      BY <1>0, Zenon
    <2>2. /\ first \in Nat /\ floor \in Nat /\ head \in Nat
          /\ first <= floor + 1 /\ floor <= head
      BY <1>0
    <2> QED
      BY <2>1, <2>2, Zenon DEF Init, LogOK
  <1>2. floor \in Nat /\ head \in Nat
    BY <1>1 DEF LogOK
  <1>3. HandOK(Idle, floor, head, ended)
    BY <1>2, IdleOK, Zenon
  <1> QED
    BY <1>1, <1>3 DEF IInv

LEMMA IInvStep ==
    ASSUME ~Manual
    PROVE  IInv /\ [Next]_vars => IInv'
  <1> SUFFICES ASSUME IInv, [Next]_vars PROVE IInv'
    OBVIOUS
  <1>1. ASSUME NEW e \in Engines, Decide(e) \/ Work(e) \/ Stop(e)
        PROVE  IInv'
    BY <1>1, DecideOK, WorkOK, StopOK, Zenon
  <1>2. CASE Dispatch
    BY <1>2, DispatchOK
  <1>3. CASE WindowPasses
    BY <1>3, UntouchedOK DEF WindowPasses
  <1>4. CASE Reads
    BY <1>4, ReadsTouchNothing, UntouchedOK
  <1>5. CASE UNCHANGED vars
    BY <1>5, UntouchedOK DEF vars
  <1> QED
    BY <1>1, <1>2, <1>3, <1>4, <1>5 DEF Next

\* For any number of engines handling the execution's commands, any history
\* limit and snapshot interval and any faults: as long as archival and
\* deletion come from the retention commands the dispatcher schedules, no
\* purge of continueAsNew, Archive or Delete takes an event the dispatcher
\* has not processed.
THEOREM NoPurgeOutrunsDispatcher ==
    ASSUME ~Manual
    PROVE  Spec => []EffectsBeforePurge
  <1>1. IInv => EffectsBeforePurge
    BY DEF IInv, LogOK, EffectsBeforePurge
  <1> QED
    BY <1>1, IInvInit, IInvStep, PTL DEF Spec

----------------------------------------------------------------------------
\* What an engine may have in hand.
Pcs == {"idle", "save", "read", "put", "continue", "resave", "floor", "purge", "aread", "aput", "aexpire", "apurge",
        "aclean", "derive", "objects", "dpurge"}
Hand == [pc : Pcs,
         n : 0 .. (MaxEvents + 1), over : BOOLEAN, lo : 0 .. (MaxEvents + 2), hi : 0 .. (MaxEvents + 1),
         floor : 0 .. (MaxEvents + 1), list : Seq(Index)]
\* ... against the floor and the head.
HandFits(h, fl, hd) ==
  /\ h.n <= hd /\ h.floor <= fl
  /\ h.pc \in {"save", "read", "put", "continue"} => h.n \in 1 .. MaxEvents
  /\ h.pc \in {"put", "continue"} => h.lo \in 1 .. h.n
  /\ h.pc = "aput" => h.lo \in 1 .. (MaxEvents + 2) /\ h.hi \in Index

\* b is the last of the continuations cs among the first n events.
IsBaseOf(b, n, cs) ==
  /\ b = 0 \/ (b \in cs /\ b <= n)
  /\ \A c \in cs : c <= n => c <= b
BasesOK(hd) == \A n \in 0 .. hd : IsBaseOf(BaseOf(n), n, DOMAIN carried)

\* The strengthening of TypeOK that is inductive.
HeadOK ==
  /\ head \in Index /\ first \in 1 .. (head + 1) /\ floor \in 0 .. head
  /\ DOMAIN carried \subseteq 2 .. head
StoresOK ==
  /\ segs \in [Index -> 0 .. head] /\ arch \in Range2 \cup {<< >>} /\ snap \in 0 .. head
  /\ blobs \in BOOLEAN /\ index \in {"none", "live", "archived"}
RestOK ==
  /\ ended \in BOOLEAN /\ cmds \subseteq {"archive", "delete"} /\ old \in BOOLEAN
  /\ doom \in {"no", "erasing", "gone"} /\ faults \in 0 .. MaxFaults
EnginesOK == eng \in [Engines -> Hand] /\ \A e \in Engines : HandFits(eng[e], floor, head)
ListsOK == \A c \in DOMAIN carried : carried[c] \in Seq(Index)
Types == HeadOK /\ StoresOK /\ RestOK /\ EnginesOK /\ BasesOK(head) /\ ListsOK

\* What the steps of an engine leave in its hand.

Same(g, h) == /\ g.n = h.n /\ g.over = h.over /\ g.lo = h.lo /\ g.hi = h.hi
              /\ g.floor = h.floor /\ g.list = h.list
OthersKept(e) == eng' \in [Engines -> Hand] /\ \A x \in Engines : x # e => eng'[x] = eng[x]

LEMMA IdleHand ==
    /\ Idle \in Hand /\ Idle.pc = "idle" /\ Idle.n = 0 /\ Idle.over = FALSE
    /\ Idle.lo = 0 /\ Idle.hi = 0 /\ Idle.floor = 0 /\ Idle.list = << >>
  <1>1. 0 \in 0 .. (MaxEvents + 1) /\ 0 \in 0 .. (MaxEvents + 2)
    BY SMT, LifecycleAssumption
  <1>2. "idle" \in Pcs /\ FALSE \in BOOLEAN /\ << >> \in Seq(Index)
    BY DEF Pcs
  <1> QED
    BY Zenon, <1>1, <1>2 DEF Idle, Hand

LEMMA EngDomain == Types => DOMAIN eng = Engines
  BY Zenon DEF Types, EnginesOK

LEMMA NewHand ==
    ASSUME Types, NEW e \in Engines, NEW g \in Hand, eng' = [eng EXCEPT ![e] = g]
    PROVE  OthersKept(e) /\ eng'[e] = g
  BY Zenon DEF Types, EnginesOK, OthersKept

LEMMA DoneHand ==
    ASSUME Types, NEW e \in Engines, Done(e)
    PROVE  OthersKept(e) /\ eng'[e] = Idle
  BY Zenon, IdleHand, NewHand DEF Done

LEMMA PcHand ==
    ASSUME NEW h \in Hand, NEW pc \in Pcs
    PROVE  LET g == [h EXCEPT !.pc = pc] IN g \in Hand /\ g.pc = pc /\ Same(g, h)
  BY Zenon DEF Hand, Same

LEMMA GotoHand ==
    ASSUME Types, NEW e \in Engines, NEW pc \in Pcs, Goto(e, pc)
    PROVE  OthersKept(e) /\ eng'[e].pc = pc /\ Same(eng'[e], eng[e])
  <1> DEFINE g == [eng[e] EXCEPT !.pc = pc]
  <1>1. eng[e] \in Hand
    BY Zenon DEF Types, EnginesOK
  <1>2. g \in Hand /\ g.pc = pc /\ Same(g, eng[e])
    BY Zenon, <1>1, PcHand
  <1>3. eng' = [eng EXCEPT ![e] = g]
    BY Zenon DEF Goto
  <1> HIDE DEF g
  <1> QED
    BY Zenon, <1>2, <1>3, NewHand

LEMMA DecideHand ==
    ASSUME Types, NEW e \in Engines, Decide(e)
    PROVE  /\ OthersKept(e) /\ eng'[e].floor = 0
           /\ \/ eng'[e] = Idle
              \/ /\ eng'[e].n = head + 1 /\ eng'[e].over = ended'
                 /\ eng'[e].pc \in {"save", "read"} /\ (eng'[e].pc = "read" => ~ended')
  <1> DEFINE pc == Housekeeping(head + 1, ended')
             g == [Idle EXCEPT !.n = head + 1, !.over = ended', !.pc = pc]
  <1>1. eng' = [eng EXCEPT ![e] = IF pc = "idle" THEN Idle ELSE g]
    BY Zenon DEF Decide
  <1>2. pc \in {"save", "idle"} \/ (pc = "read" /\ ~ended')
    BY DEF Housekeeping
  <1>3. head + 1 \in 0 .. (MaxEvents + 1) /\ ended' \in BOOLEAN
    BY LifecycleAssumption DEF Types, HeadOK, Decide, Index
  <1> HIDE DEF pc
  <1>4. pc \in Pcs
    BY <1>2 DEF Pcs
  <1>5. g \in Hand /\ g.n = head + 1 /\ g.over = ended' /\ g.pc = pc /\ g.floor = 0
    BY Zenon, <1>3, <1>4, IdleHand DEF Hand
  <1> HIDE DEF g
  <1>6. CASE pc = "idle"
    <2>1. eng' = [eng EXCEPT ![e] = Idle]
      BY Zenon, <1>1, <1>6
    <2> QED
      BY Zenon, <2>1, IdleHand, NewHand
  <1>7. CASE pc # "idle"
    <2>1. eng' = [eng EXCEPT ![e] = g]
      BY Zenon, <1>1, <1>7
    <2>2. OthersKept(e) /\ eng'[e] = g
      BY Zenon, <1>5, <2>1, NewHand
    <2> QED
      BY Zenon, <1>2, <1>5, <1>7, <2>2
  <1> QED
    BY <1>6, <1>7

LEMMA ReadSegmentHand ==
    ASSUME Types, NEW e \in Engines, ReadSegment(e)
    PROVE  /\ OthersKept(e)
           /\ LET lo == Max({first, BaseOf(eng[e].n)})
              IN  \/ eng'[e] = Idle
                  \/ /\ lo <= eng[e].n /\ eng'[e].pc = "put" /\ eng'[e].lo = lo /\ eng'[e].n = eng[e].n
                     /\ eng'[e].floor = eng[e].floor /\ lo >= first /\ lo >= BaseOf(eng[e].n)
                     /\ lo \in {first, BaseOf(eng[e].n)}
  <1> DEFINE lo == Max({first, BaseOf(eng[e].n)})
             g == [[eng[e] EXCEPT !.lo = lo] EXCEPT !.pc = "put"]
  <1>1. eng[e] \in Hand /\ HandFits(eng[e], floor, head)
    BY Zenon DEF Types, EnginesOK
  <1>2. eng[e].n \in 0 .. head /\ eng[e].n <= MaxEvents + 1 /\ head \in Nat
    <2>1. eng[e].n \in 0 .. (MaxEvents + 1)
      BY Zenon, <1>1 DEF Hand
    <2> QED
      BY SMT, <1>1, <2>1, LifecycleAssumption DEF HandFits, Types, HeadOK, Index
  <1>3. first \in Nat /\ BaseOf(eng[e].n) \in Nat
    <2>1. IsBaseOf(BaseOf(eng[e].n), eng[e].n, DOMAIN carried)
      BY Zenon, <1>2 DEF Types, BasesOK
    <2>2. DOMAIN carried \subseteq Nat /\ first \in Nat
      BY SMT, <1>2 DEF Types, HeadOK
    <2> QED
      BY SMT, <2>1, <2>2 DEF IsBaseOf
  <1>4. lo \in Nat /\ lo >= first /\ lo >= BaseOf(eng[e].n) /\ lo \in {first, BaseOf(eng[e].n)}
    <2>1. lo \in Nat /\ lo = IF first <= BaseOf(eng[e].n) THEN BaseOf(eng[e].n) ELSE first
      BY Zenon, <1>3, MaxOfTwo
    <2> HIDE DEF lo
    <2> QED
      BY SMT, <1>3, <2>1
  <1>5. \/ lo > eng[e].n /\ Done(e)
        \/ ~(lo > eng[e].n) /\ eng' = [eng EXCEPT ![e].lo = lo, ![e].pc = "put"]
    BY Zenon DEF ReadSegment
  <1> HIDE DEF lo
  <1>6. CASE lo > eng[e].n /\ Done(e)
    BY Zenon, <1>6, DoneHand DEF lo
  <1>7. CASE ~(lo > eng[e].n) /\ eng' = [eng EXCEPT ![e].lo = lo, ![e].pc = "put"]
    <2>1. lo <= eng[e].n /\ lo \in 0 .. (MaxEvents + 2)
      BY SMT, <1>2, <1>4, <1>7, LifecycleAssumption
    <2>2. "put" \in Pcs
      BY DEF Pcs
    <2>3. g \in Hand /\ g.lo = lo /\ g.pc = "put" /\ g.n = eng[e].n /\ g.floor = eng[e].floor
      BY Zenon, <1>1, <2>1, <2>2 DEF Hand
    <2>4. eng' = [eng EXCEPT ![e] = g]
      BY <1>7, EngDomain
    <2> HIDE DEF g
    <2> QED
      BY Zenon, <1>4, <2>1, <2>3, <2>4, NewHand DEF lo
  <1> QED
    BY Zenon, <1>5, <1>6, <1>7

LEMMA AppendContinuedHand ==
    ASSUME Types, NEW e \in Engines, AppendContinued(e), head = eng[e].n, head < MaxEvents + 1
    PROVE  /\ OthersKept(e) /\ eng'[e].n = head + 1 /\ eng'[e].pc = "resave" /\ eng'[e].floor = eng[e].floor
           /\ head' = head + 1
           /\ carried' = [c \in DOMAIN carried \cup {head + 1} |->
                            IF c \in DOMAIN carried THEN carried[c] ELSE Append(SegmentsOf(head), eng[e].lo)]
  <1> DEFINE g == [[eng[e] EXCEPT !.n = head + 1] EXCEPT !.pc = "resave"]
  <1>1. eng[e] \in Hand
    BY Zenon DEF Types, EnginesOK
  <1>2. head + 1 \in 0 .. (MaxEvents + 1)
    BY SMT, LifecycleAssumption DEF Types, HeadOK, Index
  <1>3. "resave" \in Pcs
    BY DEF Pcs
  <1>4. g \in Hand /\ g.n = head + 1 /\ g.pc = "resave" /\ g.floor = eng[e].floor
    BY Zenon, <1>1, <1>2, <1>3 DEF Hand
  <1>5. /\ head' = head + 1
        /\ eng' = [eng EXCEPT ![e].n = head + 1, ![e].pc = "resave"]
        /\ carried' = [c \in DOMAIN carried \cup {head + 1} |->
                         IF c \in DOMAIN carried THEN carried[c] ELSE Append(SegmentsOf(head), eng[e].lo)]
    BY Zenon DEF AppendContinued
  <1>6. eng' = [eng EXCEPT ![e] = g]
    BY <1>5, EngDomain
  <1> HIDE DEF g
  <1> QED
    BY Zenon, <1>4, <1>5, <1>6, NewHand

LEMMA ReadFloorHand ==
    ASSUME Types, NEW e \in Engines, ReadFloor(e)
    PROVE  /\ OthersKept(e)
           /\ \/ eng'[e] = Idle
              \/ eng'[e].pc = "purge" /\ eng'[e].n = eng[e].n /\ eng'[e].floor = floor
  <1> DEFINE g == [[eng[e] EXCEPT !.floor = floor] EXCEPT !.pc = "purge"]
  <1>1. eng[e] \in Hand
    BY Zenon DEF Types, EnginesOK
  <1>2. floor \in 0 .. (MaxEvents + 1)
    BY SMT, LifecycleAssumption DEF Types, HeadOK, Index
  <1>3. "purge" \in Pcs
    BY DEF Pcs
  <1>4. g \in Hand /\ g.n = eng[e].n /\ g.pc = "purge" /\ g.floor = floor
    BY Zenon, <1>1, <1>2, <1>3 DEF Hand
  <1>5. Done(e) \/ eng' = [eng EXCEPT ![e].floor = floor, ![e].pc = "purge"]
    BY Zenon DEF ReadFloor
  <1>6. CASE Done(e)
    BY Zenon, <1>6, DoneHand
  <1>7. CASE eng' = [eng EXCEPT ![e].floor = floor, ![e].pc = "purge"]
    <2>1. eng' = [eng EXCEPT ![e] = g]
      BY <1>7, EngDomain
    <2> HIDE DEF g
    <2> QED
      BY Zenon, <1>4, <2>1, NewHand
  <1> QED
    BY Zenon, <1>5, <1>6, <1>7

LEMMA ArchiveReadHand ==
    ASSUME Types, NEW e \in Engines, ArchiveRead(e)
    PROVE  /\ OthersKept(e) /\ eng'[e].pc = "aput" /\ eng'[e].lo = first /\ eng'[e].hi = head
           /\ eng'[e].n = eng[e].n /\ eng'[e].floor = eng[e].floor
  <1> DEFINE g == [[[eng[e] EXCEPT !.lo = first] EXCEPT !.hi = head] EXCEPT !.pc = "aput"]
  <1>1. eng[e] \in Hand
    BY Zenon DEF Types, EnginesOK
  <1>2. head \in 0 .. (MaxEvents + 1) /\ first \in 0 .. (MaxEvents + 2)
    BY SMT, LifecycleAssumption DEF Types, HeadOK, Index
  <1>3. "aput" \in Pcs
    BY DEF Pcs
  <1>4. g \in Hand /\ g.n = eng[e].n /\ g.pc = "aput" /\ g.floor = eng[e].floor /\ g.lo = first /\ g.hi = head
    BY Zenon, <1>1, <1>2, <1>3 DEF Hand
  <1>5. eng' = [eng EXCEPT ![e].lo = first, ![e].hi = head, ![e].pc = "aput"]
    BY Zenon DEF ArchiveRead
  <1>6. eng' = [eng EXCEPT ![e] = g]
    BY <1>5, EngDomain
  <1> HIDE DEF g
  <1> QED
    BY Zenon, <1>4, <1>6, NewHand

LEMMA SegmentsType ==
    ASSUME Types
    PROVE  /\ SegmentsOf(head) \in Seq(Index)
           /\ BaseOf(head) = 0 => SegmentsOf(head) = << >>
           /\ BaseOf(head) # 0 => BaseOf(head) \in DOMAIN carried /\ SegmentsOf(head) = carried[BaseOf(head)]
           /\ \A c \in DOMAIN carried : c <= BaseOf(head)
           /\ BaseOf(head) \in 0 .. head
  <1>1. head \in 0 .. head /\ head \in Nat
    BY SMT DEF Types, HeadOK, Index
  <1>2. IsBaseOf(BaseOf(head), head, DOMAIN carried)
    BY Zenon, <1>1 DEF Types, BasesOK
  <1>3. BaseOf(head) # 0 => BaseOf(head) \in DOMAIN carried /\ SegmentsOf(head) = carried[BaseOf(head)]
    BY Zenon, <1>2 DEF IsBaseOf, SegmentsOf
  <1>4. BaseOf(head) = 0 => SegmentsOf(head) = << >>
    BY Zenon DEF SegmentsOf
  <1>5. << >> \in Seq(Index)
    OBVIOUS
  <1>6. \A c \in DOMAIN carried : c <= head
    BY SMT, <1>1 DEF Types, HeadOK
  <1>7. BaseOf(head) \in 0 .. head
    BY SMT, <1>1, <1>2, <1>6 DEF IsBaseOf, Types, HeadOK
  <1> QED
    BY Zenon, <1>2, <1>3, <1>4, <1>5, <1>6, <1>7 DEF Types, ListsOK, IsBaseOf

LEMMA DeleteHand ==
    ASSUME Types, NEW e \in Engines, Delete(e)
    PROVE  /\ OthersKept(e) /\ eng'[e].pc = "derive" /\ eng'[e].n = eng[e].n /\ eng'[e].floor = eng[e].floor
           /\ eng'[e].list = IF Live \/ arch # << >> THEN SegmentsOf(head) ELSE << >>
  <1> DEFINE l == IF Live \/ arch # << >> THEN SegmentsOf(head) ELSE << >>
             g == [[eng[e] EXCEPT !.pc = "derive"] EXCEPT !.list = l]
  <1>1. eng[e] \in Hand
    BY Zenon DEF Types, EnginesOK
  <1>2. l \in Seq(Index)
    <2>1. << >> \in Seq(Index)
      OBVIOUS
    <2> QED
      BY Zenon, <2>1, SegmentsType
  <1>3. eng' = [eng EXCEPT ![e].pc = "derive", ![e].list = l]
    BY Zenon DEF Delete
  <1> HIDE DEF l
  <1>4. "derive" \in Pcs
    BY DEF Pcs
  <1>5. g \in Hand /\ g.n = eng[e].n /\ g.pc = "derive" /\ g.floor = eng[e].floor /\ g.list = l
    BY Zenon, <1>1, <1>2, <1>4 DEF Hand
  <1>6. eng' = [eng EXCEPT ![e] = g]
    BY <1>3, EngDomain
  <1> HIDE DEF g
  <1> QED
    BY Zenon, <1>5, <1>6, NewHand DEF l

LEMMA DeleteObjectsHand ==
    ASSUME Types, NEW e \in Engines, DeleteObjects(e)
    PROVE  /\ OthersKept(e) /\ eng'[e].n = eng[e].n /\ eng'[e].floor = eng[e].floor
           /\ \/ /\ eng[e].list # << >> /\ eng'[e].pc = "objects" /\ eng'[e].list = Tail(eng[e].list)
                 /\ Head(eng[e].list) \in Index /\ segs' = [segs EXCEPT ![Head(eng[e].list)] = 0] /\ arch' = arch
              \/ eng[e].list = << >> /\ eng'[e].pc = "dpurge" /\ segs' = segs /\ arch' = << >>
  <1> DEFINE g == [eng[e] EXCEPT !.list = Tail(eng[e].list)]
  <1>1. eng[e] \in Hand
    BY Zenon DEF Types, EnginesOK
  <1>2. eng[e].list \in Seq(Index)
    BY Zenon, <1>1 DEF Hand
  <1>3. CASE eng[e].list # << >>
    <2>1. Tail(eng[e].list) \in Seq(Index) /\ Head(eng[e].list) \in Index
      BY SMT, <1>2, <1>3
    <2>2. g \in Hand /\ g.pc = eng[e].pc /\ g.n = eng[e].n /\ g.floor = eng[e].floor /\ g.list = Tail(eng[e].list)
      BY Zenon, <1>1, <2>1 DEF Hand
    <2>3. /\ eng' = [eng EXCEPT ![e].list = Tail(@)] /\ eng[e].pc = "objects"
          /\ segs' = [segs EXCEPT ![Head(eng[e].list)] = 0] /\ arch' = arch
      BY Zenon, <1>3 DEF DeleteObjects, At
    <2>4. eng' = [eng EXCEPT ![e] = g]
      BY <2>3, EngDomain
    <2> HIDE DEF g
    <2> QED
      BY Zenon, <1>3, <2>1, <2>2, <2>3, <2>4, NewHand
  <1>4. CASE eng[e].list = << >>
    <2>1. Goto(e, "dpurge") /\ segs' = segs /\ arch' = << >>
      BY Zenon, <1>4 DEF DeleteObjects
    <2>2. "dpurge" \in Pcs
      BY DEF Pcs
    <2> QED
      BY Zenon, <1>4, <2>1, <2>2, GotoHand DEF Same
  <1> QED
    BY <1>3, <1>4

\* Types: of the log, of the stores and of the hands.

LEMMA TypeFacts ==
    ASSUME Types
    PROVE  /\ head \in Nat /\ head >= 1 /\ head <= MaxEvents + 1 /\ first \in Nat /\ first >= 1 /\ first <= head + 1
           /\ floor \in Nat /\ floor <= head /\ MaxEvents \in Nat /\ DOMAIN carried \subseteq 2 .. head
  BY SMT, LifecycleAssumption DEF Types, HeadOK, Index

LEMMA HandFacts ==
    ASSUME Types, NEW e \in Engines
    PROVE  /\ eng[e] \in Hand /\ HandFits(eng[e], floor, head)
           /\ eng[e].n \in Nat /\ eng[e].floor \in Nat /\ eng[e].lo \in Nat /\ eng[e].hi \in Nat
           /\ eng[e].list \in Seq(Index) /\ eng[e].over \in BOOLEAN /\ eng[e].pc \in Pcs
  <1>1. eng[e] \in Hand /\ HandFits(eng[e], floor, head)
    BY Zenon DEF Types, EnginesOK
  <1>2. /\ eng[e].n \in 0 .. (MaxEvents + 1) /\ eng[e].floor \in 0 .. (MaxEvents + 1)
        /\ eng[e].lo \in 0 .. (MaxEvents + 2) /\ eng[e].hi \in 0 .. (MaxEvents + 1)
        /\ eng[e].list \in Seq(Index) /\ eng[e].over \in BOOLEAN /\ eng[e].pc \in Pcs
    BY Zenon, <1>1 DEF Hand
  <1>3. eng[e].n \in Nat /\ eng[e].floor \in Nat /\ eng[e].lo \in Nat /\ eng[e].hi \in Nat
    BY SMT, <1>2, LifecycleAssumption
  <1> QED
    BY Zenon, <1>1, <1>2, <1>3

LEMMA EnginesKept ==
    ASSUME Types, NEW e \in Engines, OthersKept(e), HandFits(eng'[e], floor', head'),
           floor' \in Nat, floor <= floor', head' \in Nat, head <= head'
    PROVE  EnginesOK'
  <1>1. ASSUME NEW x \in Engines, x # e PROVE HandFits(eng'[x], floor', head')
    <2>1. eng'[x] = eng[x] /\ HandFits(eng[x], floor, head) /\ eng[x].n \in Nat /\ eng[x].floor \in Nat
      BY Zenon, <1>1, HandFacts DEF OthersKept
    <2>2. eng[x].n <= head' /\ eng[x].floor <= floor'
      BY SMT, <2>1, TypeFacts DEF HandFits
    <2> QED
      BY Zenon, <2>1, <2>2 DEF HandFits
  <1> QED
    BY Zenon, <1>1 DEF EnginesOK, OthersKept

LEMMA IdleFits ==
    ASSUME NEW fl \in Nat, NEW hd \in Nat
    PROVE  HandFits(Idle, fl, hd)
  <1>1. 0 <= fl /\ 0 <= hd
    BY SMT
  <1>2. \A pc \in {"save", "read", "put", "continue", "aput"} : pc # "idle"
    BY SMT
  <1> QED
    BY <1>1, <1>2, IdleHand DEF HandFits

LEMMA DoneTypes ==
    ASSUME Types, NEW e \in Engines, Done(e), UNCHANGED <<floor, head>>
    PROVE  EnginesOK'
  <1>1. floor' \in Nat /\ floor <= floor' /\ head' \in Nat /\ head <= head'
    BY SMT, TypeFacts
  <1> QED
    BY Zenon, <1>1, DoneHand, IdleFits, EnginesKept

LEMMA GotoTypes ==
    ASSUME Types, NEW e \in Engines, NEW pc \in Pcs, Goto(e, pc), UNCHANGED <<floor, head>>,
           pc \notin {"save", "put", "aput"},
           pc \in {"read", "continue"} => eng[e].n \in 1 .. MaxEvents,
           pc = "continue" => eng[e].lo \in 1 .. eng[e].n
    PROVE  EnginesOK'
  <1>1. floor' \in Nat /\ floor <= floor' /\ head' \in Nat /\ head <= head'
    BY SMT, TypeFacts
  <1>2. OthersKept(e) /\ eng'[e].pc = pc /\ Same(eng'[e], eng[e])
    BY Zenon, GotoHand
  <1>3. HandFits(eng'[e], floor', head')
    <2>1. HandFits(eng[e], floor, head)
      BY Zenon, HandFacts
    <2>2. eng'[e].n = eng[e].n /\ eng'[e].lo = eng[e].lo /\ eng'[e].floor = eng[e].floor
      BY Zenon, <1>2 DEF Same
    <2> QED
      BY Zenon, <1>2, <2>1, <2>2 DEF HandFits
  <1> QED
    BY Zenon, <1>1, <1>2, <1>3, EnginesKept

LEMMA BasesKept ==
    ASSUME Types, carried' = carried, head' \in {head, head + 1}
    PROVE  /\ BasesOK(head)' /\ ListsOK' /\ \A n : BaseOf(n)' = BaseOf(n)
           /\ BaseOf(head)' = BaseOf(head)
  <1>1. \A n : BaseOf(n)' = BaseOf(n)
    BY Zenon DEF BaseOf
  <1>2. BaseOf(head + 1) = BaseOf(head)
    <2>1. {c \in DOMAIN carried : c <= head + 1} = {c \in DOMAIN carried : c <= head}
      BY SMT, TypeFacts
    <2> QED
      BY Zenon, <2>1 DEF BaseOf
  <1>3. ASSUME NEW n \in 0 .. head' PROVE IsBaseOf(BaseOf(n), n, DOMAIN carried)
    <2>1. CASE n \in 0 .. head
      BY Zenon, <2>1 DEF Types, BasesOK
    <2>2. CASE n = head + 1
      <3>1. head \in 0 .. head
        BY SMT, TypeFacts
      <3>2. IsBaseOf(BaseOf(head), head, DOMAIN carried)
        BY Zenon, <3>1 DEF Types, BasesOK
      <3>3. \A c \in DOMAIN carried : c <= head /\ c <= head + 1
        BY SMT, TypeFacts
      <3> QED
        BY Zenon, <1>2, <2>2, <3>2, <3>3 DEF IsBaseOf
    <2> QED
      BY SMT, <2>1, <2>2, TypeFacts
  <1>4. BasesOK(head)'
    BY Zenon, <1>1, <1>3 DEF BasesOK
  <1>5. BaseOf(head)' = BaseOf(head)
    <2>1. BaseOf(head)' = BaseOf(head')
      BY Zenon DEF BaseOf
    <2> QED
      BY Zenon, <1>2, <2>1
  <1> QED
    BY Zenon, <1>1, <1>4, <1>5 DEF Types, ListsOK

LEMMA TypesFrame ==
    ASSUME Types, UNCHANGED <<head, carried>>, first' \in 1 .. (head + 1), floor' \in 0 .. head,
           StoresOK', RestOK', EnginesOK'
    PROVE  Types'
  <1>1. BasesOK(head)' /\ ListsOK'
    BY Zenon, BasesKept
  <1> QED
    BY Zenon, <1>1 DEF Types, HeadOK

\* A step that changes no more of the log and the stores than the snapshot,
\* and counts a fault or not.
LEMMA SnapTypes ==
    ASSUME Types, NEW e \in Engines, snap' \in {snap, eng[e].n}, faults' = faults \/ Fault, EnginesOK',
           UNCHANGED <<first, head, carried, ended, floor, segs, arch, blobs, index, cmds, old, doom>>
    PROVE  Types'
  <1>1. first' \in 1 .. (head + 1) /\ floor' \in 0 .. head
    BY Zenon DEF Types, HeadOK
  <1>2. eng[e].n \in 0 .. head
    BY SMT, HandFacts, TypeFacts DEF HandFits
  <1>3. snap' \in 0 .. head
    BY Zenon, <1>2 DEF Types, StoresOK
  <1>4. StoresOK'
    BY Zenon, <1>3 DEF Types, StoresOK
  <1>5. faults' \in 0 .. MaxFaults
    BY SMT, LifecycleAssumption DEF Fault, Types, RestOK
  <1>6. RestOK'
    BY Zenon, <1>5 DEF Types, RestOK
  <1> QED
    BY Zenon, <1>1, <1>4, <1>6, TypesFrame

LEMMA DecideTypes ==
    ASSUME Types, NEW e \in Engines, Decide(e)
    PROVE  Types'
  <1>1. /\ head < MaxEvents /\ head' = head + 1 /\ blobs' = TRUE /\ ended' \in BOOLEAN
        /\ UNCHANGED <<first, carried, floor, segs, arch, snap, index, cmds, old, doom, faults>>
    BY Zenon DEF Decide
  <1>2. BasesOK(head)' /\ ListsOK'
    BY Zenon, <1>1, BasesKept
  <1>3. HeadOK'
    BY SMT, <1>1, TypeFacts DEF HeadOK, Index
  <1>4. StoresOK'
    <2>1. snap' \in 0 .. head' /\ 0 .. head \subseteq 0 .. head'
      BY SMT, <1>1, TypeFacts DEF Types, StoresOK
    <2>2. segs' \in [Index -> 0 .. head']
      BY Zenon, <1>1, <2>1 DEF Types, StoresOK
    <2> QED
      BY Zenon, <1>1, <2>1, <2>2 DEF Types, StoresOK
  <1>5. RestOK'
    BY Zenon, <1>1 DEF Types, RestOK
  <1>6. floor' \in Nat /\ floor <= floor' /\ head' \in Nat /\ head <= head'
    BY SMT, <1>1, TypeFacts
  <1>7. OthersKept(e) /\ HandFits(eng'[e], floor', head')
    <2>1. CASE eng'[e] = Idle
      BY Zenon, <1>6, <2>1, DecideHand, IdleFits
    <2>2. CASE eng'[e].n = head + 1 /\ eng'[e].pc \in {"save", "read"} /\ eng'[e].floor = 0
      <3>1. head + 1 <= head' /\ 0 <= floor' /\ head + 1 \in 1 .. MaxEvents
        BY SMT, <1>1, <1>6, TypeFacts
      <3>2. eng'[e].pc \notin {"put", "continue", "aput"}
        BY SMT, <2>2
      <3> QED
        BY Zenon, <2>2, <3>1, <3>2, DecideHand DEF HandFits
    <2> QED
      BY Zenon, <2>1, <2>2, DecideHand
  <1>8. EnginesOK'
    BY Zenon, <1>6, <1>7, EnginesKept
  <1> QED
    BY Zenon, <1>2, <1>3, <1>4, <1>5, <1>8 DEF Types

LEMMA SaveTypes ==
    ASSUME Types, NEW e \in Engines, Save(e) \/ SaveContinued(e)
    PROVE  Types'
  <1>1. /\ snap' \in {snap, eng[e].n} /\ (faults' = faults \/ Fault)
        /\ UNCHANGED <<first, head, carried, ended, floor, segs, arch, blobs, index, cmds, old, doom>>
    BY Zenon DEF Save, SaveContinued, Either
  <1>2. "read" \in Pcs /\ "floor" \in Pcs /\ "floor" \notin {"save", "put", "aput", "read", "continue"}
    BY SMT DEF Pcs
  <1>3. CASE Done(e)
    BY Zenon, <1>1, <1>3, DoneTypes, SnapTypes
  <1>4. CASE SaveContinued(e)
    <2>1. Goto(e, "floor")
      BY Zenon, <1>4 DEF SaveContinued
    <2>2. EnginesOK'
      BY Zenon, <1>1, <1>2, <2>1, GotoTypes
    <2> QED
      BY Zenon, <1>1, <2>2, SnapTypes
  <1>5. CASE Save(e) /\ Goto(e, "read")
    <2>1. eng[e].n \in 1 .. MaxEvents
      BY Zenon, <1>5, HandFacts DEF Save, At, HandFits
    <2>2. "read" \notin {"save", "put", "aput"} /\ "read" # "continue"
      BY SMT
    <2>3. EnginesOK'
      BY Zenon, <1>1, <1>2, <1>5, <2>1, <2>2, GotoTypes
    <2> QED
      BY Zenon, <1>1, <2>3, SnapTypes
  <1> QED
    BY Zenon, <1>3, <1>4, <1>5 DEF Save

\* A step that only changes what an engine has in hand.
LEMMA HandTypes ==
    ASSUME Types, EnginesOK', UNCHANGED <<first, head, carried, ended, floor, stores, old, doom>>,
           faults' \in 0 .. MaxFaults, cmds' \subseteq {"archive", "delete"}
    PROVE  Types'
  <1>1. first' \in 1 .. (head + 1) /\ floor' \in 0 .. head
    BY Zenon DEF Types, HeadOK
  <1>2. StoresOK' /\ RestOK'
    BY Zenon DEF Types, StoresOK, RestOK, stores
  <1> QED
    BY Zenon, <1>1, <1>2, TypesFrame

LEMMA ReadSegmentTypes ==
    ASSUME Types, NEW e \in Engines, ReadSegment(e)
    PROVE  Types'
  <1>1. UNCHANGED <<first, head, carried, ended, floor, stores, old, doom, cmds, faults>> /\ eng[e].pc = "read"
    BY Zenon DEF ReadSegment, At
  <1>2. floor' \in Nat /\ floor <= floor' /\ head' \in Nat /\ head <= head'
    BY SMT, <1>1, TypeFacts
  <1>3. HandFits(eng[e], floor, head)
    BY Zenon, HandFacts
  <1>4. OthersKept(e) /\ HandFits(eng'[e], floor', head')
    <2>1. CASE eng'[e] = Idle
      BY Zenon, <1>2, <2>1, ReadSegmentHand, IdleFits
    <2>2. CASE eng'[e] # Idle
      <3>1. PICK lo : /\ lo <= eng[e].n /\ eng'[e].pc = "put" /\ eng'[e].lo = lo /\ eng'[e].n = eng[e].n
                      /\ eng'[e].floor = eng[e].floor /\ lo >= first /\ OthersKept(e)
                      /\ lo \in {first, BaseOf(eng[e].n)}
        BY Zenon, <2>2, ReadSegmentHand
      <3>2. eng[e].n \in 1 .. MaxEvents
        BY Zenon, <1>1, <1>3 DEF HandFits
      <3>3. eng'[e] \in Hand
        BY Zenon, <3>1 DEF OthersKept
      <3>4. eng'[e].lo \in 0 .. (MaxEvents + 2)
        BY Zenon, <3>3 DEF Hand
      <3>5. lo \in 1 .. eng[e].n
        BY SMT, <3>1, <3>2, <3>4, TypeFacts
      <3>6. "put" # "aput"
        BY SMT
      <3> QED
        BY Zenon, <1>1, <1>3, <3>1, <3>2, <3>5, <3>6 DEF HandFits
    <2> QED
      BY Zenon, <2>1, <2>2
  <1>5. EnginesOK'
    BY Zenon, <1>2, <1>4, EnginesKept
  <1> QED
    BY Zenon, <1>1, <1>5, HandTypes DEF Types, RestOK

LEMMA PutSegmentTypes ==
    ASSUME Types, NEW e \in Engines, PutSegment(e)
    PROVE  Types'
  <1>1. /\ eng[e].pc = "put" /\ segs' = [segs EXCEPT ![eng[e].lo] = eng[e].n] /\ Goto(e, "continue")
        /\ UNCHANGED <<first, head, carried, ended, floor, arch, snap, blobs, index, cmds, old, doom, faults>>
    BY Zenon DEF PutSegment, At
  <1>2. eng[e].n \in 1 .. MaxEvents /\ eng[e].lo \in 1 .. eng[e].n
    BY Zenon, <1>1, HandFacts DEF HandFits
  <1>3. "continue" \in Pcs /\ "continue" \notin {"save", "put", "aput"}
    BY SMT DEF Pcs
  <1>4. EnginesOK'
    BY Zenon, <1>1, <1>2, <1>3, GotoTypes
  <1>5. eng[e].n \in 0 .. head
    BY SMT, HandFacts, TypeFacts DEF HandFits
  <1>6. segs' \in [Index -> 0 .. head]
    BY Zenon, <1>1, <1>5 DEF Types, StoresOK
  <1>7. StoresOK' /\ RestOK'
    BY Zenon, <1>1, <1>6 DEF Types, StoresOK, RestOK
  <1> QED
    BY Zenon, <1>1, <1>4, <1>7, TypesFrame DEF Types, HeadOK

\* A continuation is the base of the states that follow it.
LEMMA NewBase ==
    ASSUME Types, head' = head + 1, DOMAIN carried' = DOMAIN carried \cup {head + 1}
    PROVE  /\ \A n \in 0 .. head : BaseOf(n)' = BaseOf(n)
           /\ \A n : n = head + 1 => BaseOf(n)' = n
           /\ BaseOf(head)' = head + 1
           /\ BasesOK(head)'
  <1>1. ASSUME NEW n \in 0 .. head PROVE BaseOf(n)' = BaseOf(n)
    <2>1. {c \in DOMAIN carried' : c <= n} = {c \in DOMAIN carried : c <= n}
      BY SMT, TypeFacts
    <2> QED
      BY Zenon, <2>1 DEF BaseOf
  <1>2. ASSUME NEW n, n = head + 1 PROVE BaseOf(n)' = n
    <2> DEFINE S == {0} \cup {c \in DOMAIN carried' : c <= n}
    <2>1. n \in S /\ \A y \in S : y \in Nat /\ n >= y
      BY SMT, <1>2, TypeFacts
    <2>2. BaseOf(n)' = CHOOSE x \in S : \A y \in S : x >= y
      BY Zenon DEF BaseOf, Max
    <2> HIDE DEF S
    <2>3. \A x \in S : (\A y \in S : x >= y) => x = n
      BY SMT, <1>2, <2>1, TypeFacts
    <2> QED
      BY Zenon, <2>1, <2>2, <2>3
  <1>3. ASSUME NEW n \in 0 .. head' PROVE IsBaseOf(BaseOf(n), n, DOMAIN carried)'
    <2>1. CASE n \in 0 .. head
      <3>1. IsBaseOf(BaseOf(n), n, DOMAIN carried)
        BY Zenon, <2>1 DEF Types, BasesOK
      <3>2. ~(head + 1 <= n)
        BY SMT, <2>1, TypeFacts
      <3> QED
        BY Zenon, <1>1, <2>1, <3>1, <3>2 DEF IsBaseOf
    <2>2. CASE n = head + 1
      <3>1. head + 1 <= head + 1
        BY SMT, TypeFacts
      <3> QED
        BY Zenon, <1>2, <2>2, <3>1 DEF IsBaseOf
    <2> QED
      BY SMT, <2>1, <2>2, TypeFacts
  <1>4. BaseOf(head)' = head + 1
    BY Zenon, <1>2 DEF BaseOf
  <1> QED
    BY Zenon, <1>1, <1>2, <1>3, <1>4 DEF BasesOK

LEMMA AppendContinuedTypes ==
    ASSUME Types, NEW e \in Engines, AppendContinued(e)
    PROVE  Types'
  <1>1. eng[e].pc = "continue" /\ UNCHANGED <<first, ended, floor, stores, cmds, old, doom, faults>>
    BY Zenon DEF AppendContinued, At
  <1>2. eng[e].n \in 1 .. MaxEvents /\ eng[e].lo \in 1 .. eng[e].n
    BY Zenon, <1>1, HandFacts DEF HandFits
  <1>3. CASE head # eng[e].n
    <2>1. Done(e) /\ UNCHANGED <<head, carried>>
      BY Zenon, <1>3 DEF AppendContinued
    <2>2. EnginesOK'
      BY Zenon, <1>1, <2>1, DoneTypes
    <2> QED
      BY Zenon, <1>1, <2>1, <2>2, HandTypes DEF Types, RestOK
  <1>4. CASE head = eng[e].n
    <2>1. head < MaxEvents + 1
      BY SMT, <1>2, <1>4, TypeFacts
    <2>2. /\ OthersKept(e) /\ eng'[e].n = head + 1 /\ eng'[e].pc = "resave" /\ eng'[e].floor = eng[e].floor
          /\ head' = head + 1
          /\ carried' = [c \in DOMAIN carried \cup {head + 1} |->
                           IF c \in DOMAIN carried THEN carried[c] ELSE Append(SegmentsOf(head), eng[e].lo)]
      BY Zenon, <1>4, <2>1, AppendContinuedHand
    <2>3. DOMAIN carried' = DOMAIN carried \cup {head + 1}
      BY Zenon, <2>2
    <2>4. BasesOK(head)'
      BY Zenon, <2>2, <2>3, NewBase
    <2>5. ListsOK'
      <3>1. eng[e].lo \in Index
        BY SMT, <1>2, TypeFacts DEF Index
      <3>2. Append(SegmentsOf(head), eng[e].lo) \in Seq(Index)
        BY SMT, <3>1, SegmentsType
      <3> QED
        BY Zenon, <2>2, <2>3, <3>2 DEF Types, ListsOK
    <2>6. HeadOK'
      BY SMT, <1>1, <2>1, <2>2, <2>3, TypeFacts DEF HeadOK, Index
    <2>7. StoresOK'
      <3>1. snap' \in 0 .. head' /\ 0 .. head \subseteq 0 .. head'
        BY SMT, <1>1, <2>2, TypeFacts DEF Types, StoresOK, stores
      <3>2. segs' \in [Index -> 0 .. head']
        BY Zenon, <1>1, <3>1 DEF Types, StoresOK, stores
      <3> QED
        BY Zenon, <1>1, <3>1, <3>2 DEF Types, StoresOK, stores
    <2>8. RestOK'
      BY Zenon, <1>1 DEF Types, RestOK
    <2>9. EnginesOK'
      <3>1. floor' \in Nat /\ floor <= floor' /\ head' \in Nat /\ head <= head' /\ head + 1 <= head'
        BY SMT, <1>1, <2>2, TypeFacts
      <3>2. eng[e].floor <= floor
        BY Zenon, HandFacts DEF HandFits
      <3>3. "resave" \notin {"save", "read", "put", "continue", "aput"}
        BY SMT
      <3>4. HandFits(eng'[e], floor', head')
        BY Zenon, <1>1, <2>2, <3>1, <3>2, <3>3 DEF HandFits
      <3> QED
        BY Zenon, <2>2, <3>1, <3>4, EnginesKept
    <2> QED
      BY Zenon, <2>4, <2>5, <2>6, <2>7, <2>8, <2>9 DEF Types
  <1> QED
    BY Zenon, <1>3, <1>4

LEMMA ReadFloorTypes ==
    ASSUME Types, NEW e \in Engines, ReadFloor(e)
    PROVE  Types'
  <1>1. UNCHANGED <<first, head, carried, ended, floor, stores, old, doom, cmds, faults>>
    BY Zenon DEF ReadFloor
  <1>2. floor' \in Nat /\ floor <= floor' /\ head' \in Nat /\ head <= head'
    BY SMT, <1>1, TypeFacts
  <1>3. eng[e].n <= head
    BY Zenon, HandFacts DEF HandFits
  <1>4. "purge" \notin {"save", "read", "put", "continue", "aput"}
    BY SMT
  <1>5. OthersKept(e) /\ HandFits(eng'[e], floor', head')
    <2>1. CASE eng'[e] = Idle
      BY Zenon, <1>2, <2>1, ReadFloorHand, IdleFits
    <2>2. CASE eng'[e].pc = "purge" /\ eng'[e].n = eng[e].n /\ eng'[e].floor = floor
      BY Zenon, <1>1, <1>2, <1>3, <1>4, <2>2, ReadFloorHand DEF HandFits
    <2> QED
      BY Zenon, <2>1, <2>2, ReadFloorHand
  <1>6. EnginesOK'
    BY Zenon, <1>2, <1>5, EnginesKept
  <1> QED
    BY Zenon, <1>1, <1>6, HandTypes DEF Types, RestOK

\* The purge of a continuation leaves the newest event.
LEMMA PurgeBound ==
    ASSUME Types, NEW e \in Engines, Purge(e)
    PROVE  first' \in Nat /\ first <= first' /\ (first' = first \/ first' <= eng[e].n)
  <1> DEFINE m == Min({eng[e].n, eng[e].floor + 1})
  <1>1. first' = Max({first, m})
    BY Zenon DEF Purge
  <1>2. eng[e].n \in Nat /\ eng[e].floor + 1 \in Nat /\ first \in Nat
    BY SMT, HandFacts, TypeFacts
  <1>3. m \in Nat /\ m = IF eng[e].n <= eng[e].floor + 1 THEN eng[e].n ELSE eng[e].floor + 1
    BY Zenon, <1>2, MinOfTwo
  <1> HIDE DEF m
  <1>4. first' \in Nat /\ first' = IF first <= m THEN m ELSE first
    BY Zenon, <1>1, <1>2, <1>3, MaxOfTwo
  <1> QED
    BY SMT, <1>2, <1>3, <1>4

LEMMA PurgeTypes ==
    ASSUME Types, NEW e \in Engines, Purge(e)
    PROVE  Types'
  <1>1. Done(e) /\ UNCHANGED <<head, carried, ended, floor, stores, old, doom, cmds, faults>>
    BY Zenon DEF Purge
  <1>2. first' \in 1 .. (head + 1) /\ floor' \in 0 .. head
    BY SMT, <1>1, PurgeBound, HandFacts, TypeFacts DEF HandFits
  <1>3. StoresOK' /\ RestOK'
    BY Zenon, <1>1 DEF Types, StoresOK, RestOK, stores
  <1> QED
    BY Zenon, <1>1, <1>2, <1>3, DoneTypes, TypesFrame

LEMMA ArchiveTypes ==
    ASSUME Types, NEW e \in Engines, Archive(e) \/ ArchiveExpire(e)
    PROVE  Types'
  <1>1. /\ UNCHANGED <<first, head, carried, ended, floor, stores, old, doom, faults>>
        /\ cmds' \subseteq {"archive", "delete"}
    <2>1. cmds \subseteq {"archive", "delete"}
      BY Zenon DEF Types, RestOK
    <2> QED
      BY Zenon, <2>1 DEF Archive, ArchiveExpire
  <1>2. Goto(e, "aread") \/ Goto(e, "apurge") \/ eng' = eng
    BY Zenon DEF Archive, ArchiveExpire, ArchiveThen
  <1>3. "aread" \in Pcs /\ "apurge" \in Pcs /\ "aread" \notin {"save", "put", "aput", "read", "continue"}
        /\ "apurge" \notin {"save", "put", "aput", "read", "continue"}
    BY SMT DEF Pcs
  <1>4. EnginesOK'
    <2>1. CASE Goto(e, "aread")
      BY Zenon, <1>1, <1>3, <2>1, GotoTypes
    <2>2. CASE Goto(e, "apurge")
      BY Zenon, <1>1, <1>3, <2>2, GotoTypes
    <2>3. CASE eng' = eng
      BY Zenon, <1>1, <2>3 DEF Types, EnginesOK
    <2> QED
      BY Zenon, <1>2, <2>1, <2>2, <2>3
  <1> QED
    BY Zenon, <1>1, <1>4, HandTypes DEF Types, RestOK

LEMMA ArchiveReadTypes ==
    ASSUME Types, NEW e \in Engines, ArchiveRead(e)
    PROVE  Types'
  <1>1. UNCHANGED <<first, head, carried, ended, floor, stores, old, doom, cmds, faults>>
    BY Zenon DEF ArchiveRead
  <1>2. floor' \in Nat /\ floor <= floor' /\ head' \in Nat /\ head <= head'
    BY SMT, <1>1, TypeFacts
  <1>3. eng[e].n <= head /\ eng[e].floor <= floor
    BY Zenon, HandFacts DEF HandFits
  <1>4. "aput" \notin {"save", "read", "put", "continue"}
    BY SMT
  <1>5. first \in 1 .. (MaxEvents + 2) /\ head \in Index
    BY SMT, TypeFacts DEF Index
  <1>6. HandFits(eng'[e], floor', head')
    BY Zenon, <1>1, <1>3, <1>4, <1>5, ArchiveReadHand DEF HandFits
  <1>7. EnginesOK'
    BY Zenon, <1>2, <1>6, ArchiveReadHand, EnginesKept
  <1> QED
    BY Zenon, <1>1, <1>7, HandTypes DEF Types, RestOK

LEMMA ArchivePutTypes ==
    ASSUME Types, NEW e \in Engines, ArchivePut(e)
    PROVE  Types'
  <1>1. /\ eng[e].pc = "aput" /\ arch' = <<eng[e].lo, eng[e].hi>> /\ Goto(e, "aexpire")
        /\ UNCHANGED <<first, head, carried, ended, floor, segs, snap, blobs, index, cmds, old, doom, faults>>
    BY Zenon DEF ArchivePut, ArchiveThen, At
  <1>2. eng[e].lo \in 1 .. (MaxEvents + 2) /\ eng[e].hi \in Index
    BY Zenon, <1>1, HandFacts DEF HandFits
  <1>3. arch' \in Range2
    BY SMT, <1>1, <1>2 DEF Range2
  <1>4. "aexpire" \in Pcs /\ "aexpire" \notin {"save", "put", "aput", "read", "continue"}
    BY SMT DEF Pcs
  <1>5. EnginesOK'
    BY Zenon, <1>1, <1>4, GotoTypes
  <1>6. StoresOK' /\ RestOK'
    BY Zenon, <1>1, <1>3 DEF Types, StoresOK, RestOK
  <1> QED
    BY Zenon, <1>1, <1>5, <1>6, TypesFrame DEF Types, HeadOK

LEMMA PurgeAllTypes ==
    ASSUME Types, NEW e \in Engines, ArchivePurge(e) \/ DeletePurge(e)
    PROVE  Types'
  <1>1. /\ first' = head + 1 /\ (Goto(e, "aclean") \/ Done(e)) /\ cmds' \subseteq cmds /\ doom' \in {doom, "gone"}
        /\ UNCHANGED <<head, carried, ended, floor, stores, old, faults>>
    BY Zenon DEF ArchivePurge, DeletePurge, ArchiveThen
  <1>2. "aclean" \in Pcs /\ "aclean" \notin {"save", "put", "aput", "read", "continue"}
    BY SMT DEF Pcs
  <1>3. EnginesOK'
    BY Zenon, <1>1, <1>2, GotoTypes, DoneTypes
  <1>4. first' \in 1 .. (head + 1) /\ floor' \in 0 .. head
    BY SMT, <1>1, TypeFacts
  <1>5. StoresOK' /\ RestOK'
    BY Zenon, <1>1 DEF Types, StoresOK, RestOK, stores
  <1> QED
    BY Zenon, <1>1, <1>3, <1>4, <1>5, TypesFrame

\* What ArchiveClean and DeleteDerived do to what is derived from the log.
LEMMA DerivedTypes ==
    ASSUME Types, NEW left, DeleteSnapshot(left), DeleteBlobs(left), MarkArchived(left) \/ DeleteIndex(left),
           UNCHANGED <<head, segs, arch>>
    PROVE  StoresOK'
  <1>1. 0 \in 0 .. head
    BY SMT, TypeFacts
  <1>2. snap' \in 0 .. head
    BY Zenon, <1>1 DEF DeleteSnapshot, Types, StoresOK
  <1>3. blobs' \in BOOLEAN
    BY Zenon DEF DeleteBlobs
  <1>4. index' \in {"none", "live", "archived"}
    BY Zenon DEF MarkArchived, DeleteIndex, Types, StoresOK
  <1> QED
    BY Zenon, <1>2, <1>3, <1>4 DEF Types, StoresOK

LEMMA CleanTypes ==
    ASSUME Types, NEW e \in Engines, ArchiveClean(e) \/ DeleteDerived(e)
    PROVE  Types'
  <1>1. /\ Done(e) \/ Goto(e, "objects")
        /\ cmds' \subseteq cmds /\ (faults' = faults \/ Fault)
        /\ UNCHANGED <<first, head, carried, ended, floor, segs, arch, old, doom>>
    BY Zenon DEF ArchiveClean, DeleteDerived, Either
  <1>2. StoresOK'
    <2>1. PICK left : DeleteSnapshot(left) /\ DeleteBlobs(left) /\ (MarkArchived(left) \/ DeleteIndex(left))
      BY Zenon DEF ArchiveClean, DeleteDerived
    <2> QED
      BY Zenon, <1>1, <2>1, DerivedTypes
  <1>3. "objects" \in Pcs /\ "objects" \notin {"save", "put", "aput", "read", "continue"}
    BY SMT DEF Pcs
  <1>4. EnginesOK'
    BY Zenon, <1>1, <1>3, GotoTypes, DoneTypes
  <1>5. faults' \in 0 .. MaxFaults
    BY SMT, <1>1, LifecycleAssumption DEF Fault, Types, RestOK
  <1>6. RestOK'
    BY Zenon, <1>1, <1>5 DEF Types, RestOK
  <1> QED
    BY Zenon, <1>1, <1>2, <1>4, <1>6, TypesFrame DEF Types, HeadOK

LEMMA DeleteTypes ==
    ASSUME Types, NEW e \in Engines, Delete(e)
    PROVE  Types'
  <1>1. /\ UNCHANGED <<first, head, carried, ended, floor, stores, cmds, old, faults>>
        /\ doom' \in {doom, "erasing"}
    BY Zenon DEF Delete
  <1>2. floor' \in Nat /\ floor <= floor' /\ head' \in Nat /\ head <= head'
    BY SMT, <1>1, TypeFacts
  <1>3. eng[e].n <= head /\ eng[e].floor <= floor
    BY Zenon, HandFacts DEF HandFits
  <1>4. "derive" \notin {"save", "read", "put", "continue", "aput"}
    BY SMT
  <1>5. HandFits(eng'[e], floor', head')
    BY Zenon, <1>1, <1>3, <1>4, DeleteHand DEF HandFits
  <1>6. EnginesOK'
    BY Zenon, <1>2, <1>5, DeleteHand, EnginesKept
  <1>7. StoresOK' /\ RestOK'
    BY Zenon, <1>1 DEF Types, StoresOK, RestOK, stores
  <1> QED
    BY Zenon, <1>1, <1>6, <1>7, TypesFrame DEF Types, HeadOK

LEMMA DeleteObjectsTypes ==
    ASSUME Types, NEW e \in Engines, DeleteObjects(e)
    PROVE  Types'
  <1>1. UNCHANGED <<first, head, carried, ended, floor, snap, blobs, index, cmds, old, doom, faults>>
    BY Zenon DEF DeleteObjects
  <1>2. floor' \in Nat /\ floor <= floor' /\ head' \in Nat /\ head <= head' /\ 0 \in 0 .. head
    BY SMT, <1>1, TypeFacts
  <1>3. eng[e].n <= head /\ eng[e].floor <= floor
    BY Zenon, HandFacts DEF HandFits
  <1>4. /\ "objects" \notin {"save", "read", "put", "continue", "aput"}
        /\ "dpurge" \notin {"save", "read", "put", "continue", "aput"}
    BY SMT
  <1>5. HandFits(eng'[e], floor', head')
    BY Zenon, <1>1, <1>3, <1>4, DeleteObjectsHand DEF HandFits
  <1>6. EnginesOK'
    BY Zenon, <1>2, <1>5, DeleteObjectsHand, EnginesKept
  <1>7. StoresOK'
    <2>1. segs' \in [Index -> 0 .. head] /\ arch' \in {arch, << >>}
      BY Zenon, <1>2, DeleteObjectsHand DEF Types, StoresOK
    <2> QED
      BY Zenon, <1>1, <2>1 DEF Types, StoresOK
  <1>8. RestOK'
    BY Zenon, <1>1 DEF Types, RestOK
  <1> QED
    BY Zenon, <1>1, <1>6, <1>7, <1>8, TypesFrame DEF Types, HeadOK

LEMMA StopTypes ==
    ASSUME Types, NEW e \in Engines, Stop(e)
    PROVE  Types'
  <1>1. Fault /\ Done(e) /\ UNCHANGED <<first, head, carried, ended, floor, stores, cmds, old, doom>>
    BY Zenon DEF Stop
  <1>2. faults' \in 0 .. MaxFaults
    BY SMT, <1>1, LifecycleAssumption DEF Fault, Types, RestOK
  <1> QED
    BY Zenon, <1>1, <1>2, DoneTypes, HandTypes DEF Types, RestOK

LEMMA DispatchTypes ==
    ASSUME Types, Dispatch
    PROVE  Types' /\ floor < head /\ floor <= floor'
  <1>1. /\ Live /\ floor < head /\ floor' = Max({floor + 1, first}) /\ index' = "live"
        /\ UNCHANGED <<first, head, carried, ended, segs, arch, snap, blobs, old, doom, eng, faults>>
        /\ cmds' = cmds \/ \E c \in {"archive", "delete"} : cmds' = cmds \cup {c}
    BY Zenon DEF Dispatch
  <1>2. floor' \in Nat /\ floor' = IF floor + 1 <= first THEN first ELSE floor + 1
    <2>1. floor + 1 \in Nat /\ first \in Nat
      BY SMT, TypeFacts
    <2> QED
      BY Zenon, <1>1, <2>1, MaxOfTwo
  <1>3. floor' \in 0 .. head /\ floor <= floor' /\ first' \in 1 .. (head + 1)
    BY SMT, <1>1, <1>2, TypeFacts DEF Live
  <1>4. EnginesOK'
    <2>1. ASSUME NEW x \in Engines PROVE HandFits(eng'[x], floor', head')
      <3>1. HandFits(eng[x], floor, head) /\ eng[x].floor \in Nat
        BY Zenon, HandFacts
      <3>2. eng[x].floor <= floor'
        BY SMT, <1>2, <1>3, <3>1, TypeFacts DEF HandFits
      <3> QED
        BY Zenon, <1>1, <3>1, <3>2 DEF HandFits
    <2> QED
      BY Zenon, <1>1, <2>1 DEF Types, EnginesOK
  <1>5. StoresOK' /\ RestOK'
    BY Zenon, <1>1 DEF Types, StoresOK, RestOK
  <1> QED
    BY Zenon, <1>1, <1>3, <1>4, <1>5, TypesFrame

LEMMA QuietTypes ==
    ASSUME Types, UNCHANGED <<first, head, carried, ended, floor, stores, cmds, doom, eng, faults>>, old' \in BOOLEAN
    PROVE  Types'
  <1>1. EnginesOK'
    BY Zenon DEF Types, EnginesOK
  <1>2. StoresOK' /\ RestOK'
    BY Zenon DEF Types, StoresOK, RestOK, stores
  <1> QED
    BY Zenon, <1>1, <1>2, TypesFrame DEF Types, HeadOK

LEMMA ReadsKeep ==
    ASSUME Reads
    PROVE  UNCHANGED system
  BY Zenon DEF Reads, StartRead, ReadSnapshot, ReadLog, FirstSeq, ReadLive, ReadSegments, ReadArchive

LEMMA TypesStep == Types /\ [Next]_vars => Types'
  <1> SUFFICES ASSUME Types, [Next]_vars PROVE Types'
    BY Zenon
  <1>1. ASSUME NEW e \in Engines, Decide(e) \/ Work(e) \/ Stop(e) PROVE Types'
    BY Zenon, <1>1, DecideTypes, StopTypes, SaveTypes, ReadSegmentTypes, PutSegmentTypes, AppendContinuedTypes,
       ReadFloorTypes, PurgeTypes, ArchiveTypes, ArchiveReadTypes, ArchivePutTypes, PurgeAllTypes, CleanTypes,
       DeleteTypes, DeleteObjectsTypes DEF Work
  <1>2. CASE Dispatch
    BY Zenon, <1>2, DispatchTypes
  <1>3. CASE WindowPasses
    BY Zenon, <1>3, QuietTypes DEF WindowPasses
  <1>4. CASE Reads \/ UNCHANGED vars
    <2>1. UNCHANGED <<first, head, carried, ended, floor, stores, cmds, old, doom, eng, faults>>
      BY Zenon, <1>4, ReadsKeep DEF vars, system
    <2> QED
      BY Zenon, <2>1, QuietTypes DEF Types, RestOK
  <1> QED
    BY Zenon, <1>1, <1>2, <1>3, <1>4 DEF Next

LEMMA TypesInit == Init => Types
  <1> SUFFICES ASSUME Init PROVE Types
    BY Zenon
  <1>1. /\ first = 1 /\ head = 1 /\ carried = << >> /\ ended = FALSE /\ floor = 0
        /\ segs = [i \in Index |-> 0] /\ arch = << >> /\ snap = 0
        /\ blobs = FALSE /\ index = "none" /\ cmds = {} /\ old = FALSE /\ doom = "no"
        /\ eng = [e \in Engines |-> Idle] /\ faults = 0
    BY Zenon DEF Init
  <1>2. DOMAIN carried = {}
    BY <1>1
  <1>3. HeadOK
    BY SMT, <1>1, <1>2, LifecycleAssumption DEF HeadOK, Index
  <1>4. 0 \in 0 .. head /\ 0 \in 0 .. MaxFaults /\ floor \in Nat /\ head \in Nat
    BY SMT, <1>1, LifecycleAssumption
  <1>5. StoresOK /\ RestOK
    BY Zenon, <1>1, <1>4 DEF StoresOK, RestOK
  <1>6. EnginesOK
    BY Zenon, <1>1, <1>4, IdleHand, IdleFits DEF EnginesOK
  <1>7. BasesOK(head) /\ ListsOK
    <2>1. \A n : BaseOf(n) = 0
      <3>1. \A n : {0} \cup {c \in DOMAIN carried : c <= n} = {0}
        BY Zenon, <1>2
      <3>2. (CHOOSE x \in {0} : \A y \in {0} : x >= y) = 0
        BY SMT
      <3> QED
        BY Zenon, <3>1, <3>2 DEF BaseOf, Max
    <2> QED
      BY Zenon, <1>2, <2>1 DEF BasesOK, IsBaseOf, ListsOK
  <1> QED
    BY Zenon, <1>3, <1>5, <1>6, <1>7 DEF Types

\* For any number of engines, any limits and any faults, and also when Archive
\* and Delete are called by hand: the live log keeps its bounds, what an
\* engine read of the floor is never ahead of it, and no snapshot is ahead of
\* the log (afterAppend, continueAsNew, Purge).
THEOREM TypeCorrect == Spec => []TypeOK
  <1>1. Types => TypeOK
    <2> SUFFICES ASSUME Types PROVE TypeOK
      BY Zenon
    <2>1. ASSUME NEW e \in Engines PROVE eng[e].n \in 0 .. head /\ eng[e].floor \in 0 .. floor
      BY SMT, HandFacts, TypeFacts DEF HandFits
    <2> QED
      BY Zenon, <2>1 DEF Types, HeadOK, StoresOK, RestOK, TypeOK
  <1> QED
    BY <1>1, TypesInit, TypesStep, PTL DEF Spec

----------------------------------------------------------------------------
\* One engine at a time: the log, its segments and the archive.

\* At most one engine handles the execution.
Solo == \A e, f \in Engines : e = f

\* A segment is missing only once a deletion has begun.
Erased(x) == doom # "no" /\ segs[x] = 0
\* The segments that the continuation c lists join up, from 1 to c - 1.
Chain(c) ==
  /\ Len(carried[c]) >= 1 /\ carried[c][1] = 1
  /\ \A k \in 1 .. Len(carried[c]) :
        /\ carried[c][k] < c
        /\ LET next == IF k = Len(carried[c]) THEN c ELSE carried[c][k + 1]
           IN  next >= 2 /\ (segs[carried[c][k]] = next - 1 \/ Erased(carried[c][k]))
\* Where the state of the newest event can be folded from.
Base == IF BaseOf(head) = 0 THEN 1 ELSE BaseOf(head)
\* The log: it is cut in front of the base only, the archive covers it from
\* the base at the latest, and it goes only into an archive or a deletion.
LogInv ==
  /\ Live \/ ended
  /\ Live => first <= Base
  /\ \A c \in DOMAIN carried : Chain(c)
  /\ arch # << >> => ended /\ arch[2] = head /\ arch[1] <= Base
  /\ ~Live => arch # << >> \/ doom # "no"
  /\ doom # "no" => ended
\* An engine: what it decided on is still so.
EngInv(e) ==
  /\ eng[e].pc \in {"save", "read", "put", "continue", "resave", "floor", "purge"} => eng[e].n = head /\ Live
  /\ eng[e].pc = "save" => eng[e].over = ended
  /\ eng[e].pc \in {"read", "put", "continue", "resave", "floor", "purge"} => ~ended
  /\ eng[e].pc \in {"put", "continue"} => eng[e].lo = Base
  /\ eng[e].pc = "continue" => segs[eng[e].lo] = eng[e].n
  /\ eng[e].pc \in {"resave", "floor", "purge"} => BaseOf(head) = head
  /\ eng[e].pc \in {"aread", "aput", "aexpire", "apurge"} => ended /\ Live
  /\ eng[e].pc = "aput" => eng[e].lo = first /\ eng[e].hi = head
  /\ eng[e].pc \in {"aexpire", "apurge", "aclean"} => arch # << >>
  /\ eng[e].pc \in {"derive", "objects", "dpurge"} => doom # "no"
SoloInv == LogInv /\ \A e \in Engines : EngInv(e)

LEMMA ChainKept ==
    ASSUME NEW c, Chain(c), carried'[c] = carried[c], doom # "no" => doom' # "no",
           \A k \in 1 .. Len(carried[c]) :
              segs'[carried[c][k]] = segs[carried[c][k]] \/ (doom' # "no" /\ segs'[carried[c][k]] = 0)
    PROVE  Chain(c)'
  BY Zenon DEF Chain, Erased

LEMMA BaseFacts ==
    ASSUME Types
    PROVE  /\ Base \in 1 .. head
           /\ BaseOf(head) = 0 => Base = 1 /\ DOMAIN carried = {}
           /\ BaseOf(head) # 0 => Base = BaseOf(head) /\ Base \in DOMAIN carried
           /\ \A c \in DOMAIN carried : c <= Base
  <1>1. BaseOf(head) \in 0 .. head /\ \A c \in DOMAIN carried : c <= BaseOf(head)
    BY Zenon, SegmentsType
  <1>2. CASE BaseOf(head) = 0
    <2>1. Base = 1
      BY Zenon, <1>2 DEF Base
    <2>2. DOMAIN carried = {}
      <3>1. \A c \in DOMAIN carried : FALSE
        BY SMT, <1>1, <1>2, TypeFacts
      <3> QED
        BY Zenon, <3>1
    <2>3. 1 \in 1 .. head
      BY SMT, TypeFacts
    <2> QED
      BY Zenon, <1>2, <2>1, <2>2, <2>3
  <1>3. CASE BaseOf(head) # 0
    <2>1. Base = BaseOf(head) /\ Base \in DOMAIN carried
      BY Zenon, <1>3, SegmentsType DEF Base
    <2> QED
      BY SMT, <1>1, <1>3, <2>1, TypeFacts
  <1> QED
    BY <1>2, <1>3

LEMMA IdleEng ==
    ASSUME NEW e, eng'[e].pc = "idle"
    PROVE  EngInv(e)'
  BY SMTT(30) DEF EngInv

LEMMA LogFrame ==
    ASSUME LogInv, UNCHANGED <<first, head, carried, ended, segs, arch, doom>>
    PROVE  LogInv' /\ Base' = Base /\ BaseOf(head)' = BaseOf(head) /\ (Live' <=> Live)
  <1>1. BaseOf(head)' = BaseOf(head)
    BY Zenon DEF BaseOf
  <1>2. Base' = Base /\ (Live' <=> Live)
    BY Zenon, <1>1 DEF Base, Live
  <1>3. \A c \in DOMAIN carried : Chain(c)'
    BY Zenon DEF LogInv, Chain, Erased
  <1> QED
    BY Zenon, <1>1, <1>2, <1>3 DEF LogInv

LEMMA SoloEnd ==
    ASSUME Solo, NEW e \in Engines, LogInv', EngInv(e)'
    PROVE  SoloInv'
  BY Zenon DEF Solo, SoloInv

\* A step that only changes what the engine has in hand, or things that are
\* no part of the log.
LEMMA SoloFrame ==
    ASSUME Solo, SoloInv, NEW e \in Engines, UNCHANGED <<first, head, carried, ended, segs, arch, doom>>, EngInv(e)'
    PROVE  SoloInv'
  BY Zenon, LogFrame, SoloEnd DEF SoloInv

LEMMA SoloQuiet ==
    ASSUME SoloInv, UNCHANGED <<first, head, carried, ended, segs, arch, doom, eng>>
    PROVE  SoloInv'
  <1>1. LogInv' /\ Base' = Base /\ BaseOf(head)' = BaseOf(head) /\ (Live' <=> Live)
    BY Zenon, LogFrame DEF SoloInv
  <1>2. \A e \in Engines : EngInv(e)'
    BY Zenon, <1>1 DEF SoloInv, EngInv
  <1> QED
    BY Zenon, <1>1, <1>2 DEF SoloInv

\* A decision goes on from the newest event.
LEMMA DecideSolo ==
    ASSUME Types, Solo, SoloInv, NEW e \in Engines, Decide(e)
    PROVE  SoloInv'
  <1>1. /\ ~ended /\ head' = head + 1 /\ ended' \in BOOLEAN
        /\ UNCHANGED <<first, carried, segs, arch, doom>>
    BY Zenon DEF Decide
  <1>2. BaseOf(head)' = BaseOf(head)
    BY Zenon, <1>1, BasesKept
  <1>3. Base' = Base
    BY Zenon, <1>2 DEF Base
  <1>4. Live /\ first <= Base /\ arch = << >> /\ doom = "no" /\ \A c \in DOMAIN carried : Chain(c)
    BY Zenon, <1>1 DEF SoloInv, LogInv
  <1>5. Live'
    BY SMT, <1>1, <1>4, TypeFacts DEF Live
  <1>6. \A c \in DOMAIN carried : Chain(c)'
    BY Zenon, <1>1, <1>4 DEF Chain, Erased
  <1>7. LogInv'
    BY Zenon, <1>1, <1>3, <1>4, <1>5, <1>6 DEF LogInv
  <1>8. EngInv(e)'
    <2>1. CASE eng'[e] = Idle
      BY Zenon, <2>1, IdleHand, IdleEng
    <2>2. CASE /\ eng'[e].n = head + 1 /\ eng'[e].over = ended'
               /\ eng'[e].pc \in {"save", "read"} /\ (eng'[e].pc = "read" => ~ended')
      BY SMTT(30), <1>1, <1>5, <2>2 DEF EngInv
    <2> QED
      BY Zenon, <2>1, <2>2, DecideHand
  <1> QED
    BY Zenon, <1>7, <1>8, SoloEnd

LEMMA SaveSolo ==
    ASSUME Types, Solo, SoloInv, NEW e \in Engines, Save(e) \/ SaveContinued(e)
    PROVE  SoloInv'
  <1>1. UNCHANGED <<first, head, carried, ended, segs, arch, doom>>
    BY Zenon DEF Save, SaveContinued
  <1>2. Base' = Base /\ BaseOf(head)' = BaseOf(head) /\ (Live' <=> Live)
    BY Zenon, <1>1, LogFrame DEF SoloInv
  <1>3. EngInv(e)
    BY Zenon DEF SoloInv
  <1>4. "read" \in Pcs /\ "floor" \in Pcs
    BY DEF Pcs
  <1>5. CASE Done(e)
    BY Zenon, <1>1, <1>5, DoneHand, IdleHand, IdleEng, SoloFrame
  <1>6. CASE SaveContinued(e)
    <2>1. eng[e].pc = "resave" /\ eng'[e].pc = "floor" /\ Same(eng'[e], eng[e])
      BY Zenon, <1>4, <1>6, GotoHand DEF SaveContinued, At
    <2>2. EngInv(e)'
      BY SMTT(90), <1>1, <1>2, <1>3, <2>1 DEF EngInv, Same
    <2> QED
      BY Zenon, <1>1, <2>2, SoloFrame
  <1>7. CASE Save(e) /\ ~eng[e].over /\ Goto(e, "read")
    <2>1. eng[e].pc = "save" /\ eng'[e].pc = "read" /\ Same(eng'[e], eng[e])
      BY Zenon, <1>4, <1>7, GotoHand DEF Save, At
    <2>2. ~ended
      BY Zenon, <1>3, <1>7, <2>1 DEF EngInv
    <2>3. EngInv(e)'
      BY SMTT(90), <1>1, <1>2, <1>3, <2>1, <2>2 DEF EngInv, Same
    <2> QED
      BY Zenon, <1>1, <2>3, SoloFrame
  <1> QED
    BY Zenon, <1>5, <1>6, <1>7 DEF Save

\* The segment begins at the last base: leftovers are not part of it.
LEMMA ReadSegmentSolo ==
    ASSUME Types, Solo, SoloInv, NEW e \in Engines, ReadSegment(e)
    PROVE  SoloInv'
  <1>1. UNCHANGED <<first, head, carried, ended, segs, arch, doom>> /\ eng[e].pc = "read"
    BY Zenon DEF ReadSegment, At, stores
  <1>2. Base' = Base /\ (Live' <=> Live)
    BY Zenon, <1>1, LogFrame DEF SoloInv
  <1>3. eng[e].n = head /\ Live /\ ~ended
    BY Zenon, <1>1 DEF SoloInv, EngInv
  <1>4. CASE eng'[e] = Idle
    BY Zenon, <1>1, <1>4, IdleHand, IdleEng, SoloFrame
  <1>5. CASE eng'[e] # Idle
    <2>1. PICK lo : /\ eng'[e].pc = "put" /\ eng'[e].lo = lo /\ eng'[e].n = eng[e].n
                    /\ lo >= first /\ lo >= BaseOf(eng[e].n) /\ lo \in {first, BaseOf(eng[e].n)}
      BY Zenon, <1>5, ReadSegmentHand
    <2>2. lo >= first /\ lo >= BaseOf(head) /\ lo \in {first, BaseOf(head)}
      BY Zenon, <1>3, <2>1
    <2>3. first <= Base
      BY Zenon, <1>3 DEF SoloInv, LogInv
    <2>4. lo = Base
      BY SMT, <2>2, <2>3, BaseFacts, TypeFacts
    <2>5. EngInv(e)'
      BY SMTT(30), <1>1, <1>2, <1>3, <2>1, <2>4 DEF EngInv
    <2> QED
      BY Zenon, <1>1, <2>5, SoloFrame
  <1> QED
    BY Zenon, <1>4, <1>5

\* No segment that a state lists is written again.
LEMMA PutSegmentSolo ==
    ASSUME Types, Solo, SoloInv, NEW e \in Engines, PutSegment(e)
    PROVE  SoloInv'
  <1>1. /\ eng[e].pc = "put" /\ segs' = [segs EXCEPT ![eng[e].lo] = eng[e].n] /\ Goto(e, "continue")
        /\ UNCHANGED <<first, head, carried, ended, arch, doom>>
    BY Zenon DEF PutSegment, At
  <1>2. eng[e].n = head /\ Live /\ ~ended /\ eng[e].lo = Base
    BY Zenon, <1>1 DEF SoloInv, EngInv
  <1>3. Base' = Base /\ (Live' <=> Live)
    BY Zenon, <1>1 DEF Base, BaseOf, Live
  <1>4. \A c \in DOMAIN carried : Chain(c)'
    <2> TAKE c \in DOMAIN carried
    <2>1. Chain(c) /\ c <= Base /\ carried[c] \in Seq(Index)
      BY Zenon, BaseFacts DEF SoloInv, LogInv, Types, ListsOK
    <2>2. ASSUME NEW k \in 1 .. Len(carried[c]) PROVE segs'[carried[c][k]] = segs[carried[c][k]]
      <3>1. carried[c][k] < c /\ carried[c][k] \in Index
        <4>1. carried[c][k] \in Index
          BY SMT, <2>1
        <4> QED
          BY Zenon, <2>1, <4>1 DEF Chain
      <3>2. carried[c][k] # Base
        <4>1. c \in Nat /\ carried[c][k] \in Nat /\ Base \in Nat
          BY SMT, <3>1, BaseFacts, TypeFacts DEF Index
        <4> QED
          BY SMT, <2>1, <3>1, <4>1
      <3> QED
        BY Zenon, <1>1, <1>2, <3>1, <3>2 DEF Types, StoresOK
    <2> QED
      BY Zenon, <1>1, <2>1, <2>2, ChainKept
  <1>5. LogInv'
    BY Zenon, <1>1, <1>3, <1>4 DEF SoloInv, LogInv
  <1>6. EngInv(e)'
    <2>1. "continue" \in Pcs
      BY DEF Pcs
    <2>2. eng'[e].pc = "continue" /\ eng'[e].n = eng[e].n /\ eng'[e].lo = eng[e].lo
      BY Zenon, <1>1, <2>1, GotoHand DEF Same
    <2>3. Base \in Index
      BY SMT, BaseFacts, TypeFacts DEF Index
    <2>4. segs'[Base] = head
      BY Zenon, <1>1, <1>2, <2>3 DEF Types, StoresOK
    <2> QED
      BY SMTT(30), <1>1, <1>2, <1>3, <2>2, <2>4 DEF EngInv
  <1> QED
    BY Zenon, <1>5, <1>6, SoloEnd

\* The continuation closes the segment that begins at the base before it.
LEMMA NewChain ==
    ASSUME Types, SoloInv, NEW e \in Engines, eng[e].pc = "continue", NEW d, d = head + 1,
           carried'[d] = Append(SegmentsOf(head), eng[e].lo), segs' = segs
    PROVE  Chain(d)'
  <1>1. eng[e].lo = Base /\ segs[Base] = head
    BY Zenon DEF SoloInv, EngInv
  <1>2. /\ d \in Nat /\ d >= 2 /\ Base \in Nat /\ Base < d
        /\ head = d - 1
    BY SMT, BaseFacts, TypeFacts
  <1>3. CASE BaseOf(head) = 0
    <2>1. SegmentsOf(head) = << >> /\ Base = 1
      BY Zenon, <1>3, SegmentsType, BaseFacts
    <2>2. carried'[d] = <<1>>
      BY SMT, <1>1, <2>1
    <2>3. Len(carried'[d]) = 1 /\ carried'[d][1] = 1
      BY SMT, <2>2
    <2>4. \A k \in 1 .. Len(carried'[d]) : k = 1
      BY SMT, <2>3
    <2>5. 1 < d /\ 1 >= 1
      BY SMT, <1>2
    <2> QED
      BY Zenon, <1>1, <1>2, <2>1, <2>3, <2>4, <2>5 DEF Chain
  <1>4. CASE BaseOf(head) # 0
    <2>1. PICK L \in Seq(Index) : L = carried[Base] /\ L = SegmentsOf(head)
      BY Zenon, <1>4, SegmentsType, BaseFacts
    <2>2. Base \in DOMAIN carried /\ Chain(Base) /\ Base >= 2
      <3>1. Base \in DOMAIN carried
        BY Zenon, <1>4, BaseFacts
      <3>2. Base >= 2
        BY SMT, <3>1, TypeFacts
      <3> QED
        BY Zenon, <3>1, <3>2 DEF SoloInv, LogInv
    <2>3. PICK b \in Index : b = Base
      BY SMT, BaseFacts, TypeFacts DEF Index
    <2>4. PICK l \in Nat, M \in Seq(Index) :
             /\ l = Len(L) /\ M = Append(L, b) /\ Len(M) = l + 1 /\ M[l + 1] = b
             /\ \A k \in 1 .. l : M[k] = L[k]
      <3>1. Len(L) \in Nat /\ Append(L, b) \in Seq(Index) /\ Len(Append(L, b)) = Len(L) + 1
        BY SMT
      <3>2. Append(L, b)[Len(L) + 1] = b /\ \A k \in 1 .. Len(L) : Append(L, b)[k] = L[k]
        BY SMT
      <3> QED
        BY Zenon, <3>1, <3>2
    <2>5. M = carried'[d] /\ Len(M) = l + 1 /\ M[l + 1] = Base /\ \A k \in 1 .. l : M[k] = L[k]
      BY Zenon, <1>1, <2>1, <2>3, <2>4
    <2>6. l >= 1 /\ L[1] = 1
      BY Zenon, <2>1, <2>2, <2>4 DEF Chain
    <2>7. ~Erased(1) /\ doom = "no"
      BY Zenon DEF SoloInv, LogInv, EngInv, Erased
    <2>8. ASSUME NEW k \in 1 .. l
          PROVE  /\ M[k] < d
                 /\ LET next == M[k + 1] IN next >= 2 /\ segs[M[k]] = next - 1
      <3>1. /\ L[k] < Base
            /\ LET next == IF k = l THEN Base ELSE L[k + 1] IN next >= 2 /\ segs[L[k]] = next - 1
        BY Zenon, <2>1, <2>2, <2>4, <2>7 DEF Chain, Erased
      <3>2. M[k] = L[k] /\ L[k] \in Nat
        <4>1. L[k] \in Index
          BY SMT, <2>4
        <4>2. Index \subseteq Nat
          BY SMT DEF Index
        <4> QED
          BY Zenon, <2>5, <4>1, <4>2
      <3>3. M[k + 1] = IF k = l THEN Base ELSE L[k + 1]
        BY SMT, <2>5
      <3>4. L[k] < d
        BY SMT, <1>2, <3>1, <3>2
      <3> QED
        BY Zenon, <3>1, <3>2, <3>3, <3>4
    <2>9. M[1] = 1 /\ l + 1 >= 1 /\ \A k \in 1 .. (l + 1) : k # l + 1 => k \in 1 .. l
      BY SMT, <2>5, <2>6
    <2>10. ASSUME NEW k \in 1 .. (l + 1)
           PROVE  /\ M[k] < d
                  /\ LET next == IF k = l + 1 THEN d ELSE M[k + 1] IN next >= 2 /\ segs[M[k]] = next - 1
      <3>1. CASE k = l + 1
        BY Zenon, <1>1, <1>2, <2>5, <3>1
      <3>2. CASE k # l + 1
        BY Zenon, <2>8, <2>9, <3>2
      <3> QED
        BY <3>1, <3>2
    <2> QED
      BY Zenon, <2>5, <2>9, <2>10 DEF Chain
  <1> QED
    BY <1>3, <1>4

LEMMA AppendContinuedSolo ==
    ASSUME Types, Solo, SoloInv, NEW e \in Engines, AppendContinued(e)
    PROVE  SoloInv'
  <1>1. eng[e].pc = "continue" /\ UNCHANGED <<first, ended, segs, arch, doom>>
    BY Zenon DEF AppendContinued, At, stores
  <1>2. eng[e].n = head /\ Live /\ ~ended
    BY Zenon, <1>1 DEF SoloInv, EngInv
  <1>3. head < MaxEvents + 1
    <2>1. eng[e].n \in 1 .. MaxEvents
      BY Zenon, <1>1, HandFacts DEF HandFits
    <2> QED
      BY SMT, <1>2, <2>1, TypeFacts
  <1>4. /\ eng'[e].n = head + 1 /\ eng'[e].pc = "resave" /\ head' = head + 1
        /\ carried' = [c \in DOMAIN carried \cup {head + 1} |->
                         IF c \in DOMAIN carried THEN carried[c] ELSE Append(SegmentsOf(head), eng[e].lo)]
    BY Zenon, <1>2, <1>3, AppendContinuedHand
  <1>5. DOMAIN carried' = DOMAIN carried \cup {head + 1} /\ head + 1 \notin DOMAIN carried
    BY SMT, <1>4, TypeFacts
  <1>6. BaseOf(head)' = head'
    BY Zenon, <1>4, <1>5, NewBase
  <1>7. Live' /\ Base' = head' /\ first <= head'
    <2>1. head' # 0 /\ first <= head'
      BY SMT, <1>4, TypeFacts
    <2> QED
      BY Zenon, <1>1, <1>6, <2>1 DEF Base, Live
  <1>8. \A c \in DOMAIN carried' : Chain(c)'
    <2>1. ASSUME NEW c \in DOMAIN carried PROVE Chain(c)'
      <3>1. carried'[c] = carried[c] /\ Chain(c)
        BY Zenon, <1>4 DEF SoloInv, LogInv
      <3> QED
        BY Zenon, <1>1, <3>1, ChainKept
    <2>2. ASSUME NEW d, d = head + 1 PROVE Chain(d)'
      <3>1. carried'[d] = Append(SegmentsOf(head), eng[e].lo)
        BY Zenon, <1>4, <1>5, <2>2
      <3> QED
        BY Zenon, <1>1, <2>2, <3>1, NewChain
    <2> QED
      BY Zenon, <1>5, <2>1, <2>2
  <1>9. LogInv'
    <2>1. arch = << >> /\ doom = "no"
      BY Zenon, <1>2 DEF SoloInv, LogInv
    <2> QED
      BY Zenon, <1>1, <1>7, <1>8, <2>1 DEF LogInv
  <1>10. EngInv(e)'
    BY SMTT(30), <1>1, <1>2, <1>4, <1>6, <1>7 DEF EngInv
  <1> QED
    BY Zenon, <1>9, <1>10, SoloEnd

LEMMA ReadFloorSolo ==
    ASSUME Types, Solo, SoloInv, NEW e \in Engines, ReadFloor(e)
    PROVE  SoloInv'
  <1>1. UNCHANGED <<first, head, carried, ended, segs, arch, doom>> /\ eng[e].pc = "floor"
    BY Zenon DEF ReadFloor, At, stores
  <1>2. BaseOf(head)' = BaseOf(head) /\ (Live' <=> Live)
    BY Zenon, <1>1, LogFrame DEF SoloInv
  <1>3. eng[e].n = head /\ Live /\ ~ended /\ BaseOf(head) = head
    BY Zenon, <1>1 DEF SoloInv, EngInv
  <1>4. EngInv(e)'
    <2>1. CASE eng'[e] = Idle
      BY Zenon, <2>1, IdleHand, IdleEng
    <2>2. CASE eng'[e].pc = "purge" /\ eng'[e].n = eng[e].n
      BY SMTT(30), <1>1, <1>2, <1>3, <2>2 DEF EngInv
    <2> QED
      BY Zenon, <2>1, <2>2, ReadFloorHand
  <1> QED
    BY Zenon, <1>1, <1>4, SoloFrame

\* A purge stops short of the base.
LEMMA PurgeSolo ==
    ASSUME Types, Solo, SoloInv, NEW e \in Engines, Purge(e)
    PROVE  SoloInv'
  <1>1. Done(e) /\ UNCHANGED <<head, carried, ended, segs, arch, doom>> /\ eng[e].pc = "purge"
    BY Zenon DEF Purge, At, stores
  <1>2. eng[e].n = head /\ Live /\ ~ended /\ BaseOf(head) = head
    BY Zenon, <1>1 DEF SoloInv, EngInv
  <1>3. Base' = Base /\ Base = head
    <2>1. head # 0
      BY SMT, TypeFacts
    <2> QED
      BY Zenon, <1>1, <1>2, <2>1 DEF Base, BaseOf
  <1>4. first' <= head
    BY SMT, <1>2, PurgeBound, TypeFacts DEF Live
  <1>5. Live' /\ first' <= Base'
    BY Zenon, <1>1, <1>3, <1>4 DEF Live
  <1>6. \A c \in DOMAIN carried : Chain(c)'
    BY Zenon, <1>1 DEF SoloInv, LogInv, Chain, Erased
  <1>7. LogInv'
    BY Zenon, <1>1, <1>3, <1>5, <1>6 DEF SoloInv, LogInv
  <1> QED
    BY Zenon, <1>1, <1>7, DoneHand, IdleHand, IdleEng, SoloEnd

LEMMA ArchiveSolo ==
    ASSUME Types, Solo, SoloInv, NEW e \in Engines, Archive(e) \/ ArchiveRead(e) \/ ArchiveExpire(e) \/ ArchiveClean(e)
    PROVE  SoloInv'
  <1>1. UNCHANGED <<first, head, carried, ended, segs, arch, doom>>
    BY Zenon DEF Archive, ArchiveRead, ArchiveExpire, ArchiveClean, stores
  <1>2. Live' <=> Live
    BY Zenon, <1>1, LogFrame DEF SoloInv
  <1>3. EngInv(e)
    BY Zenon DEF SoloInv
  <1>4. "aread" \in Pcs /\ "apurge" \in Pcs
    BY DEF Pcs
  <1>5. CASE Archive(e) /\ ~(Live /\ ended)
    <2>1. eng' = eng
      BY Zenon, <1>5 DEF Archive
    <2> QED
      BY Zenon, <1>1, <2>1, SoloQuiet
  <1>6. CASE Archive(e) /\ Live /\ ended
    <2>1. eng'[e].pc = "aread"
      BY Zenon, <1>4, <1>6, GotoHand DEF Archive
    <2>2. EngInv(e)'
      BY SMTT(30), <1>1, <1>2, <1>6, <2>1 DEF EngInv
    <2> QED
      BY Zenon, <1>1, <2>2, SoloFrame
  <1>7. CASE ArchiveRead(e)
    <2>1. eng[e].pc = "aread" /\ eng'[e].pc = "aput" /\ eng'[e].lo = first /\ eng'[e].hi = head
      BY Zenon, <1>7, ArchiveReadHand DEF ArchiveRead, At
    <2>2. EngInv(e)'
      BY SMTT(90), <1>1, <1>2, <1>3, <2>1 DEF EngInv
    <2> QED
      BY Zenon, <1>1, <2>2, SoloFrame
  <1>8. CASE ArchiveExpire(e)
    <2>1. eng[e].pc = "aexpire" /\ eng'[e].pc = "apurge"
      BY Zenon, <1>4, <1>8, GotoHand DEF ArchiveExpire, ArchiveThen, At
    <2>2. EngInv(e)'
      BY SMTT(90), <1>1, <1>2, <1>3, <2>1 DEF EngInv
    <2> QED
      BY Zenon, <1>1, <2>2, SoloFrame
  <1>9. CASE ArchiveClean(e)
    BY Zenon, <1>1, <1>9, DoneHand, IdleHand, IdleEng, SoloFrame DEF ArchiveClean
  <1> QED
    BY Zenon, <1>5, <1>6, <1>7, <1>8, <1>9

LEMMA ArchivePutSolo ==
    ASSUME Types, Solo, SoloInv, NEW e \in Engines, ArchivePut(e)
    PROVE  SoloInv'
  <1>1. /\ eng[e].pc = "aput" /\ arch' = <<eng[e].lo, eng[e].hi>> /\ Goto(e, "aexpire")
        /\ UNCHANGED <<first, head, carried, ended, segs, doom>>
    BY Zenon DEF ArchivePut, ArchiveThen, At
  <1>2. eng[e].lo = first /\ eng[e].hi = head /\ ended /\ Live
    BY Zenon, <1>1 DEF SoloInv, EngInv
  <1>3. arch' # << >> /\ arch'[1] = first /\ arch'[2] = head
    BY SMT, <1>1, <1>2
  <1>4. Base' = Base /\ (Live' <=> Live)
    BY Zenon, <1>1 DEF Base, BaseOf, Live
  <1>5. \A c \in DOMAIN carried : Chain(c)'
    BY Zenon, <1>1 DEF SoloInv, LogInv, Chain, Erased
  <1>6. LogInv'
    BY Zenon, <1>1, <1>2, <1>3, <1>4, <1>5 DEF SoloInv, LogInv
  <1>7. EngInv(e)'
    <2>1. "aexpire" \in Pcs
      BY DEF Pcs
    <2>2. eng'[e].pc = "aexpire"
      BY Zenon, <1>1, <2>1, GotoHand
    <2> QED
      BY SMTT(90), <1>1, <1>2, <1>3, <1>4, <2>2 DEF EngInv
  <1> QED
    BY Zenon, <1>6, <1>7, SoloEnd

LEMMA PurgeAllSolo ==
    ASSUME Types, Solo, SoloInv, NEW e \in Engines, ArchivePurge(e) \/ DeletePurge(e)
    PROVE  SoloInv'
  <1>1. /\ first' = head + 1 /\ UNCHANGED <<head, carried, ended, segs, arch>>
        /\ ArchivePurge(e) => eng[e].pc = "apurge" /\ Goto(e, "aclean") /\ doom' = doom
        /\ DeletePurge(e) => eng[e].pc = "dpurge" /\ Done(e) /\ doom' = "gone"
    BY Zenon DEF ArchivePurge, DeletePurge, ArchiveThen, At, stores
  <1>2. /\ ended
        /\ ArchivePurge(e) => arch # << >>
    <2>1. EngInv(e) /\ LogInv
      BY Zenon DEF SoloInv
    <2> QED
      BY SMTT(90), <1>1, <2>1 DEF EngInv, LogInv
  <1>3. ~Live' /\ Base' = Base
    <2>1. ~(head + 1 <= head)
      BY SMT, TypeFacts
    <2> QED
      BY Zenon, <1>1, <2>1 DEF Live, Base, BaseOf
  <1>4. \A c \in DOMAIN carried : Chain(c)'
    <2> TAKE c \in DOMAIN carried
    <2>1. "gone" # "no"
      BY SMT
    <2>2. Chain(c) /\ carried'[c] = carried[c] /\ (doom # "no" => doom' # "no")
      BY Zenon, <1>1, <2>1 DEF SoloInv, LogInv
    <2> QED
      BY Zenon, <1>1, <2>2, ChainKept
  <1>5. arch # << >> \/ doom' # "no"
    BY SMT, <1>1, <1>2
  <1>6. LogInv'
    BY Zenon, <1>1, <1>2, <1>3, <1>4, <1>5 DEF SoloInv, LogInv
  <1>7. EngInv(e)'
    <2>1. CASE ArchivePurge(e)
      <3>1. "aclean" \in Pcs
        BY DEF Pcs
      <3>2. eng'[e].pc = "aclean"
        BY Zenon, <1>1, <2>1, <3>1, GotoHand
      <3> QED
        BY SMTT(90), <1>1, <1>2, <2>1, <3>2 DEF EngInv
    <2>2. CASE DeletePurge(e)
      BY Zenon, <1>1, <2>2, DoneHand, IdleHand, IdleEng
    <2> QED
      BY <2>1, <2>2
  <1> QED
    BY Zenon, <1>6, <1>7, SoloEnd

LEMMA DeleteSolo ==
    ASSUME Types, Solo, SoloInv, NEW e \in Engines, Delete(e)
    PROVE  SoloInv'
  <1>1. /\ ended /\ UNCHANGED <<first, head, carried, ended, segs, arch>>
        /\ doom' = IF doom = "gone" THEN doom ELSE "erasing"
    BY Zenon DEF Delete, stores
  <1>2. doom' # "no"
    BY SMT, <1>1
  <1>3. Base' = Base /\ (Live' <=> Live)
    BY Zenon, <1>1 DEF Base, BaseOf, Live
  <1>4. \A c \in DOMAIN carried : Chain(c)'
    BY Zenon, <1>1, <1>2 DEF SoloInv, LogInv, Chain, Erased
  <1>5. LogInv'
    BY Zenon, <1>1, <1>2, <1>3, <1>4 DEF SoloInv, LogInv
  <1>6. EngInv(e)'
    <2>1. eng'[e].pc = "derive"
      BY Zenon, DeleteHand
    <2> QED
      BY SMTT(30), <1>2, <2>1 DEF EngInv
  <1> QED
    BY Zenon, <1>5, <1>6, SoloEnd

LEMMA DeleteDerivedSolo ==
    ASSUME Types, Solo, SoloInv, NEW e \in Engines, DeleteDerived(e)
    PROVE  SoloInv'
  <1>1. /\ UNCHANGED <<first, head, carried, ended, segs, arch, doom>> /\ eng[e].pc = "derive"
        /\ Goto(e, "objects") \/ Done(e)
    BY Zenon DEF DeleteDerived, Either, At
  <1>2. doom # "no"
    BY Zenon, <1>1 DEF SoloInv, EngInv
  <1>3. CASE Done(e)
    BY Zenon, <1>1, <1>3, DoneHand, IdleHand, IdleEng, SoloFrame
  <1>4. CASE Goto(e, "objects")
    <2>1. "objects" \in Pcs
      BY DEF Pcs
    <2>2. eng'[e].pc = "objects"
      BY Zenon, <1>4, <2>1, GotoHand
    <2>3. EngInv(e)'
      BY SMTT(90), <1>1, <1>2, <2>2 DEF EngInv
    <2> QED
      BY Zenon, <1>1, <2>3, SoloFrame
  <1> QED
    BY Zenon, <1>1, <1>3, <1>4

LEMMA DeleteObjectsSolo ==
    ASSUME Types, Solo, SoloInv, NEW e \in Engines, DeleteObjects(e)
    PROVE  SoloInv'
  <1>1. /\ UNCHANGED <<first, head, carried, ended, doom>> /\ eng[e].pc = "objects"
        /\ arch' \in {arch, << >>} /\ eng'[e].pc \in {"objects", "dpurge"}
        /\ segs' = segs \/ \E i \in Index : segs' = [segs EXCEPT ![i] = 0]
    BY Zenon, DeleteObjectsHand DEF DeleteObjects, At
  <1>2. doom # "no"
    BY Zenon, <1>1 DEF SoloInv, EngInv
  <1>3. Base' = Base /\ (Live' <=> Live)
    BY Zenon, <1>1 DEF Base, BaseOf, Live
  <1>4. \A c \in DOMAIN carried : Chain(c)'
    <2> TAKE c \in DOMAIN carried
    <2>1. Chain(c) /\ carried'[c] = carried[c] /\ DOMAIN segs = Index
      BY Zenon, <1>1 DEF SoloInv, LogInv, Types, StoresOK
    <2>2. \A x \in Index : segs'[x] = segs[x] \/ segs'[x] = 0
      BY Zenon, <1>1, <2>1
    <2>3. \A k \in 1 .. Len(carried[c]) : carried[c][k] \in Index
      <3>1. carried[c] \in Seq(Index)
        BY Zenon DEF Types, ListsOK
      <3> HIDE DEF Index
      <3> QED
        BY SMTT(60), <3>1
    <2> QED
      BY Zenon, <1>1, <1>2, <2>1, <2>2, <2>3, ChainKept
  <1>5. LogInv'
    BY Zenon, <1>1, <1>2, <1>3, <1>4 DEF SoloInv, LogInv
  <1>6. EngInv(e)'
    BY SMTT(30), <1>1, <1>2 DEF EngInv
  <1> QED
    BY Zenon, <1>5, <1>6, SoloEnd

LEMMA SoloStep ==
    ASSUME Solo
    PROVE  Types /\ SoloInv /\ [Next]_vars => SoloInv'
  <1> SUFFICES ASSUME Types, SoloInv, [Next]_vars PROVE SoloInv'
    BY Zenon
  <1>1. ASSUME NEW e \in Engines, Decide(e) \/ Work(e) PROVE SoloInv'
    BY Zenon, <1>1, DecideSolo, SaveSolo, ReadSegmentSolo, PutSegmentSolo, AppendContinuedSolo, ReadFloorSolo,
       PurgeSolo, ArchiveSolo, ArchivePutSolo, PurgeAllSolo, DeleteSolo, DeleteDerivedSolo, DeleteObjectsSolo DEF Work
  <1>2. ASSUME NEW e \in Engines, Stop(e) PROVE SoloInv'
    BY Zenon, <1>2, DoneHand, IdleHand, IdleEng, SoloFrame DEF Stop, stores
  <1>3. CASE Dispatch \/ WindowPasses \/ Reads \/ UNCHANGED vars
    <2>1. UNCHANGED <<first, head, carried, ended, segs, arch, doom, eng>>
      BY Zenon, <1>3, ReadsKeep DEF Dispatch, WindowPasses, system, vars, stores
    <2> QED
      BY Zenon, <2>1, SoloQuiet
  <1> QED
    BY Zenon, <1>1, <1>2, <1>3 DEF Next

LEMMA SoloInit == Init => SoloInv
  <1> SUFFICES ASSUME Init PROVE SoloInv
    BY Zenon
  <1>1. /\ first = 1 /\ head = 1 /\ carried = << >> /\ arch = << >> /\ doom = "no"
        /\ eng = [e \in Engines |-> Idle]
    BY Zenon DEF Init
  <1>2. Types
    BY Zenon, TypesInit
  <1>3. DOMAIN carried = {}
    BY <1>1
  <1>4. Base \in 1 .. head
    BY Zenon, <1>2, BaseFacts
  <1>5. Live /\ first <= Base
    BY SMT, <1>1, <1>4 DEF Live
  <1>6. LogInv
    BY Zenon, <1>1, <1>3, <1>5 DEF LogInv
  <1>7. ASSUME NEW e \in Engines PROVE EngInv(e)
    <2>1. eng[e].pc = "idle"
      BY Zenon, <1>1, IdleHand
    <2> QED
      BY SMTT(30), <2>1 DEF EngInv
  <1> QED
    BY Zenon, <1>6, <1>7 DEF SoloInv

----------------------------------------------------------------------------
\* Deletion.

Cleared == \A k \in 1 .. Len(SegmentsOf(head)) : segs[SegmentsOf(head)[k]] = 0
Underived == snap = 0 /\ ~blobs /\ index = "none"
Listed(x, l) == \E j \in 1 .. Len(l) : l[j] = x
\* A deletion still has in hand every segment that is left.
DelHand(e) ==
  /\ eng[e].pc \in {"objects", "dpurge"} => Underived
  /\ eng[e].pc \in {"derive", "objects"} =>
        \A k \in 1 .. Len(SegmentsOf(head)) : segs[SegmentsOf(head)[k]] = 0 \/ Listed(SegmentsOf(head)[k], eng[e].list)
  /\ eng[e].pc = "dpurge" => arch = << >> /\ Cleared
  /\ doom = "gone" => eng[e].pc \in {"idle", "derive", "objects", "dpurge"}
\* Without log and archive nothing can name a segment: none is left then.
DelInv ==
  /\ ~Live /\ arch = << >> => Cleared
  /\ doom = "gone" => ~Live /\ Underived /\ arch = << >> /\ Cleared
  /\ \A e \in Engines : DelHand(e)

LEMMA SegmentsKept ==
    ASSUME UNCHANGED <<head, carried>>
    PROVE  SegmentsOf(head)' = SegmentsOf(head)
  BY Zenon DEF SegmentsOf, BaseOf

LEMMA NotBare ==
    ASSUME Live' \/ arch' # << >>, doom' # "gone",
           \A f \in Engines : eng'[f].pc \notin {"derive", "objects", "dpurge"}
    PROVE  DelInv'
  BY SMT DEF DelInv, DelHand

LEMMA ClearedKept ==
    ASSUME UNCHANGED <<head, carried, segs>>
    PROVE  Cleared' <=> Cleared
  BY Zenon, SegmentsKept DEF Cleared

LEMMA BareQuiet ==
    ASSUME DelInv, UNCHANGED <<first, head, carried, segs, arch, doom, snap, blobs, index>>,
           \A f \in Engines : eng'[f] = eng[f] \/ eng'[f].pc = "idle"
    PROVE  DelInv'
  <1>1. (Cleared' <=> Cleared) /\ (Live' <=> Live) /\ (Underived' <=> Underived) /\ SegmentsOf(head)' = SegmentsOf(head)
    BY Zenon, ClearedKept, SegmentsKept DEF Live, Underived
  <1>2. ASSUME NEW f \in Engines PROVE DelHand(f)'
    <2>1. CASE eng'[f] = eng[f]
      <3>1. DelHand(f)
        BY Zenon DEF DelInv
      <3> QED
        BY Zenon, <1>1, <2>1, <3>1 DEF DelHand
    <2>2. CASE eng'[f].pc = "idle"
      BY SMTT(30), <2>2 DEF DelHand
    <2> QED
      BY Zenon, <2>1, <2>2
  <1> QED
    BY Zenon, <1>1, <1>2 DEF DelInv

LEMMA DelEnd ==
    ASSUME Solo, NEW e \in Engines, DelHand(e)',
           (~Live /\ arch = << >> => Cleared)',
           (doom = "gone" => ~Live /\ Underived /\ arch = << >> /\ Cleared)'
    PROVE  DelInv'
  <1>1. \A f \in Engines : f = e
    BY Zenon DEF Solo
  <1> QED
    BY Zenon, <1>1 DEF DelInv

LEMMA NotBareOne ==
    ASSUME Solo, NEW e \in Engines, Live' \/ arch' # << >>, doom' # "gone",
           eng'[e].pc \notin {"derive", "objects", "dpurge"}
    PROVE  DelInv'
  <1>1. \A f \in Engines : f = e
    BY Zenon DEF Solo
  <1> QED
    BY Zenon, <1>1, NotBare

LEMMA DecideDel ==
    ASSUME Types, Solo, SoloInv, NEW e \in Engines, Decide(e)
    PROVE  DelInv'
  <1>1. ~ended /\ head' = head + 1 /\ UNCHANGED <<first, doom>>
    BY Zenon DEF Decide
  <1>2. doom = "no"
    BY Zenon, <1>1 DEF SoloInv, LogInv
  <1>3. Live'
    <2>1. first <= head + 1
      BY SMT, TypeFacts
    <2> QED
      BY Zenon, <1>1, <2>1 DEF Live
  <1>4. eng'[e].pc \in {"idle", "save", "read"}
    <2>1. eng'[e] = Idle \/ eng'[e].pc \in {"save", "read"}
      BY Zenon, DecideHand
    <2> QED
      BY SMT, <2>1, IdleHand
  <1>5. doom' # "gone" /\ eng'[e].pc \notin {"derive", "objects", "dpurge"}
    BY SMT, <1>1, <1>2, <1>4
  <1> QED
    BY Zenon, <1>3, <1>5, NotBareOne

LEMMA LiveWorkDel ==
    ASSUME Types, Solo, SoloInv, DelInv, NEW e \in Engines,
           Save(e) \/ SaveContinued(e) \/ ReadSegment(e) \/ PutSegment(e) \/ AppendContinued(e) \/ ReadFloor(e) \/ Purge(e)
    PROVE  DelInv'
  <1>1. eng[e].pc \in {"save", "read", "put", "continue", "resave", "floor", "purge"} /\ doom' = doom
    <2>1. \/ eng[e].pc = "save" \/ eng[e].pc = "read" \/ eng[e].pc = "put" \/ eng[e].pc = "continue"
          \/ eng[e].pc = "resave" \/ eng[e].pc = "floor" \/ eng[e].pc = "purge"
      BY Zenon DEF Save, SaveContinued, ReadSegment, PutSegment, AppendContinued, ReadFloor, Purge, At
    <2>2. doom' = doom
      BY Zenon DEF Save, SaveContinued, ReadSegment, PutSegment, AppendContinued, ReadFloor, Purge
    <2> QED
      BY Zenon, <2>1, <2>2
  <1>2. eng'[e] = Idle \/ eng'[e].pc \in {"read", "put", "continue", "resave", "floor", "purge"}
    <2>1. "read" \in Pcs /\ "continue" \in Pcs /\ "floor" \in Pcs
      BY DEF Pcs
    <2>2. CASE Save(e)
      BY Zenon, <2>1, <2>2, DoneHand, GotoHand DEF Save
    <2>3. CASE SaveContinued(e)
      BY Zenon, <2>1, <2>3, GotoHand DEF SaveContinued
    <2>4. CASE ReadSegment(e)
      BY Zenon, <2>4, ReadSegmentHand
    <2>5. CASE PutSegment(e)
      BY Zenon, <2>1, <2>5, GotoHand DEF PutSegment
    <2>6. CASE AppendContinued(e)
      <3>1. CASE head # eng[e].n
        BY Zenon, <2>6, <3>1, DoneHand DEF AppendContinued
      <3>2. CASE head = eng[e].n
        <4>0. eng[e].pc = "continue"
          BY Zenon, <2>6 DEF AppendContinued, At
        <4>1. head < MaxEvents + 1
          BY SMTT(90), <3>2, <4>0, HandFacts, TypeFacts DEF HandFits
        <4>2. eng'[e].pc = "resave"
          BY Zenon, <2>6, <3>2, <4>1, AppendContinuedHand
        <4> QED
          BY Zenon, <4>2
      <3> QED
        BY Zenon, <3>1, <3>2
    <2>7. CASE ReadFloor(e)
      BY Zenon, <2>7, ReadFloorHand
    <2>8. CASE Purge(e)
      BY Zenon, <2>8, DoneHand DEF Purge
    <2> QED
      BY Zenon, <2>2, <2>3, <2>4, <2>5, <2>6, <2>7, <2>8
  <1>3. eng'[e].pc \notin {"derive", "objects", "dpurge"}
    BY SMTT(60), <1>2, IdleHand
  <1>4. doom' # "gone"
    <2>1. DelHand(e)
      BY Zenon DEF DelInv
    <2> QED
      BY SMTT(90), <1>1, <2>1 DEF DelHand
  <1>5. Live'
    <2>1. Live
      BY Zenon, <1>1 DEF SoloInv, EngInv
    <2>2. CASE Purge(e)
      <3>1. eng[e].pc = "purge" /\ ended' = ended
        BY Zenon, <2>2 DEF Purge, At
      <3>2. ~ended'
        BY Zenon, <3>1 DEF SoloInv, EngInv
      <3> QED
        BY Zenon, <2>2, <3>2, PurgeSolo DEF SoloInv, LogInv
    <2>3. CASE AppendContinued(e) /\ head = eng[e].n
      <3>1. first' = first /\ head' = head + 1
        BY Zenon, <2>3 DEF AppendContinued
      <3> QED
        BY SMT, <3>1, TypeFacts DEF Live
    <2>4. CASE ~Purge(e) /\ ~(AppendContinued(e) /\ head = eng[e].n)
      <3>1. first' = first /\ head' = head
        BY Zenon, <2>4 DEF Save, SaveContinued, ReadSegment, PutSegment, AppendContinued, ReadFloor
      <3> QED
        BY Zenon, <2>1, <3>1 DEF Live
    <2> QED
      BY Zenon, <2>2, <2>3, <2>4
  <1> QED
    BY Zenon, <1>3, <1>4, <1>5, NotBareOne

LEMMA PairFacts == \A x, y : <<x, y>> # << >>
  OBVIOUS

\* An engine that archives has found a log that no deletion has purged.
LEMMA Archiving ==
    ASSUME NEW e, DelHand(e),
           eng[e].pc = "aread" \/ eng[e].pc = "aput" \/ eng[e].pc = "aexpire" \/ eng[e].pc = "apurge" \/ eng[e].pc = "aclean"
    PROVE  doom # "gone"
  BY Zenon DEF DelHand

LEMMA ArchiveDel ==
    ASSUME Types, Solo, SoloInv, DelInv, NEW e \in Engines,
           \/ Archive(e) \/ ArchiveRead(e) \/ ArchivePut(e) \/ ArchiveExpire(e) \/ ArchivePurge(e) \/ ArchiveClean(e)
    PROVE  DelInv'
  <1>1. doom' = doom
    BY Zenon DEF Archive, ArchiveRead, ArchivePut, ArchiveExpire, ArchivePurge, ArchiveClean
  <1>2. DelHand(e) /\ EngInv(e)
    BY Zenon DEF DelInv, SoloInv
  <1>3. "aread" \in Pcs /\ "aexpire" \in Pcs /\ "apurge" \in Pcs /\ "aclean" \in Pcs
    BY DEF Pcs
  <1>4. CASE Archive(e) /\ ~(Live /\ ended)
    <2>1. UNCHANGED <<first, head, carried, segs, arch, doom, snap, blobs, index, eng>>
      BY Zenon, <1>4 DEF Archive, stores
    <2> QED
      BY Zenon, <2>1, BareQuiet
  <1>5. CASE Archive(e) /\ Live /\ ended
    <2>1. eng'[e].pc = "aread" /\ UNCHANGED <<first, head>>
      BY Zenon, <1>3, <1>5, GotoHand DEF Archive
    <2>2. Live' /\ doom' # "gone"
      BY Zenon, <1>1, <1>5, <2>1 DEF Live, DelInv
    <2>3. eng'[e].pc \notin {"derive", "objects", "dpurge"}
      BY Zenon, <2>1
    <2> QED
      BY Zenon, <2>2, <2>3, NotBareOne
  <1>6. CASE ArchiveRead(e) \/ ArchiveExpire(e)
    <2>1. (eng[e].pc = "aread" \/ eng[e].pc = "aexpire") /\ UNCHANGED <<first, head>>
      BY Zenon, <1>6 DEF ArchiveRead, ArchiveExpire, At
    <2>2. Live /\ doom # "gone"
      BY Zenon, <1>2, <2>1, Archiving DEF EngInv
    <2>3. eng'[e].pc = "aput" \/ eng'[e].pc = "apurge"
      BY Zenon, <1>3, <1>6, ArchiveReadHand, GotoHand DEF ArchiveExpire, ArchiveThen
    <2>4. eng'[e].pc \notin {"derive", "objects", "dpurge"}
      BY Zenon, <2>3
    <2>5. Live' /\ doom' # "gone"
      BY Zenon, <1>1, <2>1, <2>2 DEF Live
    <2> QED
      BY Zenon, <2>4, <2>5, NotBareOne
  <1>7. CASE ArchivePut(e)
    <2>1. eng[e].pc = "aput" /\ arch' # << >> /\ eng'[e].pc = "aexpire"
      <3>1. eng[e].pc = "aput" /\ arch' = <<eng[e].lo, eng[e].hi>> /\ eng'[e].pc = "aexpire"
        BY Zenon, <1>3, <1>7, GotoHand DEF ArchivePut, ArchiveThen, At
      <3> QED
        BY Zenon, <3>1, PairFacts
    <2>2. doom' # "gone" /\ eng'[e].pc \notin {"derive", "objects", "dpurge"}
      BY Zenon, <1>1, <1>2, <2>1, Archiving
    <2> QED
      BY Zenon, <2>1, <2>2, NotBareOne
  <1>8. CASE ArchivePurge(e) \/ ArchiveClean(e)
    <2>1. (eng[e].pc = "apurge" \/ eng[e].pc = "aclean") /\ arch' = arch
      BY Zenon, <1>8 DEF ArchivePurge, ArchiveClean, At, stores
    <2>2. arch # << >> /\ doom # "gone"
      BY Zenon, <1>2, <2>1, Archiving DEF EngInv
    <2>3. eng'[e] = Idle \/ eng'[e].pc = "aclean"
      BY Zenon, <1>3, <1>8, DoneHand, GotoHand DEF ArchivePurge, ArchiveClean, ArchiveThen
    <2>4. eng'[e].pc \notin {"derive", "objects", "dpurge"}
      BY Zenon, <2>3, IdleHand
    <2> QED
      BY Zenon, <1>1, <2>1, <2>2, <2>4, NotBareOne
  <1> QED
    BY Zenon, <1>4, <1>5, <1>6, <1>7, <1>8

LEMMA DispatchDel ==
    ASSUME IInv, Types, DelInv, Dispatch
    PROVE  DelInv'
  <1>1. Live /\ floor < head /\ UNCHANGED <<first, head, doom, eng>>
    BY Zenon DEF Dispatch
  <1>2. Live' /\ doom' # "gone"
    BY Zenon, <1>1 DEF Live, DelInv
  <1>3. floor # head
    BY SMT, <1>1, TypeFacts
  <1>4. \A f \in Engines : eng'[f].pc \notin {"derive", "objects", "dpurge"}
    <2>1. \A f \in Engines : eng'[f].pc \notin Removing
      BY Zenon, <1>1, <1>3 DEF IInv, HandOK
    <2> QED
      BY <2>1 DEF Removing
  <1> QED
    BY Zenon, <1>2, <1>4, NotBare

LEMMA ListedTail ==
    ASSUME NEW l \in Seq(Index), l # << >>, NEW x, Listed(x, l)
    PROVE  x = Head(l) \/ Listed(x, Tail(l))
  <1>1. PICK j \in 1 .. Len(l) : l[j] = x
    BY Zenon DEF Listed
  <1>2. CASE j = 1
    BY SMT, <1>1, <1>2
  <1>3. CASE j # 1
    <2> HIDE DEF Index
    <2>1. j - 1 \in 1 .. Len(Tail(l)) /\ Tail(l)[j - 1] = x
      BY SMT, <1>1, <1>3
    <2> QED
      BY Zenon, <2>1 DEF Listed
  <1> QED
    BY Zenon, <1>2, <1>3

LEMMA DeleteDel ==
    ASSUME Types, Solo, DelInv, NEW e \in Engines, Delete(e)
    PROVE  DelInv'
  <1> DEFINE S == SegmentsOf(head)
  <1>1. /\ UNCHANGED <<first, head, carried, segs, arch, snap, blobs, index>>
        /\ doom' = IF doom = "gone" THEN doom ELSE "erasing"
    BY Zenon DEF Delete, stores
  <1>2. (Cleared' <=> Cleared) /\ (Live' <=> Live) /\ (Underived' <=> Underived) /\ S' = S
    BY Zenon, <1>1, ClearedKept, SegmentsKept DEF Live, Underived
  <1>3. doom' = "gone" => doom = "gone"
    BY SMT, <1>1
  <1>4. eng'[e].pc = "derive" /\ eng'[e].list = IF Live \/ arch # << >> THEN S ELSE << >>
    BY Zenon, DeleteHand
  <1>5. \A k \in 1 .. Len(S) : segs[S[k]] = 0 \/ Listed(S[k], eng'[e].list)
    <2>1. CASE Live \/ arch # << >>
      BY Zenon, <1>4, <2>1 DEF Listed
    <2>2. CASE ~Live /\ arch = << >>
      BY Zenon, <2>2 DEF DelInv, Cleared
    <2> QED
      BY Zenon, <2>1, <2>2
  <1> HIDE DEF S
  <1>6. DelHand(e)'
    <2>1. \A k \in 1 .. Len(S') : segs'[S'[k]] = 0 \/ Listed(S'[k], eng'[e].list)
      BY Zenon, <1>1, <1>2, <1>5
    <2> QED
      BY SMTT(30), <1>4, <2>1 DEF DelHand, S
  <1> QED
    BY Zenon, <1>1, <1>2, <1>3, <1>6, DelEnd DEF DelInv

LEMMA DeleteDerivedDel ==
    ASSUME Types, Solo, DelInv, NEW e \in Engines, DeleteDerived(e)
    PROVE  DelInv'
  <1> DEFINE S == SegmentsOf(head)
  <1>1. UNCHANGED <<first, head, carried, segs, arch, doom>> /\ eng[e].pc = "derive"
    BY Zenon DEF DeleteDerived, At
  <1>2. (Cleared' <=> Cleared) /\ (Live' <=> Live) /\ S' = S
    BY Zenon, <1>1, ClearedKept, SegmentsKept DEF Live
  <1>3. PICK left \in SUBSET Derived :
           /\ DeleteSnapshot(left) /\ DeleteBlobs(left) /\ DeleteIndex(left)
           /\ (left = {} /\ Goto(e, "objects")) \/ Done(e)
    BY Zenon DEF DeleteDerived, Either
  <1>4. left = {} => Underived'
    <2>1. left = {} => snap' = 0 /\ index' = "none"
      BY SMT, <1>3 DEF DeleteSnapshot, DeleteIndex
    <2>2. left = {} => ~blobs'
      BY Zenon, <1>3 DEF DeleteBlobs
    <2> QED
      BY Zenon, <2>1, <2>2 DEF Underived
  <1>5. Underived => Underived'
    <2>1. Underived => snap' = 0 /\ index' = "none"
      BY SMT, <1>3 DEF DeleteSnapshot, DeleteIndex, Underived
    <2>2. Underived => ~blobs'
      BY Zenon, <1>3 DEF DeleteBlobs, Underived
    <2> QED
      BY Zenon, <2>1, <2>2 DEF Underived
  <1>6. DelHand(e)'
    <2>1. CASE Done(e)
      <3>1. eng'[e].pc = "idle"
        BY Zenon, <2>1, DoneHand, IdleHand
      <3> QED
        BY SMTT(30), <3>1 DEF DelHand
    <2>2. CASE left = {} /\ Goto(e, "objects")
      <3>1. "objects" \in Pcs
        BY DEF Pcs
      <3>2. eng'[e].pc = "objects" /\ eng'[e].list = eng[e].list
        BY Zenon, <2>2, <3>1, GotoHand DEF Same
      <3>3. \A k \in 1 .. Len(S) : segs[S[k]] = 0 \/ Listed(S[k], eng[e].list)
        BY Zenon, <1>1 DEF DelInv, DelHand
      <3> HIDE DEF S
      <3>4. \A k \in 1 .. Len(S') : segs'[S'[k]] = 0 \/ Listed(S'[k], eng'[e].list)
        BY Zenon, <1>1, <1>2, <3>2, <3>3
      <3> QED
        BY SMTT(90), <1>4, <2>2, <3>2, <3>4 DEF DelHand, S
    <2> QED
      BY Zenon, <1>3, <2>1, <2>2
  <1> QED
    BY Zenon, <1>1, <1>2, <1>5, <1>6, DelEnd DEF DelInv

LEMMA DeleteObjectsDel ==
    ASSUME Types, Solo, DelInv, NEW e \in Engines, DeleteObjects(e)
    PROVE  DelInv'
  <1> DEFINE S == SegmentsOf(head)
             l == eng[e].list
  <1>1. UNCHANGED <<first, head, carried, doom, snap, blobs, index>> /\ eng[e].pc = "objects"
    BY Zenon DEF DeleteObjects, At
  <1>2. (Live' <=> Live) /\ (Underived' <=> Underived) /\ S' = S
    BY Zenon, <1>1, SegmentsKept DEF Live, Underived
  <1>3. Underived /\ \A k \in 1 .. Len(S) : segs[S[k]] = 0 \/ Listed(S[k], l)
    BY Zenon, <1>1 DEF DelInv, DelHand
  <1>4. l \in Seq(Index) /\ DOMAIN segs = Index /\ \A k \in 1 .. Len(S) : S[k] \in Index
    <2>1. l \in Seq(Index) /\ DOMAIN segs = Index /\ S \in Seq(Index)
      BY Zenon, HandFacts, SegmentsType DEF Types, StoresOK
    <2> HIDE DEF S, Index
    <2>2. \A k \in 1 .. Len(S) : S[k] \in Index
      BY SMT, <2>1
    <2> QED
      BY Zenon, <2>1, <2>2
  <1>5. CASE l # << >> /\ eng'[e].pc = "objects" /\ eng'[e].list = Tail(l) /\ Head(l) \in Index
             /\ segs' = [segs EXCEPT ![Head(l)] = 0] /\ arch' = arch
    <2>1. \A x \in Index : segs'[x] = IF x = Head(l) THEN 0 ELSE segs[x]
      BY Zenon, <1>4, <1>5
    <2>2. \A k \in 1 .. Len(S) : segs'[S[k]] = 0 \/ Listed(S[k], Tail(l))
      BY Zenon, <1>3, <1>4, <1>5, <2>1, ListedTail
    <2>3. Cleared => Cleared'
      BY Zenon, <1>2, <1>4, <2>1 DEF Cleared, S
    <2>4. DelHand(e)'
      <3> HIDE DEF S, l
      <3>1. \A k \in 1 .. Len(S') : segs'[S'[k]] = 0 \/ Listed(S'[k], eng'[e].list)
        BY Zenon, <1>2, <1>5, <2>2
      <3> QED
        BY SMTT(30), <1>2, <1>3, <1>5, <3>1 DEF DelHand, S
    <2> QED
      BY Zenon, <1>1, <1>2, <1>3, <1>5, <2>3, <2>4, DelEnd DEF DelInv
  <1>6. CASE l = << >> /\ eng'[e].pc = "dpurge" /\ segs' = segs /\ arch' = << >>
    <2>1. \A x : ~Listed(x, << >>)
      BY SMT DEF Listed
    <2>2. Cleared
      BY Zenon, <1>3, <1>6, <2>1 DEF Cleared
    <2>3. Cleared'
      BY Zenon, <1>1, <1>6, <2>2, ClearedKept
    <2>4. DelHand(e)'
      BY SMTT(90), <1>2, <1>3, <1>6, <2>3 DEF DelHand
    <2> QED
      BY Zenon, <1>1, <1>2, <1>3, <1>6, <2>3, <2>4, DelEnd DEF DelInv
  <1> QED
    BY Zenon, <1>5, <1>6, DeleteObjectsHand

LEMMA DeletePurgeDel ==
    ASSUME Types, Solo, DelInv, NEW e \in Engines, DeletePurge(e)
    PROVE  DelInv'
  <1>1. /\ first' = head + 1 /\ UNCHANGED <<head, carried, segs, arch, snap, blobs, index>> /\ eng[e].pc = "dpurge"
        /\ Done(e)
    BY Zenon DEF DeletePurge, At, stores
  <1>2. Underived /\ arch = << >> /\ Cleared
    BY Zenon, <1>1 DEF DelInv, DelHand
  <1>3. Underived' /\ arch' = << >> /\ Cleared'
    BY Zenon, <1>1, <1>2, ClearedKept DEF Underived
  <1>4. ~Live'
    <2>1. ~(head + 1 <= head)
      BY SMT, TypeFacts
    <2> QED
      BY Zenon, <1>1, <2>1 DEF Live
  <1>5. eng'[e].pc = "idle"
    BY Zenon, <1>1, DoneHand, IdleHand
  <1>6. DelHand(e)'
    BY SMTT(30), <1>5 DEF DelHand
  <1> QED
    BY Zenon, <1>3, <1>4, <1>6, DelEnd

LEMMA DelStep ==
    ASSUME Solo
    PROVE  IInv /\ Types /\ SoloInv /\ DelInv /\ [Next]_vars => DelInv'
  <1> SUFFICES ASSUME IInv, Types, SoloInv, DelInv, [Next]_vars PROVE DelInv'
    BY Zenon
  <1>1. ASSUME NEW e \in Engines, Decide(e) \/ Work(e) PROVE DelInv'
    BY Zenon, <1>1, DecideDel, LiveWorkDel, ArchiveDel, DeleteDel, DeleteDerivedDel, DeleteObjectsDel,
       DeletePurgeDel DEF Work
  <1>2. ASSUME NEW e \in Engines, Stop(e) PROVE DelInv'
    <2>1. UNCHANGED <<first, head, carried, segs, arch, doom, snap, blobs, index>> /\ Done(e)
      BY Zenon, <1>2 DEF Stop, stores
    <2>2. \A f \in Engines : eng'[f] = eng[f] \/ eng'[f].pc = "idle"
      BY Zenon, <2>1, DoneHand, IdleHand DEF OthersKept
    <2> QED
      BY Zenon, <2>1, <2>2, BareQuiet
  <1>3. CASE WindowPasses \/ Reads \/ UNCHANGED vars
    <2>1. UNCHANGED <<first, head, carried, segs, arch, doom, snap, blobs, index, eng>>
      BY Zenon, <1>3, ReadsKeep DEF WindowPasses, system, vars, stores
    <2> QED
      BY Zenon, <2>1, BareQuiet
  <1> QED
    BY Zenon, <1>1, <1>2, <1>3, DispatchDel DEF Next

\* For an execution that one engine at a time handles, with any limits and
\* however often Archive and Delete are interrupted by a crash or an error and
\* retried: once a Delete of a retention command has finished, no log,
\* snapshot, blob, summary, archive object or listed segment is left.
THEOREM DeletionLeavesNothing ==
    ASSUME ~Manual, Solo
    PROVE  Spec => []DeletedClean
  <1>1. Init => DelInv
    <2> SUFFICES ASSUME Init PROVE DelInv
      BY Zenon
    <2>1. first = 1 /\ head = 1 /\ doom = "no" /\ eng = [e \in Engines |-> Idle]
      BY Zenon DEF Init
    <2>2. Live
      BY SMT, <2>1 DEF Live
    <2>3. ASSUME NEW e \in Engines PROVE DelHand(e)
      <3>1. eng[e].pc = "idle"
        BY Zenon, <2>1, IdleHand
      <3> QED
        BY SMTT(30), <3>1 DEF DelHand
    <2>4. doom # "gone"
      BY SMT, <2>1
    <2> QED
      BY Zenon, <2>2, <2>3, <2>4 DEF DelInv
  <1>2. DelInv => DeletedClean
    BY Zenon DEF DelInv, DeletedClean, Underived, Cleared
  <1> QED
    BY <1>1, <1>2, IInvInit, IInvStep, TypesInit, TypesStep, SoloInit, SoloStep, DelStep, PTL DEF Spec

----------------------------------------------------------------------------
\* Reads.

\* What a read may rely on between two calls.
ReadInv ==
  /\ DOMAIN reader = DOMAIN Rest
  /\ reader.upTo \in 0 .. head /\ reader.low \in 0 .. head /\ reader.st \in 0 .. head
  /\ reader.kind = "history" => reader.upTo = 0
  /\ reader.pc \in {"log", "first"} /\ reader.upTo > 0 => reader.st <= reader.upTo
  /\ reader.pc = "first" /\ first <= reader.st =>
        IF reader.upTo > 0 THEN reader.st = reader.upTo ELSE reader.low <= reader.st
  /\ reader.pc = "segments" =>
        /\ reader.lo \in DOMAIN carried /\ reader.list = carried[reader.lo]
        /\ reader.hi \in 0 .. head /\ reader.upTo <= reader.hi /\ reader.low <= reader.hi
  /\ reader.pc = "archive" => ~Live
  /\ ReadsRight
\* An archive whose log is still there is that of the log.
ArchInv == arch # << >> /\ Live => arch[1] = first

Right(n) == IF reader.upTo > 0 THEN n = reader.upTo ELSE n \in reader.low .. head

LEMMA SystemKept ==
    ASSUME UNCHANGED system
    PROVE  UNCHANGED <<first, head, carried, arch, doom>> /\ (Live' <=> Live) /\ (Unreadable' <=> Unreadable)
  <1>1. UNCHANGED <<first, head, carried, arch, doom>>
    BY Zenon DEF system, stores
  <1> QED
    BY Zenon, <1>1 DEF Live, Unreadable, IsBase

LEMMA AnswersOK ==
    ASSUME Types, ReadInv, UNCHANGED system, NEW r, NEW n, Answers(r, n),
           \/ r = "ok" /\ Right(n)
           \/ r \in {"missing", "error"} /\ doom # "no"
           \/ r = "error" /\ Unreadable
    PROVE  ReadInv'
  <1>1. /\ DOMAIN reader' = DOMAIN Rest /\ reader'.pc = "done" /\ reader'.kind = reader.kind
        /\ reader'.upTo = reader.upTo /\ reader'.low = reader.low /\ reader'.st = 0
        /\ reader'.res = r /\ reader'.got = n
    BY DEF Answers, Rest
  <1>2. ReadsRight'
    BY Zenon, <1>1, SystemKept DEF ReadsRight, Right
  <1>3. reader'.st \in 0 .. head
    BY SMT, <1>1, TypeFacts
  <1>4. reader'.pc \notin {"log", "first", "segments", "archive"}
    BY SMT, <1>1
  <1> QED
    BY Zenon, <1>1, <1>2, <1>3, <1>4, SystemKept DEF ReadInv

LEMMA MovesOK ==
    ASSUME Types, ReadInv, UNCHANGED system, NEW pc \in {"live", "archive", "first"}, Moves(pc),
           pc = "archive" => ~Live,
           pc = "first" => /\ reader.upTo > 0 => reader.st <= reader.upTo
                           /\ first <= reader.st => IF reader.upTo > 0 THEN reader.st = reader.upTo
                                                    ELSE reader.low <= reader.st
    PROVE  ReadInv'
  <1>1. {"pc", "kind", "upTo", "low", "st"} \subseteq DOMAIN reader
    BY DEF ReadInv, Rest
  <1>2. /\ DOMAIN reader' = DOMAIN reader /\ reader'.pc = pc /\ reader'.kind = reader.kind
        /\ reader'.upTo = reader.upTo /\ reader'.low = reader.low /\ reader'.st = reader.st
    BY Zenon, <1>1 DEF Moves
  <1>3. reader'.pc \notin {"log", "segments", "done"}
    BY SMT, <1>2
  <1>4. ReadsRight'
    BY Zenon, <1>3 DEF ReadsRight, ReaderAt
  <1> QED
    BY Zenon, <1>2, <1>3, <1>4, SystemKept DEF ReadInv

LEMMA ScratchOK ==
    ASSUME Types, ReadInv, UNCHANGED system, NEW s \in 0 .. head, reader.upTo > 0 => s <= reader.upTo,
           reader' = [reader EXCEPT !.st = s, !.pc = "log"]
    PROVE  ReadInv'
  <1>1. {"pc", "kind", "upTo", "low", "st"} \subseteq DOMAIN reader
    BY DEF ReadInv, Rest
  <1>2. /\ DOMAIN reader' = DOMAIN reader /\ reader'.pc = "log" /\ reader'.kind = reader.kind
        /\ reader'.upTo = reader.upTo /\ reader'.low = reader.low /\ reader'.st = s
    BY Zenon, <1>1
  <1>3. reader'.pc \notin {"first", "segments", "archive", "done"}
    BY SMT, <1>2
  <1>4. ReadsRight'
    BY Zenon, <1>3 DEF ReadsRight, ReaderAt
  <1> QED
    BY Zenon, <1>2, <1>3, <1>4, SystemKept DEF ReadInv

LEMMA ReadFacts ==
    ASSUME Types, ReadInv
    PROVE  /\ reader.upTo \in Nat /\ reader.low \in Nat /\ reader.st \in Nat /\ head \in Nat
           /\ reader.upTo <= head /\ reader.low <= head /\ reader.st <= head
           /\ first \in Nat /\ first >= 1 /\ head >= 1
  BY SMT, TypeFacts DEF ReadInv

\* A state that has seen everything up to hi, and the call's bound.
LEMMA BoundRight ==
    ASSUME Types, ReadInv, NEW hi \in Nat, hi <= head, reader.upTo <= hi, reader.low <= hi
    PROVE  Right(Bound(hi)) /\ Bound(hi) = IF reader.upTo = 0 THEN hi ELSE reader.upTo
  <1>1. Min({reader.upTo, hi}) = reader.upTo
    BY SMT, ReadFacts, MinOfTwo
  <1>2. Bound(hi) = IF reader.upTo = 0 THEN hi ELSE reader.upTo
    BY Zenon, <1>1 DEF Bound
  <1> QED
    BY SMT, <1>2, ReadFacts DEF Right

LEMMA StartReadOK ==
    ASSUME Types, StartRead
    PROVE  ReadInv'
  <1>1. PICK kind \in {"state", "history"}, upTo \in 0 .. head :
           /\ kind = "history" => upTo = 0
           /\ reader' = [Rest EXCEPT !.pc = IF kind = "history" THEN "live" ELSE "snap",
                           !.kind = kind, !.upTo = upTo, !.low = head]
    BY Zenon DEF StartRead
  <1>2. UNCHANGED system
    BY Zenon DEF StartRead
  <1>3. /\ DOMAIN reader' = DOMAIN Rest /\ reader'.pc \in {"live", "snap"} /\ reader'.kind = kind
        /\ reader'.upTo = upTo /\ reader'.low = head /\ reader'.st = 0
    BY <1>1 DEF Rest
  <1>4. reader'.pc \notin {"log", "first", "segments", "archive", "done"}
    BY SMT, <1>3
  <1>5. head \in 0 .. head /\ 0 \in 0 .. head
    BY SMT, TypeFacts
  <1>6. ReadsRight'
    BY Zenon, <1>4 DEF ReadsRight, ReaderAt
  <1> QED
    BY Zenon, <1>1, <1>2, <1>3, <1>4, <1>5, <1>6, SystemKept DEF ReadInv

LEMMA ReadSnapshotOK ==
    ASSUME Types, ReadInv, ReadSnapshot
    PROVE  ReadInv'
  <1> DEFINE s == IF reader.upTo > 0 /\ snap > reader.upTo THEN 0 ELSE snap
  <1>1. UNCHANGED system /\ reader' = [reader EXCEPT !.pc = "log", !.st = s]
    BY Zenon DEF ReadSnapshot
  <1>2. snap \in 0 .. head
    BY Zenon DEF Types, StoresOK
  <1>3. s \in 0 .. head /\ (reader.upTo > 0 => s <= reader.upTo)
    BY SMT, <1>2, ReadFacts
  <1> HIDE DEF s
  <1>4. reader' = [reader EXCEPT !.st = s, !.pc = "log"]
    BY <1>1
  <1> QED
    BY Zenon, <1>1, <1>3, <1>4, ScratchOK

LEMMA ReadLogOK ==
    ASSUME Types, ReadInv, ReadLog
    PROVE  ReadInv'
  <1> DEFINE st == reader.st
             lo == Max({first, st + 1})
             hi == Bound(head)
  <1>1. reader.pc = "log" /\ UNCHANGED system
    BY Zenon DEF ReadLog, ReaderAt
  <1>2. lo \in Nat /\ lo = IF first <= st + 1 THEN st + 1 ELSE first
    BY SMT, ReadFacts, MaxOfTwo
  <1>3. Right(hi) /\ hi = IF reader.upTo = 0 THEN head ELSE reader.upTo
    <2>1. head <= head
      BY SMT, ReadFacts
    <2> QED
      BY Zenon, <2>1, ReadFacts, BoundRight
  <1>4. reader.upTo > 0 => st <= reader.upTo
    BY Zenon, <1>1 DEF ReadInv
  <1>5. \/ st # 0 /\ lo > hi /\ Moves("first")
        \/ ~(st # 0 /\ lo > hi) /\ ~Continues(st, lo, hi) /\ WithoutSnapshot
        \/ ~(st # 0 /\ lo > hi) /\ Continues(st, lo, hi) /\ Settle(st, lo, hi)
    BY Zenon DEF ReadLog
  <1> HIDE DEF lo, hi
  <1>6. CASE st # 0 /\ lo > hi /\ Moves("first")
    <2>1. first <= st => IF reader.upTo > 0 THEN st = reader.upTo ELSE reader.low <= st
      BY SMT, <1>2, <1>3, <1>4, <1>6, ReadFacts
    <2>2. "first" \in {"live", "archive", "first"} /\ "first" # "archive"
      BY SMT
    <2> QED
      BY Zenon, <1>1, <1>4, <1>6, <2>1, <2>2, MovesOK
  <1>7. CASE WithoutSnapshot
    <2>1. reader' = [reader EXCEPT !.st = 0]
      BY Zenon, <1>7 DEF WithoutSnapshot
    <2>2. reader' = [reader EXCEPT !.st = 0, !.pc = "log"]
      BY <1>1, <2>1
    <2>3. 0 \in 0 .. head /\ 0 <= reader.upTo
      BY SMT, ReadFacts
    <2> QED
      BY Zenon, <1>1, <2>2, <2>3, ScratchOK
  <1>8. CASE ~(st # 0 /\ lo > hi) /\ Continues(st, lo, hi) /\ Settle(st, lo, hi)
    <2>1. ~(st = 0 /\ lo > hi) => st = 0 \/ lo = st + 1
      BY Zenon, <1>8 DEF Continues
    <2>2. \/ st = 0 /\ lo > hi /\ Moves(IF reader.upTo > 0 THEN "live" ELSE "archive")
          \/ Returns(hi)
          \/ Moves("live")
      BY Zenon, <1>8, <2>1 DEF Settle
    <2>3. CASE Returns(hi)
      BY Zenon, <1>1, <1>3, <2>3, AnswersOK DEF Returns
    <2>4. CASE Moves("live")
      <3>1. "live" \in {"live", "archive", "first"} /\ "live" # "archive" /\ "live" # "first"
        BY SMT
      <3> QED
        BY Zenon, <1>1, <2>4, <3>1, MovesOK
    <2>5. CASE st = 0 /\ lo > hi /\ Moves(IF reader.upTo > 0 THEN "live" ELSE "archive")
      <3> DEFINE pc == IF reader.upTo > 0 THEN "live" ELSE "archive"
      <3>1. pc \in {"live", "archive", "first"} /\ pc # "first"
        BY SMT
      <3>2. pc = "archive" => ~(reader.upTo > 0)
        BY SMT
      <3>3. ~(reader.upTo > 0) => ~Live
        BY SMT, <1>2, <1>3, <2>5, ReadFacts DEF Live
      <3>4. Moves(pc)
        BY Zenon, <2>5
      <3> HIDE DEF pc
      <3> QED
        BY Zenon, <1>1, <3>1, <3>2, <3>3, <3>4, MovesOK
    <2> QED
      BY Zenon, <2>2, <2>3, <2>4, <2>5
  <1> QED
    BY Zenon, <1>5, <1>6, <1>7, <1>8

LEMMA FirstSeqOK ==
    ASSUME Types, ReadInv, FirstSeq
    PROVE  ReadInv'
  <1>1. reader.pc = "first" /\ UNCHANGED system
    BY Zenon DEF FirstSeq, ReaderAt
  <1>2. CASE Live /\ first <= reader.st
    <2>1. Returns(reader.st)
      BY Zenon, <1>2 DEF FirstSeq
    <2>2. IF reader.upTo > 0 THEN reader.st = reader.upTo ELSE reader.low <= reader.st
      BY Zenon, <1>1, <1>2 DEF ReadInv
    <2>3. Right(reader.st)
      BY SMT, <2>2, ReadFacts DEF Right
    <2> QED
      BY Zenon, <1>1, <2>1, <2>3, AnswersOK DEF Returns
  <1>3. CASE ~(Live /\ first <= reader.st)
    <2>1. reader' = [reader EXCEPT !.st = 0, !.pc = "log"]
      BY Zenon, <1>3 DEF FirstSeq
    <2>2. 0 \in 0 .. head /\ 0 <= reader.upTo
      BY SMT, ReadFacts
    <2> QED
      BY Zenon, <1>1, <2>1, <2>2, ScratchOK
  <1> QED
    BY Zenon, <1>2, <1>3

\* Assemble and Whole, of events that begin no later than the last base.
LEMMA AssembleOK ==
    ASSUME Types, ReadInv, UNCHANGED system, NEW lo \in Nat, lo >= 1, lo <= Base, Assemble(lo, head)
    PROVE  ReadInv'
  <1>0. head \in 0 .. head /\ head \in Nat /\ head <= head /\ reader.upTo <= head /\ reader.low <= head
    BY SMT, ReadFacts
  <1>1. CASE \E c \in DOMAIN carried : c \in lo .. head
    <2>1. BaseOf(head) \in DOMAIN carried
      <3>1. BaseOf(head) # 0
        <4>1. BaseOf(head) = 0 => DOMAIN carried = {}
          BY Zenon, BaseFacts
        <4> QED
          BY Zenon, <1>1, <4>1
      <3> QED
        BY Zenon, <3>1, SegmentsType
    <2>2. reader' = [reader EXCEPT !.pc = "segments", !.lo = BaseOf(head), !.hi = head, !.list = carried[BaseOf(head)]]
      BY Zenon, <1>1 DEF Assemble
    <2>3. {"pc", "kind", "upTo", "low", "st", "lo", "hi", "list"} \subseteq DOMAIN reader
      BY DEF ReadInv, Rest
    <2>4. /\ DOMAIN reader' = DOMAIN reader /\ reader'.pc = "segments" /\ reader'.kind = reader.kind
          /\ reader'.upTo = reader.upTo /\ reader'.low = reader.low /\ reader'.st = reader.st
          /\ reader'.lo = BaseOf(head) /\ reader'.hi = head /\ reader'.list = carried[BaseOf(head)]
      BY Zenon, <2>2, <2>3
    <2>5. reader'.pc \notin {"log", "first", "archive", "done"}
      BY SMT, <2>4
    <2>6. ReadsRight'
      BY Zenon, <2>5 DEF ReadsRight, ReaderAt
    <2> QED
      BY Zenon, <1>0, <2>1, <2>4, <2>5, <2>6, SystemKept DEF ReadInv
  <1>2. CASE ~\E c \in DOMAIN carried : c \in lo .. head
    <2>1. BaseOf(head) = 0
      <3>1. SUFFICES ASSUME BaseOf(head) # 0 PROVE FALSE
        BY Zenon
      <3>2. Base \in DOMAIN carried /\ Base \in 1 .. head
        BY Zenon, <3>1, BaseFacts
      <3>3. Base \in lo .. head
        BY SMT, <3>2, ReadFacts
      <3> QED
        BY Zenon, <1>2, <3>2, <3>3
    <2>2. lo = 1
      <3>1. Base = 1
        BY Zenon, <2>1, BaseFacts
      <3> QED
        BY SMT, <3>1
    <2>3. Whole(1, head)
      BY Zenon, <1>2, <2>2 DEF Assemble
    <2>4. Right(Bound(head)) /\ Bound(head) = IF reader.upTo = 0 THEN head ELSE reader.upTo
      BY Zenon, <1>0, BoundRight
    <2>5. reader.kind = "history" => Bound(head) = head
      BY Zenon, <2>4 DEF ReadInv
    <2>6. Returns(Bound(head))
      BY Zenon, <2>3, <2>5 DEF Whole, IsBase
    <2> QED
      BY Zenon, <2>4, <2>6, AnswersOK DEF Returns
  <1> QED
    BY Zenon, <1>1, <1>2

LEMMA ReadLiveOK ==
    ASSUME Types, SoloInv, ReadInv, ReadLive
    PROVE  ReadInv'
  <1>1. UNCHANGED system
    BY Zenon DEF ReadLive
  <1>2. CASE Live
    <2>1. Assemble(first, head) /\ first <= Base
      BY Zenon, <1>2 DEF ReadLive, SoloInv, LogInv
    <2> QED
      BY Zenon, <1>1, <2>1, ReadFacts, AssembleOK
  <1>3. CASE ~Live
    <2>1. Moves("archive")
      BY Zenon, <1>3 DEF ReadLive
    <2>2. "archive" \in {"live", "archive", "first"} /\ "archive" # "first"
      BY SMT
    <2> QED
      BY Zenon, <1>1, <1>3, <2>1, <2>2, MovesOK
  <1> QED
    BY Zenon, <1>2, <1>3

LEMMA ReadSegmentsOK ==
    ASSUME Types, SoloInv, ReadInv, ReadSegments
    PROVE  ReadInv'
  <1> DEFINE l == reader.list
             c == reader.lo
             n == Len(l)
             next(k) == IF k = n THEN c ELSE l[k + 1]
             joined == /\ l[1] = 1 /\ c = segs[l[n]] + 1
                       /\ \A k \in 2 .. n : l[k] = segs[l[k - 1]] + 1
  <1>1. reader.pc = "segments" /\ UNCHANGED system
    BY Zenon DEF ReadSegments, ReaderAt
  <1>2. /\ c \in DOMAIN carried /\ l = carried[c]
        /\ reader.hi \in 0 .. head /\ reader.upTo <= reader.hi /\ reader.low <= reader.hi
    BY Zenon, <1>1 DEF ReadInv
  <1>3. n \in Nat /\ c \in Nat
    <2>1. l \in Seq(Index) /\ c \in 2 .. head
      BY Zenon, <1>2, TypeFacts DEF Types, ListsOK
    <2> HIDE DEF l, Index
    <2> QED
      BY SMT, <2>1, TypeFacts
  <1>4. /\ n >= 1 /\ l[1] = 1
        /\ \A k \in 1 .. n : next(k) >= 2 /\ (segs[l[k]] = next(k) - 1 \/ (doom # "no" /\ segs[l[k]] = 0))
    <2>1. Chain(c)
      BY Zenon, <1>2 DEF SoloInv, LogInv
    <2> QED
      BY Zenon, <1>2, <2>1 DEF Chain, Erased
  <1>5. \A k \in 1 .. n : next(k) \in Nat
    <2>1. l \in Seq(Index)
      BY Zenon, <1>2 DEF Types, ListsOK
    <2>2. \A x \in Index : x \in Nat
      BY SMT, TypeFacts DEF Index
    <2>3. \A k \in 1 .. n : k # n => l[k + 1] \in Index
      <3> HIDE DEF Index, l
      <3> QED
        BY SMT, <2>1 
    <2> QED
      BY Zenon, <1>3, <2>2, <2>3
  <1>6. CASE \E k \in 1 .. n : segs[l[k]] = 0
    <2>1. Refuses("error")
      BY Zenon, <1>6 DEF ReadSegments
    <2>2. doom # "no"
      <3>1. PICK k \in 1 .. n : segs[l[k]] = 0
        BY Zenon, <1>6
      <3>2. next(k) >= 2 /\ next(k) \in Nat /\ (segs[l[k]] = next(k) - 1 \/ (doom # "no" /\ segs[l[k]] = 0))
        BY Zenon, <1>4, <1>5
      <3> HIDE DEF next, l
      <3> QED
        BY SMT, <3>1, <3>2
    <2>3. "error" \in {"missing", "error"}
      BY Zenon
    <2> QED
      BY Zenon, <1>1, <2>1, <2>2, <2>3, AnswersOK DEF Refuses
  <1>7. CASE ~\E k \in 1 .. n : segs[l[k]] = 0
    <2>1. \A k \in 1 .. n : segs[l[k]] + 1 = next(k)
      <3> TAKE k \in 1 .. n
      <3>1. next(k) \in Nat /\ segs[l[k]] = next(k) - 1
        BY Zenon, <1>4, <1>5, <1>7
      <3> HIDE DEF next, l
      <3> QED
        BY SMT, <3>1
    <2>2. c = segs[l[n]] + 1
      <3>1. n \in 1 .. n
        BY SMT, <1>3, <1>4
      <3> QED
        BY Zenon, <2>1, <3>1
    <2>3. \A k \in 2 .. n : l[k] = segs[l[k - 1]] + 1
      <3> TAKE k \in 2 .. n
      <3>1. k - 1 \in 1 .. n /\ k - 1 # n /\ (k - 1) + 1 = k
        BY SMT, <1>3
      <3>2. segs[l[k - 1]] + 1 = l[(k - 1) + 1]
        BY Zenon, <2>1, <3>1
      <3> QED
        BY Zenon, <3>1, <3>2
    <2>4. joined
      BY Zenon, <1>4, <2>2, <2>3
    <2>5. Returns(Bound(reader.hi))
      BY Zenon, <1>7, <2>4 DEF ReadSegments
    <2>6. Right(Bound(reader.hi))
      <3>1. reader.hi \in Nat /\ reader.hi <= head
        BY SMT, <1>2, ReadFacts
      <3> QED
        BY Zenon, <1>2, <3>1, BoundRight
    <2> QED
      BY Zenon, <1>1, <2>5, <2>6, AnswersOK DEF Returns
  <1> QED
    BY Zenon, <1>6, <1>7

LEMMA ReadArchiveOK ==
    ASSUME Types, SoloInv, ReadInv, ReadArchive
    PROVE  ReadInv'
  <1>1. reader.pc = "archive" /\ UNCHANGED system
    BY Zenon DEF ReadArchive, ReaderAt
  <1>2. ~Live
    BY Zenon, <1>1 DEF ReadInv
  <1>3. CASE arch = << >>
    <2>1. Refuses("missing")
      BY Zenon, <1>3 DEF ReadArchive
    <2>2. doom # "no" /\ "missing" \in {"missing", "error"}
      BY Zenon, <1>2, <1>3 DEF SoloInv, LogInv
    <2> QED
      BY Zenon, <1>1, <2>1, <2>2, AnswersOK DEF Refuses
  <1>4. CASE arch # << >>
    <2>1. arch[2] = head /\ arch[1] <= Base
      BY Zenon, <1>4 DEF SoloInv, LogInv
    <2>2. arch[1] \in Nat /\ arch[1] >= 1
      <3>1. arch \in Range2
        BY Zenon, <1>4 DEF Types, StoresOK
      <3> QED
        BY SMT, <3>1, TypeFacts DEF Range2
    <2>3. ~(arch[1] > arch[2])
      <3>1. Base \in 1 .. head
        BY Zenon, BaseFacts
      <3> QED
        BY SMT, <2>1, <2>2, <3>1, ReadFacts
    <2>4. CASE reader.kind = "history" \/ (reader.upTo > 0 /\ arch[1] > reader.upTo)
      <3>1. Assemble(arch[1], head)
        BY Zenon, <1>4, <2>1, <2>3, <2>4 DEF ReadArchive
      <3> QED
        BY Zenon, <1>1, <2>1, <2>2, <3>1, AssembleOK
    <2>5. CASE ~(reader.kind = "history" \/ (reader.upTo > 0 /\ arch[1] > reader.upTo))
      <3>1. Whole(arch[1], head)
        BY Zenon, <1>4, <2>1, <2>3, <2>5 DEF ReadArchive
      <3>2. (IsBase(arch[1]) /\ Returns(Bound(head))) \/ (~IsBase(arch[1]) /\ Refuses("error"))
        BY Zenon, <2>5, <3>1 DEF Whole
      <3>3. Right(Bound(head))
        <4>1. head <= head
          BY SMT, ReadFacts
        <4> QED
          BY Zenon, <4>1, ReadFacts, BoundRight
      <3>4. CASE Returns(Bound(head))
        BY Zenon, <1>1, <3>3, <3>4, AnswersOK DEF Returns
      <3>5. CASE ~IsBase(arch[1]) /\ Refuses("error")
        <4>1. Unreadable
          BY Zenon, <1>4, <3>5 DEF Unreadable
        <4> QED
          BY Zenon, <1>1, <3>5, <4>1, AnswersOK DEF Refuses
      <3> QED
        BY Zenon, <3>2, <3>4, <3>5
    <2> QED
      BY Zenon, <2>4, <2>5
  <1> QED
    BY Zenon, <1>3, <1>4

\* What no step of an engine takes back.
Grows ==
  /\ head' \in Nat /\ head' >= head /\ first' \in Nat /\ first' >= first
  /\ \A c \in DOMAIN carried : c \in DOMAIN carried' /\ carried'[c] = carried[c]
  /\ ended => ended' /\ head' = head /\ carried' = carried
  /\ ended /\ Live' => first' = first
  /\ doom # "no" => doom' # "no"
  /\ \/ arch' = arch
     \/ doom # "no" /\ arch' = << >>
     \/ arch' # << >> /\ arch'[1] = first /\ first' = first /\ Live

LEMMA GrowsQuietly ==
    ASSUME Types, UNCHANGED <<first, head, carried, ended, arch>>, doom # "no" => doom' # "no"
    PROVE  Grows
  <1>1. head' \in Nat /\ head' >= head /\ first' \in Nat /\ first' >= first
    BY SMT, TypeFacts
  <1> QED
    BY Zenon, <1>1 DEF Grows

LEMMA GrowsAppending ==
    ASSUME Types, SoloInv, NEW e \in Engines, Decide(e) \/ (AppendContinued(e) /\ head = eng[e].n)
    PROVE  Grows
  <1>1. ~ended /\ head' = head + 1 /\ UNCHANGED <<first, arch, doom>>
    <2>1. CASE Decide(e)
      BY Zenon, <2>1 DEF Decide
    <2>2. CASE AppendContinued(e) /\ head = eng[e].n
      <3>1. eng[e].pc = "continue" /\ head' = head + 1 /\ UNCHANGED <<first, arch, doom>>
        BY Zenon, <2>2 DEF AppendContinued, At, stores
      <3>2. ~ended
        BY Zenon, <3>1 DEF SoloInv, EngInv
      <3> QED
        BY Zenon, <3>1, <3>2
    <2> QED
      BY Zenon, <2>1, <2>2
  <1>2. \A c \in DOMAIN carried : c \in DOMAIN carried' /\ carried'[c] = carried[c]
    BY Zenon DEF Decide, AppendContinued
  <1>3. head' \in Nat /\ head' >= head /\ first' \in Nat /\ first' >= first
    BY SMT, <1>1, TypeFacts
  <1> QED
    BY Zenon, <1>1, <1>2, <1>3 DEF Grows

LEMMA GrowsPurging ==
    ASSUME Types, SoloInv, NEW e \in Engines, Purge(e) \/ ArchivePurge(e) \/ DeletePurge(e)
    PROVE  Grows
  <1>1. UNCHANGED <<head, carried, ended, arch>>
    BY Zenon DEF Purge, ArchivePurge, DeletePurge, stores
  <1>2. doom # "no" => doom' # "no"
    <2>1. doom' = doom \/ doom' = "gone"
      BY Zenon DEF Purge, ArchivePurge, DeletePurge
    <2> QED
      BY SMT, <2>1
  <1>3. first' \in Nat /\ first' >= first /\ head' \in Nat /\ head' >= head
    <2>1. CASE Purge(e)
      BY SMT, <1>1, <2>1, PurgeBound, TypeFacts
    <2>2. CASE ArchivePurge(e) \/ DeletePurge(e)
      <3>1. first' = head + 1
        BY Zenon, <2>2 DEF ArchivePurge, DeletePurge
      <3> QED
        BY SMT, <1>1, <3>1, TypeFacts
    <2> QED
      BY Zenon, <2>1, <2>2
  <1>4. ended /\ Live' => first' = first
    <2>1. CASE Purge(e)
      <3>1. eng[e].pc = "purge"
        BY Zenon, <2>1 DEF Purge, At
      <3>2. ~ended
        BY Zenon, <3>1 DEF SoloInv, EngInv
      <3> QED
        BY Zenon, <3>2
    <2>2. CASE ArchivePurge(e) \/ DeletePurge(e)
      <3>1. first' = head + 1
        BY Zenon, <2>2 DEF ArchivePurge, DeletePurge
      <3> QED
        BY SMT, <1>1, <3>1, TypeFacts DEF Live
    <2> QED
      BY Zenon, <2>1, <2>2
  <1> QED
    BY Zenon, <1>1, <1>2, <1>3, <1>4 DEF Grows

LEMMA GrowsArchiving ==
    ASSUME Types, SoloInv, NEW e \in Engines, ArchivePut(e) \/ DeleteObjects(e)
    PROVE  Grows
  <1>1. UNCHANGED <<first, head, carried, ended, doom>>
    BY Zenon DEF ArchivePut, DeleteObjects
  <1>2. \/ arch' = arch
        \/ doom # "no" /\ arch' = << >>
        \/ arch' # << >> /\ arch'[1] = first /\ first' = first /\ Live
    <2>1. EngInv(e)
      BY Zenon DEF SoloInv
    <2>2. CASE ArchivePut(e)
      <3>1. eng[e].pc = "aput" /\ arch' = <<eng[e].lo, eng[e].hi>>
        BY Zenon, <2>2 DEF ArchivePut, At
      <3>2. eng[e].lo = first /\ Live
        BY Zenon, <2>1, <3>1 DEF EngInv
      <3>3. arch' # << >> /\ arch'[1] = first
        BY SMT, <3>1, <3>2
      <3> QED
        BY Zenon, <1>1, <3>2, <3>3
    <2>3. CASE DeleteObjects(e)
      <3>1. eng[e].pc = "objects" /\ (arch' = arch \/ arch' = << >>)
        BY Zenon, <2>3 DEF DeleteObjects, At
      <3>2. doom # "no"
        BY Zenon, <2>1, <3>1 DEF EngInv
      <3> QED
        BY Zenon, <3>1, <3>2
    <2> QED
      BY Zenon, <2>2, <2>3
  <1>3. head' \in Nat /\ head' >= head /\ first' \in Nat /\ first' >= first
    BY SMT, <1>1, TypeFacts
  <1> QED
    BY Zenon, <1>1, <1>2, <1>3 DEF Grows

LEMMA NextGrows ==
    ASSUME Types, SoloInv, [Next]_vars
    PROVE  Grows
  <1>1. ASSUME NEW e \in Engines, Work(e) PROVE Grows
    <2>1. CASE Save(e) \/ SaveContinued(e) \/ ReadSegment(e) \/ PutSegment(e) \/ ReadFloor(e)
      <3>1. UNCHANGED <<first, head, carried, ended, arch, doom>>
        BY Zenon, <2>1 DEF Save, SaveContinued, ReadSegment, PutSegment, ReadFloor, stores
      <3> QED
        BY Zenon, <3>1, GrowsQuietly
    <2>2. CASE Archive(e) \/ ArchiveRead(e) \/ ArchiveExpire(e) \/ ArchiveClean(e) \/ DeleteDerived(e)
      <3>1. UNCHANGED <<first, head, carried, ended, arch, doom>>
        BY Zenon, <2>2 DEF Archive, ArchiveRead, ArchiveExpire, ArchiveClean, DeleteDerived, stores
      <3> QED
        BY Zenon, <3>1, GrowsQuietly
    <2>3. CASE Delete(e)
      <3>1. UNCHANGED <<first, head, carried, ended, arch>> /\ doom' = IF doom = "gone" THEN doom ELSE "erasing"
        BY Zenon, <2>3 DEF Delete, stores
      <3>2. doom' # "no"
        BY SMT, <3>1
      <3> QED
        BY Zenon, <3>1, <3>2, GrowsQuietly
    <2>4. CASE AppendContinued(e) /\ head # eng[e].n
      <3>1. UNCHANGED <<first, head, carried, ended, arch, doom>>
        BY Zenon, <2>4 DEF AppendContinued, stores
      <3> QED
        BY Zenon, <3>1, GrowsQuietly
    <2> QED
      BY Zenon, <1>1, <2>1, <2>2, <2>3, <2>4, GrowsAppending, GrowsPurging, GrowsArchiving DEF Work
  <1>2. ASSUME NEW e \in Engines, Decide(e) \/ Stop(e) PROVE Grows
    <2>1. CASE Stop(e)
      <3>1. UNCHANGED <<first, head, carried, ended, arch, doom>>
        BY Zenon, <2>1 DEF Stop, stores
      <3> QED
        BY Zenon, <3>1, GrowsQuietly
    <2> QED
      BY Zenon, <1>2, <2>1, GrowsAppending
  <1>3. CASE Dispatch \/ WindowPasses \/ Reads \/ UNCHANGED vars
    <2>1. UNCHANGED <<first, head, carried, ended, arch, doom>>
      BY Zenon, <1>3, ReadsKeep DEF Dispatch, WindowPasses, system, vars, stores
    <2> QED
      BY Zenon, <2>1, GrowsQuietly
  <1> QED
    BY Zenon, <1>1, <1>2, <1>3 DEF Next

\* A log that is gone does not come back.
LEMMA StaysDown ==
    ASSUME Types, SoloInv, Grows, ~Live
    PROVE  ~Live'
  <1>1. head' = head
    BY Zenon DEF SoloInv, LogInv, Grows
  <1> QED
    BY SMT, <1>1, TypeFacts DEF Live, Grows

LEMMA ArchStep ==
    ASSUME Types, SoloInv, Grows, ArchInv
    PROVE  ArchInv'
  <1> SUFFICES ASSUME arch' # << >>, Live' PROVE arch'[1] = first'
    BY Zenon DEF ArchInv
  <1>1. Live
    BY Zenon, StaysDown
  <1>2. CASE arch' = arch
    <2>1. ended /\ arch[1] = first
      BY Zenon, <1>1, <1>2 DEF SoloInv, LogInv, ArchInv
    <2> QED
      BY Zenon, <1>2, <2>1 DEF Grows
  <1>3. CASE arch' # arch
    BY Zenon, <1>3 DEF Grows
  <1> QED
    BY Zenon, <1>2, <1>3

\* An answer stays right while the engines go on.
LEMMA ReadKept ==
    ASSUME Types, SoloInv, ArchInv, Grows, ReadInv, reader' = reader
    PROVE  ReadInv'
  <1>1. Unreadable => Unreadable' \/ doom' # "no"
    <2> SUFFICES ASSUME Unreadable, doom' = "no" PROVE Unreadable'
      BY Zenon
    <2>1. arch # << >> /\ ~IsBase(arch[1]) /\ ended
      BY Zenon DEF Unreadable, SoloInv, LogInv
    <2>2. carried' = carried /\ doom = "no"
      BY Zenon, <2>1 DEF Grows
    <2>3. arch' # << >> /\ arch'[1] = arch[1]
      <3>1. CASE arch' = arch
        BY Zenon, <2>1, <3>1
      <3>2. CASE arch' # arch
        BY Zenon, <2>1, <2>2, <3>2 DEF Grows, ArchInv
      <3> QED
        BY Zenon, <3>1, <3>2
    <2> QED
      BY Zenon, <2>1, <2>2, <2>3 DEF Unreadable, IsBase
  <1>2. \A x : x \in 0 .. head => x \in 0 .. head'
    BY SMT, TypeFacts DEF Grows
  <1>3. \A x : x \in reader.low .. head => x \in reader.low .. head'
    BY SMT, ReadFacts DEF Grows
  <1>4. first' <= reader.st => first <= reader.st
    BY SMT, ReadFacts DEF Grows
  <1>5. ReadsRight'
    <2>1. CASE reader.pc # "done"
      BY Zenon, <2>1 DEF ReadsRight, ReaderAt
    <2>2. CASE reader.pc = "done"
      <3>1. \/ reader.res = "ok" /\ IF reader.upTo > 0 THEN reader.got = reader.upTo
                                    ELSE reader.got \in reader.low .. head
            \/ reader.res \in {"missing", "error"} /\ doom # "no"
            \/ reader.res = "error" /\ Unreadable
        BY Zenon, <2>2 DEF ReadInv, ReadsRight, ReaderAt
      <3>2. doom # "no" => doom' # "no"
        BY Zenon DEF Grows
      <3>3. \/ reader.res = "ok" /\ IF reader.upTo > 0 THEN reader.got = reader.upTo
                                    ELSE reader.got \in reader.low .. head'
            \/ reader.res \in {"missing", "error"} /\ doom' # "no"
            \/ reader.res = "error" /\ Unreadable'
        BY Zenon, <1>1, <1>3, <3>1, <3>2
      <3> QED
        BY Zenon, <3>3 DEF ReadsRight
    <2> QED
      BY Zenon, <2>1, <2>2
  <1>6. reader.pc = "archive" => ~Live'
    BY Zenon, StaysDown DEF ReadInv
  <1>7. reader.pc = "segments" =>
          /\ reader.lo \in DOMAIN carried' /\ reader.list = carried'[reader.lo]
          /\ reader.hi \in 0 .. head' /\ reader.upTo <= reader.hi /\ reader.low <= reader.hi
    BY Zenon, <1>2 DEF ReadInv, Grows
  <1>8. reader.upTo \in 0 .. head' /\ reader.low \in 0 .. head' /\ reader.st \in 0 .. head'
    BY Zenon, <1>2 DEF ReadInv
  <1> QED
    BY Zenon, <1>4, <1>5, <1>6, <1>7, <1>8 DEF ReadInv

LEMMA ReadStep == Types /\ SoloInv /\ ArchInv /\ ReadInv /\ [Next]_vars => ReadInv' /\ ArchInv'
  <1> SUFFICES ASSUME Types, SoloInv, ArchInv, ReadInv, [Next]_vars PROVE ReadInv' /\ ArchInv'
    BY Zenon
  <1>1. Grows
    BY Zenon, NextGrows
  <1>2. CASE Reads
    BY Zenon, <1>1, <1>2, ArchStep, StartReadOK, ReadSnapshotOK, ReadLogOK, FirstSeqOK, ReadLiveOK, ReadSegmentsOK,
       ReadArchiveOK DEF Reads
  <1>3. CASE ~Reads
    <2>1. reader' = reader
      <3>1. ASSUME NEW e \in Engines, Work(e) PROVE reader' = reader
        BY Zenon, <3>1 DEF Work, Save, ReadSegment, PutSegment, AppendContinued, SaveContinued, ReadFloor, Purge, Archive,
           ArchiveRead, ArchivePut, ArchiveExpire, ArchivePurge, ArchiveClean, Delete, DeleteDerived, DeleteObjects,
           DeletePurge
      <3>2. ASSUME NEW e \in Engines, Decide(e) \/ Stop(e) PROVE reader' = reader
        BY Zenon, <3>2 DEF Decide, Stop
      <3> QED
        BY Zenon, <1>3, <3>1, <3>2 DEF Next, Dispatch, WindowPasses, vars
    <2> QED
      BY Zenon, <1>1, <2>1, ArchStep, ReadKept
  <1> QED
    BY Zenon, <1>2, <1>3

\* For an execution that one engine at a time handles, with any limits and any
\* faults, also when it is archived and deleted by hand: whatever happens
\* between two calls of a read, StateAt(n) gives the state after n events, Get
\* one no older than the call, History every event; a read fails only after a
\* deletion has begun, or on an archive that begins with leftovers.
THEOREM ReadsAreRight ==
    ASSUME Solo
    PROVE  Spec => []ReadsRight
  <1>1. Init => ReadInv /\ ArchInv
    <2> SUFFICES ASSUME Init PROVE ReadInv /\ ArchInv
      BY Zenon
    <2>1. reader = Rest /\ arch = << >> /\ head = 1
      BY Zenon DEF Init
    <2>2. /\ DOMAIN reader = DOMAIN Rest /\ reader.pc = "idle" /\ reader.upTo = 0 /\ reader.low = 0 /\ reader.st = 0
      BY <2>1 DEF Rest
    <2>3. 0 \in 0 .. head /\ ~(0 > 0)
      BY SMT, <2>1
    <2>4. reader.pc \notin {"log", "first", "segments", "archive", "done"}
      BY SMT, <2>2
    <2>5. ReadsRight
      BY Zenon, <2>4 DEF ReadsRight, ReaderAt
    <2> QED
      BY Zenon, <2>1, <2>2, <2>3, <2>4, <2>5 DEF ReadInv, ArchInv
  <1>2. ReadInv => ReadsRight
    BY Zenon DEF ReadInv
  <1> QED
    BY <1>1, <1>2, TypesInit, TypesStep, SoloInit, SoloStep, ReadStep, PTL DEF Spec

=============================================================================
