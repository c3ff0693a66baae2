--------------------------- MODULE DispatchProofs ---------------------------
(***************************************************************************)
(* What the dispatcher guarantees, for any log, any number of processes    *)
(* and any number of faults: types and bounds; work that is acknowledged   *)
(* is run or kept; the mark stays at the first failure and the parent is   *)
(* told; the index settles.                                                *)
(*                                                                         *)
(* Each section states the invariant its theorem needs, relative to Sound  *)
(* (types, and where the actors are).  What the actors do is stated once,  *)
(* in the lemmas ...Moves and ...Steps, and cited from there.              *)
(***************************************************************************)
EXTENDS Dispatch, TLAPS

\* What an actor does, moved on, ended or failed.

LEMMA GoesFacts ==
    ASSUME at \in [Actors -> ActorType], NEW a \in Actors, NEW pc \in Pcs, Goes(a, pc)
    PROVE  /\ at' \in [Actors -> ActorType] /\ \A b \in Actors : b # a => at'[b] = at[b]
           /\ at'[a].pc = pc /\ at'[a].n = at[a].n /\ at'[a].to = at[a].to
           /\ at'[a].catchUp = at[a].catchUp /\ at'[a].det = FALSE
  BY DEF Goes, ActorType

LEMMA FailsFacts ==
    ASSUME at \in [Actors -> ActorType], NEW a \in Actors, NEW det \in BOOLEAN, Fails(a, det)
    PROVE  /\ at' \in [Actors -> ActorType] /\ \A b \in Actors : b # a => at'[b] = at[b]
           /\ at'[a].pc = "failed" /\ at'[a].n = at[a].n /\ at'[a].to = at[a].to
           /\ at'[a].catchUp = at[a].catchUp /\ at'[a].det = det
  BY DEF Fails, ActorType, Pcs

LEMMA IdleFacts ==
    /\ Idle \in ActorType /\ Idle.pc = "idle" /\ Idle.n = 0 /\ Idle.to = 0
    /\ Idle.catchUp = FALSE /\ Idle.det = FALSE
  BY DispatchAssumption DEF Idle, ActorType, Pcs

LEMMA EndsFacts ==
    ASSUME at \in [Actors -> ActorType], NEW a \in Actors, Ends(a)
    PROVE  /\ at' \in [Actors -> ActorType] /\ \A b \in Actors : b # a => at'[b] = at[b]
           /\ at'[a] = Idle
  BY IdleFacts DEF Ends

\* Where the actors are: a dispatcher works on a decision of the log that is at
\* most the next one to acknowledge; the replay is inside its scan, and scans
\* with the mark in place until it lifts it.
R == at[Replayer]
First == ~R.catchUp /\ R.pc \in {"apply", "effects", "index", "delete", "ack", "release"}
HandOK(a) ==
  /\ at[a].pc = "idle" => at[a] = Idle
  /\ at[a].pc # "idle" => at[a].n >= 1
  /\ at[a].n <= head /\ at[a].to <= head
  /\ at[a].pc = "close" => at[a].n = Last
  /\ a = Replayer =>
        /\ at[a].pc \in {"idle", "apply", "effects", "index", "delete", "ack", "failed", "release", "notify"}
        /\ at[a].n <= at[a].to
        /\ at[a].pc \in {"release", "notify"} => at[a].n = at[a].to /\ ~at[a].catchUp
  /\ a \in Procs => at[a].pc \notin {"release", "notify"} /\ ~at[a].catchUp /\ at[a].n <= acked + 1
Bounds == (\A a \in Actors : HandOK(a)) /\ mark <= acked + 1 /\ (First => mark # 0)

LEMMA ActorFacts ==
    ASSUME TypeOK, NEW a \in Actors
    PROVE  /\ at \in [Actors -> ActorType] /\ at[a] \in ActorType /\ at[a].pc \in Pcs
           /\ at[a].n \in 0 .. Last /\ at[a].to \in 0 .. Last /\ at[a].catchUp \in BOOLEAN /\ at[a].det \in BOOLEAN
  <1>1. at \in [Actors -> ActorType]
    BY Zenon DEF TypeOK
  <1>2. at[a] \in ActorType
    BY Zenon, <1>1
  <1> QED
    BY <1>1, <1>2 DEF ActorType

LEMMA NumberFacts ==
    ASSUME TypeOK
    PROVE  /\ head \in Nat /\ head <= Last /\ acked \in Nat /\ acked <= head /\ mark \in Nat /\ mark <= head
           /\ Last \in Nat /\ faults \in Nat
  <1>1. head \in 0 .. Last /\ acked \in 0 .. head /\ mark \in 0 .. head /\ faults \in 0 .. MaxFaults
    BY Zenon DEF TypeOK
  <1> QED
    BY SMT, <1>1, DispatchAssumption

LEMMA ProcFacts ==
    /\ Replayer \in Actors /\ Replayer \notin Procs /\ Home \in Procs
    /\ \A p \in Procs : p \in Actors /\ p # Replayer
    /\ \A a \in Actors : a # Replayer => a \in Procs
    /\ \A a \in Actors : Process(a) \in Procs
  BY DispatchAssumption DEF Actors, Process

\* Actor a goes on to pc with its decision and its scan, and no other actor moves.
Moved(a, pc) ==
  /\ at' \in [Actors -> ActorType] /\ \A b \in Actors : b # a => at'[b] = at[b]
  /\ at'[a].pc = pc /\ at'[a].n = at[a].n /\ at'[a].to = at[a].to /\ at'[a].catchUp = at[a].catchUp
\* It is done.
Ended(a) ==
  /\ at' \in [Actors -> ActorType] /\ \A b \in Actors : b # a => at'[b] = at[b]
  /\ at'[a] = Idle
\* Only the state actor a keeps changes, to k.
Keeps(a, k) == cache'[a] = k /\ \A b \in Actors : b # a => cache'[b] = cache[b]

LEMMA SomePcs ==
    /\ Pcs = {"idle", "skip", "apply", "effects", "index", "delete", "ack", "failed", "quarantine", "close", "release", "notify"}
    /\ "index" \in Pcs /\ "effects" \in Pcs /\ "delete" \in Pcs
    /\ "ack" \in Pcs \ {"idle", "release", "notify"} /\ "close" \in Pcs \ {"idle", "release", "notify"}
    /\ "apply" \in Pcs \ {"idle", "release", "notify"} /\ "quarantine" \in Pcs \ {"idle", "release", "notify"}
    /\ "release" \in Pcs /\ "notify" \in Pcs
    /\ "ack" # "close" /\ "apply" # "close" /\ "quarantine" # "close"
    /\ "skip" # "idle" /\ "failed" # "idle" /\ "quarantine" # "idle" /\ "close" # "idle"
  BY DEF Pcs

LEMMA MovedGoes ==
    ASSUME TypeOK, NEW a \in Actors, NEW pc \in Pcs, Goes(a, pc)
    PROVE  Moved(a, pc) /\ at'[a].det = FALSE
  BY Zenon, ActorFacts, GoesFacts DEF Moved

LEMMA MovedFails ==
    ASSUME TypeOK, NEW a \in Actors, NEW det \in BOOLEAN, Fails(a, det)
    PROVE  Moved(a, "failed") /\ at'[a].det = det
  BY Zenon, ActorFacts, FailsFacts DEF Moved

LEMMA EndedEnds ==
    ASSUME TypeOK, NEW a \in Actors, Ends(a)
    PROVE  Ended(a)
  BY Zenon, ActorFacts, EndsFacts DEF Ended

LEMMA KeepsExcept ==
    ASSUME TypeOK, NEW a \in Actors, NEW k, cache' = [cache EXCEPT ![a] = k]
    PROVE  Keeps(a, k)
  <1>1. cache \in [Actors -> 0 .. Last]
    BY Zenon DEF TypeOK
  <1> QED
    BY Zenon, <1>1 DEF Keeps

LEMMA KeepsForgets ==
    ASSUME TypeOK, NEW a \in Actors, Forgets(a)
    PROVE  Keeps(a, 0)
  BY Zenon, KeepsExcept DEF Forgets

LEMMA ApplyMoves ==
    ASSUME TypeOK, NEW a \in Actors, Apply(a)
    PROVE  /\ at[a].pc = "apply"
           /\ UNCHANGED <<head, acked, bad, marked, notices, mark, index, published, closed, asked, faults>>
           /\ \/ /\ Moved(a, "failed") /\ at'[a].det = TRUE /\ Keeps(a, 0)
                 /\ ~Folds(ToFold(a)) \/ ~Folds(1 .. head)
              \/ /\ Moved(a, "index") /\ Keeps(a, at[a].n) /\ Folds(ToFold(a))
                 /\ at[a].n \in Jobs /\ HeadView(a) # 0 /\ ~Live(at[a].n, HeadView(a))
              \/ Moved(a, "effects") /\ Keeps(a, cache[a]) /\ Folds(ToFold(a))
  <1> DEFINE job == at[a].n \in Jobs
             ended == job /\ HeadView(a) # 0 /\ ~Live(at[a].n, HeadView(a))
             fails == ~Folds(ToFold(a)) \/ (job /\ NeedsLoad(a) /\ ~Folds(1 .. head))
  <1>1. /\ At(a, "apply")
        /\ IF fails THEN Fails(a, TRUE) ELSE Goes(a, IF ended THEN "index" ELSE "effects")
        /\ cache' = [cache EXCEPT ![a] = IF fails THEN 0 ELSE IF ended THEN at[a].n ELSE cache[a]]
        /\ UNCHANGED <<head, acked, bad, know, index, effects, asked, faults>>
    BY Zenon DEF Apply
  <1>0. at[a].pc = "apply" /\ UNCHANGED <<head, acked, bad, marked, notices, mark, index, published, closed, asked, faults>>
    BY Zenon, <1>1 DEF At, know, effects
  <1>2. CASE fails
    <2>1. Fails(a, TRUE) /\ cache' = [cache EXCEPT ![a] = 0]
      BY Zenon, <1>1, <1>2
    <2> QED
      BY Zenon, <1>0, <1>2, <2>1, MovedFails, KeepsExcept
  <1>3. CASE ~fails /\ ended
    <2>1. Goes(a, "index") /\ cache' = [cache EXCEPT ![a] = at[a].n]
      BY Zenon, <1>1, <1>3
    <2> QED
      BY Zenon, <1>0, <1>3, <2>1, MovedGoes, KeepsExcept, SomePcs
  <1>4. CASE ~fails /\ ~ended
    <2>1. Goes(a, "effects") /\ cache' = [cache EXCEPT ![a] = cache[a]]
      BY Zenon, <1>1, <1>4
    <2> QED
      BY Zenon, <1>0, <1>4, <2>1, MovedGoes, KeepsExcept, SomePcs
  <1> QED
    BY Zenon, <1>2, <1>3, <1>4

LEMMA EffectsMoves ==
    ASSUME TypeOK, NEW a \in Actors, Effects(a)
    PROVE  /\ at[a].pc = "effects"
           /\ UNCHANGED <<head, acked, bad, view, marked, notices, mark, index, asked, faults>>
           /\ \/ Moved(a, "failed") /\ at'[a].det = TRUE /\ Keeps(a, 0) /\ Refused(at[a].n) /\ UNCHANGED <<published, closed>>
              \/ /\ Moved(a, "index") /\ Keeps(a, at[a].n) /\ closed' = (closed \/ at[a].n = Last)
                 /\ published' = published \cup ({at[a].n} \cap Jobs)
  BY Zenon, MovedGoes, MovedFails, KeepsExcept, KeepsForgets, SomePcs DEF Effects, At, know, effects

LEMMA IndexMoves ==
    ASSUME TypeOK, NEW a \in Actors, Index(a)
    PROVE  /\ at[a].pc = "index"
           /\ UNCHANGED <<head, acked, bad, cache, view, marked, notices, mark, published, closed, asked, faults>>
           /\ Shows([shown |-> Status[at[a].n], keys |-> index.keys \cup {Status[at[a].n]}])
           /\ \/ Moved(a, "ack") /\ (at[a].n = 1 \/ Status[at[a].n] = Status[at[a].n - 1])
              \/ Moved(a, "delete") /\ at[a].n # 1 /\ Status[at[a].n] # Status[at[a].n - 1]
  BY Zenon, MovedGoes, SomePcs DEF Index, Writes, At, know, effects

LEMMA DeleteMoves ==
    ASSUME TypeOK, NEW a \in Actors, Delete(a)
    PROVE  /\ at[a].pc = "delete" /\ Moved(a, "ack")
           /\ UNCHANGED <<head, acked, bad, cache, view, marked, notices, mark, published, closed, asked, faults>>
  BY Zenon, MovedGoes, SomePcs DEF Delete, At, know, effects

LEMMA UpsetMoves ==
    ASSUME TypeOK, NEW a \in Actors, Upset(a)
    PROVE  /\ at[a].pc \in {"apply", "effects", "index", "delete"} /\ (at[a].catchUp => "catchup" \in Risks)
           /\ Moved(a, "failed") /\ at'[a].det = FALSE
           /\ UNCHANGED <<head, acked, bad, view, marked, notices, mark, closed, asked>>
           /\ (Keeps(a, 0) \/ cache' = cache) /\ published \subseteq published'
  BY Zenon, MovedFails, KeepsForgets DEF Upset, know

LEMMA SkipsMoves ==
    ASSUME TypeOK, NEW p \in Procs, Skips(p)
    PROVE  \/ Moved(p, "close") /\ at[p].n = Last
           \/ Moved(p, "ack") /\ (at[p].n # Last \/ ~Folds({Last}))
  <1>1. p \in Actors
    BY Zenon DEF Actors
  <1> QED
    BY Zenon, <1>1, MovedGoes, SomePcs DEF Skips

LEMMA SkipMoves ==
    ASSUME TypeOK, NEW p \in Procs, Skip(p)
    PROVE  /\ at[p].pc = "skip"
           /\ UNCHANGED <<head, acked, bad, view, notices, mark, index, published, closed, asked, faults>>
           /\ (Keeps(p, 0) \/ cache' = cache)
           /\ \/ mark # 0 /\ Moved(p, "close") /\ at[p].n = Last
              \/ mark # 0 /\ Moved(p, "ack") /\ (at[p].n # Last \/ ~Folds({Last}))
              \/ Moved(p, "apply")
  <1>1. p \in Actors /\ "apply" \in Pcs
    BY Zenon, SomePcs DEF Actors
  <1>2. CASE p \in marked /\ mark # 0
    BY Zenon, <1>2, SkipsMoves DEF Skip, At, effects
  <1>3. CASE ~(p \in marked /\ mark # 0)
    BY Zenon, <1>1, <1>3, MovedGoes, KeepsExcept DEF Skip, At, effects
  <1> QED
    BY Zenon, <1>2, <1>3

LEMMA ConfirmMoves ==
    ASSUME TypeOK, NEW p \in Procs, Confirm(p)
    PROVE  /\ at[p].pc = "failed"
           /\ UNCHANGED <<head, acked, bad, cache, view, notices, mark, index, published, closed, asked>>
           /\ \/ mark # 0 /\ Moved(p, "close") /\ at[p].n = Last
              \/ mark # 0 /\ Moved(p, "ack") /\ (at[p].n # Last \/ ~Folds({Last}))
              \/ (mark = 0 \/ "confirm" \in Risks) /\ at[p].det /\ Moved(p, "quarantine")
              \/ Ended(p)
  <1>1. p \in Actors /\ "quarantine" \in Pcs
    BY Zenon, SomePcs DEF Actors
  <1>2. PICK read \in Outcomes("confirm") :
          IF read /\ mark # 0 THEN Skips(p) ELSE Judge(p)
    BY Zenon DEF Confirm
  <1>3. read = TRUE \/ "confirm" \in Risks
    BY Zenon DEF Outcomes
  <1>4. Judge(p) => (at[p].det /\ Moved(p, "quarantine")) \/ Ended(p)
    BY Zenon, <1>1, MovedGoes, EndedEnds DEF Judge
  <1>5. CASE read /\ mark # 0
    BY Zenon, <1>2, <1>5, SkipsMoves DEF Confirm, At, effects
  <1>6. CASE ~(read /\ mark # 0)
    BY Zenon, <1>2, <1>3, <1>4, <1>6 DEF Confirm, At, effects
  <1> QED
    BY Zenon, <1>5, <1>6

LEMMA QuarantineMoves ==
    ASSUME TypeOK, NEW p \in Procs, Quarantine(p)
    PROVE  /\ at[p].pc = "quarantine" /\ Moved(p, "ack") /\ mark' = at[p].n /\ Keeps(p, 0)
           /\ UNCHANGED <<head, acked, bad, view, index, published, closed, asked, faults>>
  <1>1. p \in Actors
    BY Zenon DEF Actors
  <1> QED
    BY Zenon, <1>1, MovedGoes, KeepsForgets, SomePcs DEF Quarantine, At, effects

LEMMA CloseMoves ==
    ASSUME TypeOK, NEW p \in Procs, Close(p) \/ CloseFails(p)
    PROVE  /\ at[p].pc = "close"
           /\ UNCHANGED <<head, acked, bad, cache, view, marked, notices, mark, published, asked>>
           /\ \/ Ended(p) /\ index' = index /\ (closed' = closed \/ closed' = TRUE)
              \/ Moved(p, "ack") /\ closed' = TRUE
                 /\ Shows([shown |-> IF index.shown = "none" THEN "none" ELSE Status[Last], keys |-> {Status[Last]}])
  <1>1. p \in Actors /\ closed \in BOOLEAN
    BY Zenon DEF Actors, TypeOK
  <1> QED
    BY Zenon, <1>1, MovedGoes, EndedEnds, SomePcs DEF Close, CloseFails, At, know

LEMMA DeliverMoves ==
    ASSUME TypeOK, NEW p \in Procs, Deliver(p)
    PROVE  /\ at[p].pc = "idle" /\ acked < head /\ StartsWork
           /\ at' \in [Actors -> ActorType] /\ \A b \in Actors : b # p => at'[b] = at[b]
           /\ at'[p].pc = "skip" /\ at'[p].n = acked + 1 /\ at'[p].to = 0 /\ ~at'[p].catchUp
           /\ UNCHANGED <<head, acked, bad, cache, view, marked, notices, mark, published, closed, asked>>
           /\ (\A q \in Procs : at[q].pc = "idle") \/ "again" \in Risks
  <1> DEFINE s == [Idle EXCEPT !.pc = "skip", !.n = acked + 1]
  <1>1. p \in Actors /\ acked < head /\ at[p].pc = "idle" /\ StartsWork
    BY Zenon, ProcFacts DEF Deliver, At
  <1>2. UNCHANGED <<head, acked, bad, cache, view, marked, notices, mark, published, closed, asked>>
    BY Zenon DEF Deliver, know, effects
  <1>3. /\ s \in ActorType /\ s.pc = "skip" /\ s.n = acked + 1 /\ s.to = 0 /\ s.catchUp = FALSE
    <2>1. acked + 1 \in 0 .. Last /\ 0 \in 0 .. Last
      BY SMT, <1>1, NumberFacts
    <2> QED
      BY <2>1, IdleFacts DEF ActorType, Pcs
  <1>4. at' = [at EXCEPT ![p] = s]
    BY Zenon DEF Deliver
  <1> HIDE DEF s
  <1>5. at' \in [Actors -> ActorType] /\ (\A b \in Actors : b # p => at'[b] = at[b]) /\ at'[p] = s
    BY Zenon, <1>1, <1>3, <1>4, ActorFacts
  <1>6. at'[p].pc = "skip" /\ at'[p].n = acked + 1 /\ at'[p].to = 0 /\ ~at'[p].catchUp
    BY Zenon, <1>3, <1>5
  <1>7. (\A q \in Procs : at[q].pc = "idle") \/ "again" \in Risks
    BY Zenon DEF Deliver, At
  <1> QED
    BY Zenon, <1>1, <1>2, <1>5, <1>6, <1>7

LEMMA OnwardMoves ==
    ASSUME TypeOK, Onward
    PROVE  /\ R.pc = "ack"
           /\ UNCHANGED <<head, acked, bad, view, marked, notices, mark, index, published, closed, faults>>
           /\ \/ /\ R.n < R.to /\ cache' = cache
                 /\ at' \in [Actors -> ActorType] /\ \A b \in Actors : b # Replayer => at'[b] = at[b]
                 /\ at'[Replayer].pc = "apply" /\ at'[Replayer].n = R.n + 1 /\ at'[Replayer].to = R.to
                 /\ at'[Replayer].catchUp = R.catchUp
              \/ R.n >= R.to /\ ~R.catchUp /\ Moved(Replayer, "release") /\ cache' = cache
              \/ R.n >= R.to /\ R.catchUp /\ Ended(Replayer) /\ Keeps(Replayer, 0)
  <1>1. R.pc = "ack" /\ UNCHANGED <<head, acked, bad, view, marked, notices, mark, index, published, closed, faults>>
    BY Zenon DEF Onward, At, R, know, effects
  <1>2. Replayer \in Actors /\ R \in ActorType /\ R.n \in 0 .. Last /\ R.to \in 0 .. Last /\ at \in [Actors -> ActorType]
    BY Zenon, ProcFacts, ActorFacts DEF R
  <1>3. IF R.n >= R.to /\ R.catchUp THEN Forgets(Replayer) ELSE cache' = cache
    BY Zenon DEF Onward, R
  <1>4. CASE R.n < R.to /\ at' = [at EXCEPT ![Replayer].pc = "apply", ![Replayer].n = R.n + 1]
    <2> DEFINE s == [R EXCEPT !.pc = "apply", !.n = R.n + 1]
    <2>1. R.n + 1 \in 0 .. Last /\ ~(R.n >= R.to)
      BY SMT, <1>2, <1>4, DispatchAssumption
    <2>2. s \in ActorType /\ s.pc = "apply" /\ s.n = R.n + 1 /\ s.to = R.to /\ s.catchUp = R.catchUp
      BY <1>2, <2>1 DEF ActorType, Pcs
    <2>3. at' = [at EXCEPT ![Replayer] = s]
      BY <1>2, <1>4 DEF R
    <2> HIDE DEF s
    <2>4. /\ at' \in [Actors -> ActorType] /\ \A b \in Actors : b # Replayer => at'[b] = at[b]
          /\ at'[Replayer] = s
      BY Zenon, <1>2, <2>2, <2>3
    <2> QED
      BY Zenon, <1>1, <1>3, <1>4, <2>1, <2>2, <2>4
  <1>5. CASE R.n >= R.to /\ ~R.catchUp /\ Goes(Replayer, "release")
    BY Zenon, <1>1, <1>2, <1>3, <1>5, MovedGoes, SomePcs
  <1>6. CASE R.n >= R.to /\ R.catchUp /\ Ends(Replayer)
    BY Zenon, <1>1, <1>2, <1>3, <1>6, EndedEnds, KeepsForgets
  <1> QED
    BY Zenon, <1>4, <1>5, <1>6 DEF Onward, R

\* The actors that do not move stay where they may be.
LEMMA OthersStay ==
    ASSUME TypeOK, Bounds, head' \in Nat, head <= head', acked' \in Nat, acked <= acked',
           NEW a \in Actors, \A b \in Actors : b # a => at'[b] = at[b], HandOK(a)'
    PROVE  \A b \in Actors : HandOK(b)'
  <1> SUFFICES ASSUME NEW b \in Actors, b # a PROVE HandOK(b)'
    BY Zenon
  <1>1. HandOK(b) /\ at'[b] = at[b]
    BY Zenon DEF Bounds
  <1>2. at[b].n \in Nat /\ at[b].to \in Nat /\ head \in Nat /\ acked \in Nat
    BY SMT, ActorFacts, NumberFacts
  <1> QED
    BY SMT, <1>1, <1>2 DEF HandOK

Sound == TypeOK /\ Bounds

LEMMA SoundFacts ==
    ASSUME Sound
    PROVE  TypeOK /\ Bounds /\ (\A a \in Actors : HandOK(a)) /\ mark <= acked + 1 /\ (First => mark # 0)
  BY Zenon DEF Sound, Bounds

\* The statuses the index may show once the log has h decisions.
Statuses(h) == {Status[n] : n \in 1 .. h}
IndexType(h) == [shown : {"none", "raced"} \cup Statuses(h), keys : SUBSET Statuses(h)]

LEMMA IndexTypeGrows ==
    ASSUME NEW h \in Nat, NEW k \in Nat, h <= k, NEW i \in IndexType(h)
    PROVE  i \in IndexType(k)
  <1>1. Statuses(h) \subseteq Statuses(k)
    BY SMT DEF Statuses
  <1> QED
    BY <1>1 DEF IndexType

LEMMA IndexTypes ==
    ASSUME TypeOK, NEW n \in 1 .. head
    PROVE  /\ index \in IndexType(head) /\ Raced \in IndexType(head)
           /\ Status[n] \in Statuses(head)
           /\ [shown |-> Status[n], keys |-> index.keys \cup {Status[n]}] \in IndexType(head)
           /\ [index EXCEPT !.shown = Status[n]] \in IndexType(head)
  <1>1. index \in IndexType(head)
    BY Zenon DEF TypeOK, IndexType, Statuses
  <1>2. Status[n] \in Statuses(head)
    BY Zenon DEF Statuses
  <1> QED
    BY <1>1, <1>2 DEF IndexType, Raced

\* What is left to show of a step that appends nothing.
LEMMA AllMove ==
    ASSUME Sound, at' \in [Actors -> ActorType], \A a \in Actors : HandOK(a)',
           head' = head, acked' \in Nat, acked' = acked \/ acked < acked', acked' <= head,
           mark' \in Nat, mark' <= head, mark' <= acked' + 1, First' => mark' # 0,
           bad' \subseteq Failures, cache' \in [Actors -> 0 .. Last], view' \in [Procs -> 0 .. head],
           marked' \subseteq Procs, notices' \subseteq Procs \X {"quarantine", "release"},
           index' \in IndexType(head), published' \subseteq Jobs \cap (1 .. head),
           closed' \in BOOLEAN, asked' \in BOOLEAN, faults' \in 0 .. MaxFaults
    PROVE  Sound'
  <1>1. TypeOK /\ Bounds
    BY Zenon, SoundFacts
  <1>2. Bounds'
    BY Zenon DEF Bounds
  <1>3. acked' \in 0 .. head' /\ mark' \in 0 .. head' /\ head' \in 0 .. Last
    BY SMT, <1>1, NumberFacts
  <1>4. TypeOK'
    BY Zenon, <1>3 DEF TypeOK, IndexType, Statuses
  <1> QED
    BY Zenon, <1>2, <1>4 DEF Sound

\* The same, when one actor moves.
LEMMA OneMoves ==
    ASSUME Sound, NEW a \in Actors, at' \in [Actors -> ActorType],
           \A b \in Actors : b # a => at'[b] = at[b], HandOK(a)',
           head' = head, acked' \in Nat, acked' = acked \/ acked < acked', acked' <= head,
           mark' \in Nat, mark' <= head, mark' <= acked' + 1, First' => mark' # 0,
           bad' \subseteq Failures, cache' \in [Actors -> 0 .. Last], view' \in [Procs -> 0 .. head],
           marked' \subseteq Procs, notices' \subseteq Procs \X {"quarantine", "release"},
           index' \in IndexType(head), published' \subseteq Jobs \cap (1 .. head),
           closed' \in BOOLEAN, asked' \in BOOLEAN, faults' \in 0 .. MaxFaults
    PROVE  Sound'
  <1>1. TypeOK /\ Bounds
    BY Zenon, SoundFacts
  <1>2. head' \in Nat /\ head <= head' /\ acked <= acked'
    BY SMT, <1>1, NumberFacts
  <1>3. \A b \in Actors : HandOK(b)'
    BY Zenon, <1>1, <1>2, OthersStay
  <1> QED
    BY Zenon, <1>3, AllMove

LEMMA TypeFacts ==
    ASSUME Sound
    PROVE  /\ bad \subseteq Failures /\ cache \in [Actors -> 0 .. Last] /\ view \in [Procs -> 0 .. head]
           /\ marked \subseteq Procs /\ notices \subseteq Procs \X {"quarantine", "release"}
           /\ index \in IndexType(head) /\ published \subseteq Jobs \cap (1 .. head)
           /\ closed \in BOOLEAN /\ asked \in BOOLEAN /\ faults \in 0 .. MaxFaults
           /\ at \in [Actors -> ActorType] /\ head \in Nat /\ acked \in Nat /\ acked <= head
           /\ mark \in Nat /\ mark <= head /\ mark <= acked + 1 /\ (First => mark # 0) /\ head <= Last /\ Last \in Nat
  <1>1. TypeOK
    BY Zenon, SoundFacts
  <1> QED
    BY Zenon, <1>1, NumberFacts, SoundFacts DEF TypeOK, IndexType, Statuses

LEMMA FaultType ==
    ASSUME Sound, Failing
    PROVE  faults' \in 0 .. MaxFaults
  BY SMT, TypeFacts, DispatchAssumption DEF Failing

LEMMA HeadViewType ==
    ASSUME Sound, NEW a \in Actors
    PROVE  HeadView(a) \in 0 .. head
  <1>1. view[Process(a)] \in 0 .. head /\ head \in Nat
    BY Zenon, TypeFacts, ProcFacts
  <1> QED
    BY SMT, <1>1 DEF HeadView

LEMMA FirstSame ==
    ASSUME at'[Replayer] = at[Replayer]
    PROVE  First' = First
  BY Zenon DEF First, R

LEMMA ShowsType ==
    ASSUME Sound, NEW i \in IndexType(head), Shows(i)
    PROVE  index' \in IndexType(head)
  BY Zenon, TypeFacts DEF Shows

LEMMA HalfIndexedType ==
    ASSUME Sound, NEW a \in Actors, NEW i \in HalfIndexed(a)
    PROVE  i \in IndexType(head)
  <1>1. CASE i = index
    BY Zenon, <1>1, TypeFacts
  <1>2. CASE i # index
    <2>1. at[a].pc = "index" /\ i = [index EXCEPT !.shown = Status[at[a].n]]
      BY Zenon, <1>2 DEF HalfIndexed, At
    <2>2. at[a].n \in 1 .. head
      BY SMT, <2>1, SoundFacts, TypeFacts, ActorFacts DEF HandOK
    <2> QED
      BY Zenon, <2>1, <2>2, IndexTypes, SoundFacts
  <1> QED
    BY Zenon, <1>1, <1>2

LEMMA NatLow == 0 <= 0 /\ \A x \in Nat : 0 <= x /\ 0 <= x + 1
  OBVIOUS

LEMMA IdleHand ==
    ASSUME NEW a \in Actors, at'[a] = Idle, head' \in Nat, acked' \in Nat
    PROVE  HandOK(a)'
  <1>1. at'[a].pc = "idle" /\ at'[a].n = 0 /\ at'[a].to = 0 /\ ~at'[a].catchUp
    BY Zenon, IdleFacts
  <1>2. 0 <= head' /\ 0 <= acked' + 1 /\ 0 <= 0
    BY Zenon, NatLow
  <1>3. "idle" # "release" /\ "idle" # "notify" /\ "idle" # "close"
    BY Zenon
  <1> QED
    BY Zenon, <1>1, <1>2, <1>3 DEF HandOK

\* A process that moves does not touch the replay.
LEMMA ProcMoves ==
    ASSUME NEW p \in Procs, \A b \in Actors : b # p => at'[b] = at[b]
    PROVE  First' = First /\ at'[Replayer] = at[Replayer]
  BY Zenon, ProcFacts DEF First, R

\* What a process does next, its decision the same.
LEMMA ProcGoes ==
    ASSUME Sound, NEW p \in Procs, NEW pc \in Pcs \ {"idle", "release", "notify"}, Goes(p, pc), at[p].pc # "idle",
           pc = "close" => at[p].n = Last, UNCHANGED <<head, acked>>
    PROVE  /\ at' \in [Actors -> ActorType] /\ \A b \in Actors : b # p => at'[b] = at[b]
           /\ at'[p].pc = pc /\ at'[p].n = at[p].n /\ p \in Actors /\ HandOK(p)' /\ First' = First
  <1>1. p \in Actors /\ pc \in Pcs
    BY Zenon, ProcFacts
  <1>2. /\ at' \in [Actors -> ActorType] /\ \A b \in Actors : b # p => at'[b] = at[b]
        /\ at'[p].pc = pc /\ at'[p].n = at[p].n /\ at'[p].to = at[p].to /\ at'[p].catchUp = at[p].catchUp
    BY Zenon, <1>1, GoesFacts, TypeFacts
  <1>3. HandOK(p)
    BY Zenon, <1>1, SoundFacts
  <1>4. HandOK(p)'
    BY SMT, <1>2, <1>3, ProcFacts DEF HandOK
  <1> QED
    BY Zenon, <1>1, <1>2, <1>4, ProcMoves

LEMMA ActorEnds ==
    ASSUME Sound, NEW a \in Actors, Ends(a), head' = head, acked' \in Nat
    PROVE  /\ at' \in [Actors -> ActorType] /\ \A b \in Actors : b # a => at'[b] = at[b]
           /\ at'[a] = Idle /\ HandOK(a)' /\ (First' => First)
  <1>1. /\ at' \in [Actors -> ActorType] /\ \A b \in Actors : b # a => at'[b] = at[b]
        /\ at'[a] = Idle
    BY Zenon, EndsFacts, TypeFacts
  <1>2. HandOK(a)'
    BY Zenon, <1>1, IdleHand, TypeFacts
  <1>3. First' => First
    <2>1. CASE a = Replayer
      BY SMT, <1>1, <2>1, IdleFacts DEF First, R
    <2>2. CASE a # Replayer
      BY Zenon, <1>1, <2>2, ProcFacts DEF First, R
    <2> QED
      BY Zenon, <2>1, <2>2
  <1> QED
    BY Zenon, <1>1, <1>2, <1>3

LEMMA ForgetsType ==
    ASSUME Sound, NEW a, Forgets(a)
    PROVE  cache' \in [Actors -> 0 .. Last]
  <1>1. 0 \in 0 .. Last
    BY SMT, TypeFacts
  <1> QED
    BY Zenon, <1>1, TypeFacts DEF Forgets

LEMMA JudgeOrSkips ==
    ASSUME Sound, NEW p \in Procs, Judge(p) \/ Skips(p), at[p].pc # "idle", UNCHANGED <<head, acked>>
    PROVE  /\ at' \in [Actors -> ActorType] /\ \A b \in Actors : b # p => at'[b] = at[b]
           /\ HandOK(p)' /\ (First' => First)
  <1>1. CASE Ends(p)
    BY Zenon, <1>1, ActorEnds, TypeFacts, ProcFacts
  <1>2. CASE \E pc \in {"ack", "close", "quarantine"} : Goes(p, pc) /\ (pc = "close" => at[p].n = Last)
    BY Zenon, <1>2, ProcGoes, SomePcs
  <1> QED
    BY Zenon, <1>1, <1>2, SomePcs DEF Judge, Skips

LEMMA HandSame ==
    ASSUME Sound, NEW a \in Actors, at'[a] = at[a], UNCHANGED <<head, acked>>
    PROVE  HandOK(a)'
  BY Zenon, SoundFacts DEF HandOK

\* The replay's steps.

LEMMA ScansFacts ==
    ASSUME Sound, NEW from \in Nat \ {0}, NEW catchUp \in BOOLEAN, Scans(from, catchUp), 1 <= head,
           UNCHANGED <<head, acked>>
    PROVE  /\ at' \in [Actors -> ActorType] /\ \A b \in Actors : b # Replayer => at'[b] = at[b]
           /\ HandOK(Replayer)' /\ at'[Replayer].catchUp = catchUp /\ at'[Replayer].to = head
           /\ IF from > head THEN at'[Replayer].pc = "ack" /\ at'[Replayer].n = head
              ELSE at'[Replayer].pc = "apply" /\ at'[Replayer].n = from
  <1> DEFINE none == [Idle EXCEPT !.pc = "ack", !.n = head, !.to = head, !.catchUp = catchUp]
             some == [pc |-> "apply", n |-> from, to |-> head, catchUp |-> catchUp, det |-> FALSE]
             s == IF from > head THEN none ELSE some
  <1>1. at' = [at EXCEPT ![Replayer] = s]
    BY Zenon DEF Scans
  <1>2. head \in 0 .. Last
    BY SMT, TypeFacts
  <1>3. none \in ActorType /\ none.pc = "ack" /\ none.n = head /\ none.to = head /\ none.catchUp = catchUp
    BY <1>2, IdleFacts DEF ActorType, Pcs
  <1>4. /\ some.pc = "apply" /\ some.n = from /\ some.to = head /\ some.catchUp = catchUp
        /\ (~(from > head) => some \in ActorType)
    <2>1. ~(from > head) => from \in 0 .. Last
      BY SMT, TypeFacts
    <2> QED
      BY <1>2, <2>1 DEF ActorType, Pcs
  <1> HIDE DEF none, some
  <1>5. s \in ActorType /\ s.catchUp = catchUp /\ s.to = head
        /\ (IF from > head THEN s.pc = "ack" /\ s.n = head ELSE s.pc = "apply" /\ s.n = from)
    BY Zenon, <1>3, <1>4
  <1> HIDE DEF s
  <1>6. /\ at' \in [Actors -> ActorType] /\ \A b \in Actors : b # Replayer => at'[b] = at[b]
        /\ at'[Replayer] = s
    BY Zenon, <1>1, <1>5, TypeFacts, ProcFacts
  <1>7. HandOK(Replayer)'
    BY SMT, <1>5, <1>6, TypeFacts, ProcFacts DEF HandOK
  <1> QED
    BY Zenon, <1>5, <1>6, <1>7

LEMMA ToldType ==
    ASSUME Sound
    PROVE  marked \ {Home} \subseteq Procs /\ notices \cup {<<q, "release">> : q \in Procs} \subseteq Procs \X {"quarantine", "release"}
  <1>1. {<<q, "release">> : q \in Procs} \subseteq Procs \X {"quarantine", "release"}
    BY SMT
  <1> QED
    BY Zenon, <1>1, TypeFacts

LEMMA CrashMoves ==
    ASSUME Sound, NEW p \in Procs, Crash(p)
    PROVE  /\ UNCHANGED <<head, acked, bad, mark, published, closed, asked>>
           /\ at' \in [Actors -> ActorType]
           /\ \A a \in Actors : at'[a] = at[a] \/ (at'[a] = Idle /\ Process(a) = p)
           /\ \A a \in Actors : cache'[a] = cache[a] \/ cache'[a] = 0
           /\ First' => First
  <1>1. /\ UNCHANGED <<head, acked, bad, mark, published, closed, asked>>
        /\ at' = [a \in Actors |-> IF Process(a) = p THEN Idle ELSE at[a]]
        /\ cache' = [a \in Actors |-> IF Process(a) = p THEN 0 ELSE cache[a]]
    BY Zenon DEF Crash, effects
  <1>2. \A a \in Actors : at'[a] = at[a] \/ (at'[a] = Idle /\ Process(a) = p)
    BY Zenon, <1>1
  <1>3. at' \in [Actors -> ActorType]
    BY Zenon, <1>1, IdleFacts, TypeFacts
  <1>4. First' => First
    <2>1. CASE at'[Replayer] = Idle
      BY SMT, <2>1, IdleFacts DEF First, R
    <2>2. CASE at'[Replayer] = at[Replayer]
      BY Zenon, <2>2, FirstSame
    <2> QED
      BY Zenon, <1>2, <2>1, <2>2, ProcFacts
  <1> QED
    BY Zenon, <1>1, <1>2, <1>3, <1>4

LEMMA SoundNext ==
    ASSUME Sound, [Next]_vars
    PROVE  Sound'
  <1>ApplySound. ASSUME NEW a \in Actors, Apply(a) PROVE Sound'
    <2> USE <1>ApplySound
    <2> DEFINE job == at[a].n \in Jobs
               ended == job /\ HeadView(a) # 0 /\ ~Live(at[a].n, HeadView(a))
               fails == ~Folds(ToFold(a)) \/ (job /\ NeedsLoad(a) /\ ~Folds(1 .. head))
    <2>1. /\ At(a, "apply")
          /\ IF fails THEN Fails(a, TRUE) ELSE Goes(a, IF ended THEN "index" ELSE "effects")
          /\ view' = IF ~job \/ ~Folds(ToFold(a)) THEN view
                     ELSE [view EXCEPT ![Process(a)] = IF fails THEN 0 ELSE HeadView(a)]
          /\ cache' = [cache EXCEPT ![a] = IF fails THEN 0 ELSE IF ended THEN at[a].n ELSE @]
          /\ UNCHANGED <<head, acked, bad, know, index, effects, asked, faults>>
      BY Zenon DEF Apply
    <2> HIDE DEF job, ended, fails
    <2>2. at[a].pc = "apply" /\ UNCHANGED <<head, acked, bad, marked, notices, mark, index, published, closed, asked, faults>>
      BY Zenon, <2>1 DEF At, know, effects
    <2>3. "index" \in Pcs /\ "effects" \in Pcs
      BY DEF Pcs
    <2>4. /\ at' \in [Actors -> ActorType] /\ \A b \in Actors : b # a => at'[b] = at[b]
          /\ at'[a].pc \in {"failed", "index", "effects"} /\ at'[a].n = at[a].n /\ at'[a].to = at[a].to
          /\ at'[a].catchUp = at[a].catchUp
      BY Zenon, <2>1, <2>3, GoesFacts, FailsFacts, TypeFacts
    <2>5. cache' \in [Actors -> 0 .. Last]
      BY <2>1, TypeFacts, ActorFacts, SoundFacts
    <2>6. view' \in [Procs -> 0 .. head]
      <3>1. 0 \in 0 .. head /\ HeadView(a) \in 0 .. head /\ Process(a) \in Procs
        BY TypeFacts, HeadViewType, ProcFacts
      <3> QED
        BY <2>1, <3>1, TypeFacts
    <2>7. HandOK(a)'
      BY SMT, <2>2, <2>4, SoundFacts DEF HandOK
    <2>8. First' => First
      BY SMT, <2>2, <2>4, ProcFacts DEF First, R
    <2> QED
      BY Zenon, <2>2, <2>4, <2>5, <2>6, <2>7, <2>8, TypeFacts, OneMoves
  <1>EffectsSound. ASSUME NEW a \in Actors, Effects(a) PROVE Sound'
    <2> USE <1>EffectsSound
    <2>1. at[a].pc = "effects" /\ UNCHANGED <<head, acked, bad, view, marked, notices, mark, index, asked, faults>>
      BY Zenon DEF Effects, At, know
    <2>2. "index" \in Pcs
      BY DEF Pcs
    <2>3. /\ at' \in [Actors -> ActorType] /\ \A b \in Actors : b # a => at'[b] = at[b]
          /\ at'[a].pc \in {"failed", "index"} /\ at'[a].n = at[a].n /\ at'[a].to = at[a].to
          /\ at'[a].catchUp = at[a].catchUp
      BY Zenon, <2>2, GoesFacts, FailsFacts, TypeFacts DEF Effects
    <2>4. at[a].n \in 1 .. head /\ at[a].n \in 0 .. Last /\ 0 \in 0 .. Last
      BY SMT, <2>1, SoundFacts, TypeFacts, ActorFacts DEF HandOK
    <2>5. cache' \in [Actors -> 0 .. Last]
      BY <2>4, TypeFacts DEF Effects, Forgets
    <2>6. published' \subseteq Jobs \cap (1 .. head) /\ closed' \in BOOLEAN
      BY Zenon, <2>4, TypeFacts DEF Effects, effects
    <2>7. HandOK(a)'
      BY SMT, <2>1, <2>3, SoundFacts DEF HandOK
    <2>8. First' => First
      BY SMT, <2>1, <2>3, ProcFacts DEF First, R
    <2> QED
      BY Zenon, <2>1, <2>3, <2>5, <2>6, <2>7, <2>8, TypeFacts, OneMoves
  <1>IndexSound. ASSUME NEW a \in Actors, Index(a) PROVE Sound'
    <2> USE <1>IndexSound
    <2>1. PICK then \in {"ack", "delete"} : Writes(a, then)
      BY Zenon DEF Index
    <2>2. at[a].pc = "index" /\ UNCHANGED <<head, acked, bad, cache, view, marked, notices, mark, published, closed, asked, faults>>
      BY Zenon, <2>1 DEF Writes, At, know, effects
    <2>3. then \in Pcs
      BY DEF Pcs
    <2>4. /\ at' \in [Actors -> ActorType] /\ \A b \in Actors : b # a => at'[b] = at[b]
          /\ at'[a].pc = then /\ at'[a].n = at[a].n /\ at'[a].to = at[a].to
          /\ at'[a].catchUp = at[a].catchUp
      BY Zenon, <2>1, <2>3, GoesFacts, TypeFacts DEF Writes
    <2>5. at[a].n \in 1 .. head
      BY SMT, <2>2, SoundFacts, TypeFacts, ActorFacts DEF HandOK
    <2>6. index' \in IndexType(head)
      BY Zenon, <2>1, <2>5, IndexTypes, ShowsType, SoundFacts DEF Writes
    <2>7. HandOK(a)'
      BY SMT, <2>2, <2>4, SoundFacts DEF HandOK
    <2>8. First' => First
      BY SMT, <2>2, <2>4, ProcFacts DEF First, R
    <2> QED
      BY Zenon, <2>2, <2>4, <2>6, <2>7, <2>8, TypeFacts, OneMoves
  <1>DeleteSound. ASSUME NEW a \in Actors, Delete(a) PROVE Sound'
    <2> USE <1>DeleteSound
    <2>1. at[a].pc = "delete" /\ UNCHANGED <<head, acked, bad, cache, view, marked, notices, mark, published, closed, asked, faults>>
      BY Zenon DEF Delete, At, know, effects
    <2>2. "ack" \in Pcs
      BY DEF Pcs
    <2>3. /\ at' \in [Actors -> ActorType] /\ \A b \in Actors : b # a => at'[b] = at[b]
          /\ at'[a].pc = "ack" /\ at'[a].n = at[a].n /\ at'[a].to = at[a].to
          /\ at'[a].catchUp = at[a].catchUp
      BY Zenon, <2>2, GoesFacts, TypeFacts DEF Delete
    <2>4. [index EXCEPT !.keys = @ \ {Status[at[a].n - 1]}] \in IndexType(head)
      BY TypeFacts DEF IndexType
    <2>5. index' \in IndexType(head)
      BY Zenon, <2>4, ShowsType DEF Delete
    <2>7. HandOK(a)'
      BY SMT, <2>1, <2>3, SoundFacts DEF HandOK
    <2>8. First' => First
      BY SMT, <2>1, <2>3, ProcFacts DEF First, R
    <2> QED
      BY Zenon, <2>1, <2>3, <2>5, <2>7, <2>8, TypeFacts, OneMoves
  <1>UpsetSound. ASSUME NEW a \in Actors, Upset(a) PROVE Sound'
    <2> USE <1>UpsetSound
    <2>1. at[a].pc \in {"apply", "effects", "index", "delete"} /\ UNCHANGED <<head, acked, bad, view, marked, notices, mark, closed, asked>>
      BY Zenon DEF Upset, know
    <2>2. /\ at' \in [Actors -> ActorType] /\ \A b \in Actors : b # a => at'[b] = at[b]
          /\ at'[a].pc = "failed" /\ at'[a].n = at[a].n /\ at'[a].to = at[a].to
          /\ at'[a].catchUp = at[a].catchUp
      BY Zenon, FailsFacts, TypeFacts DEF Upset
    <2>3. at[a].n \in 1 .. head /\ 0 \in 0 .. Last
      BY SMT, <2>1, SoundFacts, TypeFacts, ActorFacts DEF HandOK
    <2>4. cache' \in [Actors -> 0 .. Last]
      BY <2>3, TypeFacts DEF Upset, Forgets
    <2>5. published' \subseteq Jobs \cap (1 .. head)
      BY Zenon, <2>3, TypeFacts DEF Upset
    <2>6. index' \in IndexType(head) /\ faults' \in 0 .. MaxFaults
      BY Zenon, HalfIndexedType, FaultType DEF Upset
    <2>7. HandOK(a)'
      BY SMT, <2>1, <2>2, SoundFacts DEF HandOK
    <2>8. First' => First
      BY SMT, <2>1, <2>2, ProcFacts DEF First, R
    <2> QED
      BY Zenon, <2>1, <2>2, <2>4, <2>5, <2>6, <2>7, <2>8, TypeFacts, OneMoves
  <1>DeliverSound. ASSUME NEW p \in Procs, Deliver(p) PROVE Sound'
    <2> USE <1>DeliverSound
    <2>1. /\ p \in Actors /\ acked < head
          /\ at' \in [Actors -> ActorType] /\ \A b \in Actors : b # p => at'[b] = at[b]
          /\ at'[p].pc = "skip" /\ at'[p].n = acked + 1 /\ at'[p].to = 0 /\ ~at'[p].catchUp
          /\ UNCHANGED <<head, acked, bad, cache, view, marked, notices, mark, published, closed, asked>>
      BY Zenon, DeliverMoves, SoundFacts, ProcFacts
    <2>2. HandOK(p)'
      BY SMT, <2>1, TypeFacts, ProcFacts DEF HandOK
    <2>3. index' \in IndexType(head)
      <3>1. 1 \in 1 .. head
        BY SMT, <2>1, TypeFacts
      <3> QED
        BY Zenon, <3>1, IndexTypes, SoundFacts DEF Deliver, StartsWork
    <2>4. faults' \in 0 .. MaxFaults
      BY Zenon, TypeFacts, FaultType DEF Deliver
    <2> QED
      BY SMT, <2>1, <2>2, <2>3, <2>4, ProcMoves, TypeFacts, OneMoves
  <1>SkipSound. ASSUME NEW p \in Procs, Skip(p) PROVE Sound'
    <2> USE <1>SkipSound
    <2>1. at[p].pc = "skip" /\ UNCHANGED <<head, acked, bad, view, notices, mark, index, published, closed, asked, faults>>
      BY Zenon DEF Skip, At, effects
    <2>2. PICK pc \in {"ack", "close", "apply"} : Goes(p, pc) /\ (pc = "close" => at[p].n = Last)
      BY Zenon, SomePcs DEF Skip, Skips
    <2>3. pc \in Pcs \ {"idle", "release", "notify"} /\ at[p].pc # "idle"
      BY Zenon, <2>1, SomePcs
    <2>4. marked' \subseteq Procs
      BY Zenon, TypeFacts DEF Skip
    <2>5. cache' \in [Actors -> 0 .. Last]
      <3>1. 0 \in 0 .. Last
        BY SMT, TypeFacts
      <3> QED
        BY Zenon, <3>1, TypeFacts DEF Skip
    <2> QED
      BY SMT, <2>1, <2>2, <2>3, <2>4, <2>5, ProcGoes, TypeFacts, OneMoves
  <1>AckSound. ASSUME NEW p \in Procs, Ack(p) PROVE Sound'
    <2> USE <1>AckSound
    <2>1. at[p].pc = "ack" /\ Ends(p) /\ UNCHANGED <<head, bad, cache, view, marked, notices, mark, index, published, closed, asked>>
      BY Zenon DEF Ack, At, effects, know
    <2>2. p \in Actors
      BY Zenon, ProcFacts
    <2>3. acked' \in Nat /\ (acked' = acked \/ acked < acked') /\ acked' <= head /\ mark' <= acked' + 1
      <3>1. acked' = acked \/ (acked' = at[p].n /\ at[p].n > acked)
        BY Zenon DEF Ack
      <3>2. at[p].n <= head /\ at[p].n \in 0 .. Last
        BY SMT, <2>2, ActorFacts, SoundFacts DEF HandOK
      <3> QED
        BY SMT, <2>1, <3>1, <3>2, TypeFacts
    <2>4. faults' \in 0 .. MaxFaults
      BY Zenon, TypeFacts, FaultType DEF Ack
    <2> QED
      BY Zenon, <2>1, <2>2, <2>3, <2>4, ActorEnds, TypeFacts, OneMoves
  <1>ConfirmSound. ASSUME NEW p \in Procs, Confirm(p) PROVE Sound'
    <2> USE <1>ConfirmSound
    <2>1. at[p].pc # "idle" /\ UNCHANGED <<head, acked, bad, cache, view, notices, mark, index, published, closed, asked>>
      BY Zenon, SomePcs DEF Confirm, At, effects
    <2>2. PICK read \in Outcomes("confirm") :
            /\ IF read /\ mark # 0 THEN marked' = marked \cup {p} /\ Skips(p)
               ELSE marked' = marked /\ Judge(p)
            /\ faults' = IF read THEN faults ELSE faults + 1
      BY Zenon DEF Confirm
    <2>3. faults' \in 0 .. MaxFaults
      <3>1. faults' = faults \/ (faults' = faults + 1 /\ faults < MaxFaults)
        BY Zenon, <2>2 DEF Outcomes
      <3> QED
        BY SMT, <3>1, TypeFacts, DispatchAssumption
    <2>4. marked' \subseteq Procs /\ (Judge(p) \/ Skips(p))
      BY Zenon, <2>2, TypeFacts
    <2> QED
      BY Zenon, <2>1, <2>3, <2>4, JudgeOrSkips, ProcFacts, TypeFacts, OneMoves
  <1>QuarantineSound. ASSUME NEW p \in Procs, Quarantine(p) PROVE Sound'
    <2> USE <1>QuarantineSound
    <2>1. at[p].pc # "idle" /\ UNCHANGED <<head, acked, bad, view, index, published, closed, asked, faults>>
      BY Zenon, SomePcs DEF Quarantine, At, effects
    <2>2. mark' = at[p].n /\ marked' = marked \cup {p} /\ notices' = notices \cup {<<q, "quarantine">> : q \in Procs}
      BY Zenon DEF Quarantine
    <2>3. mark' \in Nat /\ mark' <= head /\ mark' <= acked' + 1 /\ mark' # 0
      BY SMT, <2>1, <2>2, ProcFacts, ActorFacts, SoundFacts DEF HandOK
    <2>4. marked' \subseteq Procs /\ notices' \subseteq Procs \X {"quarantine", "release"}
      <3>1. {<<q, "quarantine">> : q \in Procs} \subseteq Procs \X {"quarantine", "release"}
        BY SMT
      <3> QED
        BY Zenon, <2>2, <3>1, TypeFacts
    <2>5. cache' \in [Actors -> 0 .. Last] /\ Goes(p, "ack")
      BY Zenon, ForgetsType DEF Quarantine
    <2> QED
      BY Zenon, <2>1, <2>3, <2>4, <2>5, ProcGoes, SomePcs, TypeFacts, OneMoves
  <1>QuarantineFailsSound. ASSUME NEW p \in Procs, QuarantineFails(p) PROVE Sound'
    <2> USE <1>QuarantineFailsSound
    <2>1. at[p].pc # "idle" /\ Ends(p) /\ UNCHANGED <<head, acked, bad, cache, view, marked, notices, index, published, closed, asked>>
      BY Zenon, SomePcs DEF QuarantineFails, At, effects
    <2>2. mark' \in Nat /\ mark' <= head /\ mark' <= acked' + 1 /\ (mark' # mark => mark' # 0)
      <3>1. mark' = mark \/ mark' = at[p].n
        BY Zenon DEF QuarantineFails
      <3> QED
        BY SMT, <2>1, <3>1, ProcFacts, ActorFacts, SoundFacts, TypeFacts DEF HandOK
    <2>3. faults' \in 0 .. MaxFaults /\ p \in Actors
      BY Zenon, FaultType, ProcFacts DEF QuarantineFails
    <2> QED
      BY Zenon, <2>1, <2>2, <2>3, ActorEnds, TypeFacts, OneMoves
  <1>CloseSound. ASSUME NEW p \in Procs, Close(p) \/ CloseFails(p) PROVE Sound'
    <2> USE <1>CloseSound
    <2>1. at[p].pc = "close" /\ p \in Actors /\ UNCHANGED <<head, acked, bad, cache, view, marked, notices, mark, published, asked>>
      BY Zenon, ProcFacts DEF Close, CloseFails, At, know
    <2>2. closed' \in BOOLEAN /\ faults' \in 0 .. MaxFaults
      BY Zenon, TypeFacts, FaultType DEF Close, CloseFails
    <2>3. index' \in IndexType(head)
      <3>1. Last \in 1 .. head
        BY SMT, <2>1, SoundFacts, TypeFacts, DispatchAssumption DEF HandOK
      <3>2. Status[Last] \in Statuses(head)
        BY Zenon, <3>1, IndexTypes, SoundFacts
      <3>3. [shown |-> IF index.shown = "none" THEN "none" ELSE Status[Last], keys |-> {Status[Last]}] \in IndexType(head)
        BY <3>2 DEF IndexType
      <3> QED
        BY Zenon, <3>3, ShowsType, TypeFacts DEF Close, CloseFails
    <2>4. CASE Ends(p)
      BY Zenon, <2>1, <2>2, <2>3, <2>4, ActorEnds, TypeFacts, OneMoves
    <2>5. CASE Goes(p, "ack")
      BY SMT, <2>1, <2>2, <2>3, <2>5, ProcGoes, SomePcs, TypeFacts, OneMoves
    <2> QED
      BY Zenon, <2>4, <2>5 DEF Close, CloseFails
  <1>SkipFailsSound. ASSUME NEW p \in Procs, SkipFails(p) PROVE Sound'
    <2> USE <1>SkipFailsSound
    <2>1. p \in Actors /\ Ends(p) /\ UNCHANGED <<head, acked, bad, cache, view, marked, notices, mark, index, published, closed, asked>>
      BY Zenon, ProcFacts DEF SkipFails, know, effects
    <2>2. faults' \in 0 .. MaxFaults
      BY Zenon, FaultType DEF SkipFails
    <2> QED
      BY Zenon, <2>1, <2>2, ActorEnds, TypeFacts, OneMoves
  \* The steps in which no actor moves.
  <1>StillSound. ASSUME Fix \/ Ask \/ \E p \in Procs, kind \in {"quarantine", "release"} : Notice(p, kind)
                 PROVE  Sound'
    <2> USE <1>StillSound
    <2>1. UNCHANGED <<head, acked, at, view, mark, index, published, closed, faults>>
      BY Zenon DEF Fix, Ask, Notice, know, effects
    <2>2. bad' \subseteq Failures /\ asked' \in BOOLEAN /\ marked' \subseteq Procs
          /\ notices' \subseteq Procs \X {"quarantine", "release"}
      BY Zenon, TypeFacts DEF Fix, Ask, Notice, know
    <2>3. cache' \in [Actors -> 0 .. Last]
      BY Zenon, TypeFacts, ForgetsType DEF Fix, Ask, Notice
    <2>4. Replayer \in Actors /\ HandOK(Replayer)' /\ First' = First
      BY Zenon, <2>1, HandSame, ProcFacts, FirstSame
    <2> QED
      BY SMT, <2>1, <2>2, <2>3, <2>4, TypeFacts, OneMoves
  <1>AppendSound. ASSUME Append PROVE Sound'
    <2> USE <1>AppendSound
    <2>1. head < Last /\ head' = head + 1 /\ UNCHANGED <<acked, bad, at, cache, view, marked, notices, mark, index, published, closed, asked, faults>>
      BY Zenon DEF Append, know, effects
    <2>2. head' \in Nat /\ head <= head' /\ acked' \in Nat /\ acked <= acked' /\ head' \in 0 .. Last
          /\ acked' \in 0 .. head' /\ mark' \in 0 .. head' /\ mark' <= acked' + 1 /\ 1 .. head \subseteq 1 .. head'
          /\ 0 .. head \subseteq 0 .. head'
      BY SMT, <2>1, TypeFacts
    <2>3. HandOK(Replayer)'
      <3>1. HandOK(Replayer) /\ R \in ActorType
        BY Zenon, SoundFacts, ActorFacts, ProcFacts DEF R
      <3>2. R.n \in Nat /\ R.to \in Nat
        BY <3>1 DEF ActorType
      <3> QED
        BY SMT, <2>1, <3>1, <3>2, TypeFacts DEF HandOK, R
    <2>4. \A b \in Actors : HandOK(b)'
      BY Zenon, <2>1, <2>2, <2>3, OthersStay, SoundFacts, ProcFacts
    <2>5. Bounds'
      BY Zenon, <2>1, <2>2, <2>4, TypeFacts DEF Bounds, First, R
    <2>6. index' \in IndexType(head') /\ view' \in [Procs -> 0 .. head']
      BY <2>1, <2>2, IndexTypeGrows, TypeFacts
    <2>7. published' \subseteq Jobs \cap (1 .. head')
      BY Zenon, <2>1, <2>2, TypeFacts
    <2>8. TypeOK'
      BY Zenon, <2>1, <2>2, <2>6, <2>7, TypeFacts DEF TypeOK, IndexType, Statuses
    <2> QED
      BY Zenon, <2>5, <2>8 DEF Sound
  <1>ReplaySound. ASSUME Replay PROVE Sound'
    <2> USE <1>ReplaySound
    <2>1. UNCHANGED <<head, acked, bad, view, marked, notices, mark, published, closed, faults>> /\ Replayer \in Actors
      BY Zenon, ProcFacts DEF Replay, know, effects
    <2>2. CASE mark = 0
      <3>1. asked' = FALSE /\ UNCHANGED <<at, cache, index>>
        BY Zenon, <2>2 DEF Replay
      <3>2. HandOK(Replayer)' /\ First' = First /\ asked' \in BOOLEAN /\ UNCHANGED <<at, cache, index>>
        BY Zenon, <2>1, <3>1, HandSame, FirstSame
      <3> QED
        BY SMT, <2>1, <3>2, TypeFacts, OneMoves
    <2>3. CASE mark # 0
      <3>1. Scans(mark, FALSE) /\ asked' = asked /\ StartsWork /\ Forgets(Home)
        BY Zenon, <2>3 DEF Replay
      <3>2. mark \in Nat \ {0} /\ 1 <= head /\ 1 \in 1 .. head
        BY SMT, <2>3, TypeFacts
      <3>3. /\ at' \in [Actors -> ActorType] /\ \A b \in Actors : b # Replayer => at'[b] = at[b]
            /\ HandOK(Replayer)'
        BY Zenon, <2>1, <3>1, <3>2, ScansFacts
      <3>4. index' \in IndexType(head) /\ cache' \in [Actors -> 0 .. Last]
        BY Zenon, <3>1, <3>2, IndexTypes, SoundFacts, ForgetsType DEF StartsWork
      <3> QED
        BY SMT, <2>1, <2>3, <3>1, <3>3, <3>4, TypeFacts, OneMoves
    <2> QED
      BY Zenon, <2>2, <2>3
  <1>OnwardSound. ASSUME Onward PROVE Sound'
    <2> USE <1>OnwardSound
    <2>1. R.pc = "ack" /\ UNCHANGED <<head, acked, bad, view, marked, notices, mark, index, published, closed, faults>>
      BY Zenon, OnwardMoves, SoundFacts
    <2>2. Replayer \in Actors /\ HandOK(Replayer) /\ R \in ActorType
      BY Zenon, ProcFacts, ActorFacts, SoundFacts DEF R
    <2>3. R.n \in Nat /\ R.to \in Nat /\ R.n <= R.to /\ R.to <= head /\ R.n >= 1 /\ R.catchUp \in BOOLEAN
      BY SMT, <2>1, <2>2 DEF ActorType, HandOK, R
    <2>4. asked' \in BOOLEAN
      BY Zenon, TypeFacts DEF Onward
    <2>5. cache' \in [Actors -> 0 .. Last]
      BY Zenon, TypeFacts, ForgetsType DEF Onward
    <2>6. CASE /\ R.n < R.to
               /\ at' \in [Actors -> ActorType] /\ \A b \in Actors : b # Replayer => at'[b] = at[b]
               /\ at'[Replayer].pc = "apply" /\ at'[Replayer].n = R.n + 1 /\ at'[Replayer].to = R.to
               /\ at'[Replayer].catchUp = R.catchUp
      <3>1. HandOK(Replayer)'
        <4>1. R.n \in Nat /\ R.to \in Nat /\ R.to <= head /\ head \in Nat /\ head' = head
          BY Zenon, <2>1, <2>3, TypeFacts
        <4> QED
          BY SMT, <2>6, <4>1, ProcFacts DEF HandOK
      <3>2. First' => First
        BY SMT, <2>1, <2>6 DEF First, R
      <3> QED
        BY Zenon, <2>1, <2>2, <2>4, <2>5, <2>6, <3>1, <3>2, TypeFacts, OneMoves
    <2>7. CASE R.n >= R.to /\ ~R.catchUp /\ Moved(Replayer, "release")
      <3>1. /\ at' \in [Actors -> ActorType] /\ \A b \in Actors : b # Replayer => at'[b] = at[b]
            /\ at'[Replayer].pc = "release" /\ at'[Replayer].n = R.n /\ at'[Replayer].to = R.to
            /\ at'[Replayer].catchUp = R.catchUp /\ ~at'[Replayer].catchUp
        BY Zenon, <2>7 DEF Moved, R
      <3>2. HandOK(Replayer)'
        BY SMT, <2>1, <2>3, <2>7, <3>1, ProcFacts, TypeFacts DEF HandOK
      <3>3. First' => First
        BY SMT, <2>1, <3>1 DEF First, R
      <3> QED
        BY Zenon, <2>1, <2>2, <2>4, <2>5, <3>1, <3>2, <3>3, TypeFacts, OneMoves
    <2>8. CASE Ended(Replayer)
      <3>1. /\ at' \in [Actors -> ActorType] /\ \A b \in Actors : b # Replayer => at'[b] = at[b]
            /\ HandOK(Replayer)'
        BY Zenon, <2>1, <2>2, <2>8, IdleHand, TypeFacts DEF Ended
      <3>2. ~First'
        BY SMT, <2>8, IdleFacts DEF Ended, First, R
      <3> QED
        BY Zenon, <2>1, <2>2, <2>4, <2>5, <3>1, <3>2, TypeFacts, OneMoves
    <2> QED
      BY Zenon, <2>6, <2>7, <2>8, OnwardMoves, SoundFacts
  <1>ReleaseSound. ASSUME Release PROVE Sound'
    <2> USE <1>ReleaseSound
    <2>1. R.pc = "release" /\ mark' = 0 /\ Goes(Replayer, "notify")
          /\ UNCHANGED <<head, acked, bad, cache, view, marked, notices, index, published, closed, asked, faults>>
      BY Zenon DEF Release, At, R, effects
    <2>2. Replayer \in Actors /\ HandOK(Replayer)
      BY Zenon, ProcFacts, SoundFacts
    <2>3. /\ at' \in [Actors -> ActorType] /\ \A b \in Actors : b # Replayer => at'[b] = at[b]
          /\ at'[Replayer].pc = "notify" /\ at'[Replayer].n = R.n /\ at'[Replayer].to = R.to
          /\ at'[Replayer].catchUp = R.catchUp
      BY Zenon, <2>1, <2>2, GoesFacts, SomePcs, TypeFacts DEF R
    <2>4. HandOK(Replayer)'
      BY SMT, <2>1, <2>2, <2>3, ProcFacts DEF HandOK, R
    <2>5. ~First'
      BY SMT, <2>3 DEF First, R
    <2> QED
      BY SMT, <2>1, <2>2, <2>3, <2>4, <2>5, TypeFacts, OneMoves
  <1>CatchUpSound. ASSUME CatchUp PROVE Sound'
    <2> USE <1>CatchUpSound
    <2>1. R.pc = "notify" /\ Scans(R.to + 1, TRUE) /\ UNCHANGED <<head, acked, bad, cache, view, mark, index, published, closed, asked, faults>>
      BY Zenon DEF CatchUp, At, R, effects
    <2>2. marked' \subseteq Procs /\ notices' \subseteq Procs \X {"quarantine", "release"} /\ Replayer \in Actors
      BY Zenon, ToldType, ProcFacts DEF CatchUp
    <2>3. R.to + 1 \in Nat \ {0} /\ 1 <= head
      BY SMT, <2>1, <2>2, ActorFacts, SoundFacts, TypeFacts DEF HandOK, R
    <2>4. /\ at' \in [Actors -> ActorType] /\ \A b \in Actors : b # Replayer => at'[b] = at[b]
          /\ HandOK(Replayer)' /\ at'[Replayer].catchUp
      BY Zenon, <2>1, <2>3, ScansFacts
    <2>5. ~First'
      BY Zenon, <2>4 DEF First, R
    <2> QED
      BY SMT, <2>1, <2>2, <2>4, <2>5, TypeFacts, OneMoves
  \* The ways the replay ends early, or its command comes again.
  <1>ReplayEndsSound. ASSUME ReplayFailed \/ ReleaseFails \/ CommandAgain PROVE Sound'
    <2> USE <1>ReplayEndsSound
    <2>1. Ends(Replayer) /\ Forgets(Replayer) /\ Replayer \in Actors
          /\ UNCHANGED <<head, acked, bad, view, marked, notices, mark, index, published, closed>>
      BY Zenon, ProcFacts DEF ReplayFailed, ReleaseFails, CommandAgain, know, effects
    <2>2. asked' \in BOOLEAN /\ faults' \in 0 .. MaxFaults /\ cache' \in [Actors -> 0 .. Last]
      BY Zenon, <2>1, TypeFacts, FaultType, ForgetsType DEF ReplayFailed, ReleaseFails, CommandAgain
    <2> QED
      BY SMT, <2>1, <2>2, ActorEnds, TypeFacts, OneMoves
  <1>CrashSound. ASSUME NEW p \in Procs, Crash(p) PROVE Sound'
    <2> USE <1>CrashSound
    <2>1. /\ UNCHANGED <<head, acked, bad, mark, published, closed, asked>>
          /\ at' \in [Actors -> ActorType] /\ (First' => First)
      BY Zenon, CrashMoves
    <2>2. \A a \in Actors : HandOK(a)'
      BY Zenon, <2>1, CrashMoves, HandSame, IdleHand, TypeFacts
    <2>3. faults' \in 0 .. MaxFaults
      BY Zenon, FaultType DEF Crash
    <2>4. cache' \in [Actors -> 0 .. Last] /\ view' \in [Procs -> 0 .. head]
      <3>1. 0 \in 0 .. Last /\ 0 \in 0 .. head
        BY SMT, TypeFacts
      <3> QED
        BY Zenon, <3>1, TypeFacts DEF Crash
    <2>5. marked' \subseteq Procs /\ notices' \subseteq Procs \X {"quarantine", "release"}
      BY Zenon, TypeFacts DEF Crash
    <2>6. index' \in IndexType(head)
      <3>1. PICK a \in Actors : index' \in HalfIndexed(a)
        BY Zenon DEF Crash
      <3> QED
        BY Zenon, <3>1, HalfIndexedType
    <2> QED
      BY SMT, <2>1, <2>2, <2>3, <2>4, <2>5, <2>6, AllMove, TypeFacts
  <1>1. CASE UNCHANGED vars
    BY Zenon, <1>1 DEF Sound, TypeOK, Bounds, HandOK, First, R, vars
  <1>2. CASE \E a \in Actors : ApplyDecision(a) \/ Upset(a)
    BY Zenon, <1>2, <1>ApplySound, <1>EffectsSound, <1>IndexSound, <1>DeleteSound, <1>UpsetSound DEF ApplyDecision
  <1>3. CASE Replay \/ Onward \/ Release \/ CatchUp \/ ReplayFailed \/ ReleaseFails \/ CommandAgain
    BY Zenon, <1>3, <1>ReplaySound, <1>OnwardSound, <1>ReleaseSound, <1>CatchUpSound, <1>ReplayEndsSound
  <1>4. CASE \E p \in Procs : Skip(p) \/ Ack(p) \/ Confirm(p) \/ Quarantine(p) \/ Close(p)
    BY Zenon, <1>4, <1>SkipSound, <1>AckSound, <1>ConfirmSound, <1>QuarantineSound, <1>CloseSound
  <1>5. CASE \E p \in Procs : Deliver(p) \/ SkipFails(p) \/ QuarantineFails(p) \/ CloseFails(p) \/ Crash(p)
    BY Zenon, <1>5, <1>DeliverSound, <1>SkipFailsSound, <1>QuarantineFailsSound, <1>CloseSound, <1>CrashSound
  <1>6. CASE Append \/ Fix \/ Ask \/ \E p \in Procs, kind \in {"quarantine", "release"} : Notice(p, kind)
    BY Zenon, <1>6, <1>AppendSound, <1>StillSound
  <1> QED
    BY Zenon, <1>1, <1>2, <1>3, <1>4, <1>5, <1>6, ProcFacts DEF Next, Replays, Handle

LEMMA SoundInit ==
    ASSUME Init
    PROVE  Sound
  <1>1. /\ head = 0 /\ acked = 0 /\ mark = 0 /\ faults = 0 /\ at = [a \in Actors |-> Idle]
        /\ cache = [a \in Actors |-> 0] /\ view = [p \in Procs |-> 0] /\ published = {} /\ marked = {} /\ notices = {}
        /\ bad \subseteq Failures /\ closed = FALSE /\ asked = FALSE /\ index = [shown |-> "none", keys |-> {}]
    BY Zenon DEF Init
  <1>2. 0 \in 0 .. Last /\ 0 \in 0 .. 0 /\ 0 \in 0 .. MaxFaults /\ 0 <= 0 + 1 /\ 0 <= 0
    BY SMT, DispatchAssumption
  <1>3. \A a \in Actors : at[a] = Idle
    BY Zenon, <1>1
  <1>4. TypeOK
    <2>1. at \in [Actors -> ActorType] /\ cache \in [Actors -> 0 .. Last] /\ view \in [Procs -> 0 .. head]
      BY Zenon, <1>1, <1>2, IdleFacts
    <2>2. index \in [shown : {"none", "raced"} \cup {Status[n] : n \in 1 .. head}, keys : SUBSET {Status[n] : n \in 1 .. head}]
      BY Zenon, <1>1
    <2> QED
      BY Zenon, <1>1, <1>2, <2>1, <2>2 DEF TypeOK
  <1>5. \A a \in Actors : HandOK(a)
    <2>1. ~Idle.catchUp /\ "idle" # "release" /\ "idle" # "notify" /\ "idle" # "close"
      BY Zenon, IdleFacts
    <2> QED
      BY Zenon, <1>1, <1>2, <1>3, <2>1, IdleFacts DEF HandOK
  <1>6. ~First
    BY SMT, <1>3, IdleFacts, ProcFacts DEF First, R
  <1> QED
    BY Zenon, <1>1, <1>2, <1>4, <1>5, <1>6 DEF Sound, Bounds

\* Types; no actor works beyond the head of the log, nothing is acknowledged,
\* folded, marked or run beyond it (handle, stateBefore, Replay).
THEOREM TypeCorrect == Spec => []TypeOK
  <1>1. Sound /\ [Next]_vars => Sound'
    BY Zenon, SoundNext
  <1>2. Sound => TypeOK
    BY Zenon DEF Sound
  <1> QED
    BY <1>1, <1>2, SoundInit, PTL DEF Spec

----------------------------------------------------------------------------
(* What is wrong, and what the replay has seen of it. *)

\* Actor a has nothing to do with decision b being unreadable: it has not folded it.
PastOK(a, b) ==
  /\ cache[a] < b
  /\ at[a].pc \in {"effects", "index", "delete"} => at[a].n < b
  /\ a = Replayer /\ ~at[a].catchUp /\ at[a].pc \in {"ack", "release"} => at[a].n < b
\* Process p has met what is wrong.
Judged(p) == at[p].pc = "quarantine" \/ (at[p].pc = "failed" /\ at[p].det)
Seen(b) == (mark # 0 \/ \E p \in Procs : Judged(p)) => b <= head
\* The first pass meets what is wrong; the second runs beyond it.
Scanned(b, k) ==
  /\ First => b <= R.to
  /\ R.pc = "notify" => k = "effect" /\ b <= R.to
  /\ R.catchUp => k = "effect" /\ b <= R.n /\ (R.pc # "ack" => b < R.n)
Kinds == {"fold", "effect"}
BadInv ==
  /\ \A x, y \in bad : x = y
  /\ \A b \in Decisions : <<b, "fold">> \in bad => \A a \in Actors : PastOK(a, b)
  /\ \A b \in Decisions, k \in Kinds : <<b, k>> \in bad => Seen(b) /\ Scanned(b, k)

LEMMA BadShrinks ==
    ASSUME Sound, [Next]_vars
    PROVE  bad' = bad \/ bad' = {}
  <1>1. TypeOK
    BY Zenon, SoundFacts
  <1>2. CASE UNCHANGED vars
    BY Zenon, <1>2 DEF vars
  <1>3. CASE \E a \in Actors : ApplyDecision(a) \/ Upset(a)
    BY Zenon, <1>1, <1>3, ApplyMoves, EffectsMoves, IndexMoves, DeleteMoves, UpsetMoves DEF ApplyDecision
  <1>4. CASE Replay \/ Onward \/ Release \/ CatchUp \/ ReplayFailed \/ ReleaseFails \/ CommandAgain
    BY Zenon, <1>4 DEF Replay, Onward, Release, CatchUp, ReplayFailed, ReleaseFails, CommandAgain
  <1>5. CASE \E p \in Procs : Skip(p) \/ Ack(p) \/ Confirm(p) \/ Quarantine(p) \/ Close(p)
    BY Zenon, <1>5 DEF Skip, Ack, Confirm, Quarantine, Close
  <1>6. CASE \E p \in Procs : Deliver(p) \/ SkipFails(p) \/ QuarantineFails(p) \/ CloseFails(p) \/ Crash(p)
    BY Zenon, <1>6 DEF Deliver, SkipFails, QuarantineFails, CloseFails, Crash
  <1>7. CASE Append \/ Fix \/ Ask \/ \E p \in Procs, kind \in {"quarantine", "release"} : Notice(p, kind)
    BY Zenon, <1>7 DEF Append, Fix, Ask, Notice
  <1> QED
    BY Zenon, <1>2, <1>3, <1>4, <1>5, <1>6, <1>7, ProcFacts DEF Next, Replays, Handle

LEMMA ApplyFolds ==
    ASSUME Sound, NEW a \in Actors, NEW b \in Decisions, <<b, "fold">> \in bad, PastOK(a, b), Folds(ToFold(a)), at[a].pc = "apply"
    PROVE  at[a].n < b
  <1>1. cache[a] < b /\ b \notin ToFold(a)
    BY Zenon DEF PastOK, Folds
  <1>2. at[a].n >= 1 /\ at[a].n \in Nat /\ b \in Nat /\ b >= 1 /\ cache[a] \in Nat
    BY SMT, SoundFacts, ActorFacts, TypeFacts DEF HandOK, Decisions
  <1>3. CASE cache[a] = at[a].n - 1
    <2>1. ToFold(a) = at[a].n .. at[a].n
      BY Zenon, <1>3 DEF ToFold
    <2> QED
      BY SMT, <1>1, <1>2, <1>3, <2>1
  <1>4. CASE cache[a] # at[a].n - 1
    <2>1. ToFold(a) = 1 .. at[a].n
      BY Zenon, <1>4 DEF ToFold
    <2> QED
      BY SMT, <1>1, <1>2, <2>1
  <1> QED
    BY Zenon, <1>3, <1>4

LEMMA PastKept ==
    ASSUME Sound, NEW a \in Actors, NEW b \in Decisions, PastOK(a, b), cache'[a] = cache[a] \/ cache'[a] = 0,
           \/ at'[a] = at[a] \/ at'[a] = Idle
           \/ at'[a].pc \in {"apply", "failed", "skip", "quarantine", "close", "notify"}
           \/ at'[a].pc = "ack" /\ (a # Replayer \/ at'[a].catchUp)
    PROVE  PastOK(a, b)'
  <1>1. b \in Nat /\ 0 < b
    BY SMT, TypeFacts DEF Decisions
  <1>2. cache'[a] < b
    BY Zenon, <1>1 DEF PastOK
  <1>3. CASE at'[a] = at[a]
    BY Zenon, <1>2, <1>3 DEF PastOK
  <1>4. CASE at'[a] = Idle
    <2>1. at'[a].pc = "idle"
      BY Zenon, <1>4, IdleFacts
    <2> QED
      BY Zenon, <1>2, <2>1 DEF PastOK
  <1>5. CASE at'[a].pc \in {"apply", "failed", "skip", "quarantine", "close", "notify"}
    <2>1. at'[a].pc \notin {"effects", "index", "delete", "ack", "release"}
      BY SMT, <1>5
    <2> QED
      BY Zenon, <1>2, <2>1 DEF PastOK
  <1>6. CASE at'[a].pc = "ack" /\ (a # Replayer \/ at'[a].catchUp)
    <2>1. at'[a].pc \notin {"effects", "index", "delete"}
      BY SMT, <1>6
    <2> QED
      BY Zenon, <1>2, <1>6, <2>1 DEF PastOK
  <1> QED
    BY Zenon, <1>3, <1>4, <1>5, <1>6

LEMMA DecidesPast ==
    ASSUME Sound, NEW a \in Actors, ApplyDecision(a) \/ Upset(a), NEW b \in Decisions, <<b, "fold">> \in bad,
           \A c \in Actors : PastOK(c, b)
    PROVE  \A c \in Actors : PastOK(c, b)'
  <1>1. TypeOK /\ PastOK(a, b)
    BY Zenon, SoundFacts
  <1>2. SUFFICES (\A c \in Actors : c # a => at'[c] = at[c] /\ cache'[c] = cache[c]) /\ PastOK(a, b)'
    BY Zenon, PastKept
  <1>3. CASE Apply(a)
    <2>1. CASE Moved(a, "failed") /\ Keeps(a, 0)
      BY Zenon, <1>1, <2>1, PastKept DEF Moved, Keeps
    <2>2. CASE /\ Moved(a, "index") \/ Moved(a, "effects") 
               /\ Keeps(a, at[a].n) \/ Keeps(a, cache[a]) 
               /\ Folds(ToFold(a)) /\ at[a].pc = "apply"
      <3>1. at[a].n < b
        BY Zenon, <1>1, <2>2, ApplyFolds
      <3>2. (at'[a].pc = "index" \/ at'[a].pc = "effects") /\ at'[a].n = at[a].n /\ cache'[a] < b
        BY Zenon, <1>1, <2>2, <3>1 DEF Moved, Keeps, PastOK
      <3>3. PastOK(a, b)'
        BY SMT, <3>1, <3>2 DEF PastOK
      <3> QED
        BY Zenon, <2>2, <3>3 DEF Moved, Keeps
    <2> QED
      BY Zenon, <1>1, <1>3, <2>1, <2>2, ApplyMoves
  <1>4. CASE Effects(a)
    <2>1. CASE Moved(a, "failed") /\ Keeps(a, 0)
      BY Zenon, <1>1, <2>1, PastKept DEF Moved, Keeps
    <2>2. CASE Moved(a, "index") /\ Keeps(a, at[a].n) /\ at[a].pc = "effects"
      <3>1. at[a].n < b
        BY Zenon, <1>1, <2>2 DEF PastOK
      <3>2. at'[a].pc = "index" /\ at'[a].n = at[a].n /\ cache'[a] < b
        BY Zenon, <2>2, <3>1 DEF Moved, Keeps
      <3>3. PastOK(a, b)'
        BY SMT, <3>1, <3>2 DEF PastOK
      <3> QED
        BY Zenon, <2>2, <3>3 DEF Moved, Keeps
    <2> QED
      BY Zenon, <1>1, <1>4, <2>1, <2>2, EffectsMoves
  <1>5. CASE Index(a) \/ Delete(a)
    <2>1. (at[a].pc = "index" \/ at[a].pc = "delete") /\ (Moved(a, "ack") \/ Moved(a, "delete")) /\ cache' = cache
      BY Zenon, <1>1, <1>5, IndexMoves, DeleteMoves
    <2>2. at[a].n < b /\ cache[a] < b
      BY Zenon, <1>1, <2>1 DEF PastOK
    <2>3. PastOK(a, b)'
      BY Zenon, <2>1, <2>2 DEF PastOK, Moved
    <2> QED
      BY Zenon, <2>1, <2>3 DEF Moved
  <1>6. CASE Upset(a)
    BY Zenon, <1>1, <1>6, UpsetMoves, PastKept DEF Moved, Keeps
  <1> QED
    BY Zenon, <1>3, <1>4, <1>5, <1>6 DEF ApplyDecision

LEMMA ForgetsAll ==
    ASSUME TypeOK, NEW x, Forgets(x)
    PROVE  \A c \in Actors : cache'[c] = cache[c] \/ cache'[c] = 0
  <1>1. cache \in [Actors -> 0 .. Last]
    BY Zenon DEF TypeOK
  <1> QED
    BY Zenon, <1>1 DEF Forgets

LEMMA ReplayMoves ==
    ASSUME Sound, Replay
    PROVE  /\ R.pc = "idle"
           /\ UNCHANGED <<head, acked, bad, view, marked, notices, mark, published, closed, faults>>
           /\ \/ mark = 0 /\ UNCHANGED <<at, cache, index>>
              \/ /\ mark # 0 /\ StartsWork /\ \A c \in Actors : cache'[c] = cache[c] \/ cache'[c] = 0
                 /\ at' \in [Actors -> ActorType] /\ \A b \in Actors : b # Replayer => at'[b] = at[b]
                 /\ at'[Replayer].pc = "apply" /\ at'[Replayer].n = mark /\ at'[Replayer].to = head
                 /\ ~at'[Replayer].catchUp
  <1>1. R.pc = "idle" /\ UNCHANGED <<head, acked, bad, view, marked, notices, mark, published, closed, faults>>
    BY Zenon DEF Replay, At, R, know, effects
  <1>2. CASE mark = 0
    BY Zenon, <1>1, <1>2 DEF Replay
  <1>3. CASE mark # 0
    <2>1. Scans(mark, FALSE) /\ StartsWork /\ Forgets(Home)
      BY Zenon, <1>3 DEF Replay
    <2>2. mark \in Nat \ {0} /\ 1 <= head /\ ~(mark > head)
      BY SMT, <1>3, TypeFacts
    <2>3. \A c \in Actors : cache'[c] = cache[c] \/ cache'[c] = 0
      BY Zenon, <2>1, ForgetsAll, SoundFacts
    <2> QED
      BY Zenon, <1>1, <1>3, <2>1, <2>2, <2>3, ScansFacts
  <1> QED
    BY Zenon, <1>2, <1>3

LEMMA CatchUpMoves ==
    ASSUME Sound, CatchUp
    PROVE  /\ R.pc = "notify" /\ UNCHANGED <<head, acked, bad, cache, view, mark, index, published, closed, asked, faults>>
           /\ at' \in [Actors -> ActorType] /\ \A b \in Actors : b # Replayer => at'[b] = at[b]
           /\ at'[Replayer].to = head /\ at'[Replayer].catchUp
           /\ \/ R.to + 1 > head /\ at'[Replayer].pc = "ack" /\ at'[Replayer].n = head
              \/ R.to + 1 <= head /\ at'[Replayer].pc = "apply" /\ at'[Replayer].n = R.to + 1
  <1>1. R.pc = "notify" /\ Scans(R.to + 1, TRUE) /\ UNCHANGED <<head, acked, bad, cache, view, mark, index, published, closed, asked, faults>>
    BY Zenon DEF CatchUp, At, R, effects
  <1>2. R.to + 1 \in Nat \ {0} /\ 1 <= head /\ (~(R.to + 1 > head) => R.to + 1 <= head)
    BY SMT, <1>1, ProcFacts, ActorFacts, SoundFacts, TypeFacts DEF HandOK, R
  <1> QED
    BY Zenon, <1>1, <1>2, ScansFacts

LEMMA ReleaseMoves ==
    ASSUME TypeOK, Release
    PROVE  /\ R.pc = "release" /\ mark' = 0 /\ Moved(Replayer, "notify")
           /\ UNCHANGED <<head, acked, bad, cache, view, marked, notices, index, published, closed, asked, faults>>
  BY Zenon, MovedGoes, SomePcs, ProcFacts DEF Release, At, R, effects

LEMMA ReplayEndsMoves ==
    ASSUME TypeOK, ReplayFailed \/ ReleaseFails \/ CommandAgain
    PROVE  /\ Ended(Replayer) /\ Keeps(Replayer, 0)
           /\ UNCHANGED <<head, acked, bad, view, marked, notices, mark, index, published, closed>>
  BY Zenon, EndedEnds, KeepsForgets, ProcFacts DEF ReplayFailed, ReleaseFails, CommandAgain, know, effects

\* The handlers of a process that neither fold nor publish.
LEMMA HandlesMoves ==
    ASSUME Sound, NEW p \in Procs, Skip(p) \/ Ack(p) \/ Confirm(p) \/ Quarantine(p) \/ Close(p) \/ Deliver(p)
                                   \/ SkipFails(p) \/ QuarantineFails(p) \/ CloseFails(p)
    PROVE  /\ at' \in [Actors -> ActorType] /\ \A b \in Actors : b # p => at'[b] = at[b]
           /\ at'[p] = Idle \/ at'[p].pc \in {"apply", "skip", "quarantine", "close", "ack"}
           /\ Keeps(p, 0) \/ cache' = cache
           /\ UNCHANGED <<head, bad, view, published>>
  <1>1. TypeOK /\ p \in Actors
    BY Zenon, SoundFacts, ProcFacts
  <1>2. CASE Skip(p)
    BY Zenon, <1>1, <1>2, SkipMoves DEF Moved
  <1>3. CASE Ack(p) \/ SkipFails(p) \/ QuarantineFails(p)
    BY Zenon, <1>1, <1>3, EndedEnds DEF Ack, SkipFails, QuarantineFails, Ended, effects
  <1>4. CASE Confirm(p)
    BY Zenon, <1>1, <1>4, ConfirmMoves DEF Moved, Ended
  <1>5. CASE Quarantine(p)
    BY Zenon, <1>1, <1>5, QuarantineMoves DEF Moved
  <1>6. CASE Close(p) \/ CloseFails(p)
    BY Zenon, <1>1, <1>6, CloseMoves DEF Moved, Ended
  <1>7. CASE Deliver(p)
    BY Zenon, <1>1, <1>7, DeliverMoves
  <1> QED
    BY Zenon, <1>2, <1>3, <1>4, <1>5, <1>6, <1>7

LEMMA StillMoves ==
    ASSUME TypeOK, Append \/ Fix \/ Ask \/ \E p \in Procs, kind \in {"quarantine", "release"} : Notice(p, kind)
    PROVE  /\ UNCHANGED <<at, acked, mark, view, index, published, closed, faults>>
           /\ \A c \in Actors : cache'[c] = cache[c] \/ cache'[c] = 0
  <1>1. CASE Append \/ Fix \/ Ask
    BY Zenon, <1>1 DEF Append, Fix, Ask, know, effects
  <1>2. CASE \E p \in Procs, kind \in {"quarantine", "release"} : Notice(p, kind)
    BY Zenon, <1>2, ForgetsAll DEF Notice, effects
  <1> QED
    BY Zenon, <1>1, <1>2

LEMMA Blame ==
    ASSUME Sound, BadInv, NEW a \in Actors, at[a].pc # "idle", NEW b \in Decisions, NEW k \in Kinds, <<b, k>> \in bad,
           ~Folds(ToFold(a)) \/ ~Folds(1 .. head) \/ Refused(at[a].n)
    PROVE  b <= head
  <1>1. at[a].n >= 1 /\ at[a].n \in Nat /\ at[a].n <= head /\ head \in Nat
    BY SMT, SoundFacts, ActorFacts, TypeFacts DEF HandOK
  <1>2. ToFold(a) \subseteq 1 .. head
    BY SMT, <1>1 DEF ToFold
  <1>3. PICK m \in 1 .. head, j \in Kinds : <<m, j>> \in bad
    <2>1. at[a].n \in 1 .. head
      BY SMT, <1>1
    <2> QED
      BY Zenon, <1>2, <2>1 DEF Folds, Refused, Kinds
  <1>4. <<m, j>> = <<b, k>>
    BY Zenon, <1>3 DEF BadInv
  <1>5. m = b
    BY SMT, <1>4
  <1> QED
    BY SMT, <1>1, <1>5

Alarm == mark # 0 \/ \E p \in Procs : Judged(p)

LEMMA NotJudged ==
    ASSUME NEW p, at'[p] = Idle \/ at'[p].pc \in {"apply", "effects", "index", "delete", "skip", "close", "ack"}
    PROVE  ~Judged(p)'
  BY SMT, IdleFacts DEF Judged

LEMMA ReplayerFacts ==
    ASSUME Sound
    PROVE  /\ TypeOK /\ Replayer \in Actors /\ HandOK(Replayer) /\ R \in ActorType /\ R.n \in Nat /\ R.to \in Nat
           /\ R.n <= R.to /\ R.to <= head /\ head \in Nat /\ (R.pc # "idle" => R.n >= 1)
           /\ (R.pc \in {"release", "notify"} => R.n = R.to /\ ~R.catchUp)
           /\ (R.pc = "idle" => ~R.catchUp)
           /\ R.pc \in {"idle", "apply", "effects", "index", "delete", "ack", "failed", "release", "notify"}
  <1>1. TypeOK /\ Replayer \in Actors /\ HandOK(Replayer) /\ R \in ActorType
    BY Zenon, SoundFacts, ProcFacts, ActorFacts DEF R
  <1>2. R.n \in Nat /\ R.to \in Nat
    BY SMT, <1>1 DEF ActorType
  <1>3. R.pc = "idle" => ~R.catchUp
    BY Zenon, <1>1, IdleFacts DEF HandOK, R
  <1> QED
    BY Zenon, <1>1, <1>2, <1>3, TypeFacts DEF HandOK, R

\* The replay does not move.
LEMMA ScannedSame ==
    ASSUME at'[Replayer] = at[Replayer], NEW b, NEW k, Scanned(b, k)
    PROVE  Scanned(b, k)'
  BY Zenon DEF Scanned, First, R

LEMMA ScannedIdle ==
    ASSUME at'[Replayer] = Idle, NEW b, NEW k
    PROVE  Scanned(b, k)'
  <1>1. at'[Replayer].pc = "idle" /\ ~at'[Replayer].catchUp
    BY Zenon, IdleFacts
  <1> QED
    BY Zenon, <1>1 DEF Scanned, First, R

LEMMA ScannedMoved ==
    ASSUME Sound, NEW b \in Decisions, NEW k, Scanned(b, k), NEW pc, Moved(Replayer, pc),
           R.pc \in {"apply", "effects", "index", "delete"},
           pc \in {"effects", "index", "delete", "ack", "failed"}
    PROVE  Scanned(b, k)'
  <1>1. /\ at'[Replayer].pc = pc /\ at'[Replayer].n = R.n /\ at'[Replayer].to = R.to
        /\ at'[Replayer].catchUp = R.catchUp
    BY Zenon DEF Moved, R
  <1>2. First' => First
    BY Zenon, <1>1 DEF First, R
  <1>3. R.pc # "ack" /\ pc # "notify"
    BY SMT
  <1>4. b < R.n => b <= R.n
    BY SMT, ReplayerFacts DEF Decisions
  <1> QED
    BY Zenon, <1>1, <1>2, <1>3, <1>4 DEF Scanned, R

LEMMA DecidesMoves ==
    ASSUME Sound, NEW a \in Actors, ApplyDecision(a) \/ Upset(a)
    PROVE  /\ at[a].pc \in {"apply", "effects", "index", "delete"}
           /\ \E pc \in {"effects", "index", "delete", "ack", "failed"} : Moved(a, pc)
           /\ UNCHANGED <<head, acked, bad, marked, notices, mark, asked>>
  BY Zenon, SoundFacts, ApplyMoves, EffectsMoves, IndexMoves, DeleteMoves, UpsetMoves DEF ApplyDecision

LEMMA HeadGrows ==
    ASSUME Sound, [Next]_vars
    PROVE  head' = head \/ (head' = head + 1 /\ Append)
  <1>1. CASE UNCHANGED vars
    BY Zenon, <1>1 DEF vars
  <1>2. CASE \E a \in Actors : ApplyDecision(a) \/ Upset(a)
    BY Zenon, <1>2, DecidesMoves
  <1>3. CASE Replay \/ Onward \/ Release \/ CatchUp \/ ReplayFailed \/ ReleaseFails \/ CommandAgain
    BY Zenon, <1>3 DEF Replay, Onward, Release, CatchUp, ReplayFailed, ReleaseFails, CommandAgain
  <1>4. CASE \E p \in Procs : Skip(p) \/ Ack(p) \/ Confirm(p) \/ Quarantine(p) \/ Close(p)
    BY Zenon, <1>4 DEF Skip, Ack, Confirm, Quarantine, Close
  <1>5. CASE \E p \in Procs : Deliver(p) \/ SkipFails(p) \/ QuarantineFails(p) \/ CloseFails(p) \/ Crash(p)
    BY Zenon, <1>5 DEF Deliver, SkipFails, QuarantineFails, CloseFails, Crash
  <1>6. CASE Append \/ Fix \/ Ask \/ \E p \in Procs, kind \in {"quarantine", "release"} : Notice(p, kind)
    BY Zenon, <1>6 DEF Append, Fix, Ask, Notice
  <1> QED
    BY Zenon, <1>1, <1>2, <1>3, <1>4, <1>5, <1>6, ProcFacts DEF Next, Replays, Handle

LEMMA BadNext ==
    ASSUME Sound, BadInv, [Next]_vars
    PROVE  BadInv'
  <1>PastStep. ASSUME NEW b \in Decisions, <<b, "fold">> \in bad, \A a \in Actors : PastOK(a, b)
               PROVE  \A a \in Actors : PastOK(a, b)'
    <2> USE <1>PastStep
    <2>1. TypeOK /\ Replayer \in Actors
      BY Zenon, SoundFacts, ProcFacts
    <2>2. CASE UNCHANGED vars
      BY Zenon, <2>2, PastKept DEF vars
    <2>3. CASE \E a \in Actors : ApplyDecision(a) \/ Upset(a)
      BY Zenon, <2>3, DecidesPast
    <2>4. CASE Replay
      BY Zenon, <2>4, ReplayMoves, PastKept
    <2>5. CASE Onward
      <3>1. CASE R.n >= R.to /\ ~R.catchUp /\ Moved(Replayer, "release") /\ cache' = cache
        <4>1. R.pc = "ack"
          BY Zenon, <2>1, <2>5, OnwardMoves
        <4>2. R.n < b /\ cache[Replayer] < b
          BY Zenon, <2>1, <3>1, <4>1 DEF PastOK, R
        <4>3. at'[Replayer].pc = "release" /\ at'[Replayer].n < b
          BY Zenon, <3>1, <4>2 DEF Moved, R
        <4>4. PastOK(Replayer, b)'
          BY SMT, <3>1, <4>2, <4>3 DEF PastOK
        <4> QED
          BY Zenon, <3>1, <4>4, PastKept DEF Moved
      <3>2. CASE cache' = cache /\ at'[Replayer].pc = "apply" /\ \A c \in Actors : c # Replayer => at'[c] = at[c]
        BY Zenon, <3>2, PastKept
      <3>3. CASE Ended(Replayer) /\ Keeps(Replayer, 0)
        BY Zenon, <3>3, PastKept DEF Ended, Keeps
      <3> QED
        BY Zenon, <2>1, <2>5, <3>1, <3>2, <3>3, OnwardMoves
    <2>6. CASE Release
      BY Zenon, <2>1, <2>6, ReleaseMoves, PastKept DEF Moved
    <2>7. CASE CatchUp
      BY Zenon, <2>1, <2>7, CatchUpMoves, PastKept
    <2>8. CASE ReplayFailed \/ ReleaseFails \/ CommandAgain
      BY Zenon, <2>1, <2>8, ReplayEndsMoves, PastKept DEF Ended, Keeps
    <2>9. CASE \E p \in Procs : Skip(p) \/ Ack(p) \/ Confirm(p) \/ Quarantine(p) \/ Close(p) \/ Deliver(p)
                                \/ SkipFails(p) \/ QuarantineFails(p) \/ CloseFails(p)
      BY Zenon, <2>1, <2>9, HandlesMoves, PastKept, ProcFacts DEF Keeps
    <2>10. CASE \E p \in Procs : Crash(p)
      BY Zenon, <2>10, CrashMoves, PastKept
    <2>11. CASE Append \/ Fix \/ Ask \/ \E p \in Procs, kind \in {"quarantine", "release"} : Notice(p, kind)
      BY Zenon, <2>1, <2>11, StillMoves, PastKept
    <2> QED
      BY Zenon, <2>2, <2>3, <2>4, <2>5, <2>6, <2>7, <2>8, <2>9, <2>10, <2>11, ProcFacts DEF Next, Replays, Handle
  <1>AlarmStep. ASSUME NEW b \in Decisions, NEW k \in Kinds, <<b, k>> \in bad, Alarm'
                PROVE  Alarm \/ b <= head
    <2> USE <1>AlarmStep
    <2>1. TypeOK /\ Replayer \in Actors /\ \A p \in Procs : p \in Actors /\ p # Replayer
      BY Zenon, SoundFacts, ProcFacts
    <2>2. CASE mark' = mark /\ \A p \in Procs : at'[p] = at[p] \/ ~Judged(p)'
      BY Zenon, <2>2 DEF Alarm, Judged
    <2>3. CASE \E a \in Actors : ApplyDecision(a) \/ Upset(a)
      <3>1. PICK a \in Actors : ApplyDecision(a) \/ Upset(a)
        BY Zenon, <2>3
      <3>2. CASE Moved(a, "failed") /\ at'[a].det = TRUE /\ (Apply(a) \/ Effects(a))
        <4>1. (at[a].pc = "apply" \/ at[a].pc = "effects")
              /\ (~Folds(ToFold(a)) \/ ~Folds(1 .. head) \/ Refused(at[a].n))
          <5>1. "failed" # "index" /\ "failed" # "effects"
            BY Zenon
          <5> QED
            BY Zenon, <2>1, <3>2, <5>1, ApplyMoves, EffectsMoves DEF Moved
        <4>2. at[a].pc # "idle"
          BY SMT, <4>1
        <4> QED
          BY Zenon, <4>1, <4>2, Blame
      <3>3. CASE Moved(a, "index") \/ Moved(a, "effects") \/ Moved(a, "delete") \/ Moved(a, "ack")
        <4>1. mark' = mark
          BY Zenon, <2>1, <3>1, ApplyMoves, EffectsMoves, IndexMoves, DeleteMoves, UpsetMoves DEF ApplyDecision
        <4>2. ~Judged(a)'
          BY Zenon, <3>3, NotJudged DEF Moved
        <4> QED
          BY Zenon, <2>1, <2>2, <3>3, <4>1, <4>2 DEF Moved
      <3>4. CASE Upset(a)
        <4>1. mark' = mark /\ Moved(a, "failed") /\ ~at'[a].det
          BY Zenon, <2>1, <3>4, UpsetMoves
        <4>2. ~Judged(a)'
          BY SMT, <4>1 DEF Moved, Judged
        <4> QED
          BY Zenon, <2>1, <2>2, <4>1, <4>2 DEF Moved
      <3> QED
        BY Zenon, <2>1, <3>1, <3>2, <3>3, <3>4, ApplyMoves, EffectsMoves, IndexMoves, DeleteMoves DEF ApplyDecision
    <2>4. CASE UNCHANGED vars
      BY Zenon, <2>2, <2>4 DEF vars
    <2>5. CASE Replay \/ Onward \/ CatchUp \/ ReplayFailed \/ ReleaseFails \/ CommandAgain
      BY Zenon, <2>1, <2>2, <2>5, ReplayMoves, OnwardMoves, CatchUpMoves, ReplayEndsMoves DEF Moved, Ended
    <2>6. CASE Release
      <3>1. \A p \in Procs : at'[p] = at[p]
        BY Zenon, <2>1, <2>6, ReleaseMoves DEF Moved
      <3>2. mark' = 0
        BY Zenon, <2>6, ReleaseMoves, <2>1
      <3> QED
        BY Zenon, <3>1, <3>2 DEF Alarm, Judged
    <2>7. CASE \E p \in Procs : Quarantine(p) \/ QuarantineFails(p)
      BY Zenon, <2>7 DEF Quarantine, QuarantineFails, At, Alarm, Judged
    <2>8. CASE \E p \in Procs : Confirm(p)
      <3>1. PICK p \in Procs : Confirm(p)
        BY Zenon, <2>8
      <3>2. mark' = mark /\ (\A q \in Procs : q # p => at'[q] = at[q]) /\ at[p].pc = "failed"
        BY Zenon, <2>1, <3>1, ConfirmMoves DEF Moved, Ended
      <3>3. CASE at[p].det
        BY Zenon, <3>2, <3>3 DEF Alarm, Judged
      <3>4. CASE ~at[p].det
        <4>1. at'[p] = Idle \/ at'[p].pc \in {"close", "ack"}
          BY Zenon, <2>1, <3>1, <3>4, ConfirmMoves DEF Moved, Ended
        <4> QED
          BY Zenon, <2>2, <3>2, <4>1, NotJudged
      <3> QED
        BY Zenon, <3>3, <3>4
    <2>9. CASE \E p \in Procs : Skip(p) \/ Ack(p) \/ Close(p) \/ CloseFails(p) \/ Deliver(p) \/ SkipFails(p)
      <3>1. PICK p \in Procs : Skip(p) \/ Ack(p) \/ Close(p) \/ CloseFails(p) \/ Deliver(p) \/ SkipFails(p)
        BY Zenon, <2>9
      <3>2. mark' = mark
        BY Zenon, <3>1 DEF Skip, Ack, Close, CloseFails, Deliver, SkipFails, know
      <3>3. at'[p] = Idle \/ at'[p].pc \in {"apply", "skip", "close", "ack"}
        BY Zenon, <2>1, <3>1, SkipMoves, CloseMoves, DeliverMoves, EndedEnds DEF Ack, SkipFails, Moved, Ended
      <3> QED
        BY Zenon, <2>1, <2>2, <3>1, <3>2, <3>3, HandlesMoves, NotJudged
    <2>10. CASE \E p \in Procs : Crash(p)
      BY Zenon, <2>1, <2>2, <2>10, CrashMoves, NotJudged
    <2>11. CASE Append \/ Fix \/ Ask \/ \E p \in Procs, kind \in {"quarantine", "release"} : Notice(p, kind)
      BY Zenon, <2>1, <2>2, <2>11, StillMoves
    <2> QED
      BY Zenon, <2>3, <2>4, <2>5, <2>6, <2>7, <2>8, <2>9, <2>10, <2>11, ProcFacts DEF Next, Replays, Handle
  <1>ScannedStep. ASSUME NEW b \in Decisions, NEW k \in Kinds, <<b, k>> \in bad PROVE Scanned(b, k)'
    <2> USE <1>ScannedStep
    <2>0. b \in Nat
      BY SMT, TypeFacts DEF Decisions
    <2>1. TypeOK /\ Replayer \in Actors /\ Scanned(b, k) /\ Seen(b) /\ b \in Nat /\ \A p \in Procs : p \in Actors /\ p # Replayer
      BY Zenon, <2>0, SoundFacts, ProcFacts DEF BadInv
    <2>2. CASE at'[Replayer] = at[Replayer]
      BY Zenon, <2>1, <2>2, ScannedSame
    <2>3. CASE \E a \in Actors : ApplyDecision(a) \/ Upset(a)
      <3>1. PICK a \in Actors : ApplyDecision(a) \/ Upset(a)
        BY Zenon, <2>3
      <3>2. CASE a = Replayer
        BY Zenon, <2>1, <3>1, <3>2, DecidesMoves, ScannedMoved DEF R
      <3>3. CASE a # Replayer
        BY Zenon, <2>1, <2>2, <3>1, <3>3, DecidesMoves DEF Moved
      <3> QED
        BY Zenon, <3>2, <3>3
    <2>4. CASE UNCHANGED vars
      BY Zenon, <2>2, <2>4 DEF vars
    <2>5. CASE Replay
      <3>1. CASE mark = 0 /\ UNCHANGED at
        BY Zenon, <2>2, <3>1
      <3>2. CASE mark # 0 /\ at'[Replayer].pc = "apply" /\ at'[Replayer].to = head /\ ~at'[Replayer].catchUp
        <4>1. b <= head
          BY Zenon, <2>1, <3>2 DEF Seen
        <4>2. at'[Replayer].pc # "notify"
          BY SMT, <3>2
        <4> QED
          BY Zenon, <3>2, <4>1, <4>2 DEF Scanned, R
      <3> QED
        BY Zenon, <2>5, <3>1, <3>2, ReplayMoves
    <2>6. CASE Onward
      <3>1. R.pc = "ack"
        BY Zenon, <2>1, <2>6, OnwardMoves
      <3>2. CASE /\ at'[Replayer].pc = "apply" /\ at'[Replayer].n = R.n + 1 /\ at'[Replayer].to = R.to
                 /\ at'[Replayer].catchUp = R.catchUp
        <4>1. b <= R.n => b <= R.n + 1 /\ b < R.n + 1
          BY SMT, <2>1, ReplayerFacts
        <4>2. at'[Replayer].pc # "notify"
          BY SMT, <3>2
        <4>3. First' => First
          BY Zenon, <3>1, <3>2 DEF First, R
        <4> QED
          BY Zenon, <2>1, <3>2, <4>1, <4>2, <4>3 DEF Scanned, R
      <3>3. CASE ~R.catchUp /\ Moved(Replayer, "release")
        <4>1. at'[Replayer].pc = "release" /\ at'[Replayer].to = R.to /\ ~at'[Replayer].catchUp
          BY Zenon, <3>3 DEF Moved, R
        <4>2. at'[Replayer].pc # "notify"
          BY SMT, <4>1
        <4>3. First
          BY Zenon, <3>1, <3>3 DEF First
        <4> QED
          BY Zenon, <2>1, <4>1, <4>2, <4>3 DEF Scanned, R
      <3>4. CASE Ended(Replayer)
        BY Zenon, <3>4, ScannedIdle DEF Ended
      <3> QED
        BY Zenon, <2>1, <2>6, <3>2, <3>3, <3>4, OnwardMoves
    <2>7. CASE Release
      <3>1. R.pc = "release" /\ R.n = R.to /\ ~R.catchUp
        BY Zenon, <2>1, <2>7, ReleaseMoves, ReplayerFacts
      <3>2. First
        BY Zenon, <3>1 DEF First
      <3>3. b <= R.to
        BY Zenon, <2>1, <3>2 DEF Scanned
      <3>4. k = "effect"
        <4>1. SUFFICES ASSUME k = "fold" PROVE FALSE
          BY Zenon DEF Kinds
        <4>2. PastOK(Replayer, b)
          BY Zenon, <2>1, <4>1 DEF BadInv
        <4>3. R.n < b
          BY Zenon, <3>1, <4>2 DEF PastOK, R
        <4> QED
          BY SMT, <2>1, <3>1, <3>3, <4>3, ReplayerFacts
      <3>5. at'[Replayer].pc = "notify" /\ at'[Replayer].to = R.to /\ ~at'[Replayer].catchUp
        BY Zenon, <2>1, <2>7, <3>1, ReleaseMoves DEF Moved, R
      <3>6. ~First'
        BY SMT, <3>5 DEF First, R
      <3> QED
        BY Zenon, <3>3, <3>4, <3>5, <3>6 DEF Scanned, R
    <2>8. CASE CatchUp
      <3>1. /\ R.pc = "notify" /\ at'[Replayer].catchUp
            /\ \/ R.to + 1 > head /\ at'[Replayer].pc = "ack" /\ at'[Replayer].n = head
               \/ R.to + 1 <= head /\ at'[Replayer].pc = "apply" /\ at'[Replayer].n = R.to + 1
        BY Zenon, <2>8, CatchUpMoves
      <3>2. k = "effect" /\ b <= R.to
        BY Zenon, <2>1, <3>1 DEF Scanned
      <3>3. b <= head /\ b <= R.to + 1 /\ b < R.to + 1
        BY SMT, <2>1, <3>2, ReplayerFacts
      <3>4. ~First' /\ at'[Replayer].pc # "notify"
        BY SMT, <3>1 DEF First, R
      <3> QED
        BY Zenon, <3>1, <3>2, <3>3, <3>4 DEF Scanned, R
    <2>9. CASE ReplayFailed \/ ReleaseFails \/ CommandAgain
      BY Zenon, <2>1, <2>9, ReplayEndsMoves, ScannedIdle DEF Ended
    <2>10. CASE \E p \in Procs : Skip(p) \/ Ack(p) \/ Confirm(p) \/ Quarantine(p) \/ Close(p) \/ Deliver(p)
                                \/ SkipFails(p) \/ QuarantineFails(p) \/ CloseFails(p)
      BY Zenon, <2>1, <2>2, <2>10, HandlesMoves
    <2>11. CASE \E p \in Procs : Crash(p)
      BY Zenon, <2>1, <2>2, <2>11, CrashMoves, ScannedIdle
    <2>12. CASE Append \/ Fix \/ Ask \/ \E p \in Procs, kind \in {"quarantine", "release"} : Notice(p, kind)
      BY Zenon, <2>1, <2>2, <2>12, StillMoves
    <2> QED
      BY Zenon, <2>3, <2>4, <2>5, <2>6, <2>7, <2>8, <2>9, <2>10, <2>11, <2>12, ProcFacts DEF Next, Replays, Handle
  <1>1. bad' \subseteq bad
    BY Zenon, BadShrinks
  <1>2. \A x, y \in bad' : x = y
    BY Zenon, <1>1 DEF BadInv
  <1>3. ASSUME NEW b \in Decisions, <<b, "fold">> \in bad' PROVE \A a \in Actors : PastOK(a, b)'
    BY Zenon, <1>1, <1>3, <1>PastStep DEF BadInv
  <1>4. ASSUME NEW b \in Decisions, NEW k \in Kinds, <<b, k>> \in bad' PROVE Seen(b)' /\ Scanned(b, k)'
    <2>1. <<b, k>> \in bad /\ Seen(b)
      BY Zenon, <1>1, <1>4 DEF BadInv
    <2>2. Alarm' => b <= head
      BY Zenon, <2>1, <1>AlarmStep DEF Seen, Alarm
    <2>3. b <= head => b <= head'
      BY SMT, HeadGrows, TypeFacts DEF Decisions
    <2> QED
      BY Zenon, <2>1, <2>2, <2>3, <1>ScannedStep DEF Seen, Alarm
  <1> QED
    BY Zenon, <1>2, <1>3, <1>4 DEF BadInv

LEMMA BadInit ==
    ASSUME Init
    PROVE  BadInv
  <1>1. /\ \A x, y \in bad : x = y
        /\ mark = 0 /\ at = [a \in Actors |-> Idle] /\ cache = [a \in Actors |-> 0]
    BY Zenon DEF Init
  <1>2. \A a \in Actors : at[a] = Idle /\ at[a].pc = "idle" /\ ~at[a].catchUp /\ cache[a] = 0
    BY Zenon, <1>1, IdleFacts
  <1>3. \A b \in Decisions : 0 < b
    BY SMT, DispatchAssumption DEF Decisions
  <1>4. \A a \in Actors, b \in Decisions : PastOK(a, b)
    BY Zenon, <1>2, <1>3 DEF PastOK
  <1>5. \A p \in Procs : ~Judged(p)
    BY Zenon, <1>2, ProcFacts DEF Judged
  <1>6. \A b, k : Scanned(b, k)
    BY Zenon, <1>2, ProcFacts DEF Scanned, First, R
  <1> QED
    BY Zenon, <1>1, <1>4, <1>5, <1>6 DEF BadInv, Seen

----------------------------------------------------------------------------
(* Work that is acknowledged. *)

\* A replay that has lifted the mark does not fail: what it is to run has been
\* readable in the first pass, and no fault hits it.
CatchSafe == R.catchUp => R.pc # "failed"

LEMMA CatchFolds ==
    ASSUME Sound, BadInv, R.catchUp
    PROVE  Folds(ToFold(Replayer)) /\ Folds(1 .. head) /\ (R.pc # "ack" => ~Refused(R.n))
  <1>1. ASSUME NEW b \in Decisions, NEW k \in Kinds, <<b, k>> \in bad
        PROVE  k = "effect" /\ (R.pc # "ack" => b < R.n)
    BY Zenon, <1>1 DEF BadInv, Scanned
  <1>2. R.n <= head /\ head <= Last /\ R.n \in Nat /\ head \in Nat /\ Last \in Nat /\ R.pc # "idle" /\ R.n >= 1
    <2>1. R.pc # "idle"
      BY Zenon, ReplayerFacts
    <2> QED
      BY SMT, <2>1, ReplayerFacts, TypeFacts
  <1>3. ToFold(Replayer) \subseteq Decisions /\ 1 .. head \subseteq Decisions /\ R.n \in Decisions
    BY SMT, <1>2 DEF ToFold, Decisions, R
  <1>4. "fold" \in Kinds /\ "effect" \in Kinds /\ "fold" # "effect"
    BY Zenon DEF Kinds
  <1>5. ~(R.n < R.n)
    BY SMT, <1>2
  <1> QED
    BY Zenon, <1>1, <1>3, <1>4, <1>5 DEF Folds, Refused

LEMMA CatchNext ==
    ASSUME Sound, BadInv, "catchup" \notin Risks, CatchSafe, [Next]_vars
    PROVE  CatchSafe'
  \* One step of the replay in its catch-up.
  <1>CatchDecides. ASSUME R.catchUp, ApplyDecision(Replayer) \/ Upset(Replayer)
                   PROVE  at'[Replayer].pc # "failed"
    <2> USE <1>CatchDecides
    <2>1. TypeOK /\ Replayer \in Actors
      BY Zenon, ReplayerFacts
    <2>2. "index" # "failed" /\ "effects" # "failed" /\ "ack" # "failed" /\ "delete" # "failed" /\ "effects" # "ack"
      BY Zenon
    <2>3. ~Upset(Replayer)
      BY Zenon, <2>1, UpsetMoves DEF R
    <2>4. CASE Apply(Replayer)
      BY Zenon, <2>1, <2>2, <2>4, ApplyMoves, CatchFolds DEF Moved
    <2>5. CASE Effects(Replayer)
      BY Zenon, <2>1, <2>2, <2>5, EffectsMoves, CatchFolds DEF Moved, R
    <2>6. CASE Index(Replayer) \/ Delete(Replayer)
      BY Zenon, <2>1, <2>2, <2>6, IndexMoves, DeleteMoves DEF Moved
    <2> QED
      BY Zenon, <2>3, <2>4, <2>5, <2>6 DEF ApplyDecision
  <1>1. TypeOK /\ Replayer \in Actors /\ \A p \in Procs : p \in Actors /\ p # Replayer
    BY Zenon, ReplayerFacts, ProcFacts
  <1>2. CASE at'[Replayer] = at[Replayer]
    BY Zenon, <1>2 DEF CatchSafe, R
  <1>3. CASE at'[Replayer] = Idle
    BY Zenon, <1>3, IdleFacts DEF CatchSafe, R
  <1>4. CASE at'[Replayer].pc \in {"apply", "ack", "release", "notify"}
    BY Zenon, <1>4 DEF CatchSafe, R
  <1>5. CASE ApplyDecision(Replayer) \/ Upset(Replayer)
    BY Zenon, <1>1, <1>5, <1>CatchDecides, DecidesMoves DEF CatchSafe, Moved, R
  <1>6. CASE \E a \in Actors : a # Replayer /\ (ApplyDecision(a) \/ Upset(a))
    BY Zenon, <1>1, <1>2, <1>6, DecidesMoves DEF Moved
  <1>7. CASE UNCHANGED vars
    BY Zenon, <1>2, <1>7 DEF vars
  <1>8. CASE Replay \/ Onward \/ Release \/ CatchUp
    BY Zenon, <1>1, <1>2, <1>3, <1>4, <1>8, ReplayMoves, OnwardMoves, ReleaseMoves, CatchUpMoves DEF Moved, Ended
  <1>9. CASE ReplayFailed \/ ReleaseFails \/ CommandAgain
    BY Zenon, <1>1, <1>3, <1>9, ReplayEndsMoves DEF Ended
  <1>10. CASE \E p \in Procs : Skip(p) \/ Ack(p) \/ Confirm(p) \/ Quarantine(p) \/ Close(p) \/ Deliver(p)
                              \/ SkipFails(p) \/ QuarantineFails(p) \/ CloseFails(p)
    BY Zenon, <1>1, <1>2, <1>10, HandlesMoves
  <1>11. CASE \E p \in Procs : Crash(p)
    BY Zenon, <1>1, <1>2, <1>3, <1>11, CrashMoves
  <1>12. CASE Append \/ Fix \/ Ask \/ \E p \in Procs, kind \in {"quarantine", "release"} : Notice(p, kind)
    BY Zenon, <1>1, <1>2, <1>12, StillMoves
  <1> QED
    BY Zenon, <1>5, <1>6, <1>7, <1>8, <1>9, <1>10, <1>11, <1>12, ProcFacts DEF Next, Replays, Handle

\* The attempt of decision n has been given to the workers, or has ended.
Safe(n) == n \in published \/ head >= EndedBy[n]
\* A replay that has lifted the mark is to run decision n.
Later(n) == R.pc = "notify" \/ (R.catchUp /\ R.n <= n /\ n <= R.to)

\* What a process takes for done is safe, or is kept for a replay; a process that
\* is about to write the mark leaves nothing behind it.
WorkProc(p) ==
  /\ at[p].pc \in {"index", "delete"} /\ at[p].n \in Jobs => Safe(at[p].n)
  /\ at[p].pc = "ack" /\ at[p].n \in Jobs => Safe(at[p].n) \/ Kept(at[p].n)
  /\ at[p].pc = "quarantine" => \A n \in Jobs : n < at[p].n => Safe(n) \/ Later(n)
\* The replay leaves nothing behind it.
WorkReplay ==
  /\ R.pc \notin {"idle", "failed"} => \A n \in Jobs : n < R.n => Safe(n)
  /\ R.pc \in {"index", "delete", "ack", "release", "notify"} /\ R.n \in Jobs => Safe(R.n)
WorkInv == (\A p \in Procs : WorkProc(p)) /\ WorkReplay /\ NoWorkLost

LEMMA JobFacts == \A n \in Jobs : n \in Nat /\ n >= 1 /\ n < Last /\ EndedBy[n] \in Nat
  <1> SUFFICES ASSUME NEW n \in Jobs PROVE n \in Nat /\ n >= 1 /\ n < Last /\ EndedBy[n] \in Nat
    OBVIOUS
  <1>1. n \in Decisions /\ EndedBy[n] \in Decisions /\ EndedBy[n] > n /\ Last \in Nat
    BY Zenon, DispatchAssumption
  <1> QED
    BY SMT, <1>1 DEF Decisions

LEMMA KeptLater == \A n : Kept(n) <=> (mark # 0 /\ mark <= n) \/ Later(n)
  BY Zenon DEF Kept, Later, At, R

\* What is safe stays so; what is kept stays kept until it is safe.
SafeGrows == \A n \in Jobs : Safe(n) => Safe(n)'
LaterGoes == \A n \in Jobs : n <= head /\ Later(n) => Safe(n)' \/ Later(n)'
KeptGoes == \A n \in Jobs : n <= head /\ Kept(n) => Safe(n)' \/ Kept(n)'

LEMMA SafeGrowsBy ==
    ASSUME Sound, published \subseteq published', head' = head \/ head' = head + 1
    PROVE  SafeGrows
  <1>1. \A n \in Jobs : head >= EndedBy[n] => head' >= EndedBy[n]
    BY SMT, TypeFacts, JobFacts
  <1> QED
    BY Zenon, <1>1 DEF SafeGrows, Safe

LEMMA KeptGoesBy ==
    ASSUME LaterGoes, mark' = mark
    PROVE  KeptGoes
  <1>1. ASSUME NEW n \in Jobs, n <= head, Kept(n) PROVE Safe(n)' \/ Kept(n)'
    <2>1. Later(n)' => Kept(n)'
      BY Zenon DEF Kept, Later, At, R
    <2>2. mark # 0 /\ mark <= n => Kept(n)'
      BY Zenon DEF Kept
    <2> QED
      BY Zenon, <1>1, <2>1, <2>2, KeptLater DEF LaterGoes
  <1> QED
    BY Zenon, <1>1 DEF KeptGoes

LEMMA LaterSame ==
    ASSUME at'[Replayer] = at[Replayer]
    PROVE  LaterGoes
  <1>1. \A n : Later(n)' = Later(n)
    BY Zenon DEF Later, R
  <1> QED
    BY Zenon, <1>1 DEF LaterGoes

LEMMA WorkProcKept ==
    ASSUME Sound, SafeGrows, LaterGoes, KeptGoes, NEW p \in Procs, WorkProc(p), at'[p] = at[p]
    PROVE  WorkProc(p)'
  <1>1. at[p].n <= head /\ \A n \in Jobs : n < at[p].n => n <= head
    <2>1. at[p].n <= head /\ at[p].n \in Nat
      BY SMT, ProcFacts, ActorFacts, SoundFacts DEF HandOK
    <2> QED
      BY SMT, <2>1, TypeFacts, JobFacts
  <1> QED
    BY Zenon, <1>1 DEF WorkProc, SafeGrows, LaterGoes, KeptGoes

LEMMA WorkProcIdle ==
    ASSUME NEW p, at'[p] = Idle
    PROVE  WorkProc(p)'
  <1>1. at'[p].pc = "idle"
    BY Zenon, IdleFacts
  <1> QED
    BY Zenon, <1>1 DEF WorkProc

LEMMA WorkProcFree ==
    ASSUME NEW p, at'[p].pc = "idle" \/ at'[p].pc = "skip" \/ at'[p].pc = "apply" \/ at'[p].pc = "effects"
                  \/ at'[p].pc = "failed" \/ at'[p].pc = "close"
    PROVE  WorkProc(p)'
  BY Zenon DEF WorkProc

LEMMA LostKept ==
    ASSUME Sound, SafeGrows, KeptGoes, NoWorkLost, acked' = acked
    PROVE  NoWorkLost'
  <1>1. ASSUME NEW n \in Jobs, n <= acked' PROVE Safe(n)' \/ Kept(n)'
    <2>1. n <= head
      BY SMT, <1>1, JobFacts, TypeFacts
    <2> QED
      BY Zenon, <1>1, <2>1 DEF NoWorkLost, Safe, SafeGrows, KeptGoes
  <1> QED
    BY Zenon, <1>1 DEF NoWorkLost, Safe

LEMMA WorkReplayKept ==
    ASSUME SafeGrows, WorkReplay, at'[Replayer] = at[Replayer] \/ at'[Replayer] = Idle
    PROVE  WorkReplay'
  <1>1. CASE at'[Replayer] = at[Replayer]
    BY Zenon, <1>1 DEF WorkReplay, SafeGrows, R
  <1>2. CASE at'[Replayer] = Idle
    <2>1. at'[Replayer].pc = "idle"
      BY Zenon, <1>2, IdleFacts
    <2> QED
      BY Zenon, <2>1 DEF WorkReplay, R
  <1> QED
    BY Zenon, <1>1, <1>2

\* A step of one process.
LEMMA ProcWork ==
    ASSUME Sound, WorkInv, NEW p \in Procs, \A b \in Actors : b # p => at'[b] = at[b],
           head' = head, published \subseteq published', KeptGoes, WorkProc(p)', acked' = acked \/ NoWorkLost'
    PROVE  WorkInv'
  <1>1. SafeGrows
    BY Zenon, SafeGrowsBy
  <1>2. at'[Replayer] = at[Replayer] /\ LaterGoes
    BY Zenon, ProcFacts, LaterSame
  <1>3. \A q \in Procs : WorkProc(q)'
    BY Zenon, <1>1, <1>2, WorkProcKept, ProcFacts DEF WorkInv
  <1>4. WorkReplay'
    BY Zenon, <1>1, <1>2, WorkReplayKept DEF WorkInv
  <1>5. NoWorkLost'
    BY Zenon, <1>1, LostKept DEF WorkInv
  <1> QED
    BY Zenon, <1>3, <1>4, <1>5 DEF WorkInv

LEMMA MovedSafe ==
    ASSUME NEW p, NEW pc, Moved(p, pc), pc = "index" \/ pc = "delete" \/ pc = "ack",
           \A n \in Jobs : n = at[p].n => Safe(n)'
    PROVE  WorkProc(p)'
  <1>1. at'[p].pc = pc /\ at'[p].n = at[p].n
    BY Zenon DEF Moved
  <1>2. (at[p].n \in Jobs => Safe(at[p].n))'
    BY Zenon, <1>1 DEF Safe
  <1> QED
    BY Zenon, <1>1, <1>2 DEF WorkProc

LEMMA EndedSafe ==
    ASSUME Sound, NEW a \in Actors, at[a].n \in Jobs, HeadView(a) # 0, ~Live(at[a].n, HeadView(a)), head' = head
    PROVE  \A n \in Jobs : n = at[a].n => Safe(n)'
  <1>1. HeadView(a) \in 0 .. head /\ head \in Nat /\ EndedBy[at[a].n] \in Nat
    BY Zenon, HeadViewType, TypeFacts, JobFacts
  <1>2. head >= EndedBy[at[a].n]
    BY SMT, <1>1 DEF Live
  <1> QED
    BY Zenon, <1>2 DEF Safe

\* Where an actor that runs a decision is, and whether its work is safe.
LEMMA DecidesSafe ==
    ASSUME Sound, NEW a \in Actors, ApplyDecision(a) \/ Upset(a),
           at[a].pc \in {"index", "delete"} /\ at[a].n \in Jobs => Safe(at[a].n)
    PROVE  /\ published \subseteq published' /\ head' = head
           /\ \/ Moved(a, "failed") \/ Moved(a, "effects")
              \/ /\ Moved(a, "index") \/ Moved(a, "delete") \/ Moved(a, "ack")
                 /\ \A n \in Jobs : n = at[a].n => Safe(n)'
  <1>1. TypeOK
    BY Zenon, SoundFacts
  <1>2. CASE Apply(a)
    BY Zenon, <1>1, <1>2, ApplyMoves, EndedSafe
  <1>3. CASE Effects(a)
    BY Zenon, <1>1, <1>3, EffectsMoves DEF Safe
  <1>4. CASE Index(a) \/ Delete(a)
    <2>1. /\ at[a].pc \in {"index", "delete"} /\ published' = published /\ head' = head
          /\ Moved(a, "delete") \/ Moved(a, "ack")
      BY Zenon, <1>1, <1>4, IndexMoves, DeleteMoves
    <2>2. \A n \in Jobs : n = at[a].n => Safe(n)'
      BY Zenon, <2>1 DEF Safe
    <2> QED
      BY Zenon, <2>1, <2>2
  <1>5. CASE Upset(a)
    BY Zenon, <1>1, <1>5, UpsetMoves
  <1> QED
    BY Zenon, <1>2, <1>3, <1>4, <1>5 DEF ApplyDecision

\* What is skipped while the mark is there is safe or kept.
LEMMA SkippedKept ==
    ASSUME Sound, WorkInv, NEW p \in Procs, mark # 0, at[p].n \in Jobs
    PROVE  Safe(at[p].n) \/ Kept(at[p].n)
  <1>1. at[p].n \in Nat /\ mark \in Nat /\ acked \in Nat /\ mark <= acked + 1
    BY SMT, JobFacts, TypeFacts
  <1>2. CASE mark <= at[p].n
    BY Zenon, <1>2 DEF Kept
  <1>3. CASE ~(mark <= at[p].n)
    <2>1. at[p].n <= acked
      BY SMT, <1>1, <1>3
    <2> QED
      BY Zenon, <2>1 DEF WorkInv, NoWorkLost, Safe
  <1> QED
    BY Zenon, <1>2, <1>3

LEMMA MovedSkip ==
    ASSUME Sound, WorkInv, NEW p \in Procs, mark # 0, Moved(p, "ack"), UNCHANGED <<head, published, mark>>
    PROVE  WorkProc(p)'
  <1>1. at'[p].pc = "ack" /\ at'[p].n = at[p].n /\ at'[Replayer] = at[Replayer]
    BY Zenon, ProcFacts DEF Moved
  <1>2. at[p].n \in Jobs => Safe(at[p].n)' \/ Kept(at[p].n)'
    BY Zenon, <1>1, SkippedKept DEF Safe, Kept, At
  <1> QED
    BY Zenon, <1>1, <1>2 DEF WorkProc

LEMMA MovedQuarantine ==
    ASSUME Sound, WorkInv, NEW p \in Procs, mark = 0, Moved(p, "quarantine"), UNCHANGED <<head, published, mark>>
    PROVE  WorkProc(p)'
  <1>1. at'[p].pc = "quarantine" /\ at'[p].n = at[p].n /\ at'[Replayer] = at[Replayer]
    BY Zenon, ProcFacts DEF Moved
  <1>2. ASSUME NEW n \in Jobs, n < at[p].n PROVE Safe(n)' \/ Later(n)'
    <2>1. at[p].n \in Nat /\ at[p].n <= acked + 1
      BY SMT, ProcFacts, ActorFacts, SoundFacts DEF HandOK
    <2>2. n <= acked
      BY SMT, <1>2, <2>1, JobFacts, TypeFacts
    <2>3. Safe(n) \/ Kept(n)
      BY Zenon, <2>2 DEF WorkInv, NoWorkLost, Safe
    <2>4. Safe(n) \/ Later(n)
      BY Zenon, <2>3, KeptLater
    <2> QED
      BY Zenon, <1>1, <2>4 DEF Safe, Later, R
  <1> QED
    BY Zenon, <1>1, <1>2 DEF WorkProc

\* A step of the replay, or none.
LEMMA ReplayWork ==
    ASSUME Sound, WorkInv, \A p \in Procs : at'[p] = at[p] \/ at'[p] = Idle, acked' = acked,
           published \subseteq published', head' = head \/ head' = head + 1, LaterGoes, KeptGoes, WorkReplay'
    PROVE  WorkInv'
  <1>1. SafeGrows
    BY Zenon, SafeGrowsBy
  <1>2. \A p \in Procs : WorkProc(p)'
    BY Zenon, <1>1, WorkProcKept, WorkProcIdle DEF WorkInv
  <1>3. NoWorkLost'
    BY Zenon, <1>1, LostKept DEF WorkInv
  <1> QED
    BY Zenon, <1>2, <1>3 DEF WorkInv

\* The replay has passed everything before it.
LEMMA PassedSafe ==
    ASSUME Sound, WorkReplay, R.pc \in {"ack", "release", "notify"}, NEW n \in Jobs, n <= R.n
    PROVE  Safe(n)
  <1>1. n < R.n \/ n = R.n
    BY SMT, ReplayerFacts, JobFacts
  <1> QED
    BY Zenon, <1>1 DEF WorkReplay

LEMMA WorkNext ==
    ASSUME Sound, BadInv, CatchSafe, WorkInv, "confirm" \notin Risks, "catchup" \notin Risks, [Next]_vars
    PROVE  WorkInv'
  <1>DecidesWork. ASSUME NEW p \in Procs, ApplyDecision(p) \/ Upset(p) PROVE WorkInv'
    <2> USE <1>DecidesWork
    <2>1. p \in Actors /\ WorkProc(p)
      BY Zenon, ProcFacts DEF WorkInv
    <2>2. mark' = mark /\ acked' = acked /\ \A b \in Actors : b # p => at'[b] = at[b]
      BY Zenon, <2>1, DecidesMoves DEF Moved
    <2>3. KeptGoes
      BY Zenon, <2>2, KeptGoesBy, LaterSame, ProcFacts
    <2>4. /\ published \subseteq published' /\ head' = head
          /\ \/ Moved(p, "failed") \/ Moved(p, "effects")
             \/ /\ Moved(p, "index") \/ Moved(p, "delete") \/ Moved(p, "ack")
                /\ \A n \in Jobs : n = at[p].n => Safe(n)'
      <3>1. at[p].pc \in {"index", "delete"} /\ at[p].n \in Jobs => Safe(at[p].n)
        BY Zenon, <2>1 DEF WorkProc
      <3> QED
        BY Zenon, <2>1, <3>1, DecidesSafe
    <2>5. WorkProc(p)'
      <3>1. CASE Moved(p, "failed") \/ Moved(p, "effects")
        BY Zenon, <3>1, WorkProcFree DEF Moved
      <3>2. CASE /\ Moved(p, "index") \/ Moved(p, "delete") \/ Moved(p, "ack")
                 /\ \A n \in Jobs : n = at[p].n => Safe(n)'
        BY Zenon, <3>2, MovedSafe
      <3> QED
        BY Zenon, <2>4, <3>1, <3>2
    <2> QED
      BY Zenon, <2>2, <2>3, <2>4, <2>5, ProcWork
  <1>HandleWork. ASSUME NEW p \in Procs, Skip(p) \/ Confirm(p) \/ Close(p) \/ Deliver(p) \/ SkipFails(p) \/ CloseFails(p)
                 PROVE  WorkInv'
    <2> USE <1>HandleWork
    <2>1. TypeOK /\ p \in Actors /\ HandOK(p)
      BY Zenon, ProcFacts, SoundFacts
    <2>2. UNCHANGED <<head, published, mark, acked>>
      BY Zenon DEF Skip, Confirm, Close, Deliver, SkipFails, CloseFails, know, effects
    <2>3. \A b \in Actors : b # p => at'[b] = at[b]
      BY Zenon, HandlesMoves
    <2>4. KeptGoes
      BY Zenon, <2>2, <2>3, KeptGoesBy, LaterSame, ProcFacts
    <2>5. WorkProc(p)'
      <3>1. CASE Skip(p)
        BY Zenon, <2>1, <2>2, <3>1, SkipMoves, MovedSkip, WorkProcFree DEF Moved
      <3>2. CASE Confirm(p)
        BY Zenon, <2>1, <2>2, <3>2, ConfirmMoves, MovedSkip, MovedQuarantine, WorkProcFree, WorkProcIdle DEF Moved, Ended
      <3>3. CASE Close(p) \/ CloseFails(p)
        <4>1. at[p].pc = "close" /\ (Ended(p) \/ Moved(p, "ack"))
          BY Zenon, <2>1, <3>3, CloseMoves
        <4>2. at[p].n \notin Jobs
          <5>1. at[p].n = Last
            BY Zenon, <2>1, <4>1 DEF HandOK
          <5> QED
            BY SMT, <5>1, JobFacts, TypeFacts
        <4> QED
          BY Zenon, <4>1, <4>2, MovedSafe, WorkProcIdle DEF Ended
      <3>4. CASE Deliver(p)
        BY Zenon, <2>1, <3>4, DeliverMoves, WorkProcFree
      <3>5. CASE SkipFails(p)
        BY Zenon, <2>1, <3>5, EndedEnds, WorkProcIdle DEF SkipFails, Ended
      <3> QED
        BY Zenon, <3>1, <3>2, <3>3, <3>4, <3>5
    <2> QED
      BY Zenon, <2>2, <2>3, <2>4, <2>5, ProcWork
  <1>AckWork. ASSUME NEW p \in Procs, Ack(p) PROVE WorkInv'
    <2> USE <1>AckWork
    <2>1. p \in Actors /\ TypeOK /\ WorkProc(p) /\ NoWorkLost
      BY Zenon, ProcFacts, SoundFacts DEF WorkInv
    <2>2. at[p].pc = "ack" /\ Ended(p) /\ UNCHANGED <<head, published, mark>>
      BY Zenon, <2>1, EndedEnds DEF Ack, At, know, effects
    <2>3. at'[Replayer] = at[Replayer] /\ \A b \in Actors : b # p => at'[b] = at[b]
      BY Zenon, <2>2, ProcFacts DEF Ended
    <2>4. KeptGoes
      BY Zenon, <2>2, <2>3, KeptGoesBy, LaterSame
    <2>5. ASSUME NEW n \in Jobs, n <= acked' PROVE Safe(n)' \/ Kept(n)'
      <3>1. at[p].n \in Nat /\ at[p].n <= acked + 1
        BY SMT, <2>1, ProcFacts, ActorFacts, SoundFacts DEF HandOK
      <3>2. acked' = acked \/ (acked' = at[p].n /\ at[p].n > acked)
        BY Zenon DEF Ack
      <3>3. n <= acked \/ n = at[p].n
        BY SMT, <2>5, <3>1, <3>2, JobFacts, TypeFacts
      <3>4. Safe(n) \/ Kept(n)
        BY Zenon, <2>1, <2>2, <3>3 DEF NoWorkLost, WorkProc, Safe
      <3> QED
        BY Zenon, <2>2, <2>3, <3>4 DEF Safe, Kept, At
    <2>6. NoWorkLost'
      BY Zenon, <2>5 DEF NoWorkLost, Safe
    <2>7. WorkProc(p)'
      BY Zenon, <2>2, WorkProcIdle DEF Ended
    <2> QED
      BY Zenon, <2>2, <2>3, <2>4, <2>6, <2>7, ProcWork
  <1>QuarantineWork. ASSUME NEW p \in Procs, Quarantine(p) \/ QuarantineFails(p) PROVE WorkInv'
    <2> USE <1>QuarantineWork
    <2>1. p \in Actors /\ TypeOK /\ WorkProc(p)
      BY Zenon, ProcFacts, SoundFacts DEF WorkInv
    <2>2. /\ at[p].pc = "quarantine" /\ (mark' = mark \/ mark' = at[p].n) /\ UNCHANGED <<head, published, acked>>
          /\ (Moved(p, "ack") /\ mark' = at[p].n) \/ Ended(p)
      BY Zenon, <2>1, QuarantineMoves, EndedEnds DEF Quarantine, QuarantineFails, At, effects
    <2>3. at'[Replayer] = at[Replayer] /\ \A b \in Actors : b # p => at'[b] = at[b]
      BY Zenon, <2>2, ProcFacts DEF Ended, Moved
    <2>4. at[p].n \in Nat /\ at[p].n # 0
      <3>1. at[p].pc # "idle"
        BY SMT, <2>2
      <3> QED
        BY SMT, <2>1, <3>1, ActorFacts, SoundFacts DEF HandOK
    <2>5. ASSUME NEW n \in Jobs, Kept(n) PROVE Safe(n)' \/ Kept(n)'
      <3>1. Safe(n) => Safe(n)'
        BY Zenon, <2>2 DEF Safe
      <3>2. Later(n) => Kept(n)'
        <4>1. Later(n)' = Later(n)
          BY Zenon, <2>3 DEF Later, R
        <4>2. Later(n)' => Kept(n)'
          BY Zenon DEF Later, Kept, At, R
        <4> QED
          BY Zenon, <4>1, <4>2
      <3>3. CASE mark # 0 /\ mark <= n /\ mark' = mark
        BY Zenon, <3>3 DEF Kept
      <3>4. CASE mark' = at[p].n /\ at[p].n <= n
        BY Zenon, <2>4, <3>4 DEF Kept
      <3>5. CASE n < at[p].n
        BY Zenon, <2>1, <2>2, <3>1, <3>2, <3>5 DEF WorkProc
      <3>6. n < at[p].n \/ at[p].n <= n
        BY SMT, <2>4, JobFacts
      <3> QED
        BY Zenon, <2>2, <2>5, <3>2, <3>3, <3>4, <3>5, <3>6, KeptLater
    <2>6. KeptGoes
      BY Zenon, <2>5 DEF KeptGoes
    <2>7. WorkProc(p)'
      <3>1. CASE Ended(p)
        BY Zenon, <3>1, WorkProcIdle DEF Ended
      <3>2. CASE Moved(p, "ack") /\ mark' = at[p].n
        <4>1. at'[p].pc = "ack" /\ at'[p].n = at[p].n
          BY Zenon, <3>2 DEF Moved
        <4>2. at[p].n <= at[p].n
          BY SMT, <2>4
        <4>3. Kept(at[p].n)'
          BY Zenon, <2>4, <3>2, <4>1, <4>2 DEF Kept
        <4> QED
          BY Zenon, <4>1, <4>3 DEF WorkProc
      <3> QED
        BY Zenon, <2>2, <3>1, <3>2
    <2> QED
      BY Zenon, <2>2, <2>3, <2>6, <2>7, ProcWork
  <1>StillWork. ASSUME \/ UNCHANGED vars \/ Append \/ Fix \/ Ask \/ \E p \in Procs, kind \in {"quarantine", "release"} : Notice(p, kind)
                PROVE  WorkInv'
    <2> USE <1>StillWork
    <2>1. UNCHANGED <<at, acked, mark, published>>
      BY Zenon, StillMoves, SoundFacts DEF vars
    <2>2. head' = head \/ head' = head + 1
      BY Zenon DEF vars, Append, Fix, Ask, Notice
    <2>3. LaterGoes /\ KeptGoes
      BY Zenon, <2>1, LaterSame, KeptGoesBy
    <2>4. WorkReplay'
      BY Zenon, <2>1, <2>2, SafeGrowsBy, WorkReplayKept DEF WorkInv
    <2> QED
      BY Zenon, <2>1, <2>2, <2>3, <2>4, ReplayWork
  <1>CrashWork. ASSUME NEW p \in Procs, Crash(p) PROVE WorkInv'
    <2> USE <1>CrashWork
    <2>1. /\ UNCHANGED <<head, acked, mark, published>>
          /\ \A a \in Actors : at'[a] = at[a] \/ (at'[a] = Idle /\ Process(a) = p)
      BY Zenon, CrashMoves
    <2>2. at'[Replayer] = at[Replayer] \/ (at'[Replayer] = Idle /\ p = Home)
      BY Zenon, <2>1, ProcFacts DEF Process
    <2>3. LaterGoes
      <3>1. CASE p = Home
        <4>1. ~CatchingUp
          BY Zenon, <3>1 DEF Crash
        <4> QED
          BY Zenon, <4>1 DEF LaterGoes, Later, CatchingUp, At, R
      <3> QED
        BY Zenon, <2>2, <3>1, LaterSame
    <2>4. KeptGoes /\ WorkReplay'
      BY Zenon, <2>1, <2>2, <2>3, KeptGoesBy, SafeGrowsBy, WorkReplayKept DEF WorkInv
    <2> QED
      BY Zenon, <2>1, <2>3, <2>4, ReplayWork, ProcFacts
  <1>DecidesReplay. ASSUME ApplyDecision(Replayer) \/ Upset(Replayer) PROVE WorkInv'
    <2> USE <1>DecidesReplay
    <2>1. Replayer \in Actors /\ WorkReplay
      BY Zenon, ProcFacts DEF WorkInv
    <2>2. R.pc \in {"apply", "effects", "index", "delete"} /\ UNCHANGED <<acked, mark>>
      BY Zenon, <2>1, DecidesMoves DEF R
    <2>3. PICK pc \in {"effects", "index", "delete", "ack", "failed"} : Moved(Replayer, pc)
      BY Zenon, <2>1, DecidesMoves
    <2>4. /\ at'[Replayer].pc = pc /\ at'[Replayer].n = R.n /\ at'[Replayer].to = R.to /\ at'[Replayer].catchUp = R.catchUp
          /\ \A p \in Procs : at'[p] = at[p]
      BY Zenon, <2>3, ProcFacts DEF Moved, R
    <2>5. /\ published \subseteq published' /\ head' = head
          /\ \/ pc = "failed" \/ pc = "effects"
             \/ \A n \in Jobs : n = R.n => Safe(n)'
      <3>1. at[Replayer].pc \in {"index", "delete"} /\ at[Replayer].n \in Jobs => Safe(at[Replayer].n)
        BY Zenon, <2>1 DEF WorkReplay, R
      <3> QED
        BY Zenon, <2>1, <2>4, <3>1, DecidesSafe DEF Moved, R
    <2>6. SafeGrows
      BY Zenon, <2>5, SafeGrowsBy
    <2>7. LaterGoes
      <3>1. R.pc # "notify"
        BY SMT, <2>2
      <3>2. \A n : Later(n) => Later(n)'
        BY Zenon, <2>4, <3>1 DEF Later, R
      <3> QED
        BY Zenon, <3>2 DEF LaterGoes
    <2>8. WorkReplay'
      <3>1. \A n \in Jobs : n < R.n => Safe(n)'
        BY Zenon, <2>1, <2>2, <2>6 DEF WorkReplay, SafeGrows
      <3>2. CASE pc = "failed" \/ pc = "effects"
        BY Zenon, <2>4, <3>1, <3>2 DEF WorkReplay, R
      <3>3. CASE \A n \in Jobs : n = R.n => Safe(n)'
        <4>1. (R.n \in Jobs => Safe(R.n))'
          BY Zenon, <2>4, <3>3 DEF R, Safe
        <4>2. (\A n \in Jobs : n < R.n => Safe(n))'
          BY Zenon, <2>4, <3>1 DEF R, Safe
        <4> QED
          BY Zenon, <4>1, <4>2 DEF WorkReplay
      <3> QED
        BY Zenon, <2>5, <3>2, <3>3
    <2> QED
      BY Zenon, <2>2, <2>4, <2>5, <2>7, <2>8, KeptGoesBy, ReplayWork
  <1>ReplayStarts. ASSUME Replay PROVE WorkInv'
    <2> USE <1>ReplayStarts
    <2>1. R.pc = "idle" /\ UNCHANGED <<head, acked, mark, published>>
      BY Zenon, ReplayMoves
    <2>2. ~R.catchUp /\ \A n : ~Later(n)
      <3>1. "idle" # "notify"
        BY Zenon
      <3> QED
        BY Zenon, <2>1, <3>1, ReplayerFacts DEF Later
    <2>3. LaterGoes /\ KeptGoes
      BY Zenon, <2>1, <2>2, KeptGoesBy DEF LaterGoes
    <2>4. SafeGrows
      BY Zenon, <2>1, SafeGrowsBy
    <2>5. CASE UNCHANGED at
      BY Zenon, <2>1, <2>3, <2>4, <2>5, WorkReplayKept, ReplayWork DEF WorkInv
    <2>6. CASE mark # 0 /\ at'[Replayer].pc = "apply" /\ at'[Replayer].n = mark /\ \A b \in Actors : b # Replayer => at'[b] = at[b]
      <3>1. ASSUME NEW n \in Jobs, n < mark PROVE Safe(n)'
        <4>1. n <= acked /\ ~(mark <= n)
          BY SMT, <3>1, JobFacts, TypeFacts
        <4>2. Safe(n) \/ Kept(n)
          BY Zenon, <4>1 DEF WorkInv, NoWorkLost, Safe
        <4> QED
          BY Zenon, <2>2, <2>4, <4>1, <4>2, KeptLater DEF SafeGrows
      <3>2. WorkReplay'
        BY Zenon, <2>6, <3>1 DEF WorkReplay, R
      <3>3. \A p \in Procs : at'[p] = at[p]
        BY Zenon, <2>6, ProcFacts
      <3> QED
        BY Zenon, <2>1, <2>3, <3>2, <3>3, ReplayWork
    <2> QED
      BY Zenon, <2>5, <2>6, ReplayMoves
  <1>OnwardWork. ASSUME Onward PROVE WorkInv'
    <2> USE <1>OnwardWork
    <2>1. R.pc = "ack" /\ UNCHANGED <<head, acked, mark, published>> /\ WorkReplay /\ R.n \in Nat /\ R.to \in Nat
      BY Zenon, OnwardMoves, ReplayerFacts DEF WorkInv
    <2>2. SafeGrows
      BY Zenon, <2>1, SafeGrowsBy
    <2>3. ASSUME NEW n \in Jobs, n <= R.n PROVE Safe(n)'
      BY Zenon, <2>1, <2>2, <2>3, PassedSafe DEF SafeGrows
    <2>4. R.pc # "notify"
      BY SMT, <2>1
    <2>5. CASE /\ R.n < R.to /\ \A b \in Actors : b # Replayer => at'[b] = at[b]
               /\ at'[Replayer].pc = "apply" /\ at'[Replayer].n = R.n + 1 /\ at'[Replayer].to = R.to
               /\ at'[Replayer].catchUp = R.catchUp
      <3>1. \A n \in Jobs : n < R.n + 1 => n <= R.n
        BY SMT, <2>1, JobFacts
      <3>2. WorkReplay'
        BY Zenon, <2>3, <2>5, <3>1 DEF WorkReplay, R
      <3>3. ASSUME NEW n \in Jobs, Later(n) PROVE Safe(n)' \/ Later(n)'
        <4>1. R.catchUp /\ R.n <= n /\ n <= R.to
          BY Zenon, <2>4, <3>3 DEF Later
        <4>2. n <= R.n \/ R.n + 1 <= n
          BY SMT, <2>1, JobFacts
        <4>3. R.n + 1 <= n => Later(n)'
          BY Zenon, <2>5, <4>1 DEF Later, R
        <4> QED
          BY Zenon, <2>3, <4>2, <4>3
      <3>4. LaterGoes /\ KeptGoes /\ \A p \in Procs : at'[p] = at[p]
        BY Zenon, <2>1, <2>5, <3>3, KeptGoesBy, ProcFacts DEF LaterGoes
      <3> QED
        BY Zenon, <2>1, <3>2, <3>4, ReplayWork
    <2>6. CASE ~R.catchUp /\ Moved(Replayer, "release")
      <3>1. at'[Replayer].pc = "release" /\ at'[Replayer].n = R.n /\ \A p \in Procs : at'[p] = at[p]
        BY Zenon, <2>6, ProcFacts DEF Moved, R
      <3>2. LaterGoes /\ KeptGoes
        BY Zenon, <2>1, <2>4, <2>6, KeptGoesBy DEF LaterGoes, Later
      <3>3. R.n <= R.n /\ \A n \in Jobs : n < R.n => n <= R.n
        BY SMT, <2>1, JobFacts
      <3>4. WorkReplay'
        BY Zenon, <2>3, <3>1, <3>3 DEF WorkReplay, R
      <3> QED
        BY Zenon, <2>1, <3>1, <3>2, <3>4, ReplayWork
    <2>7. CASE R.n >= R.to /\ Ended(Replayer)
      <3>1. \A p \in Procs : at'[p] = at[p]
        BY Zenon, <2>7, ProcFacts DEF Ended
      <3>2. \A n \in Jobs : n <= R.to => n <= R.n
        BY SMT, <2>1, <2>7, JobFacts
      <3>3. LaterGoes /\ KeptGoes
        BY Zenon, <2>1, <2>3, <2>4, <3>2, KeptGoesBy DEF LaterGoes, Later
      <3>4. WorkReplay'
        BY Zenon, <2>1, <2>2, <2>7, WorkReplayKept DEF Ended
      <3> QED
        BY Zenon, <2>1, <3>1, <3>3, <3>4, ReplayWork
    <2> QED
      BY Zenon, <2>5, <2>6, <2>7, OnwardMoves, SoundFacts
  <1>ReleaseWork. ASSUME Release PROVE WorkInv'
    <2> USE <1>ReleaseWork
    <2>1. R.pc = "release" /\ UNCHANGED <<head, acked, published>> /\ Moved(Replayer, "notify") /\ WorkReplay
      BY Zenon, ReleaseMoves, SoundFacts DEF WorkInv
    <2>2. at'[Replayer].pc = "notify" /\ at'[Replayer].n = R.n /\ \A p \in Procs : at'[p] = at[p]
      BY Zenon, <2>1, ProcFacts DEF Moved, R
    <2>3. SafeGrows
      BY Zenon, <2>1, SafeGrowsBy
    <2>4. LaterGoes /\ KeptGoes
      BY Zenon, <2>2 DEF LaterGoes, KeptGoes, Later, Kept, At, R
    <2>5. ASSUME NEW n \in Jobs, n <= R.n PROVE Safe(n)'
      BY Zenon, <2>1, <2>3, <2>5, PassedSafe DEF SafeGrows
    <2>6. R.n <= R.n /\ \A n \in Jobs : n < R.n => n <= R.n
      BY SMT, ReplayerFacts, JobFacts
    <2>7. WorkReplay'
      BY Zenon, <2>2, <2>5, <2>6 DEF WorkReplay, R
    <2> QED
      BY Zenon, <2>1, <2>2, <2>4, <2>7, ReplayWork
  <1>CatchUpWork. ASSUME CatchUp PROVE WorkInv'
    <2> USE <1>CatchUpWork
    <2>1. /\ R.pc = "notify" /\ UNCHANGED <<head, acked, mark, published>> /\ WorkReplay
          /\ at'[Replayer].to = head /\ at'[Replayer].catchUp /\ (\A b \in Actors : b # Replayer => at'[b] = at[b])
          /\ \/ R.to + 1 > head /\ at'[Replayer].pc = "ack" /\ at'[Replayer].n = head
             \/ R.to + 1 <= head /\ at'[Replayer].pc = "apply" /\ at'[Replayer].n = R.to + 1
      BY Zenon, CatchUpMoves DEF WorkInv
    <2>2. R.n = R.to /\ R.to \in Nat /\ R.to <= head /\ head \in Nat
      BY Zenon, <2>1, ReplayerFacts
    <2>3. SafeGrows /\ \A p \in Procs : at'[p] = at[p]
      BY Zenon, <2>1, SafeGrowsBy, ProcFacts
    <2>4. ASSUME NEW n \in Jobs, n <= R.n PROVE Safe(n)'
      BY Zenon, <2>1, <2>3, <2>4, PassedSafe DEF SafeGrows
    <2>5. at'[Replayer].n \in Nat /\ at'[Replayer].n <= R.n + 1 /\ (at'[Replayer].pc = "ack" => at'[Replayer].n <= R.n)
      BY SMT, <2>1, <2>2
    <2>6. LaterGoes /\ KeptGoes
      <3>1. ASSUME NEW n \in Jobs, n <= head PROVE Safe(n)' \/ Later(n)'
        <4>1. n <= R.n \/ at'[Replayer].n <= n
          BY SMT, <2>2, <2>5, JobFacts
        <4>2. at'[Replayer].n <= n => Later(n)'
          BY Zenon, <2>1, <3>1 DEF Later, R
        <4> QED
          BY Zenon, <2>4, <4>1, <4>2
      <3> QED
        BY Zenon, <2>1, <3>1, KeptGoesBy DEF LaterGoes
    <2>7. WorkReplay'
      <3>1. \A n \in Jobs : n < at'[Replayer].n => n <= R.n
        BY SMT, <2>2, <2>5, JobFacts
      <3>2. CASE at'[Replayer].pc = "apply"
        BY Zenon, <2>4, <3>1, <3>2 DEF WorkReplay, R
      <3>3. CASE at'[Replayer].pc = "ack"
        BY Zenon, <2>4, <2>5, <3>1, <3>3 DEF WorkReplay, R
      <3> QED
        BY Zenon, <2>1, <3>2, <3>3
    <2> QED
      BY Zenon, <2>1, <2>3, <2>6, <2>7, ReplayWork
  <1>ReplayEndsWork. ASSUME ReplayFailed \/ ReleaseFails \/ CommandAgain PROVE WorkInv'
    <2> USE <1>ReplayEndsWork
    <2>1. Ended(Replayer) /\ UNCHANGED <<head, acked, mark, published>>
      BY Zenon, ReplayEndsMoves, SoundFacts
    <2>2. SafeGrows /\ \A p \in Procs : at'[p] = at[p]
      BY Zenon, <2>1, SafeGrowsBy, ProcFacts DEF Ended
    <2>3. WorkReplay'
      BY Zenon, <2>1, <2>2, WorkReplayKept DEF Ended, WorkInv
    <2>4. LaterGoes
      <3>1. CASE ReplayFailed
        <4>1. R.pc = "failed" /\ "failed" # "notify" /\ ~R.catchUp
          BY Zenon, <3>1 DEF ReplayFailed, At, R, CatchSafe
        <4> QED
          BY Zenon, <4>1 DEF LaterGoes, Later
      <3>2. CASE ReleaseFails
        <4>1. R.pc = "release" /\ "release" # "notify" /\ ~R.catchUp
          BY Zenon, <3>2, ReplayerFacts DEF ReleaseFails, R
        <4> QED
          BY Zenon, <4>1 DEF LaterGoes, Later
      <3>3. CASE CommandAgain
        <4>1. R.pc = "ack" /\ "ack" # "notify" /\ R.n >= R.to /\ WorkReplay
          BY Zenon, <3>3 DEF CommandAgain, At, R, WorkInv
        <4>2. \A n \in Jobs : n <= R.to => n <= R.n
          BY SMT, <4>1, ReplayerFacts, JobFacts
        <4> QED
          BY Zenon, <2>2, <4>1, <4>2, PassedSafe DEF LaterGoes, Later, SafeGrows
      <3> QED
        BY Zenon, <3>1, <3>2, <3>3
    <2> QED
      BY Zenon, <2>1, <2>2, <2>3, <2>4, KeptGoesBy, ReplayWork
  <1>1. CASE ApplyDecision(Replayer) \/ Upset(Replayer)
    BY Zenon, <1>1, <1>DecidesReplay
  <1>2. CASE \E p \in Procs : ApplyDecision(p) \/ Upset(p)
    BY Zenon, <1>2, <1>DecidesWork
  <1>3. CASE Replay \/ Onward \/ Release \/ CatchUp \/ ReplayFailed \/ ReleaseFails \/ CommandAgain
    BY Zenon, <1>3, <1>ReplayStarts, <1>OnwardWork, <1>ReleaseWork, <1>CatchUpWork, <1>ReplayEndsWork
  <1>4. CASE \E p \in Procs : Skip(p) \/ Confirm(p) \/ Close(p) \/ Deliver(p) \/ SkipFails(p) \/ CloseFails(p)
    BY Zenon, <1>4, <1>HandleWork
  <1>5. CASE \E p \in Procs : Ack(p) \/ Quarantine(p) \/ QuarantineFails(p) \/ Crash(p)
    BY Zenon, <1>5, <1>AckWork, <1>QuarantineWork, <1>CrashWork
  <1>6. CASE UNCHANGED vars \/ Append \/ Fix \/ Ask \/ \E p \in Procs, kind \in {"quarantine", "release"} : Notice(p, kind)
    BY Zenon, <1>6, <1>StillWork
  <1> QED
    BY Zenon, <1>1, <1>2, <1>3, <1>4, <1>5, <1>6, ProcFacts DEF Next, Replays, Handle

LEMMA WorkInit ==
    ASSUME Init
    PROVE  CatchSafe /\ WorkInv
  <1>1. acked = 0 /\ \A a \in Actors : at[a] = Idle /\ at[a].pc = "idle" /\ ~at[a].catchUp
    BY Zenon, IdleFacts DEF Init
  <1>2. CatchSafe /\ WorkReplay
    BY Zenon, <1>1, ProcFacts DEF CatchSafe, WorkReplay, R
  <1>3. \A p \in Procs : WorkProc(p)
    BY Zenon, <1>1, ProcFacts DEF WorkProc
  <1>4. NoWorkLost
    <2>1. \A n \in Jobs : ~(n <= 0)
      BY SMT, JobFacts
    <2> QED
      BY Zenon, <1>1, <2>1 DEF NoWorkLost
  <1> QED
    BY Zenon, <1>2, <1>3, <1>4 DEF WorkInv

\* Whatever crashes, fails, is delivered twice or missed a broadcast, a decision
\* that scheduled an attempt is acknowledged only when the attempt was given to
\* the workers, has ended, or is kept by the mark or by the replay that lifted it
\* -- as long as the mark can be read when a decision has failed and nothing hits
\* a replay between lifting the mark and the end of its catch-up (handle, Replay).
THEOREM WorkIsKept ==
    ASSUME Risks \subseteq {"again"}
    PROVE  Spec => []NoWorkLost
  <1> DEFINE I == Sound /\ BadInv /\ CatchSafe /\ WorkInv
  <1>1. "confirm" \notin Risks /\ "catchup" \notin Risks
    BY Zenon
  <1>2. Init => I
    BY Zenon, SoundInit, BadInit, WorkInit
  <1>3. I /\ [Next]_vars => I'
    BY Zenon, <1>1, SoundNext, BadNext, CatchNext, WorkNext
  <1>4. I => NoWorkLost
    BY Zenon DEF WorkInv
  <1> QED
    BY <1>2, <1>3, <1>4, PTL DEF Spec

----------------------------------------------------------------------------
(* One process at a time: the mark, and the message to the parent. *)

\* No decision is delivered a second time while it is handled.
Solo == \A p, q \in Procs : at[p].pc # "idle" /\ at[q].pc # "idle" => p = q
\* The mark is written only where there is none.
MarkInv ==
  /\ Solo
  /\ \A p \in Procs : at[p].pc = "quarantine" => mark = 0
  /\ First => mark <= R.to
\* The closing effects have run where the last decision is done with.
ToldProc(p) ==
  /\ at[p].pc \in {"index", "delete"} /\ at[p].n = Last => closed
  /\ at[p].pc = "ack" /\ at[p].n = Last => closed \/ mark = Last
ToldReplay == R.pc \in {"index", "delete", "ack", "release", "notify"} /\ R.n = Last => closed
ToldInv == (\A p \in Procs : ToldProc(p)) /\ ToldReplay /\ (acked = Last => closed \/ mark = Last)

LEMMA MarkKeep ==
    ASSUME Sound, MarkInv, mark' = mark \/ mark' = 0,
           \A p \in Procs : /\ at'[p].pc # "idle" => at[p].pc # "idle"
                            /\ at'[p].pc = "quarantine" => at[p].pc = "quarantine" \/ mark = 0,
           First' => mark' <= at'[Replayer].to
    PROVE  MarkInv'
  <1>1. Solo'
    BY Zenon DEF MarkInv, Solo
  <1>2. \A p \in Procs : at'[p].pc = "quarantine" => mark' = 0
    BY Zenon DEF MarkInv
  <1> QED
    BY Zenon, <1>1, <1>2 DEF MarkInv, R

\* The same when the replay does not move, or ends.
LEMMA MarkKeepProc ==
    ASSUME Sound, MarkInv, mark' = mark, at'[Replayer] = at[Replayer] \/ at'[Replayer] = Idle,
           \A p \in Procs : /\ at'[p].pc # "idle" => at[p].pc # "idle"
                            /\ at'[p].pc = "quarantine" => at[p].pc = "quarantine" \/ mark = 0
    PROVE  MarkInv'
  <1>1. First' => mark' <= at'[Replayer].to
    <2>1. CASE at'[Replayer] = at[Replayer]
      BY Zenon, <2>1 DEF MarkInv, First, R
    <2>2. CASE at'[Replayer] = Idle
      <3>1. at'[Replayer].pc = "idle"
        BY Zenon, <2>2, IdleFacts
      <3> QED
        BY Zenon, <3>1 DEF First, R
    <2> QED
      BY Zenon, <2>1, <2>2
  <1> QED
    BY Zenon, <1>1, MarkKeep

LEMMA MarkNext ==
    ASSUME Sound, MarkInv, "again" \notin Risks, "confirm" \notin Risks, [Next]_vars
    PROVE  MarkInv'
  <1>MarkDecides. ASSUME NEW a \in Actors, ApplyDecision(a) \/ Upset(a) PROVE MarkInv'
    <2> USE <1>MarkDecides
    <2>1. at[a].pc \in {"apply", "effects", "index", "delete"} /\ mark' = mark
      BY Zenon, DecidesMoves
    <2>2. PICK pc \in {"effects", "index", "delete", "ack", "failed"} : Moved(a, pc)
      BY Zenon, DecidesMoves
    <2>3. at[a].pc # "idle" /\ pc # "quarantine"
      BY Zenon, <2>1
    <2>4. \A p \in Procs : /\ at'[p].pc # "idle" => at[p].pc # "idle"
                           /\ at'[p].pc = "quarantine" => at[p].pc = "quarantine"
      BY Zenon, <2>2, <2>3, ProcFacts DEF Moved
    <2>5. First' => mark' <= at'[Replayer].to
      <3>1. CASE a = Replayer
        <4>1. at'[Replayer].to = R.to /\ at'[Replayer].catchUp = R.catchUp
          BY Zenon, <2>2, <3>1 DEF Moved, R
        <4>2. First' => First
          BY Zenon, <2>1, <3>1, <4>1 DEF First, R
        <4> QED
          BY Zenon, <2>1, <4>1, <4>2 DEF MarkInv
      <3>2. CASE a # Replayer
        BY Zenon, <2>1, <2>2, <3>2, ProcFacts DEF Moved, MarkInv, First, R
      <3> QED
        BY Zenon, <3>1, <3>2
    <2> QED
      BY Zenon, <2>1, <2>4, <2>5, MarkKeep
  <1>MarkHandles. ASSUME NEW p \in Procs, Skip(p) \/ Ack(p) \/ Confirm(p) \/ Quarantine(p) \/ Close(p) \/ Deliver(p) \/ SkipFails(p) \/ QuarantineFails(p) \/ CloseFails(p)
                  PROVE  MarkInv'
    <2> USE <1>MarkHandles
    <2>1. TypeOK /\ p \in Actors
      BY Zenon, SoundFacts, ProcFacts
    <2>2. at'[Replayer] = at[Replayer] /\ \A q \in Procs : q # p => at'[q] = at[q]
      BY Zenon, HandlesMoves, ProcFacts
    <2>3. "quarantine" # "idle" /\ "skip" # "idle" /\ "ack" # "idle" /\ "failed" # "idle" /\ "close" # "idle"
          /\ "quarantine" # "ack" /\ "quarantine" # "close" /\ "quarantine" # "skip" /\ "quarantine" # "apply"
      BY Zenon
    <2>4. CASE Deliver(p)
      <3>1. (\A q \in Procs : at[q].pc = "idle") /\ at'[p].pc = "skip" /\ mark' = mark
        BY Zenon, <2>1, <2>4, DeliverMoves
      <3>2. Solo'
        BY Zenon, <2>2, <3>1 DEF Solo
      <3>3. \A q \in Procs : at'[q].pc # "quarantine"
        BY Zenon, <2>2, <2>3, <3>1
      <3> QED
        BY Zenon, <2>2, <3>1, <3>2, <3>3 DEF MarkInv, First, R
    <2>5. CASE Quarantine(p) \/ QuarantineFails(p)
      <3>1. at[p].pc = "quarantine" /\ (at'[p] = Idle \/ at'[p].pc = "ack")
        BY Zenon, <2>1, <2>5, EndedEnds, QuarantineMoves DEF QuarantineFails, At, Ended, Moved
      <3>2. \A q \in Procs : at'[q].pc # "quarantine"
        BY Zenon, <2>2, <2>3, <3>1, IdleFacts DEF MarkInv, Solo
      <3>3. Solo'
        BY Zenon, <2>2, <2>3, <3>1 DEF MarkInv, Solo
      <3>4. ~First'
        BY Zenon, <2>2, <3>1, SoundFacts DEF MarkInv, First, R
      <3> QED
        BY Zenon, <3>2, <3>3, <3>4 DEF MarkInv
    <2>6. CASE Skip(p) \/ Ack(p) \/ Confirm(p) \/ Close(p) \/ SkipFails(p) \/ CloseFails(p)
      <3>1. mark' = mark /\ at[p].pc # "idle"
        BY Zenon, <2>3, <2>6 DEF Skip, Ack, Confirm, Close, SkipFails, CloseFails, know, At
      <3>2. at'[p].pc # "quarantine" \/ mark = 0
        BY Zenon, <2>1, <2>3, <2>6, IdleFacts, SkipMoves, ConfirmMoves, CloseMoves, EndedEnds DEF Ack, SkipFails, Moved, Ended
      <3> QED
        BY Zenon, <2>2, <3>1, <3>2, MarkKeepProc
    <2> QED
      BY Zenon, <2>4, <2>5, <2>6
  <1>1. TypeOK /\ Replayer \in Actors /\ \A p \in Procs : p \in Actors /\ p # Replayer
    BY Zenon, SoundFacts, ProcFacts
  <1>2. CASE UNCHANGED vars \/ Append \/ Fix \/ Ask \/ \E p \in Procs, kind \in {"quarantine", "release"} : Notice(p, kind)
    <2>1. UNCHANGED <<at, mark>>
      BY Zenon, <1>1, <1>2, StillMoves DEF vars
    <2> QED
      BY Zenon, <2>1, MarkKeepProc
  <1>3. CASE \E a \in Actors : ApplyDecision(a) \/ Upset(a)
    BY Zenon, <1>3, <1>MarkDecides
  <1>4. CASE \E p \in Procs : Skip(p) \/ Ack(p) \/ Confirm(p) \/ Quarantine(p) \/ Close(p) \/ Deliver(p)
                              \/ SkipFails(p) \/ QuarantineFails(p) \/ CloseFails(p)
    BY Zenon, <1>4, <1>MarkHandles
  <1>5. CASE ReplayFailed \/ ReleaseFails \/ CommandAgain
    BY Zenon, <1>1, <1>5, ReplayEndsMoves, MarkKeepProc DEF Ended
  <1>6. CASE \E p \in Procs : Crash(p)
    BY Zenon, <1>1, <1>6, CrashMoves, MarkKeepProc, IdleFacts
  <1>7. CASE Replay
    <2>1. mark' = mark /\ \A p \in Procs : at'[p] = at[p]
      BY Zenon, <1>1, <1>7, ReplayMoves
    <2>2. CASE UNCHANGED at
      BY Zenon, <2>1, <2>2, MarkKeepProc
    <2>3. CASE at'[Replayer].to = head
      BY Zenon, <2>1, <2>3, MarkKeep, TypeFacts
    <2> QED
      BY Zenon, <1>7, <2>2, <2>3, ReplayMoves
  <1>8. CASE Onward
    <2>1. mark' = mark /\ R.pc = "ack" /\ \A p \in Procs : at'[p] = at[p]
      BY Zenon, <1>1, <1>8, OnwardMoves DEF Moved, Ended
    <2>2. CASE Ended(Replayer)
      BY Zenon, <2>1, <2>2, MarkKeepProc DEF Ended
    <2>3. CASE at'[Replayer].to = R.to /\ at'[Replayer].catchUp = R.catchUp
      <3>1. First' => First
        BY Zenon, <2>1, <2>3 DEF First, R
      <3> QED
        BY Zenon, <2>1, <2>3, <3>1, MarkKeep DEF MarkInv
    <2> QED
      BY Zenon, <1>1, <1>8, <2>2, <2>3, OnwardMoves DEF Moved, R
  <1>9. CASE Release \/ CatchUp
    <2>1. (mark' = mark \/ mark' = 0) /\ \A p \in Procs : at'[p] = at[p]
      BY Zenon, <1>1, <1>9, ReleaseMoves, CatchUpMoves DEF Moved
    <2>2. ~First'
      <3>1. CASE Release
        BY Zenon, <1>1, <3>1, ReleaseMoves DEF Moved, First, R
      <3>2. CASE CatchUp
        BY Zenon, <3>2, CatchUpMoves DEF First, R
      <3> QED
        BY Zenon, <1>9, <3>1, <3>2
    <2> QED
      BY Zenon, <2>1, <2>2, MarkKeep
  <1> QED
    BY Zenon, <1>2, <1>3, <1>4, <1>5, <1>6, <1>7, <1>8, <1>9, ProcFacts DEF Next, Replays, Handle

\* The mark changes when the replay lifts it and when a process writes it.
LEMMA MarkSteps ==
    ASSUME Sound, [Next]_vars
    PROVE  mark' = mark \/ (Release /\ mark' = 0) \/ \E p \in Procs : at[p].pc = "quarantine"
  <1>1. TypeOK
    BY Zenon, SoundFacts
  <1>2. CASE UNCHANGED vars \/ Append \/ Fix \/ Ask \/ \E p \in Procs, kind \in {"quarantine", "release"} : Notice(p, kind)
    BY Zenon, <1>1, <1>2, StillMoves DEF vars
  <1>3. CASE \E a \in Actors : ApplyDecision(a) \/ Upset(a)
    BY Zenon, <1>3, DecidesMoves
  <1>4. CASE Replay \/ Onward \/ CatchUp \/ ReplayFailed \/ ReleaseFails \/ CommandAgain
    BY Zenon, <1>1, <1>4, ReplayMoves, OnwardMoves, CatchUpMoves, ReplayEndsMoves
  <1>5. CASE \E p \in Procs : Skip(p) \/ Ack(p) \/ Confirm(p) \/ Close(p) \/ Deliver(p) \/ SkipFails(p) \/ CloseFails(p) \/ Crash(p)
    BY Zenon, <1>5 DEF Skip, Ack, Confirm, Close, Deliver, SkipFails, CloseFails, Crash, know
  <1>6. CASE \E p \in Procs : Quarantine(p) \/ QuarantineFails(p)
    BY Zenon, <1>6 DEF Quarantine, QuarantineFails, At
  <1>7. CASE Release
    BY Zenon, <1>7 DEF Release
  <1> QED
    BY Zenon, <1>2, <1>3, <1>4, <1>5, <1>6, <1>7, ProcFacts DEF Next, Replays, Handle

LEMMA MarkInit ==
    ASSUME Init
    PROVE  MarkInv
  <1>1. \A a \in Actors : at[a].pc = "idle"
    BY Zenon, IdleFacts DEF Init
  <1> QED
    BY Zenon, <1>1, ProcFacts DEF MarkInv, Solo, First, R

\* The mark an execution is under never moves to a later decision, whatever
\* crashes or fails, as long as a decision is handled by one process at a time
\* and the mark can be read when a decision has failed (QuarantineMark).
THEOREM MarkStaysFirst ==
    ASSUME Risks \subseteq {"catchup"}
    PROVE  Spec => MarkIsFirst
  <1> DEFINE I == Sound /\ MarkInv
  <1>1. "again" \notin Risks /\ "confirm" \notin Risks
    BY Zenon
  <1>2. Init => I
    BY Zenon, SoundInit, MarkInit
  <1>3. I /\ [Next]_vars => I'
    BY Zenon, <1>1, SoundNext, MarkNext
  <1>4. I /\ [Next]_vars => [mark # 0 /\ mark' # 0 => mark' <= mark]_vars
    <2> SUFFICES ASSUME I, [Next]_vars, mark # 0, mark' # 0 PROVE mark' <= mark
      OBVIOUS
    <2>1. mark' = mark
      BY Zenon, MarkSteps DEF MarkInv
    <2> QED
      BY SMT, <2>1, TypeFacts
  <1> QED
    BY <1>2, <1>3, <1>4, PTL DEF Spec, MarkIsFirst

\* What moves a process, and what moves the replay.
LEMMA ProcSteps ==
    ASSUME Sound, [Next]_vars, NEW p \in Procs
    PROVE  \/ at'[p] = at[p] \/ at'[p] = Idle \/ ApplyDecision(p) \/ Upset(p)
           \/ Skip(p) \/ Confirm(p) \/ Quarantine(p) \/ Close(p) \/ CloseFails(p) \/ Deliver(p)
  <1>1. TypeOK /\ p \in Actors /\ p # Replayer /\ \A q \in Procs : q \in Actors
    BY Zenon, SoundFacts, ProcFacts
  <1>2. CASE UNCHANGED vars \/ Append \/ Fix \/ Ask \/ \E q \in Procs, kind \in {"quarantine", "release"} : Notice(q, kind)
    BY Zenon, <1>1, <1>2, StillMoves DEF vars
  <1>3. CASE \E a \in Actors : ApplyDecision(a) \/ Upset(a)
    BY Zenon, <1>1, <1>3, DecidesMoves DEF Moved
  <1>4. CASE Replay \/ Onward \/ Release \/ CatchUp \/ ReplayFailed \/ ReleaseFails \/ CommandAgain
    BY Zenon, <1>1, <1>4, ReplayMoves, OnwardMoves, ReleaseMoves, CatchUpMoves, ReplayEndsMoves DEF Moved, Ended
  <1>5. CASE \E q \in Procs : q # p /\ (Skip(q) \/ Ack(q) \/ Confirm(q) \/ Quarantine(q) \/ Close(q) \/ Deliver(q)
                                        \/ SkipFails(q) \/ QuarantineFails(q) \/ CloseFails(q))
    BY Zenon, <1>1, <1>5, HandlesMoves
  <1>6. CASE Ack(p) \/ SkipFails(p) \/ QuarantineFails(p)
    BY Zenon, <1>1, <1>6, EndedEnds DEF Ack, SkipFails, QuarantineFails, Ended
  <1>7. CASE \E q \in Procs : Crash(q)
    BY Zenon, <1>1, <1>7, CrashMoves
  <1> QED
    BY Zenon, <1>1, <1>2, <1>3, <1>4, <1>5, <1>6, <1>7, ProcFacts DEF Next, Replays, Handle

LEMMA ReplaySteps ==
    ASSUME Sound, [Next]_vars
    PROVE  \/ at'[Replayer] = at[Replayer] \/ at'[Replayer] = Idle \/ ApplyDecision(Replayer) \/ Upset(Replayer)
           \/ Replay \/ Onward \/ Release \/ CatchUp
  <1>1. TypeOK /\ Replayer \in Actors /\ \A q \in Procs : q \in Actors /\ q # Replayer
    BY Zenon, SoundFacts, ProcFacts
  <1>2. CASE UNCHANGED vars \/ Append \/ Fix \/ Ask \/ \E q \in Procs, kind \in {"quarantine", "release"} : Notice(q, kind)
    BY Zenon, <1>1, <1>2, StillMoves DEF vars
  <1>3. CASE \E a \in Actors : ApplyDecision(a) \/ Upset(a)
    BY Zenon, <1>1, <1>3, DecidesMoves DEF Moved
  <1>4. CASE ReplayFailed \/ ReleaseFails \/ CommandAgain
    BY Zenon, <1>1, <1>4, ReplayEndsMoves DEF Ended
  <1>5. CASE \E q \in Procs : Skip(q) \/ Ack(q) \/ Confirm(q) \/ Quarantine(q) \/ Close(q) \/ Deliver(q)
                              \/ SkipFails(q) \/ QuarantineFails(q) \/ CloseFails(q)
    BY Zenon, <1>1, <1>5, HandlesMoves
  <1>6. CASE \E q \in Procs : Crash(q)
    BY Zenon, <1>1, <1>6, CrashMoves
  <1> QED
    BY Zenon, <1>1, <1>2, <1>3, <1>4, <1>5, <1>6, ProcFacts DEF Next, Replays, Handle

LEMMA ClosedStays ==
    ASSUME Sound, [Next]_vars, closed
    PROVE  closed'
  <1>1. TypeOK
    BY Zenon, SoundFacts
  <1>2. CASE UNCHANGED vars \/ Append \/ Fix \/ Ask \/ \E p \in Procs, kind \in {"quarantine", "release"} : Notice(p, kind)
    BY Zenon, <1>1, <1>2, StillMoves DEF vars
  <1>3. CASE \E a \in Actors : ApplyDecision(a) \/ Upset(a)
    BY Zenon, <1>1, <1>3, ApplyMoves, EffectsMoves, IndexMoves, DeleteMoves, UpsetMoves DEF ApplyDecision
  <1>4. CASE Replay \/ Onward \/ Release \/ CatchUp \/ ReplayFailed \/ ReleaseFails \/ CommandAgain
    BY Zenon, <1>1, <1>4, ReplayMoves, OnwardMoves, ReleaseMoves, CatchUpMoves, ReplayEndsMoves
  <1>5. CASE \E p \in Procs : Close(p) \/ CloseFails(p)
    BY Zenon, <1>1, <1>5, CloseMoves
  <1>6. CASE \E p \in Procs : Skip(p) \/ Ack(p) \/ Confirm(p) \/ Quarantine(p) \/ Deliver(p)
                              \/ SkipFails(p) \/ QuarantineFails(p) \/ Crash(p)
    BY Zenon, <1>6 DEF Skip, Ack, Confirm, Quarantine, Deliver, SkipFails, QuarantineFails, Crash, effects
  <1> QED
    BY Zenon, <1>2, <1>3, <1>4, <1>5, <1>6, ProcFacts DEF Next, Replays, Handle

\* The closing effects have run, or the last decision waits for a replay: a mark
\* at the last decision is lifted only by a replay that has run it.
LastDone == closed \/ mark = Last

LEMMA DoneStays ==
    ASSUME Sound, MarkInv, ToldReplay, [Next]_vars, LastDone
    PROVE  LastDone'
  <1>1. Last # 0 /\ Last \in Nat
    BY Zenon, DispatchAssumption
  <1>2. CASE closed
    BY Zenon, <1>2, ClosedStays DEF LastDone
  <1>3. CASE mark = Last
    <2>1. CASE mark' = mark
      BY Zenon, <1>3, <2>1 DEF LastDone
    <2>2. CASE Release
      <3>1. R.pc = "release" /\ R.n = R.to /\ ~R.catchUp /\ R.to <= head
        BY Zenon, <2>2, ReleaseMoves, ReplayerFacts, SoundFacts, ProcFacts DEF HandOK, R
      <3>2. mark <= R.to
        BY Zenon, <3>1 DEF MarkInv, First
      <3>3. R.to \in Nat /\ head \in Nat /\ head <= Last
        BY SMT, ActorFacts, SoundFacts, ProcFacts, TypeFacts DEF R
      <3>4. R.n = Last
        BY SMT, <1>1, <1>3, <3>1, <3>2, <3>3
      <3>5. closed
        BY Zenon, <3>1, <3>4 DEF ToldReplay
      <3> QED
        BY Zenon, <1>2, <3>5
    <2>3. CASE \E p \in Procs : at[p].pc = "quarantine"
      BY Zenon, <1>1, <1>3, <2>3 DEF MarkInv
    <2> QED
      BY Zenon, <2>1, <2>2, <2>3, MarkSteps
  <1> QED
    BY Zenon, <1>2, <1>3 DEF LastDone

\* Where an actor that runs a decision is, and whether the closing effects have run.
LEMMA DecidesTold ==
    ASSUME Sound, NEW a \in Actors, ApplyDecision(a) \/ Upset(a),
           at[a].pc \in {"index", "delete"} /\ at[a].n = Last => closed
    PROVE  \/ Moved(a, "failed") \/ Moved(a, "effects")
           \/ /\ Moved(a, "index") \/ Moved(a, "delete") \/ Moved(a, "ack")
              /\ at[a].n = Last => closed'
  <1>1. TypeOK
    BY Zenon, SoundFacts
  <1>2. CASE Apply(a)
    <2>1. Last \in Nat
      BY Zenon, DispatchAssumption
    <2>2. Last \notin Jobs
      BY SMT, <2>1, JobFacts
    <2> QED
      BY Zenon, <1>1, <1>2, <2>2, ApplyMoves
  <1>3. CASE Effects(a)
    BY Zenon, <1>1, <1>3, EffectsMoves
  <1>4. CASE Index(a) \/ Delete(a)
    BY Zenon, <1>1, <1>4, IndexMoves, DeleteMoves
  <1>5. CASE Upset(a)
    BY Zenon, <1>1, <1>5, UpsetMoves
  <1> QED
    BY Zenon, <1>2, <1>3, <1>4, <1>5 DEF ApplyDecision

LEMMA ToldReplayStep ==
    ASSUME Sound, MarkInv, ToldInv, [Next]_vars
    PROVE  ToldReplay'
  <1>1. TypeOK /\ Replayer \in Actors /\ ToldReplay
    BY Zenon, SoundFacts, ProcFacts DEF ToldInv
  <1>2. closed => closed'
    BY Zenon, ClosedStays
  <1>3. CASE at'[Replayer] = at[Replayer]
    BY Zenon, <1>1, <1>2, <1>3 DEF ToldReplay, R
  <1>4. CASE at'[Replayer] = Idle \/ at'[Replayer].pc \in {"apply", "effects", "failed"}
    <2>1. at'[Replayer].pc \in {"idle", "apply", "effects", "failed"}
      BY Zenon, <1>4, IdleFacts
    <2> QED
      BY Zenon, <2>1 DEF ToldReplay, R
  <1>5. CASE R.pc \in {"ack", "release", "notify"} /\ at'[Replayer].n = R.n
    BY Zenon, <1>1, <1>2, <1>5 DEF ToldReplay, R
  <1>6. CASE ApplyDecision(Replayer) \/ Upset(Replayer)
    <2>1. R.pc \in {"index", "delete"} /\ R.n = Last => closed
      BY Zenon, <1>1 DEF ToldReplay
    <2>2. CASE Moved(Replayer, "failed") \/ Moved(Replayer, "effects")
      BY Zenon, <1>4, <2>2 DEF Moved
    <2>3. CASE (Moved(Replayer, "index") \/ Moved(Replayer, "delete") \/ Moved(Replayer, "ack")) /\ (R.n = Last => closed')
      BY Zenon, <2>3 DEF Moved, ToldReplay, R
    <2> QED
      BY Zenon, <1>1, <1>6, <2>1, <2>2, <2>3, DecidesTold DEF R
  <1>7. CASE Replay
    BY Zenon, <1>3, <1>4, <1>7, ReplayMoves
  <1>8. CASE Onward \/ Release
    BY Zenon, <1>1, <1>4, <1>5, <1>8, OnwardMoves, ReleaseMoves DEF Moved, Ended, R
  <1>9. CASE CatchUp
    <2>1. CASE at'[Replayer].pc = "apply"
      BY Zenon, <1>4, <2>1
    <2>2. CASE R.to + 1 > head /\ at'[Replayer].n = head
      <3>1. R.pc = "notify" /\ R.n = R.to /\ R.to <= head
        BY Zenon, <1>9, CatchUpMoves, SoundFacts, ProcFacts DEF HandOK, R
      <3>2. R.to \in Nat /\ head \in Nat
        BY SMT, ActorFacts, <1>1, TypeFacts DEF R
      <3>3. at'[Replayer].n = R.n
        BY SMT, <2>2, <3>1, <3>2
      <3> QED
        BY Zenon, <1>5, <3>1, <3>3
    <2> QED
      BY Zenon, <1>9, <2>1, <2>2, CatchUpMoves
  <1> QED
    BY Zenon, <1>3, <1>4, <1>6, <1>7, <1>8, <1>9, ReplaySteps

\* Only an acknowledgement moves the consumer, to the decision it is of.
LEMMA AckSteps ==
    ASSUME Sound, [Next]_vars
    PROVE  acked' = acked \/ \E p \in Procs : Ack(p) /\ at[p].pc = "ack" /\ acked' = at[p].n
  <1>1. TypeOK
    BY Zenon, SoundFacts
  <1>2. CASE UNCHANGED vars \/ Append \/ Fix \/ Ask \/ \E p \in Procs, kind \in {"quarantine", "release"} : Notice(p, kind)
    BY Zenon, <1>1, <1>2, StillMoves DEF vars
  <1>3. CASE \E a \in Actors : ApplyDecision(a) \/ Upset(a)
    BY Zenon, <1>3, DecidesMoves
  <1>4. CASE Replay \/ Onward \/ Release \/ CatchUp \/ ReplayFailed \/ ReleaseFails \/ CommandAgain
    BY Zenon, <1>1, <1>4, ReplayMoves, OnwardMoves, ReleaseMoves, CatchUpMoves, ReplayEndsMoves
  <1>5. CASE \E p \in Procs : Skip(p) \/ Confirm(p) \/ Quarantine(p) \/ Close(p) \/ Deliver(p)
                              \/ SkipFails(p) \/ QuarantineFails(p) \/ CloseFails(p) \/ Crash(p)
    BY Zenon, <1>5 DEF Skip, Confirm, Quarantine, Close, Deliver, SkipFails, QuarantineFails, CloseFails, Crash
  <1>6. CASE \E p \in Procs : Ack(p)
    BY Zenon, <1>6 DEF Ack, At
  <1> QED
    BY Zenon, <1>2, <1>3, <1>4, <1>5, <1>6, ProcFacts DEF Next, Replays, Handle

LEMMA ToldNext ==
    ASSUME Sound, MarkInv, ToldInv, <<Last, "fold">> \notin Failures, [Next]_vars
    PROVE  ToldInv'
  <1>ToldProcStep. ASSUME NEW p \in Procs PROVE ToldProc(p)'
    <2> USE <1>ToldProcStep
    <2>1. TypeOK /\ p \in Actors /\ ToldProc(p) /\ ToldReplay
      BY Zenon, SoundFacts, ProcFacts DEF ToldInv
    <2>2. (closed => closed') /\ (LastDone => LastDone')
      BY Zenon, <2>1, ClosedStays, DoneStays
    <2>3. Folds({Last})
      BY Zenon, TypeFacts DEF Folds
    <2>4. CASE at'[p] = at[p]
      BY Zenon, <2>1, <2>2, <2>4 DEF ToldProc, LastDone
    <2>5. CASE at'[p] = Idle \/ at'[p].pc \in {"skip", "apply", "effects", "failed", "quarantine", "close"}
      <3>1. at'[p].pc \in {"idle", "skip", "apply", "effects", "failed", "quarantine", "close"}
        BY Zenon, <2>5, IdleFacts
      <3> QED
        BY Zenon, <3>1 DEF ToldProc
    <2>6. CASE at'[p].pc = "ack" /\ (at'[p].n = Last => LastDone')
      BY Zenon, <2>6 DEF ToldProc, LastDone
    <2>7. CASE ApplyDecision(p) \/ Upset(p)
      <3>1. at[p].pc \in {"index", "delete"} /\ at[p].n = Last => closed
        BY Zenon, <2>1 DEF ToldProc
      <3>2. CASE Moved(p, "failed") \/ Moved(p, "effects")
        BY Zenon, <2>5, <3>2 DEF Moved
      <3>3. CASE (Moved(p, "index") \/ Moved(p, "delete") \/ Moved(p, "ack")) /\ (at[p].n = Last => closed')
        BY Zenon, <3>3 DEF Moved, ToldProc
      <3> QED
        BY Zenon, <2>1, <2>7, <3>1, <3>2, <3>3, DecidesTold
    <2>8. CASE Skip(p) \/ Confirm(p)
      BY Zenon, <2>1, <2>3, <2>5, <2>6, <2>8, SkipMoves, ConfirmMoves DEF Moved, Ended
    <2>9. CASE Quarantine(p) \/ Close(p) \/ CloseFails(p)
      BY Zenon, <2>1, <2>5, <2>6, <2>9, QuarantineMoves, CloseMoves DEF Moved, Ended, LastDone
    <2>10. CASE Deliver(p)
      BY Zenon, <2>1, <2>5, <2>10, DeliverMoves
    <2> QED
      BY Zenon, <2>4, <2>5, <2>7, <2>8, <2>9, <2>10, ProcSteps
  <1>1. \A p \in Procs : ToldProc(p)'
    BY Zenon, <1>ToldProcStep
  <1>2. ToldReplay' /\ (LastDone => LastDone')
    BY Zenon, ToldReplayStep, DoneStays DEF ToldInv
  <1>3. acked' = Last => LastDone
    BY Zenon, AckSteps DEF ToldInv, ToldProc, LastDone
  <1> QED
    BY Zenon, <1>1, <1>2, <1>3 DEF ToldInv, LastDone

LEMMA ToldInit ==
    ASSUME Init
    PROVE  ToldInv
  <1>1. acked = 0 /\ \A a \in Actors : at[a].pc = "idle"
    BY Zenon, IdleFacts DEF Init
  <1>2. 0 # Last
    BY Zenon, DispatchAssumption
  <1> QED
    BY Zenon, <1>1, <1>2, ProcFacts DEF ToldInv, ToldProc, ToldReplay, R

\* A quarantined child does not strand its parent: once the last decision is
\* acknowledged its closing effects have run, unless it cannot be read or is the
\* one that failed and waits for a replay -- as long as a decision is handled by
\* one process at a time and the mark can be read when a decision has failed
\* (closeQuarantined, handleQuarantined).
THEOREM ParentIsTold ==
    ASSUME Risks \subseteq {"catchup"}
    PROVE  Spec => []ParentTold
  <1>1. CASE <<Last, "fold">> \in Failures
    <2>1. ParentTold
      BY Zenon, <1>1 DEF ParentTold
    <2> QED
      BY <2>1, PTL
  <1>2. CASE <<Last, "fold">> \notin Failures
    <2> DEFINE I == Sound /\ MarkInv /\ ToldInv
    <2>1. "again" \notin Risks /\ "confirm" \notin Risks
      BY Zenon
    <2>2. Init => I
      BY Zenon, SoundInit, MarkInit, ToldInit
    <2>3. I /\ [Next]_vars => I'
      BY Zenon, <1>2, <2>1, SoundNext, MarkNext, ToldNext
    <2>4. I => ParentTold
      BY Zenon DEF ToldInv, ParentTold
    <2> QED
      BY <2>2, <2>3, <2>4, PTL DEF Spec
  <1> QED
    BY <1>1, <1>2

----------------------------------------------------------------------------
(* The index, while one actor at a time works on the execution. *)

\* X is the status after a decision c .. h.
In(X, c, h) == \E j \in Decisions : c <= j /\ j <= h /\ X = Status[j]
\* In a log of h decisions index i speaks of none before c.
Cur(i, c, h) ==
  /\ \A X \in i.keys : In(X, c, h)
  /\ In(i.shown, c, h) \/ (c = 0 /\ i.shown = "none")
Listed(i, n) == Status[n] \in i.keys
\* The old key is still to go.
Halfway(i, n, h) == Listed(i, n) /\ In(i.shown, n, h) /\ n > 1 /\ Status[n] # Status[n - 1]

LEMMA InSelf ==
    ASSUME NEW n \in Decisions, NEW c, NEW h, c <= n, n <= h
    PROVE  In(Status[n], c, h)
  BY Zenon DEF In

LEMMA InMoves ==
    ASSUME NEW c \in Nat, NEW d \in Nat, NEW h \in Nat, NEW k \in Nat, c <= d, h <= k, NEW X, In(X, d, h)
    PROVE  In(X, c, k)
  <1>1. PICK j \in Decisions : d <= j /\ j <= h /\ X = Status[j]
    BY Zenon DEF In
  <1>2. c <= j /\ j <= k
    BY SMT, <1>1, DispatchAssumption DEF Decisions
  <1> QED
    BY Zenon, <1>1, <1>2 DEF In

LEMMA CurMoves ==
    ASSUME NEW c \in Nat, NEW d \in Nat, NEW h \in Nat, NEW k \in Nat, c <= d, h <= k, NEW i, Cur(i, d, h)
    PROVE  Cur(i, c, k)
  <1>1. \A X : In(X, d, h) => In(X, c, k)
    BY Zenon, InMoves
  <1>2. d = 0 => c = 0
    BY SMT
  <1> QED
    BY Zenon, <1>1, <1>2 DEF Cur

\* What a write does to it.
LEMMA CurShows ==
    ASSUME NEW i, NEW c, NEW h, Cur(i, c, h), NEW j, NEW n \in Decisions, c <= n, n <= h,
           j.shown = Status[n] \/ j.shown = i.shown, j.keys \subseteq i.keys \cup {Status[n]}
    PROVE  Cur(j, c, h)
  <1>1. In(Status[n], c, h)
    BY Zenon, InSelf
  <1> QED
    BY Zenon, <1>1 DEF Cur

\* Once the key of the decision before it has gone, or is its own, the index
\* speaks of no decision before n.
LEMMA CurUp ==
    ASSUME NEW i, NEW n \in Decisions, NEW h \in Nat, n <= h, Cur(i, n - 1, h), In(i.shown, n, h),
           n = 1 \/ Status[n] = Status[n - 1] \/ Status[n - 1] \notin i.keys
    PROVE  Cur(i, n, h)
  <1>1. ASSUME NEW X \in i.keys PROVE In(X, n, h)
    <2>1. PICK j \in Decisions : n - 1 <= j /\ j <= h /\ X = Status[j]
      BY Zenon DEF Cur, In
    <2>2. j >= 1 /\ n >= 1 /\ n \in Nat /\ j \in Nat
      BY SMT, DispatchAssumption DEF Decisions
    <2>3. CASE n <= j
      BY Zenon, <2>1, <2>3 DEF In
    <2>4. CASE j = n - 1
      <3>1. n # 1 /\ n <= n
        BY SMT, <2>2, <2>4
      <3>2. X = Status[n]
        BY Zenon, <1>1, <2>1, <2>4, <3>1
      <3> QED
        BY Zenon, <3>1, <3>2, InSelf
    <2>5. n <= j \/ j = n - 1
      BY SMT, <2>1, <2>2
    <2> QED
      BY Zenon, <2>3, <2>4, <2>5
  <1> QED
    BY Zenon, <1>1 DEF Cur

\* The decisions up to Base are done with.
Base == IF mark = 0 THEN acked ELSE mark - 1
Alone == \A a, b \in Actors : at[a].pc # "idle" /\ at[b].pc # "idle" => a = b
\* A process is at the decision after the ones that are acknowledged, and the
\* replay beyond the mark.
LineProc(p) ==
  /\ at[p].pc # "idle" => at[p].n = acked + 1
  /\ at[p].pc = "quarantine" => mark = 0
  /\ at[p].pc = "close" => mark # 0
LineReplay ==
  /\ First => mark <= R.n /\ acked <= R.to
  /\ R.pc = "notify" => mark = 0 /\ acked <= R.to
  /\ R.catchUp => mark = 0 /\ (acked < R.n \/ (R.pc = "ack" /\ acked <= R.n))
\* What it has done to the index.
IndexProc(p) ==
  /\ at[p].pc = "delete" /\ mark = 0 => Halfway(index, at[p].n, head)
  /\ at[p].pc = "ack" /\ mark = 0 => Cur(index, at[p].n, head) /\ Listed(index, at[p].n)
IndexReplay ==
  /\ R.pc \in {"apply", "effects", "index", "delete"} => Cur(index, R.n - 1, head)
  /\ R.pc = "delete" => Halfway(index, R.n, head)
  /\ R.pc \in {"ack", "release", "notify"} => Cur(index, R.n, head) /\ Listed(index, R.n)
HeadListed == mark = 0 /\ acked = head /\ head > 0 => Listed(index, head)
Followed ==
  /\ Alone /\ LineReplay /\ IndexReplay /\ \A p \in Procs : LineProc(p) /\ IndexProc(p)
  /\ Cur(index, Base, head) /\ HeadListed
IndexInv == index # Raced => Followed

LEMMA OthersIdle ==
    ASSUME Followed, NEW a \in Actors, at[a].pc # "idle"
    PROVE  \A b \in Actors : b # a => at[b].pc = "idle"
  BY Zenon DEF Followed, Alone

LEMMA IdleAfter ==
    ASSUME Sound', NEW a \in Actors, at'[a].pc = "idle"
    PROVE  at'[a] = Idle /\ ~at'[a].catchUp
  <1>1. HandOK(a)'
    BY Zenon DEF Sound, Bounds
  <1> QED
    BY Zenon, <1>1, IdleFacts DEF HandOK

\* What remains to be seen when the replay, or every process, is idle.
LEMMA ProcFollows ==
    ASSUME Sound', NEW p \in Procs, \A b \in Actors : b # p => at'[b].pc = "idle",
           LineProc(p)', IndexProc(p)', Cur(index', Base', head'), HeadListed'
    PROVE  Followed'
  <1>1. Replayer \in Actors /\ p \in Actors /\ p # Replayer /\ \A q \in Procs : q \in Actors
    BY Zenon, ProcFacts
  <1>2. Alone'
    BY Zenon DEF Alone
  <1>3. LineReplay' /\ IndexReplay'
    <2>1. at'[Replayer].pc = "idle" /\ ~at'[Replayer].catchUp
      BY Zenon, <1>1, IdleAfter
    <2> QED
      BY Zenon, <2>1 DEF LineReplay, IndexReplay, First, R
  <1>4. \A q \in Procs : q # p => LineProc(q)' /\ IndexProc(q)'
    <2> SUFFICES ASSUME NEW q \in Procs, q # p PROVE LineProc(q)' /\ IndexProc(q)'
      BY Zenon
    <2>1. at'[q].pc = "idle"
      BY Zenon, <1>1
    <2> QED
      BY Zenon, <2>1 DEF LineProc, IndexProc
  <1> QED
    BY Zenon, <1>2, <1>3, <1>4 DEF Followed

LEMMA ReplayFollows ==
    ASSUME \A p \in Procs : at'[p].pc = "idle",
           LineReplay', IndexReplay', Cur(index', Base', head'), HeadListed'
    PROVE  Followed'
  <1>1. Alone'
    BY Zenon, ProcFacts DEF Alone
  <1>2. \A q \in Procs : LineProc(q)' /\ IndexProc(q)'
    <2> SUFFICES ASSUME NEW q \in Procs PROVE LineProc(q)' /\ IndexProc(q)'
      BY Zenon
    <2>1. at'[q].pc = "idle"
      BY Zenon
    <2> QED
      BY Zenon, <2>1 DEF LineProc, IndexProc
  <1> QED
    BY Zenon, <1>1, <1>2 DEF Followed

LEMMA IdleFollows ==
    ASSUME Sound', \A b \in Actors : at'[b].pc = "idle", Cur(index', Base', head'), HeadListed'
    PROVE  Followed'
  <1>1. at'[Replayer].pc = "idle" /\ ~at'[Replayer].catchUp
    BY Zenon, ProcFacts, IdleAfter
  <1>2. LineReplay' /\ IndexReplay'
    BY Zenon, <1>1 DEF LineReplay, IndexReplay, First, R
  <1> QED
    BY Zenon, <1>2, ProcFacts, ReplayFollows

\* Actors that stop without a write change nothing.
LEMMA StopsFollow ==
    ASSUME Followed, UNCHANGED <<head, acked, mark, index>>,
           \A b \in Actors : at'[b] = at[b] \/ at'[b] = Idle
    PROVE  Followed'
  <1>1. Base' = Base /\ HeadListed' /\ Cur(index', Base', head')
    BY Zenon DEF Followed, Base, HeadListed
  <1>2. Alone'
    BY Zenon, IdleFacts DEF Followed, Alone
  <1>3. ASSUME NEW q \in Procs PROVE LineProc(q)' /\ IndexProc(q)'
    <2>1. CASE at'[q] = at[q]
      BY Zenon, <2>1 DEF Followed, LineProc, IndexProc
    <2>2. CASE at'[q] = Idle
      <3>1. at'[q].pc = "idle"
        BY Zenon, <2>2, IdleFacts
      <3> QED
        BY Zenon, <3>1 DEF LineProc, IndexProc
    <2> QED
      BY Zenon, <2>1, <2>2, ProcFacts
  <1>4. LineReplay' /\ IndexReplay'
    <2>1. CASE at'[Replayer] = at[Replayer]
      BY Zenon, <2>1 DEF Followed, LineReplay, IndexReplay, First, R
    <2>2. CASE at'[Replayer] = Idle
      <3>1. at'[Replayer].pc = "idle" /\ ~at'[Replayer].catchUp
        BY Zenon, <2>2, IdleFacts
      <3> QED
        BY Zenon, <3>1 DEF LineReplay, IndexReplay, First, R
    <2> QED
      BY Zenon, <2>1, <2>2, ProcFacts
  <1> QED
    BY Zenon, <1>1, <1>2, <1>3, <1>4 DEF Followed

LEMMA BaseType ==
    ASSUME Sound
    PROVE  Base \in Nat /\ Base <= acked /\ (mark = 0 => Base = acked) /\ (mark # 0 => Base = mark - 1)
  BY SMT, TypeFacts DEF Base

\* An actor that runs a decision is beyond what is done with.
LEMMA AboveBase ==
    ASSUME Sound, Followed, NEW a \in Actors, at[a].pc \in {"apply", "effects", "index", "delete"}
    PROVE  /\ at[a].n \in Decisions /\ at[a].n \in Nat /\ at[a].n <= head /\ Base < at[a].n /\ Base <= at[a].n
           /\ Base \in Nat /\ (mark = 0 => acked < head)
  <1>1. at[a].pc # "idle" /\ TypeOK /\ HandOK(a) /\ at[a].n \in 0 .. Last /\ head <= Last
    BY Zenon, SoundFacts, ActorFacts, TypeFacts
  <1>2. at[a].n <= head /\ at[a].n >= 1
    BY Zenon, <1>1 DEF HandOK
  <1>3. Base < at[a].n
    <2>1. CASE a # Replayer
      <3>1. at[a].n = acked + 1
        BY Zenon, <1>1, <2>1, ProcFacts DEF Followed, LineProc
      <3> QED
        BY SMT, <3>1, BaseType, TypeFacts
    <2>2. CASE a = Replayer /\ R.catchUp
      <3>1. mark = 0 /\ acked < at[a].n
        BY Zenon, <2>2 DEF Followed, LineReplay, R
      <3> QED
        BY SMT, <3>1, BaseType, TypeFacts
    <2>3. CASE a = Replayer /\ ~R.catchUp
      <3>1. First
        BY Zenon, <2>3 DEF First, R
      <3>2. mark <= at[a].n /\ mark # 0
        BY Zenon, <2>3, <3>1, TypeFacts DEF Followed, LineReplay, R
      <3> QED
        BY SMT, <1>1, <3>2, BaseType, TypeFacts
    <2> QED
      BY Zenon, <2>1, <2>2, <2>3
  <1> QED
    BY SMT, <1>1, <1>2, <1>3, BaseType, TypeFacts DEF Decisions

LEMMA IndexShape ==
    ASSUME Sound, NEW X, NEW S
    PROVE  /\ [index EXCEPT !.shown = X].shown = X /\ [index EXCEPT !.shown = X].keys = index.keys
           /\ [index EXCEPT !.keys = @ \ S].shown = index.shown /\ [index EXCEPT !.keys = @ \ S].keys = index.keys \ S
           /\ [shown |-> X, keys |-> S].shown = X /\ [shown |-> X, keys |-> S].keys = S
  <1>1. index \in IndexType(head)
    BY Zenon, TypeFacts
  <1> QED
    BY SMT, <1>1 DEF IndexType

\* IndexFrom's two writes, by a process or by the replay.
LEMMA IndexWrites ==
    ASSUME Sound, Followed, index # Raced, NEW a \in Actors, Index(a)
    PROVE  /\ index'.shown = Status[at[a].n] /\ index'.keys = index.keys \cup {Status[at[a].n]}
           /\ \A c : Cur(index, c, head) /\ c <= at[a].n => Cur(index', c, head)
           /\ \/ Moved(a, "ack") /\ (Cur(index, at[a].n - 1, head) => Cur(index', at[a].n, head) /\ Listed(index', at[a].n))
              \/ Moved(a, "delete") /\ Halfway(index', at[a].n, head)
  <1> DEFINE n == at[a].n
  <1>1. TypeOK
    BY Zenon, SoundFacts
  <1>2. /\ index' = [shown |-> Status[n], keys |-> index.keys \cup {Status[n]}]
        /\ \/ Moved(a, "ack") /\ (n = 1 \/ Status[n] = Status[n - 1])
           \/ Moved(a, "delete") /\ n # 1 /\ Status[n] # Status[n - 1]
    BY Zenon, <1>1, IndexMoves DEF Shows
  <1>3. n \in Decisions /\ n \in Nat /\ n <= head
    <2>1. at[a].pc \in {"apply", "effects", "index", "delete"}
      BY Zenon, <1>1, IndexMoves
    <2> QED
      BY Zenon, <2>1, AboveBase
  <1>4. index'.shown = Status[n] /\ index'.keys = index.keys \cup {Status[n]}
    BY Zenon, <1>2, IndexShape
  <1>5. n >= 1 /\ n - 1 <= n /\ n <= n /\ (n # 1 => n > 1)
    BY SMT, <1>3 DEF Decisions
  <1> HIDE DEF n
  <1>6. \A c : Cur(index, c, head) /\ c <= n => Cur(index', c, head)
    BY Zenon, <1>3, <1>4, CurShows
  <1>7. In(index'.shown, n, head) /\ Listed(index', n)
    BY Zenon, <1>3, <1>4, <1>5, InSelf DEF Listed
  <1>8. CASE Moved(a, "ack") /\ (n = 1 \/ Status[n] = Status[n - 1])
    <2>1. Cur(index, n - 1, head) => Cur(index', n, head)
      BY Zenon, <1>3, <1>5, <1>6, <1>7, <1>8, CurUp, TypeFacts
    <2> QED
      BY Zenon, <1>4, <1>6, <1>7, <1>8, <2>1 DEF n
  <1>9. CASE Moved(a, "delete") /\ n # 1 /\ Status[n] # Status[n - 1]
    <2>1. Halfway(index', n, head)
      BY Zenon, <1>5, <1>7, <1>9 DEF Halfway
    <2> QED
      BY Zenon, <1>4, <1>6, <1>9, <2>1 DEF n
  <1> QED
    BY Zenon, <1>2, <1>8, <1>9 DEF n

LEMMA DeleteWrites ==
    ASSUME Sound, Followed, index # Raced, NEW a \in Actors, Delete(a)
    PROVE  /\ \A c : Cur(index, c, head) => Cur(index', c, head)
           /\ Cur(index, at[a].n - 1, head) /\ Halfway(index, at[a].n, head)
                => Cur(index', at[a].n, head) /\ Listed(index', at[a].n)
  <1> DEFINE n == at[a].n
  <1>1. TypeOK
    BY Zenon, SoundFacts
  <1>2. index' = [index EXCEPT !.keys = @ \ {Status[n - 1]}]
    BY Zenon DEF Delete, Shows
  <1>3. n \in Decisions /\ n \in Nat /\ n <= head
    <2>1. at[a].pc \in {"apply", "effects", "index", "delete"}
      BY Zenon, <1>1, DeleteMoves
    <2> QED
      BY Zenon, <2>1, AboveBase
  <1>4. index'.shown = index.shown /\ index'.keys = index.keys \ {Status[n - 1]}
    BY Zenon, <1>2, IndexShape
  <1> HIDE DEF n
  <1>5. \A c : Cur(index, c, head) => Cur(index', c, head)
    BY Zenon, <1>4 DEF Cur
  <1>6. ASSUME Cur(index, n - 1, head), Halfway(index, n, head) PROVE Cur(index', n, head) /\ Listed(index', n)
    <2>1. Listed(index', n) /\ In(index'.shown, n, head) /\ Status[n - 1] \notin index'.keys
      BY Zenon, <1>4, <1>6 DEF Halfway, Listed
    <2>2. Cur(index', n - 1, head)
      BY Zenon, <1>5, <1>6
    <2> QED
      BY Zenon, <1>3, <2>1, <2>2, CurUp, TypeFacts
  <1> QED
    BY Zenon, <1>5, <1>6 DEF n

\* What is left of a write that stops before the key.
LEMMA HalfWrites ==
    ASSUME Sound, Followed, NEW a \in Actors, index' \in HalfIndexed(a)
    PROVE  Cur(index', Base, head) /\ index'.keys = index.keys /\ (index' # index => at[a].pc = "index")
  <1>1. CASE index' = index
    BY Zenon, <1>1 DEF Followed
  <1>2. CASE at[a].pc = "index" /\ index' = [index EXCEPT !.shown = Status[at[a].n]]
    <2>1. at[a].n \in Decisions /\ at[a].n <= head /\ Base <= at[a].n
      BY Zenon, <1>2, AboveBase
    <2>2. index'.shown = Status[at[a].n] /\ index'.keys = index.keys
      BY Zenon, <1>2, IndexShape
    <2> QED
      BY Zenon, <1>2, <2>1, <2>2, CurShows DEF Followed
  <1> QED
    BY Zenon, <1>1, <1>2 DEF HalfIndexed, At

\* What runs a decision leaves the rest to the one that runs it.
LEMMA ListedBy ==
    ASSUME Sound, Followed, UNCHANGED <<head, acked, mark>>,
           Cur(index', Base, head), index'.keys = index.keys \/ (mark = 0 => acked < head)
    PROVE  Cur(index', Base', head') /\ HeadListed'
  <1>1. Base' = Base
    BY Zenon DEF Base
  <1>2. HeadListed'
    <2>1. CASE index'.keys = index.keys
      BY Zenon, <2>1 DEF HeadListed, Listed, Followed
    <2>2. CASE mark = 0 => acked < head
      <3>1. mark # 0 \/ acked # head
        BY SMT, <2>2, TypeFacts
      <3> QED
        BY Zenon, <3>1 DEF HeadListed
    <2> QED
      BY Zenon, <2>1, <2>2
  <1> QED
    BY Zenon, <1>1, <1>2

\* ApplyDecision, and a call of it that fails: the index stays current.
LEMMA DecidesIndex ==
    ASSUME Sound, Followed, index # Raced, NEW a \in Actors, ApplyDecision(a) \/ Upset(a)
    PROVE  /\ UNCHANGED <<head, acked, mark>> /\ Cur(index', Base', head') /\ HeadListed'
           /\ \/ Moved(a, "failed")
              \/ index' = index /\ (Moved(a, "index") \/ Moved(a, "effects"))
              \/ /\ Moved(a, "delete") /\ Halfway(index', at[a].n, head)
                 /\ Cur(index, at[a].n - 1, head) => Cur(index', at[a].n - 1, head)
              \/ /\ Moved(a, "ack")
                 /\ /\ Cur(index, at[a].n - 1, head)
                    /\ at[a].pc = "delete" => Halfway(index, at[a].n, head)
                    => Cur(index', at[a].n, head) /\ Listed(index', at[a].n)
  <1>1. TypeOK /\ UNCHANGED <<head, acked, mark>> /\ at[a].pc \in {"apply", "effects", "index", "delete"}
    BY Zenon, SoundFacts, DecidesMoves
  <1>2. (mark = 0 => acked < head) /\ Base <= at[a].n /\ at[a].n \in Nat /\ Cur(index, Base, head)
    BY Zenon, <1>1, AboveBase DEF Followed
  <1>3. CASE Apply(a) \/ Effects(a)
    <2>1. index' = index /\ (Moved(a, "failed") \/ Moved(a, "index") \/ Moved(a, "effects"))
      BY Zenon, <1>1, <1>3, ApplyMoves, EffectsMoves
    <2> QED
      BY Zenon, <1>1, <1>2, <2>1, ListedBy
  <1>4. CASE Upset(a)
    <2>1. Moved(a, "failed") /\ index' \in HalfIndexed(a)
      BY Zenon, <1>1, <1>4, UpsetMoves DEF Upset
    <2>2. Cur(index', Base, head)
      BY Zenon, <2>1, HalfWrites
    <2> QED
      BY Zenon, <1>1, <1>2, <2>1, <2>2, ListedBy
  <1>5. CASE Index(a)
    <2>1. Cur(index', Base, head)
      BY Zenon, <1>2, <1>5, IndexWrites
    <2>2. at[a].n - 1 <= at[a].n
      BY SMT, <1>2
    <2> QED
      BY Zenon, <1>1, <1>2, <1>5, <2>1, <2>2, IndexWrites, ListedBy
  <1>6. CASE Delete(a)
    <2>1. Moved(a, "ack") /\ at[a].pc = "delete" /\ Cur(index', Base, head)
      BY Zenon, <1>1, <1>2, <1>6, DeleteMoves, DeleteWrites
    <2> QED
      BY Zenon, <1>1, <1>2, <1>6, <2>1, DeleteWrites, ListedBy
  <1> QED
    BY Zenon, <1>3, <1>4, <1>5, <1>6 DEF ApplyDecision

\* The steps of process p, at work alone.
LEMMA ProcDecides ==
    ASSUME Sound, Sound', Followed, index # Raced, NEW p \in Procs, ApplyDecision(p) \/ Upset(p)
    PROVE  Followed'
  <1>1. p \in Actors /\ at[p].pc # "idle" /\ UNCHANGED <<head, acked, mark>>
    BY Zenon, ProcFacts, DecidesMoves
  <1>2. Cur(index', Base', head') /\ HeadListed' /\ at[p].n = acked + 1 /\ Cur(index, Base, head) /\ IndexProc(p)
    BY Zenon, <1>1, DecidesIndex DEF Followed, LineProc
  <1>3. PICK pc \in {"effects", "index", "delete", "ack", "failed"} : Moved(p, pc)
    BY Zenon, <1>1, DecidesMoves
  <1>4. \A b \in Actors : b # p => at'[b].pc = "idle"
    BY Zenon, <1>1, <1>3, OthersIdle DEF Moved
  <1>5. LineProc(p)'
    BY Zenon, <1>1, <1>2, <1>3 DEF LineProc, Moved
  <1>6. mark = 0 => Cur(index, at[p].n - 1, head)
    <2>1. mark = 0 => Base = at[p].n - 1
      BY SMT, <1>2, BaseType, TypeFacts
    <2> QED
      BY Zenon, <1>2, <2>1
  <1>7. IndexProc(p)'
    <2>1. CASE Moved(p, "failed") \/ Moved(p, "index") \/ Moved(p, "effects")
      BY Zenon, <2>1 DEF Moved, IndexProc
    <2>2. CASE Moved(p, "delete") /\ Halfway(index', at[p].n, head)
      BY Zenon, <1>1, <2>2 DEF Moved, IndexProc
    <2>3. CASE /\ Moved(p, "ack")
               /\ /\ Cur(index, at[p].n - 1, head)
                  /\ at[p].pc = "delete" => Halfway(index, at[p].n, head)
                  => Cur(index', at[p].n, head) /\ Listed(index', at[p].n)
      <3>1. mark = 0 => Cur(index', at[p].n, head) /\ Listed(index', at[p].n)
        BY Zenon, <1>2, <1>6, <2>3 DEF IndexProc
      <3> QED
        BY Zenon, <1>1, <2>3, <3>1 DEF Moved, IndexProc
    <2> QED
      BY Zenon, <1>1, <2>1, <2>2, <2>3, DecidesIndex
  <1> QED
    BY Zenon, <1>2, <1>4, <1>5, <1>7, ProcFollows

\* It goes on without a write, to where the index does not matter.
LEMMA ProcGoesOn ==
    ASSUME Sound, Sound', Followed, NEW p \in Procs, at[p].pc # "idle", UNCHANGED <<head, acked, mark, index>>,
           \/ Moved(p, "apply") \/ (Moved(p, "quarantine") /\ mark = 0)
           \/ mark # 0 /\ (Moved(p, "close") \/ Moved(p, "ack"))
    PROVE  Followed'
  <1>1. p \in Actors /\ at[p].n = acked + 1 /\ Base' = Base
    BY Zenon, ProcFacts DEF Followed, LineProc, Base
  <1>2. \A b \in Actors : b # p => at'[b].pc = "idle"
    BY Zenon, <1>1, OthersIdle DEF Moved
  <1>3. LineProc(p)' /\ IndexProc(p)'
    BY Zenon, <1>1 DEF LineProc, IndexProc, Moved
  <1>4. Cur(index', Base', head') /\ HeadListed'
    BY Zenon, <1>1 DEF Followed, HeadListed
  <1> QED
    BY Zenon, <1>2, <1>3, <1>4, ProcFollows

LEMMA DeliverFollows ==
    ASSUME Sound, Sound', Followed, index # Raced, index' # Raced, NEW p \in Procs, Deliver(p)
    PROVE  Followed'
  <1>1. TypeOK /\ p \in Actors
    BY Zenon, SoundFacts, ProcFacts
  <1>2. /\ UNCHANGED <<head, acked, mark>> /\ at'[p].pc = "skip" /\ at'[p].n = acked + 1
        /\ \A b \in Actors : b # p => at'[b] = at[b]
    BY Zenon, <1>1, DeliverMoves
  <1>3. Quiet /\ index' = index
    BY Zenon, <1>1, DeliverMoves DEF StartsWork
  <1>4. \A b \in Actors : b # p => at'[b].pc = "idle"
    BY Zenon, <1>2, <1>3 DEF Quiet, At
  <1>5. LineProc(p)' /\ IndexProc(p)'
    BY Zenon, <1>2 DEF LineProc, IndexProc
  <1>6. Cur(index', Base', head') /\ HeadListed'
    BY Zenon, <1>2, <1>3 DEF Followed, HeadListed, Base
  <1> QED
    BY Zenon, <1>4, <1>5, <1>6, ProcFollows

LEMMA AckFollows ==
    ASSUME Sound, Sound', Followed, NEW p \in Procs, Ack(p)
    PROVE  Followed'
  <1>1. TypeOK /\ p \in Actors /\ at[p].pc = "ack" /\ at[p].pc # "idle"
    BY Zenon, SoundFacts, ProcFacts DEF Ack, At
  <1>2. Ended(p) /\ UNCHANGED <<head, mark, index>> /\ (acked' = acked \/ acked' = at[p].n)
    BY Zenon, <1>1, EndedEnds DEF Ack, know
  <1>3. \A b \in Actors : at'[b].pc = "idle"
    BY Zenon, <1>1, <1>2, OthersIdle, IdleFacts DEF Ended
  <1>4. CASE acked' = acked
    BY Zenon, <1>2, <1>4, StopsFollow DEF Ended
  <1>5. CASE acked' = at[p].n
    <2>1. CASE mark = 0
      <3>1. Cur(index, at[p].n, head) /\ Listed(index, at[p].n)
        BY Zenon, <1>1, <2>1 DEF Followed, IndexProc
      <3> QED
        BY Zenon, <1>2, <1>3, <1>5, <2>1, <3>1, IdleFollows DEF Base, HeadListed
    <2>2. CASE mark # 0
      BY Zenon, <1>2, <1>3, <2>2, IdleFollows DEF Base, HeadListed, Followed
    <2> QED
      BY Zenon, <2>1, <2>2
  <1> QED
    BY Zenon, <1>2, <1>4, <1>5

\* The mark is written where there is none, at the first decision that is not
\* done with.
LEMMA QuarantineFollows ==
    ASSUME Sound, Sound', Followed, NEW p \in Procs, Quarantine(p) \/ QuarantineFails(p)
    PROVE  Followed'
  <1>1. TypeOK /\ p \in Actors
    BY Zenon, SoundFacts, ProcFacts
  <1>2. /\ at[p].pc = "quarantine" /\ UNCHANGED <<head, acked, index>> /\ (mark' = mark \/ mark' = at[p].n)
        /\ Ended(p) \/ (Moved(p, "ack") /\ mark' = at[p].n)
    BY Zenon, <1>1, QuarantineMoves, EndedEnds DEF QuarantineFails, At
  <1>3. at[p].n = acked + 1 /\ mark = 0
    BY Zenon, <1>1, <1>2 DEF Followed, LineProc
  <1>4. HandOK(p) /\ at[p].n <= head
    BY Zenon, <1>1, SoundFacts DEF HandOK
  <1>5. acked # head /\ at[p].n # 0 /\ at[p].n - 1 = acked
    BY SMT, <1>3, <1>4, TypeFacts
  <1>6. Base' = Base /\ Cur(index', Base', head') /\ HeadListed'
    <2>1. Base' = Base
      BY Zenon, <1>2, <1>3, <1>5 DEF Base
    <2> QED
      BY Zenon, <1>2, <1>5, <2>1 DEF Followed, HeadListed
  <1>7. \A b \in Actors : b # p => at'[b].pc = "idle"
    BY Zenon, <1>1, <1>2, OthersIdle DEF Moved, Ended
  <1>8. CASE Ended(p)
    BY Zenon, <1>6, <1>7, <1>8, IdleFollows, IdleFacts DEF Ended
  <1>9. CASE Moved(p, "ack") /\ mark' = at[p].n
    <2>1. LineProc(p)' /\ IndexProc(p)'
      BY Zenon, <1>2, <1>3, <1>5, <1>9 DEF LineProc, IndexProc, Moved
    <2> QED
      BY Zenon, <1>6, <1>7, <2>1, ProcFollows
  <1> QED
    BY Zenon, <1>2, <1>8, <1>9

\* SetTerminal.
LEMMA CloseFollows ==
    ASSUME Sound, Sound', Followed, index # Raced, NEW p \in Procs, Close(p) \/ CloseFails(p)
    PROVE  Followed'
  <1>1. TypeOK /\ p \in Actors
    BY Zenon, SoundFacts, ProcFacts
  <1>2. /\ at[p].pc = "close" /\ UNCHANGED <<head, acked, mark>>
        /\ \/ Ended(p) /\ index' = index
           \/ /\ Moved(p, "ack")
              /\ index' = [shown |-> IF index.shown = "none" THEN "none" ELSE Status[Last], keys |-> {Status[Last]}]
    BY Zenon, <1>1, CloseMoves DEF Shows
  <1>3. CASE Ended(p) /\ index' = index
    BY Zenon, <1>2, <1>3, StopsFollow DEF Ended
  <1>4. CASE /\ Moved(p, "ack")
             /\ index' = [shown |-> IF index.shown = "none" THEN "none" ELSE Status[Last], keys |-> {Status[Last]}]
    <2>1. at[p].n = acked + 1 /\ mark # 0 /\ at[p].n = Last /\ at[p].n <= head
      BY Zenon, <1>1, <1>2, SoundFacts DEF Followed, LineProc, HandOK
    <2>2. Last \in Decisions /\ Last <= head /\ Base <= Last /\ acked # head
      BY SMT, <2>1, TypeFacts, BaseType, DispatchAssumption DEF Decisions
    <2>3. (index'.shown = Status[Last] \/ index'.shown = index.shown) /\ index'.keys = {Status[Last]}
      BY Zenon, <1>4, IndexShape
    <2>4. Cur(index', Base', head') /\ HeadListed'
      <3>1. Cur(index', Base, head)
        BY Zenon, <2>2, <2>3, CurShows DEF Followed
      <3> QED
        BY Zenon, <1>2, <2>1, <3>1 DEF HeadListed, Base
    <2>5. \A b \in Actors : b # p => at'[b].pc = "idle"
      BY Zenon, <1>1, <1>2, <1>4, OthersIdle DEF Moved
    <2>6. LineProc(p)' /\ IndexProc(p)'
      BY Zenon, <1>2, <1>4, <2>1 DEF LineProc, IndexProc, Moved
    <2> QED
      BY Zenon, <2>4, <2>5, <2>6, ProcFollows
  <1> QED
    BY Zenon, <1>2, <1>3, <1>4

\* The steps of the replay, at work alone.
LEMMA ReplayDecides ==
    ASSUME Sound, Sound', Followed, index # Raced, ApplyDecision(Replayer) \/ Upset(Replayer)
    PROVE  Followed'
  <1>1. /\ Replayer \in Actors /\ R.pc # "idle" /\ R.pc # "ack" /\ UNCHANGED <<head, acked, mark>>
        /\ R.pc \in {"apply", "effects", "index", "delete"}
    <2>1. Replayer \in Actors
      BY Zenon, ProcFacts
    <2>2. R.pc \in {"apply", "effects", "index", "delete"} /\ UNCHANGED <<head, acked, mark>>
      BY Zenon, <2>1, DecidesMoves DEF R
    <2> QED
      BY Zenon, <2>1, <2>2
  <1>2. Cur(index', Base', head') /\ HeadListed' /\ LineReplay /\ IndexReplay
    BY Zenon, <1>1, DecidesIndex DEF Followed
  <1>3. PICK pc \in {"effects", "index", "delete", "ack", "failed"} : Moved(Replayer, pc)
    BY Zenon, <1>1, DecidesMoves
  <1>4. \A p \in Procs : at'[p].pc = "idle"
    <2>1. \A b \in Actors : b # Replayer => at[b].pc = "idle"
      BY Zenon, <1>1, OthersIdle DEF R
    <2>2. \A b \in Actors : b # Replayer => at'[b] = at[b]
      BY Zenon, <1>3 DEF Moved
    <2> QED
      BY Zenon, <2>1, <2>2, ProcFacts
  <1>5. LineReplay'
    <2>1. First' => First
      BY Zenon, <1>1, <1>3 DEF First, Moved, R
    <2> QED
      BY Zenon, <1>1, <1>2, <1>3, <2>1 DEF LineReplay, Moved, R
  <1>6. Cur(index, R.n - 1, head) /\ (R.pc = "delete" => Halfway(index, R.n, head))
    BY Zenon, <1>1, <1>2 DEF IndexReplay
  <1>7. IndexReplay'
    <2>1. CASE Moved(Replayer, "failed")
      BY Zenon, <2>1 DEF Moved, IndexReplay, R
    <2>2. CASE index' = index /\ (Moved(Replayer, "index") \/ Moved(Replayer, "effects"))
      BY Zenon, <1>1, <1>6, <2>2 DEF Moved, IndexReplay, R
    <2>3. CASE Moved(Replayer, "delete") /\ Halfway(index', R.n, head) /\ Cur(index', R.n - 1, head)
      BY Zenon, <1>1, <2>3 DEF Moved, IndexReplay, R
    <2>4. CASE Moved(Replayer, "ack") /\ Cur(index', R.n, head) /\ Listed(index', R.n)
      BY Zenon, <1>1, <2>4 DEF Moved, IndexReplay, R
    <2> QED
      BY Zenon, <1>1, <1>6, <2>1, <2>2, <2>3, <2>4, DecidesIndex DEF R
  <1> QED
    BY Zenon, <1>2, <1>4, <1>5, <1>7, ReplayFollows

LEMMA ReplayStartFollows ==
    ASSUME Sound, Sound', Followed, index # Raced, index' # Raced, Replay
    PROVE  Followed'
  <1>1. UNCHANGED <<head, acked, mark>>
    BY Zenon, ReplayMoves
  <1>2. CASE UNCHANGED <<at, index>>
    BY Zenon, <1>1, <1>2, StopsFollow
  <1>3. CASE /\ mark # 0 /\ StartsWork /\ \A b \in Actors : b # Replayer => at'[b] = at[b]
             /\ at'[Replayer].pc = "apply" /\ at'[Replayer].n = mark /\ at'[Replayer].to = head
             /\ ~at'[Replayer].catchUp
    <2>1. Quiet /\ index' = index
      BY Zenon, <1>3 DEF StartsWork
    <2>2. \A p \in Procs : at'[p].pc = "idle"
      BY Zenon, <1>3, <2>1, ProcFacts DEF Quiet, At
    <2>3. Cur(index', Base', head') /\ HeadListed' /\ Cur(index', mark - 1, head')
      BY Zenon, <1>1, <1>3, <2>1 DEF Followed, HeadListed, Base
    <2>4. LineReplay'
      <3>1. mark <= mark /\ acked <= head
        BY SMT, TypeFacts
      <3> QED
        BY Zenon, <1>1, <1>3, <3>1 DEF LineReplay, First, R
    <2>5. IndexReplay'
      BY Zenon, <1>1, <1>3, <2>3 DEF IndexReplay, R
    <2> QED
      BY Zenon, <2>2, <2>3, <2>4, <2>5, ReplayFollows
  <1> QED
    BY Zenon, <1>2, <1>3, ReplayMoves

LEMMA OnwardFollows ==
    ASSUME Sound, Sound', Followed, Onward
    PROVE  Followed'
  <1>1. /\ TypeOK /\ Replayer \in Actors /\ R.pc = "ack" /\ R.pc # "idle" /\ UNCHANGED <<head, acked, mark, index>>
        /\ LineReplay /\ R.n \in Nat
    <2>1. R.n \in 0 .. Last
      BY Zenon, ActorFacts, SoundFacts, ProcFacts DEF R
    <2>2. R.n \in Nat
      BY SMT, <2>1, TypeFacts
    <2> QED
      BY Zenon, <2>2, SoundFacts, ProcFacts, OnwardMoves DEF Followed
  <1>2. Cur(index, R.n, head) /\ Listed(index, R.n)
    BY Zenon, <1>1 DEF Followed, IndexReplay
  <1>3. Cur(index', Base', head') /\ HeadListed'
    BY Zenon, <1>1 DEF Followed, Base, HeadListed
  <1>4. (\A b \in Actors : b # Replayer => at'[b] = at[b]) => \A p \in Procs : at'[p].pc = "idle"
    BY Zenon, <1>1, OthersIdle, ProcFacts DEF R
  <1>5. CASE Ended(Replayer)
    BY Zenon, <1>1, <1>5, StopsFollow DEF Ended
  <1>6. CASE ~R.catchUp /\ Moved(Replayer, "release")
    <2>1. LineReplay' /\ IndexReplay'
      BY Zenon, <1>1, <1>2, <1>6 DEF LineReplay, IndexReplay, First, Moved, R
    <2> QED
      BY Zenon, <1>3, <1>4, <1>6, <2>1, ReplayFollows DEF Moved
  <1>7. CASE /\ \A b \in Actors : b # Replayer => at'[b] = at[b]
             /\ at'[Replayer].pc = "apply" /\ at'[Replayer].n = R.n + 1 /\ at'[Replayer].to = R.to
             /\ at'[Replayer].catchUp = R.catchUp
    <2>1. (mark <= R.n => mark <= R.n + 1) /\ (acked < R.n \/ acked <= R.n => acked < R.n + 1) /\ (R.n + 1) - 1 = R.n
      BY SMT, <1>1, TypeFacts
    <2>2. LineReplay'
      BY Zenon, <1>1, <1>7, <2>1 DEF LineReplay, First, R
    <2>3. IndexReplay'
      BY Zenon, <1>1, <1>2, <1>7, <2>1 DEF IndexReplay, R
    <2> QED
      BY Zenon, <1>3, <1>4, <1>7, <2>2, <2>3, ReplayFollows
  <1> QED
    BY Zenon, <1>1, <1>5, <1>6, <1>7, OnwardMoves

\* The mark is lifted once the replay has caught up with what was acknowledged
\* when it began.
LEMMA ReleaseFollows ==
    ASSUME Sound, Sound', Followed, Release
    PROVE  Followed'
  <1>1. /\ TypeOK /\ Replayer \in Actors /\ R.pc = "release" /\ R.pc # "idle" /\ UNCHANGED <<head, acked, index>>
        /\ mark' = 0 /\ Moved(Replayer, "notify") /\ HandOK(Replayer)
    BY Zenon, SoundFacts, ProcFacts, ReleaseMoves
  <1>2. ~R.catchUp /\ R.n = R.to /\ R.to <= head
    BY Zenon, <1>1 DEF HandOK, R
  <1>3. acked <= R.to /\ Cur(index, R.n, head) /\ Listed(index, R.n)
    BY Zenon, <1>1, <1>2 DEF Followed, LineReplay, IndexReplay, First
  <1>4. R.n \in Nat
    <2>1. R.n \in 0 .. Last
      BY Zenon, <1>1, ActorFacts DEF R
    <2> QED
      BY SMT, <2>1, TypeFacts
  <1>5. acked <= R.n /\ (acked = head => R.n = head) /\ head <= head
    BY SMT, <1>2, <1>3, <1>4, TypeFacts
  <1>6. Cur(index', Base', head') /\ HeadListed'
    <2>1. Cur(index, acked, head)
      BY Zenon, <1>3, <1>4, <1>5, CurMoves, TypeFacts
    <2> QED
      BY Zenon, <1>1, <1>3, <1>5, <2>1 DEF Base, HeadListed
  <1>7. LineReplay' /\ IndexReplay'
    BY Zenon, <1>1, <1>2, <1>3 DEF LineReplay, IndexReplay, First, Moved, R
  <1>8. \A p \in Procs : at'[p].pc = "idle"
    <2>1. \A b \in Actors : b # Replayer => at[b].pc = "idle"
      BY Zenon, <1>1, OthersIdle DEF R
    <2>2. \A b \in Actors : b # Replayer => at'[b] = at[b]
      BY Zenon, <1>1 DEF Moved
    <2> QED
      BY Zenon, <2>1, <2>2, ProcFacts
  <1> QED
    BY Zenon, <1>6, <1>7, <1>8, ReplayFollows

LEMMA CatchUpFollows ==
    ASSUME Sound, Sound', Followed, CatchUp
    PROVE  Followed'
  <1>1. /\ TypeOK /\ Replayer \in Actors /\ R.pc = "notify" /\ R.pc # "idle" /\ UNCHANGED <<head, acked, mark, index>>
        /\ HandOK(Replayer) /\ \A b \in Actors : b # Replayer => at'[b] = at[b]
    BY Zenon, SoundFacts, ProcFacts, CatchUpMoves
  <1>2. R.n = R.to /\ R.to <= head
    BY Zenon, <1>1 DEF HandOK, R
  <1>3. mark = 0 /\ acked <= R.to /\ Cur(index, R.n, head) /\ Listed(index, R.n)
    BY Zenon, <1>1, <1>2 DEF Followed, LineReplay, IndexReplay
  <1>4. R.to \in Nat
    <2>1. R.to \in 0 .. Last
      BY Zenon, <1>1, ActorFacts DEF R
    <2> QED
      BY SMT, <2>1, TypeFacts
  <1>5. (R.to + 1 > head => head = R.to) /\ (R.to + 1) - 1 = R.to /\ acked < R.to + 1
    BY SMT, <1>2, <1>3, <1>4, TypeFacts
  <1>6. Cur(index', Base', head') /\ HeadListed'
    BY Zenon, <1>1 DEF Followed, Base, HeadListed
  <1>7. \A p \in Procs : at'[p].pc = "idle"
    BY Zenon, <1>1, OthersIdle, ProcFacts DEF R
  <1>8. CASE R.to + 1 > head /\ at'[Replayer].pc = "ack" /\ at'[Replayer].n = head /\ at'[Replayer].catchUp
    <2>1. at'[Replayer].n = R.n /\ acked <= R.n
      BY Zenon, <1>2, <1>3, <1>5, <1>8
    <2>2. LineReplay' /\ IndexReplay'
      BY Zenon, <1>1, <1>3, <1>8, <2>1 DEF LineReplay, IndexReplay, First, R
    <2> QED
      BY Zenon, <1>6, <1>7, <2>2, ReplayFollows
  <1>9. CASE at'[Replayer].pc = "apply" /\ at'[Replayer].n = R.to + 1 /\ at'[Replayer].catchUp
    <2>1. LineReplay'
      BY Zenon, <1>1, <1>3, <1>5, <1>9 DEF LineReplay, First, R
    <2>2. IndexReplay'
      BY Zenon, <1>1, <1>2, <1>3, <1>5, <1>9 DEF IndexReplay, R
    <2> QED
      BY Zenon, <1>6, <1>7, <2>1, <2>2, ReplayFollows
  <1> QED
    BY Zenon, <1>8, <1>9, CatchUpMoves

LEMMA AppendFollows ==
    ASSUME Sound, Followed, Append
    PROVE  Followed'
  <1>1. UNCHANGED <<at, acked, mark, index>> /\ head' = head + 1
    BY Zenon, SoundFacts, StillMoves DEF Append
  <1>2. head' \in Nat /\ head <= head' /\ acked # head' /\ head \in Nat
    BY SMT, <1>1, TypeFacts
  <1>3. \A c \in Nat : c <= c
    BY SMT
  <1>4. \A c \in Nat : Cur(index, c, head) => Cur(index, c, head')
    BY Zenon, <1>2, <1>3, CurMoves
  <1>5. \A c \in Nat : Halfway(index, c, head) => Halfway(index, c, head')
    BY Zenon, <1>2, <1>3, InMoves DEF Halfway
  <1>6. Cur(index', Base', head') /\ HeadListed'
    BY Zenon, <1>1, <1>2, <1>4, BaseType DEF Followed, Base, HeadListed
  <1>7. Alone' /\ LineReplay' /\ \A p \in Procs : LineProc(p)'
    BY Zenon, <1>1 DEF Followed, Alone, LineReplay, LineProc, First, R
  <1>8. ASSUME NEW p \in Procs PROVE IndexProc(p)'
    <2>1. at[p].n \in 0 .. Last /\ IndexProc(p)
      BY Zenon, ActorFacts, SoundFacts, ProcFacts DEF Followed
    <2>2. at[p].n \in Nat
      BY SMT, <2>1, TypeFacts
    <2> QED
      BY Zenon, <1>1, <1>4, <1>5, <2>1, <2>2 DEF IndexProc
  <1>9. IndexReplay'
    <2>1. R.pc # "idle" => R.n \in Nat /\ R.n - 1 \in Nat
      BY SMT, ReplayerFacts
    <2>2. "apply" # "idle" /\ "effects" # "idle" /\ "index" # "idle" /\ "delete" # "idle"
          /\ "ack" # "idle" /\ "release" # "idle" /\ "notify" # "idle"
      BY Zenon
    <2>3. IndexReplay /\ R' = R
      BY Zenon, <1>1 DEF Followed, R
    <2> QED
      BY Zenon, <1>1, <1>4, <1>5, <2>1, <2>2, <2>3 DEF IndexReplay
  <1> QED
    BY Zenon, <1>6, <1>7, <1>8, <1>9 DEF Followed

LEMMA CrashFollows ==
    ASSUME Sound, Sound', Followed, NEW p \in Procs, Crash(p)
    PROVE  Followed'
  <1>1. /\ UNCHANGED <<head, acked, mark>>
        /\ \A a \in Actors : at'[a] = at[a] \/ at'[a] = Idle
    BY Zenon, CrashMoves
  <1>2. PICK a \in Actors : Process(a) = p /\ index' \in HalfIndexed(a)
    BY Zenon DEF Crash
  <1>3. Cur(index', Base, head) /\ index'.keys = index.keys /\ (index' # index => at[a].pc = "index")
    BY Zenon, <1>2, HalfWrites
  <1>4. CASE index' = index
    BY Zenon, <1>1, <1>4, StopsFollow
  <1>5. CASE at[a].pc = "index"
    <2>1. at'[a] = Idle
      BY Zenon, <1>2 DEF Crash
    <2>2. \A b \in Actors : at'[b].pc = "idle"
      BY Zenon, <1>1, <1>2, <1>5, <2>1, OthersIdle, IdleFacts
    <2> QED
      BY Zenon, <1>1, <1>3, <2>2, ListedBy, IdleFollows
  <1> QED
    BY Zenon, <1>3, <1>4, <1>5

\* What is not followed any more stays so.
LEMMA RacedStays ==
    ASSUME Sound, [Next]_vars, index = Raced
    PROVE  index' = Raced
  <1>1. TypeOK
    BY Zenon, SoundFacts
  <1>2. \A a : HalfIndexed(a) = {Raced}
    BY Zenon DEF HalfIndexed
  <1>3. CASE UNCHANGED vars \/ Append \/ Fix \/ Ask \/ \E p \in Procs, kind \in {"quarantine", "release"} : Notice(p, kind)
    BY Zenon, <1>1, <1>3, StillMoves DEF vars
  <1>4. CASE \E a \in Actors : ApplyDecision(a)
    BY Zenon, <1>4 DEF ApplyDecision, Apply, Effects, Index, Writes, Delete, Shows
  <1>5. CASE (\E a \in Actors : Upset(a)) \/ \E p \in Procs : Crash(p)
    <2>1. CASE \E a \in Actors : Upset(a)
      BY Zenon, <1>2, <2>1 DEF Upset
    <2>2. ASSUME NEW p \in Procs, Crash(p) PROVE index' = Raced
      <3>1. index' \in UNION {HalfIndexed(a) : a \in {b \in Actors : Process(b) = p}}
        BY Zenon, <2>2 DEF Crash
      <3> QED
        BY Zenon, <1>2, <3>1
    <2> QED
      BY Zenon, <1>5, <2>1, <2>2
  <1>6. CASE Replay \/ Onward \/ Release \/ CatchUp \/ ReplayFailed \/ ReleaseFails \/ CommandAgain
    BY Zenon, <1>6 DEF Replay, StartsWork, Onward, Release, CatchUp, ReplayFailed, ReleaseFails, CommandAgain
  <1>7. CASE \E p \in Procs : Skip(p) \/ Ack(p) \/ Confirm(p) \/ Quarantine(p) \/ Close(p) \/ Deliver(p)
                              \/ SkipFails(p) \/ QuarantineFails(p) \/ CloseFails(p)
    BY Zenon, <1>7 DEF Skip, Ack, Confirm, Quarantine, Close, Deliver, SkipFails, QuarantineFails, CloseFails, Shows, StartsWork
  <1> QED
    BY Zenon, <1>3, <1>4, <1>5, <1>6, <1>7, ProcFacts DEF Next, Replays, Handle

LEMMA ProcFollowed ==
    ASSUME Sound, Sound', Followed, index # Raced, index' # Raced, "confirm" \notin Risks, NEW p \in Procs,
           Skip(p) \/ Confirm(p) \/ SkipFails(p)
    PROVE  Followed'
  <1>1. TypeOK /\ p \in Actors /\ "skip" # "idle" /\ "failed" # "idle"
    BY Zenon, SoundFacts, ProcFacts
  <1>2. CASE Skip(p) \/ Confirm(p)
    <2>1. at[p].pc # "idle" /\ UNCHANGED <<head, acked, mark, index>>
      BY Zenon, <1>1, <1>2, SkipMoves, ConfirmMoves
    <2>2. CASE Ended(p)
      BY Zenon, <2>1, <2>2, StopsFollow DEF Ended
    <2>3. \/ Ended(p) \/ Moved(p, "apply") \/ (Moved(p, "quarantine") /\ mark = 0)
          \/ mark # 0 /\ (Moved(p, "close") \/ Moved(p, "ack"))
      BY Zenon, <1>1, <1>2, SkipMoves, ConfirmMoves
    <2> QED
      BY Zenon, <2>1, <2>2, <2>3, ProcGoesOn
  <1>3. CASE SkipFails(p)
    <2>1. Ended(p) /\ UNCHANGED <<head, acked, mark, index>>
      BY Zenon, <1>1, <1>3, EndedEnds DEF SkipFails, know
    <2> QED
      BY Zenon, <2>1, StopsFollow DEF Ended
  <1> QED
    BY Zenon, <1>2, <1>3

LEMMA IndexNext ==
    ASSUME Sound, Sound', IndexInv, "confirm" \notin Risks, [Next]_vars
    PROVE  IndexInv'
  <1> SUFFICES ASSUME index' # Raced PROVE Followed'
    BY Zenon DEF IndexInv
  <1>1. index # Raced /\ Followed /\ TypeOK
    BY Zenon, RacedStays, SoundFacts DEF IndexInv
  <1>2. CASE ApplyDecision(Replayer) \/ Upset(Replayer)
    BY Zenon, <1>1, <1>2, ReplayDecides
  <1>3. CASE \E p \in Procs : ApplyDecision(p) \/ Upset(p)
    BY Zenon, <1>1, <1>3, ProcDecides
  <1>4. CASE Replay \/ Onward \/ Release \/ CatchUp
    BY Zenon, <1>1, <1>4, ReplayStartFollows, OnwardFollows, ReleaseFollows, CatchUpFollows
  <1>5. CASE ReplayFailed \/ ReleaseFails \/ CommandAgain
    BY Zenon, <1>1, <1>5, ReplayEndsMoves, StopsFollow DEF Ended
  <1>6. CASE \E p \in Procs : Skip(p) \/ Confirm(p) \/ SkipFails(p)
    BY Zenon, <1>1, <1>6, ProcFollowed
  <1>7. CASE \E p \in Procs : Ack(p) \/ Quarantine(p) \/ QuarantineFails(p) \/ Close(p) \/ CloseFails(p) \/ Deliver(p) \/ Crash(p)
    BY Zenon, <1>1, <1>7, AckFollows, QuarantineFollows, CloseFollows, DeliverFollows, CrashFollows
  <1>8. CASE Append
    BY Zenon, <1>1, <1>8, AppendFollows
  <1>9. CASE UNCHANGED vars \/ Fix \/ Ask \/ \E p \in Procs, kind \in {"quarantine", "release"} : Notice(p, kind)
    <2>1. UNCHANGED <<at, acked, mark, index>>
      BY Zenon, <1>1, <1>9, StillMoves DEF vars
    <2>2. head' = head
      BY Zenon, <1>9 DEF vars, Fix, Ask, Notice
    <2> QED
      BY Zenon, <1>1, <2>1, <2>2, StopsFollow
  <1> QED
    BY Zenon, <1>2, <1>3, <1>4, <1>5, <1>6, <1>7, <1>8, <1>9, ProcFacts DEF Next, Replays, Handle

LEMMA IndexInit ==
    ASSUME Init
    PROVE  IndexInv
  <1>1. /\ head = 0 /\ acked = 0 /\ mark = 0 /\ index = [shown |-> "none", keys |-> {}]
        /\ \A a \in Actors : at[a].pc = "idle" /\ ~at[a].catchUp
    BY Zenon, IdleFacts DEF Init
  <1>2. index.shown = "none" /\ index.keys = {} /\ ~(head > 0)
    BY SMT, <1>1
  <1>3. Cur(index, Base, head) /\ HeadListed
    BY Zenon, <1>1, <1>2 DEF Cur, Base, HeadListed
  <1>4. Alone /\ LineReplay /\ IndexReplay
    BY Zenon, <1>1, ProcFacts DEF Alone, LineReplay, IndexReplay, First, R
  <1>5. \A p \in Procs : LineProc(p) /\ IndexProc(p)
    BY Zenon, <1>1, ProcFacts DEF LineProc, IndexProc
  <1> QED
    BY Zenon, <1>3, <1>4, <1>5 DEF IndexInv, Followed

LEMMA SettledBy ==
    ASSUME Sound, IndexInv
    PROVE  IndexSettled
  <1> SUFFICES ASSUME index # Raced, acked = head, head > 0, mark = 0
               PROVE  index = [shown |-> Status[head], keys |-> {Status[head]}]
    BY Zenon DEF IndexSettled
  <1>1. Cur(index, head, head) /\ Listed(index, head)
    BY Zenon DEF IndexInv, Followed, Base, HeadListed
  <1>2. \A X : In(X, head, head) => X = Status[head]
    <2>1. \A j \in Decisions : head <= j /\ j <= head => j = head
      BY SMT, TypeFacts DEF Decisions
    <2> QED
      BY Zenon, <2>1 DEF In
  <1>3. head # 0
    BY SMT
  <1>4. index.shown = Status[head] /\ index.keys = {Status[head]}
    BY Zenon, <1>1, <1>2, <1>3 DEF Cur, Listed
  <1>5. index \in IndexType(head)
    BY Zenon, TypeFacts
  <1> QED
    BY SMT, <1>4, <1>5 DEF IndexType

\* When nothing is quarantined and every decision is acknowledged, the summary
\* shows the status of the execution and it is listed under that status alone,
\* whatever crashed, failed half-way, was retried or was replayed before, as long
\* as no two actors were at it at once and the mark can be read when a decision has
\* failed (IndexFrom, SetTerminal, Replay).
THEOREM IndexSettles ==
    ASSUME "confirm" \notin Risks
    PROVE  Spec => []IndexSettled
  <1> DEFINE I == Sound /\ IndexInv
  <1>1. Init => I
    BY Zenon, SoundInit, IndexInit
  <1>2. I /\ [Next]_vars => I'
    BY Zenon, SoundNext, IndexNext
  <1>3. I => IndexSettled
    BY Zenon, SettledBy
  <1> QED
    BY <1>1, <1>2, <1>3, PTL DEF Spec
=============================================================================
