---------------------------- MODULE EngineProofs ----------------------------
(***************************************************************************)
(* What Engine promises, for any number of engines and commands and any    *)
(* schedule of faults, lagging reads and pin moves.                        *)
(*                                                                         *)
(* The inductive invariant says of every append under way, in a handler or *)
(* on the wire, that its decision was taken on the prefix of the log its   *)
(* expected sequence names; and of every cached state that it is such a    *)
(* prefix, or one that has ended and decides nothing any more.             *)
(***************************************************************************)
EXTENDS Engine, SequenceTheorems, TLAPS

LEMMA Grows ==
    ASSUME NEW S, NEW s \in Seq(S), NEW d \in S
    PROVE  /\ Append(s, d) \in Seq(S) /\ Len(Append(s, d)) = Len(s) + 1
           /\ Append(s, d)[Len(s) + 1] = d
           /\ \A i \in 1 .. Len(s) : Append(s, d)[i] = s[i]
  OBVIOUS

LEMMA Prefix ==
    ASSUME NEW S, NEW s \in Seq(S), NEW n \in 0 .. Len(s)
    PROVE  /\ SubSeq(s, 1, n) \in Seq(S) /\ Len(SubSeq(s, 1, n)) = n
           /\ \A i \in 1 .. n : SubSeq(s, 1, n)[i] = s[i]
  <1>1. \A i \in 1 .. n : s[i] \in S
    OBVIOUS
  <1>2. /\ SubSeq(s, 1, n) \in Seq(S) /\ Len(SubSeq(s, 1, n)) = (IF 1 <= n THEN n - 1 + 1 ELSE 0)
        /\ \A i \in 1 .. n - 1 + 1 : SubSeq(s, 1, n)[i] = s[1 + i - 1]
    BY <1>1, SubSeqProperties
  <1> QED
    BY <1>2

LEMMA PrefixOfAppend ==
    ASSUME NEW S, NEW s \in Seq(S), NEW d \in S, NEW n \in 0 .. Len(s)
    PROVE  SubSeq(Append(s, d), 1, n) = SubSeq(s, 1, n)
  <1>1. Append(s, d) \in Seq(S) /\ n \in 0 .. Len(Append(s, d))
    BY Grows
  <1>2. /\ SubSeq(s, 1, n) \in Seq(S) /\ Len(SubSeq(s, 1, n)) = n
        /\ SubSeq(Append(s, d), 1, n) \in Seq(S) /\ Len(SubSeq(Append(s, d), 1, n)) = n
    BY Zenon, <1>1, Prefix
  <1>3. \A i \in 1 .. n : SubSeq(Append(s, d), 1, n)[i] = SubSeq(s, 1, n)[i]
    BY <1>1, Prefix, Grows
  <1> QED
    BY Zenon, <1>2, <1>3, SeqEqual

LEMMA DecisionIsTyped == \A c \in Commands : Decision(c) \in DecisionType /\ Decision(c).cmd = c
  BY Zenon DEF Decision, DecisionType

\* A decision needs a state that has not ended.
LEMMA EventsNeedOpen ==
    ASSUME NEW st, NEW c \in Commands, Outcome(st, c) = "events"
    PROVE  /\ ~(Exists(st) /\ Ended(st))
           /\ c = Start => st = <<>>
           /\ c # Start => Exists(st) /\ Current(st, c)
  BY Zenon DEF Outcome, Exists

----------------------------------------------------------------------------
\* Types.

LEMMA HandlerTyped ==
    ASSUME TypeOK, NEW e \in Engines
    PROVE  /\ \A h \in HandlerType : Goes(e, h) \in [Engines -> HandlerType]
           /\ Idle \in HandlerType
           /\ \A pc \in {"idle", "decide", "abort", "append", "ack", "dead"} :
                Then(e, pc) \in [Engines -> HandlerType]
           /\ Retry(e) \in [Engines -> HandlerType]
  <1>1. \A h \in HandlerType : Goes(e, h) \in [Engines -> HandlerType]
    BY Zenon DEF TypeOK, Goes
  <1>2. Idle \in HandlerType
    BY CommandsAssumption DEF Idle, Handler, HandlerType
  <1>3. \A pc \in {"idle", "decide", "abort", "append", "ack", "dead"} : [at[e] EXCEPT !.pc = pc] \in HandlerType
    BY DEF TypeOK, HandlerType
  <1> QED
    BY Zenon, <1>1, <1>2, <1>3 DEF Then, Retry

LEMMA ReadTyped ==
    ASSUME TypeOK, NEW st \in Readable
    PROVE  st \in Seq(DecisionType) /\ Len(st) \in 0 .. Len(log) /\ st = SubSeq(log, 1, Len(st))
  <1>1. log \in Seq(DecisionType) /\ Len(log) \in Nat
    BY DEF TypeOK
  <1>2. CASE st = log
    BY <1>1, <1>2, SubSeqFull
  <1>3. CASE \E n \in 0 .. Len(log) : st = SubSeq(log, 1, n)
    BY <1>1, <1>3, Prefix
  <1> QED
    BY Zenon, <1>2, <1>3 DEF Readable

LEMMA EntryTyped ==
    ASSUME TypeOK, NEW e \in Engines, NEW ent \in Entries(e)
    PROVE  ent.events \in Seq(DecisionType) /\ ent.lastSeq \in Nat
  <1>1. CASE cache[e] # {}
    BY <1>1 DEF Entries, TypeOK, EntryType
  <1>2. CASE cache[e] = {}
    <2>1. PICK st \in Readable : ent = [events |-> st, lastSeq |-> Len(st)]
      BY Zenon, <1>2 DEF Entries
    <2> QED
      BY <2>1, ReadTyped
  <1> QED
    BY Zenon, <1>1, <1>2

LEMMA CacheTyped ==
    ASSUME TypeOK, NEW e \in Engines
    PROVE  /\ Dropped(e) \in [Engines -> SUBSET EntryType]
           /\ \A st \in Seq(DecisionType), n \in Nat :
                [cache EXCEPT ![e] = {[events |-> st, lastSeq |-> n]}] \in [Engines -> SUBSET EntryType]
           /\ \A c \in Commands : [cache EXCEPT ![e] = {Moved(x, c) : x \in @}] \in [Engines -> SUBSET EntryType]
  <1>1. ASSUME NEW x \in EntryType, NEW c \in Commands
        PROVE  Moved(x, c) \in EntryType
    <2>1. x.events \in Seq(DecisionType) /\ x.lastSeq \in Nat
      BY Zenon DEF EntryType
    <2>2. Append(x.events, Decision(c)) \in Seq(DecisionType)
      BY Zenon, <2>1, DecisionIsTyped, Grows
    <2> QED
      BY Zenon, <2>1, <2>2 DEF EntryType, Moved
  <1>2. \A st \in Seq(DecisionType), n \in Nat : [events |-> st, lastSeq |-> n] \in EntryType
    BY Zenon DEF EntryType
  <1> QED
    BY <1>1, <1>2 DEF TypeOK, Dropped

LEMMA EngineTypeInit == Init => TypeOK
  BY EngineAssumption, CommandsAssumption DEF Init, TypeOK, Idle, Handler, HandlerType

LEMMA EngineTypeHandle ==
    ASSUME TypeOK, NEW e \in Engines, Handle(e)
    PROVE  TypeOK'
  <1>t. /\ Goes(e, Idle) \in [Engines -> HandlerType] /\ Retry(e) \in [Engines -> HandlerType]
        /\ Then(e, "ack") \in [Engines -> HandlerType] /\ Then(e, "dead") \in [Engines -> HandlerType]
        /\ Dropped(e) \in [Engines -> SUBSET EntryType]
    BY Zenon, HandlerTyped, CacheTyped
  <1>0. at[e].cmd \in Commands /\ at[e].tries \in Nat /\ at[e].expected \in Nat /\ at[e].state \in Seq(DecisionType)
    BY Zenon DEF TypeOK, HandlerType
  <1>h. \A pc \in {"decide", "abort", "append"}, n \in Nat, st \in Seq(DecisionType), seq \in Nat :
          Goes(e, Handler(pc, at[e].cmd, n, st, seq)) \in [Engines -> HandlerType]
    <2>1. \A pc \in {"decide", "abort", "append"}, n \in Nat, st \in Seq(DecisionType), seq \in Nat :
            Handler(pc, at[e].cmd, n, st, seq) \in HandlerType
      BY Zenon, <1>0 DEF Handler, HandlerType
    <2> QED
      BY Zenon, <2>1, HandlerTyped
  <1>1. CASE DecideNothing(e)
    BY Zenon, <1>t, <1>1 DEF DecideNothing, TypeOK
  <1>2. CASE DecideRefused(e)
    BY Zenon, <1>t, <1>2 DEF DecideRefused, TypeOK
  <1>3. CASE DecideNotFound(e)
    BY Zenon, <1>t, <1>3 DEF DecideNotFound, TypeOK
  <1>4. CASE DecideEvents(e)
    <2>1. /\ at' \in [Engines -> HandlerType] /\ cache' \in [Engines -> SUBSET EntryType]
      <3>1. PICK ent \in Entries(e) : /\ at' = Goes(e, Handler("append", at[e].cmd, at[e].tries, ent.events, ent.lastSeq))
                                      /\ cache' = [cache EXCEPT ![e] = {Moved(x, at[e].cmd) : x \in @}]
        BY Zenon, <1>4 DEF DecideEvents
      <3>2. ent.events \in Seq(DecisionType) /\ ent.lastSeq \in Nat
        BY Zenon, EntryTyped
      <3> QED
        BY Zenon, <1>0, <1>h, <3>1, <3>2, CacheTyped
    <2> QED
      BY Zenon, <1>4, <2>1 DEF DecideEvents, TypeOK
  <1>5. CASE DecideTooLarge(e)
    <2>1. /\ at' \in [Engines -> HandlerType] /\ cache' \in [Engines -> SUBSET EntryType]
      <3>1. <<>> \in Seq(DecisionType)
        OBVIOUS
      <3>2. PICK ent \in Entries(e) : at' = Goes(e, Handler("abort", at[e].cmd, at[e].tries, <<>>, ent.lastSeq))
        BY Zenon, <1>5 DEF DecideTooLarge
      <3>3. ent.lastSeq \in Nat /\ cache' = Dropped(e)
        BY Zenon, <1>5, EntryTyped DEF DecideTooLarge
      <3> QED
        BY Zenon, <1>t, <1>0, <1>h, <3>1, <3>2, <3>3
    <2> QED
      BY Zenon, <1>5, <2>1 DEF DecideTooLarge, TypeOK
  <1>6. CASE AbortTooLarge(e)
    <2>1. /\ at' \in [Engines -> HandlerType] /\ cache' \in [Engines -> SUBSET EntryType]
      <3>1. PICK st \in Readable :
                \/ /\ at' = Then(e, "ack")
                   /\ cache' = [cache EXCEPT ![e] = {[events |-> st, lastSeq |-> at[e].expected]}]
                \/ /\ at' = Goes(e, Handler("append", at[e].cmd, at[e].tries, st, at[e].expected))
                   /\ cache' = cache
                \/ at' = Retry(e) /\ cache' = cache
        BY Zenon, <1>6 DEF AbortTooLarge
      <3>2. st \in Seq(DecisionType) /\ cache \in [Engines -> SUBSET EntryType]
        BY Zenon, ReadTyped DEF TypeOK
      <3>3. Goes(e, Handler("append", at[e].cmd, at[e].tries, st, at[e].expected)) \in [Engines -> HandlerType]
        BY Zenon, <1>0, <1>h, <3>2
      <3>4. [cache EXCEPT ![e] = {[events |-> st, lastSeq |-> at[e].expected]}] \in [Engines -> SUBSET EntryType]
        BY Zenon, <1>0, <3>2, CacheTyped
      <3> QED
        BY Zenon, <1>t, <3>1, <3>2, <3>3, <3>4
    <2> QED
      BY Zenon, <1>6, <2>1 DEF AbortTooLarge, TypeOK
  <1>7. CASE AppendStored(e)
    <2>1. log' \in Seq(DecisionType) /\ Len(log') \in Nat /\ Append(at[e].state, Decision(at[e].cmd)) \in Seq(DecisionType)
      BY <1>0, <1>7, DecisionIsTyped DEF AppendStored, TypeOK
    <2>2. /\ at' \in [Engines -> HandlerType] /\ cache' \in [Engines -> SUBSET EntryType]
      BY Zenon, <1>t, <1>7, <2>1, CacheTyped DEF AppendStored
    <2> QED
      BY Zenon, <1>7, <2>1, <2>2 DEF AppendStored, TypeOK
  <1>8. CASE AppendConflicts(e)
    <2>1. /\ at' \in [Engines -> HandlerType] /\ cache' \in [Engines -> SUBSET EntryType]
      <3>1. <<>> \in Seq(DecisionType) /\ at[e].tries + 1 \in Nat /\ 0 \in Nat
        BY <1>0
      <3> QED
        BY Zenon, <1>t, <1>h, <1>8, <3>1 DEF AppendConflicts
    <2> QED
      BY Zenon, <1>8, <2>1 DEF AppendConflicts, TypeOK
  <1>9. CASE Ack(e)
    BY Zenon, <1>t, <1>0, <1>9 DEF Ack, TypeOK
  <1>10. CASE DeadLetter(e)
    BY Zenon, <1>t, <1>0, <1>10 DEF DeadLetter, TypeOK
  <1> QED
    BY Zenon, <1>1, <1>2, <1>3, <1>4, <1>5, <1>6, <1>7, <1>8, <1>9, <1>10 DEF Handle

LEMMA EngineTypeStep == TypeOK /\ [Next]_vars => TypeOK'
  <1> SUFFICES ASSUME TypeOK, [Next]_vars PROVE TypeOK'
    BY Zenon
  <1>1. ASSUME NEW c \in Commands, Send(c)
        PROVE  TypeOK'
    BY Zenon, <1>1 DEF Send, TypeOK
  <1>2. ASSUME NEW e \in Engines, NEW c \in Commands, Deliver(e, c) \/ Redeliver(e, c)
        PROVE  TypeOK'
    <2>1. Takes(e, c) /\ faults' \in Nat
      BY <1>2 DEF Deliver, Redeliver, TypeOK
    <2>2. delivered' \in [Commands -> 0 .. (MaxDeliver + Spare)]
      BY <2>1, EngineAssumption DEF Takes, Deliverable, TypeOK
    <2>3. at' \in [Engines -> HandlerType]
      <3>1. Handler("decide", c, 0, <<>>, 0) \in HandlerType
        BY DEF Handler, HandlerType
      <3> QED
        BY Zenon, <2>1, <3>1 DEF Takes, TypeOK
    <2> QED
      BY Zenon, <2>1, <2>2, <2>3 DEF Takes, TypeOK
  <1>3. ASSUME NEW e \in Engines, Handle(e)
        PROVE  TypeOK'
    BY Zenon, <1>3, EngineTypeHandle
  <1>4. ASSUME NEW e \in Engines, Fault(e)
        PROVE  TypeOK'
    <2>t. /\ Goes(e, Idle) \in [Engines -> HandlerType] /\ Retry(e) \in [Engines -> HandlerType]
          /\ Dropped(e) \in [Engines -> SUBSET EntryType]
      BY Zenon, HandlerTyped, CacheTyped
    <2>1. at[e].pc = "append" => Sent(at[e]) \in AppendType
      BY Zenon, DecisionIsTyped DEF Sent, AppendType, TypeOK, HandlerType
    <2>2. at[e].cmd \in Commands
      BY Zenon DEF TypeOK, HandlerType
    <2>3. CASE LoadFails(e)
      BY <2>t, <2>3 DEF LoadFails, TypeOK
    <2>4. CASE AppendUnknown(e)
      BY <2>t, <2>1, <2>4 DEF AppendUnknown, TypeOK
    <2>5. CASE SettleFails(e)
      BY <2>t, <2>2, <2>5 DEF SettleFails, TypeOK
    <2>6. CASE Crash(e)
      BY <2>t, <2>1, <2>6 DEF Crash, TypeOK
    <2> QED
      BY Zenon, <1>4, <2>3, <2>4, <2>5, <2>6 DEF Fault
  <1>8. ASSUME NEW e \in Engines, Evict(e)
        PROVE  TypeOK'
    BY Zenon, <1>8, CacheTyped DEF Evict, TypeOK
  <1>5. ASSUME NEW a \in wire, Land(a)
        PROVE  TypeOK'
    <2>1. a.decision \in DecisionType
      BY Zenon DEF TypeOK, AppendType
    <2>2. log' \in Seq(DecisionType) /\ wire' \subseteq AppendType
      BY <1>5, <2>1 DEF Land, TypeOK
    <2> QED
      BY Zenon, <1>5, <2>2 DEF Land, TypeOK
  <1>6. CASE PinMoves
    BY Zenon, <1>6 DEF PinMoves, TypeOK
  <1>7. CASE UNCHANGED vars
    BY Zenon, <1>7 DEF vars, TypeOK
  <1> QED
    BY Zenon, <1>1, <1>2, <1>3, <1>4, <1>5, <1>6, <1>7, <1>8 DEF Next

\* Type correctness of the command loop, for any engines, commands and faults.
THEOREM EngineTypeCorrect == Spec => []TypeOK
  BY EngineTypeInit, EngineTypeStep, PTL DEF Spec

----------------------------------------------------------------------------
\* The log only grows by decisions taken on all of it.

EInv == TypeOK /\ Inductive

\* A step on the log: none, or the decision of a command on what is stored.
Recorded ==
    \/ log' = log
    \/ \E c \in Commands : Outcome(log, c) = "events" /\ log' = Append(log, Decision(c))

LEMMA OnLog ==
    ASSUME TypeOK, Recorded
    PROVE  /\ Len(log) \in Nat /\ Len(log') \in Nat /\ Len(log) <= Len(log')
           /\ \A n \in 0 .. Len(log) : n \in 0 .. Len(log') /\ SubSeq(log', 1, n) = SubSeq(log, 1, n)
  <1>1. log \in Seq(DecisionType) /\ Len(log) \in Nat
    BY DEF TypeOK
  <1>2. CASE log' = log
    BY <1>1, <1>2
  <1>3. ASSUME NEW c \in Commands, log' = Append(log, Decision(c))
        PROVE  /\ Len(log') \in Nat /\ Len(log) <= Len(log')
               /\ \A n \in 0 .. Len(log) : n \in 0 .. Len(log') /\ SubSeq(log', 1, n) = SubSeq(log, 1, n)
    <2>1. Decision(c) \in DecisionType
      BY Zenon, DecisionIsTyped
    <2>2. Len(log') = Len(log) + 1
      BY Zenon, <1>1, <1>3, <2>1, Grows
    <2>3. \A n \in 0 .. Len(log) : SubSeq(log', 1, n) = SubSeq(log, 1, n)
      BY Zenon, <1>1, <1>3, <2>1, PrefixOfAppend
    <2> QED
      BY <1>1, <2>2, <2>3
  <1> QED
    BY Zenon, <1>1, <1>2, <1>3 DEF Recorded

\* What fits a log fits the log after any step.
LEMMA OnGrowth ==
    ASSUME TypeOK, Recorded
    PROVE  /\ \A n, c : Fits(log, n, c) => Fits(log', n, c)
           /\ \A st, n : Genuine(log, st, n) => Genuine(log', st, n)
           /\ \A h : HandlerOK(log, h) => HandlerOK(log', h)
           /\ \A ents, h : CacheOK(log, ents, h) => CacheOK(log', ents, h)
  <1>0. \A n \in 0 .. Len(log) : n \in 0 .. Len(log') /\ SubSeq(log', 1, n) = SubSeq(log, 1, n)
    BY Zenon, OnLog
  <1>1. \A n, c : Fits(log, n, c) => Fits(log', n, c)
    BY Zenon, <1>0 DEF Fits
  <1>2. \A st, n : Genuine(log, st, n) => Genuine(log', st, n)
    BY Zenon, <1>0 DEF Genuine
  <1>3. \A h : HandlerOK(log, h) => HandlerOK(log', h)
    <2> SUFFICES ASSUME NEW h, HandlerOK(log, h) PROVE HandlerOK(log', h)
      BY Zenon
    <2>1. h.pc = "append" => Fits(log, h.expected, h.cmd) /\ h.expected \in 0 .. Len(log)
      BY Zenon DEF HandlerOK, Fits
    <2>2. h.pc = "append" => SubSeq(log', 1, h.expected) = SubSeq(log, 1, h.expected)
      BY Zenon, <1>0, <2>1
    <2>3. h.pc \in {"append", "abort"} => Fits(log', h.expected, h.cmd)
      BY Zenon, <1>1 DEF HandlerOK
    <2>4. h.pc = "append" => h.cmd \in Large \/ h.state = SubSeq(log', 1, h.expected)
      <3>1. h.pc = "append" => h.cmd \in Large \/ h.state = SubSeq(log, 1, h.expected)
        BY Zenon DEF HandlerOK
      <3> QED
        BY Zenon, <2>2, <3>1
    <2>5. h.pc = "abort" => h.cmd \in Large
      BY Zenon DEF HandlerOK
    <2> QED
      BY Zenon, <2>3, <2>4, <2>5 DEF HandlerOK
  <1>4. \A ents, h : CacheOK(log, ents, h) => CacheOK(log', ents, h)
    BY Zenon, <1>0, <1>2 DEF CacheOK
  <1> QED
    BY Zenon, <1>1, <1>2, <1>3, <1>4

\* The engines a step leaves alone stay in order.
LEMMA OthersOK ==
    ASSUME EInv, Recorded, NEW e \in Engines, NEW h, NEW ents,
           at' = [at EXCEPT ![e] = h], cache' = [cache EXCEPT ![e] = ents],
           HandlerOK(log', h), CacheOK(log', ents, h)
    PROVE  EnginesOK'
  <1>1. TypeOK /\ EnginesOK
    BY Zenon DEF EInv, Inductive
  <1>2. ASSUME NEW x \in Engines
        PROVE  HandlerOK(log', at'[x]) /\ CacheOK(log', cache'[x], at'[x])
    <2>1. CASE x = e
      <3>1. at'[x] = h /\ cache'[x] = ents
        BY Zenon, <1>1, <2>1 DEF TypeOK
      <3> QED
        BY Zenon, <3>1
    <2>2. CASE x # e
      <3>1. at'[x] = at[x] /\ cache'[x] = cache[x]
        BY Zenon, <1>1, <2>2 DEF TypeOK
      <3>2. HandlerOK(log, at[x]) /\ CacheOK(log, cache[x], at[x])
        BY Zenon, <1>1 DEF EnginesOK
      <3>3. HandlerOK(log', at[x]) /\ CacheOK(log', cache[x], at[x])
        BY Zenon, <1>1, <3>2, OnGrowth
      <3> QED
        BY Zenon, <3>1, <3>3
    <2> QED
      BY Zenon, <2>1, <2>2
  <1> QED
    BY Zenon, <1>2 DEF EnginesOK

LEMMA WireStays ==
    ASSUME EInv, Recorded, wire' \subseteq wire
    PROVE  WireOK'
  <1>1. TypeOK /\ WireOK
    BY Zenon DEF EInv, Inductive
  <1> QED
    BY Zenon, <1>1, OnGrowth DEF WireOK

\* An engine that goes on to something other than an append.
LEMMA Settles ==
    ASSUME EInv, Recorded, NEW e \in Engines, NEW h, at' = Goes(e, h), h.pc \notin {"append", "abort"},
           cache' = Dropped(e) \/ (cache' = cache /\ at[e].pc # "append")
    PROVE  EnginesOK'
  <1>1. TypeOK /\ EnginesOK
    BY Zenon DEF EInv, Inductive
  <1>2. HandlerOK(log', h)
    BY Zenon DEF HandlerOK
  <1>3. at' = [at EXCEPT ![e] = h]
    BY Zenon DEF Goes
  <1>4. CASE cache' = Dropped(e)
    <2>1. CacheOK(log', {}, h)
      BY Zenon DEF CacheOK
    <2>2. cache' = [cache EXCEPT ![e] = {}]
      BY Zenon, <1>4 DEF Dropped
    <2> QED
      BY Zenon, <1>2, <1>3, <2>1, <2>2, OthersOK
  <1>5. CASE cache' = cache /\ at[e].pc # "append"
    <2>1. CacheOK(log', cache[e], at[e])
      BY Zenon, <1>1, OnGrowth DEF EnginesOK
    <2>2. CacheOK(log', cache[e], h)
      BY Zenon, <1>5, <2>1 DEF CacheOK
    <2>3. cache' = [cache EXCEPT ![e] = cache[e]]
      BY Zenon, <1>1, <1>5 DEF TypeOK
    <2> QED
      BY Zenon, <1>2, <1>3, <2>2, <2>3, OthersOK
  <1> QED
    BY Zenon, <1>4, <1>5

\* Where Then and Retry lead.
LEMMA Leads ==
    ASSUME TypeOK, NEW e \in Engines
    PROVE  /\ \E h : Goes(e, Idle) = Goes(e, h) /\ h.pc \notin {"append", "abort"}
           /\ \E h : Then(e, "ack") = Goes(e, h) /\ h.pc \notin {"append", "abort"}
           /\ \E h : Then(e, "dead") = Goes(e, h) /\ h.pc \notin {"append", "abort"}
           /\ \E h : Retry(e) = Goes(e, h) /\ h.pc \notin {"append", "abort"}
  <1>1. Idle.pc = "idle"
    BY Zenon DEF Idle, Handler
  <1>2. ASSUME NEW pc \in {"ack", "dead"}
        PROVE  \E h : Then(e, pc) = Goes(e, h) /\ h.pc \notin {"append", "abort"}
    <2>1. [at[e] EXCEPT !.pc = pc].pc = pc
      BY Zenon DEF TypeOK, HandlerType
    <2>2. Then(e, pc) = Goes(e, [at[e] EXCEPT !.pc = pc])
      BY Zenon DEF Then
    <2> QED
      BY Zenon, <2>1, <2>2
  <1>3. \E h : Goes(e, Idle) = Goes(e, h) /\ h.pc \notin {"append", "abort"}
    BY Zenon, <1>1
  <1> QED
    BY Zenon, <1>2, <1>3 DEF Retry

\* What an engine decides on is genuine.
LEMMA EntryGenuine ==
    ASSUME EInv, NEW e \in Engines, at[e].pc # "append", NEW ent \in Entries(e)
    PROVE  Genuine(log, ent.events, ent.lastSeq)
  <1>1. TypeOK /\ EnginesOK
    BY Zenon DEF EInv, Inductive
  <1>2. CASE cache[e] # {}
    <2>1. ent \in cache[e] /\ CacheOK(log, cache[e], at[e])
      BY Zenon, <1>1, <1>2 DEF Entries, EnginesOK
    <2> QED
      BY Zenon, <2>1 DEF CacheOK
  <1>3. CASE cache[e] = {}
    <2>1. PICK st \in Readable : ent = [events |-> st, lastSeq |-> Len(st)]
      BY Zenon, <1>3 DEF Entries
    <2>2. Len(st) \in 0 .. Len(log) /\ st = SubSeq(log, 1, Len(st))
      BY Zenon, <1>1, ReadTyped
    <2>3. ent.events = st /\ ent.lastSeq = Len(st)
      BY Zenon, <2>1
    <2> QED
      BY Zenon, <2>2, <2>3 DEF Genuine
  <1> QED
    BY Zenon, <1>2, <1>3

\* A state with a decision to take is a prefix of the log.
LEMMA EntryFits ==
    ASSUME EInv, NEW e \in Engines, at[e].pc # "append", NEW ent \in Entries(e),
           NEW c \in Commands, Outcome(ent.events, c) = "events"
    PROVE  ent.events = SubSeq(log, 1, ent.lastSeq) /\ Fits(log, ent.lastSeq, c)
  <1>1. ~(Exists(ent.events) /\ Ended(ent.events))
    BY Zenon, EventsNeedOpen
  <1>2. Genuine(log, ent.events, ent.lastSeq)
    BY Zenon, EntryGenuine
  <1> QED
    BY Zenon, <1>1, <1>2 DEF Genuine, Fits

LEMMA FitsAll ==
    ASSUME TypeOK, NEW n, MayStore(n), NEW c, Fits(log, n, c)
    PROVE  Outcome(log, c) = "events" /\ SubSeq(log, 1, n) = log
  <1>1. SubSeq(log, 1, Len(log)) = log
    BY Zenon, SubSeqFull DEF TypeOK
  <1> QED
    BY Zenon, <1>1 DEF MayStore, Fits

LEMMA StoredIsRecorded ==
    ASSUME EInv, NEW e \in Engines, AppendStored(e)
    PROVE  Recorded
  <1>1. TypeOK /\ HandlerOK(log, at[e]) /\ at[e].cmd \in Commands
    BY Zenon DEF EInv, Inductive, EnginesOK, TypeOK, HandlerType
  <1>2. MayStore(at[e].expected) /\ Fits(log, at[e].expected, at[e].cmd)
    BY Zenon, <1>1 DEF AppendStored, HandlerOK
  <1>3. Outcome(log, at[e].cmd) = "events"
    BY Zenon, <1>1, <1>2, FitsAll
  <1> QED
    BY Zenon, <1>1, <1>3 DEF Recorded, AppendStored

LEMMA LandedIsRecorded ==
    ASSUME EInv, NEW a \in wire, Land(a)
    PROVE  Recorded
  <1>1. TypeOK /\ Fits(log, a.expected, a.decision.cmd) /\ a.decision = Decision(a.decision.cmd)
    BY Zenon DEF EInv, Inductive, WireOK
  <1>2. a.decision.cmd \in Commands
    BY Zenon, <1>1 DEF TypeOK, AppendType, DecisionType
  <1>3. CASE MayStore(a.expected)
    <2>1. Outcome(log, a.decision.cmd) = "events"
      BY Zenon, <1>1, <1>3, FitsAll
    <2>2. log' = Append(log, Decision(a.decision.cmd))
      BY Zenon, <1>1, <1>3 DEF Land
    <2> QED
      BY Zenon, <1>2, <2>1, <2>2 DEF Recorded
  <1>4. CASE ~MayStore(a.expected)
    BY Zenon, <1>4 DEF Land, Recorded
  <1> QED
    BY Zenon, <1>3, <1>4

\* Every step leaves the log alone or records a decision taken on all of it.
LEMMA StepIsRecorded == EInv /\ [Next]_vars => Recorded
  <1> SUFFICES ASSUME EInv, [Next]_vars PROVE Recorded
    BY Zenon
  <1>1. ASSUME NEW c \in Commands, Send(c)
        PROVE  Recorded
    BY Zenon, <1>1 DEF Send, Recorded
  <1>2. ASSUME NEW e \in Engines, NEW c \in Commands, Deliver(e, c) \/ Redeliver(e, c)
        PROVE  Recorded
    BY Zenon, <1>2 DEF Deliver, Redeliver, Takes, Recorded
  <1>3. ASSUME NEW e \in Engines, Handle(e)
        PROVE  Recorded
    <2>1. CASE AppendStored(e)
      BY Zenon, <2>1, StoredIsRecorded
    <2>2. CASE ~AppendStored(e)
      <3>1. log' = log
        BY Zenon, <1>3, <2>2 DEF Handle, DecideNothing, DecideRefused, DecideNotFound, DecideEvents, DecideTooLarge,
                   AbortTooLarge, AppendConflicts, Ack, DeadLetter
      <3> QED
        BY Zenon, <3>1 DEF Recorded
    <2> QED
      BY Zenon, <2>1, <2>2
  <1>4. ASSUME NEW e \in Engines, Fault(e)
        PROVE  Recorded
    BY Zenon, <1>4 DEF Fault, LoadFails, AppendUnknown, SettleFails, Crash, Recorded
  <1>8. ASSUME NEW e \in Engines, Evict(e)
        PROVE  Recorded
    BY Zenon, <1>8 DEF Evict, Recorded
  <1>5. ASSUME NEW a \in wire, Land(a)
        PROVE  Recorded
    BY Zenon, <1>5, LandedIsRecorded
  <1>6. CASE PinMoves
    BY Zenon, <1>6 DEF PinMoves, Recorded
  <1>7. CASE UNCHANGED vars
    BY Zenon, <1>7 DEF vars, Recorded
  <1> QED
    BY Zenon, <1>1, <1>2, <1>3, <1>4, <1>5, <1>6, <1>7, <1>8 DEF Next

LEMMA DecidesOK ==
    ASSUME EInv, NEW e \in Engines, DecideEvents(e)
    PROVE  EnginesOK'
  <1>1. TypeOK /\ EnginesOK /\ Recorded /\ log' = log /\ at[e].cmd \in Commands /\ at[e].pc # "append"
    BY Zenon DEF EInv, Inductive, DecideEvents, Recorded, TypeOK, HandlerType
  <1>2. PICK ent \in Entries(e) :
            /\ Outcome(ent.events, at[e].cmd) = "events"
            /\ at' = Goes(e, Handler("append", at[e].cmd, at[e].tries, ent.events, ent.lastSeq))
            /\ cache' = [cache EXCEPT ![e] = {Moved(x, at[e].cmd) : x \in @}]
    BY Zenon DEF DecideEvents
  <1>3. ent.events = SubSeq(log, 1, ent.lastSeq) /\ Fits(log, ent.lastSeq, at[e].cmd)
    BY Zenon, <1>1, <1>2, EntryFits
  <1>4. PICK h : h = Handler("append", at[e].cmd, at[e].tries, ent.events, ent.lastSeq)
    BY Zenon
  <1>5. h.pc = "append" /\ h.cmd = at[e].cmd /\ h.state = ent.events /\ h.expected = ent.lastSeq
    BY Zenon, <1>4 DEF Handler
  <1>6. HandlerOK(log', h)
    BY Zenon, <1>1, <1>3, <1>5 DEF HandlerOK
  <1>7. PICK ents : ents = {Moved(x, at[e].cmd) : x \in cache[e]}
    BY Zenon
  <1>8. CacheOK(log', ents, h)
    <2>1. CacheOK(log, cache[e], at[e])
      BY Zenon, <1>1 DEF EnginesOK
    <2>2. \A x \in ents : x.lastSeq \in 0 .. Len(log)
      BY <2>1, <1>7 DEF CacheOK, Moved
    <2> QED
      BY Zenon, <1>1, <1>5, <2>2 DEF CacheOK
  <1>9. at' = [at EXCEPT ![e] = h] /\ cache' = [cache EXCEPT ![e] = ents]
    BY Zenon, <1>2, <1>4, <1>7 DEF Goes
  <1> QED
    BY Zenon, <1>1, <1>6, <1>8, <1>9, OthersOK

LEMMA TooLargeOK ==
    ASSUME EInv, NEW e \in Engines, DecideTooLarge(e)
    PROVE  EnginesOK'
  <1>1. /\ TypeOK /\ Recorded /\ log' = log /\ at[e].cmd \in Commands /\ at[e].pc # "append"
        /\ at[e].cmd \in Large /\ cache' = [cache EXCEPT ![e] = {}]
    BY Zenon DEF EInv, Inductive, DecideTooLarge, Recorded, TypeOK, HandlerType, Dropped
  <1>2. PICK ent \in Entries(e) :
            /\ Outcome(ent.events, at[e].cmd) = "events"
            /\ at' = Goes(e, Handler("abort", at[e].cmd, at[e].tries, <<>>, ent.lastSeq))
    BY Zenon DEF DecideTooLarge
  <1>3. Fits(log, ent.lastSeq, at[e].cmd)
    BY Zenon, <1>1, <1>2, EntryFits
  <1>4. PICK h : h = Handler("abort", at[e].cmd, at[e].tries, <<>>, ent.lastSeq)
    BY Zenon
  <1>5. h.pc = "abort" /\ h.cmd = at[e].cmd /\ h.expected = ent.lastSeq
    BY Zenon, <1>4 DEF Handler
  <1>6. HandlerOK(log', h) /\ CacheOK(log', {}, h)
    BY Zenon, <1>1, <1>3, <1>5 DEF HandlerOK, CacheOK
  <1>7. at' = [at EXCEPT ![e] = h]
    BY Zenon, <1>2, <1>4 DEF Goes
  <1> QED
    BY Zenon, <1>1, <1>6, <1>7, OthersOK

LEMMA AbortsOK ==
    ASSUME EInv, NEW e \in Engines, AbortTooLarge(e)
    PROVE  EnginesOK'
  <1>1. /\ TypeOK /\ EnginesOK /\ Recorded /\ log' = log /\ at[e].pc = "abort"
        /\ cache = [cache EXCEPT ![e] = cache[e]]
    BY Zenon DEF EInv, Inductive, AbortTooLarge, Recorded, TypeOK
  <1>2. /\ at[e].cmd \in Large /\ Fits(log, at[e].expected, at[e].cmd) /\ at[e].expected \in 0 .. Len(log)
        /\ CacheOK(log, cache[e], at[e])
    BY Zenon, <1>1 DEF EnginesOK, HandlerOK, Fits
  <1>3. PICK st \in Readable :
            \/ /\ Exists(st) /\ Ended(st)
               /\ at' = Then(e, "ack")
               /\ cache' = [cache EXCEPT ![e] = {[events |-> st, lastSeq |-> at[e].expected]}]
            \/ /\ at' = Goes(e, Handler("append", at[e].cmd, at[e].tries, st, at[e].expected))
               /\ cache' = cache
            \/ at' = Retry(e) /\ cache' = cache
    BY Zenon DEF AbortTooLarge
  <1>4. ASSUME Exists(st), Ended(st), at' = Then(e, "ack"),
               cache' = [cache EXCEPT ![e] = {[events |-> st, lastSeq |-> at[e].expected]}]
        PROVE  EnginesOK'
    <2>1. PICK h : at' = Goes(e, h) /\ h.pc \notin {"append", "abort"}
      BY Zenon, <1>1, <1>4, Leads
    <2>2. HandlerOK(log', h) /\ at' = [at EXCEPT ![e] = h]
      BY Zenon, <2>1 DEF HandlerOK, Goes
    <2>3. PICK ent : ent = [events |-> st, lastSeq |-> at[e].expected]
      BY Zenon
    <2>4. ent.events = st /\ ent.lastSeq = at[e].expected
      BY Zenon, <2>3
    <2>5. Genuine(log', ent.events, ent.lastSeq) /\ ent.lastSeq \in 0 .. Len(log')
      BY Zenon, <1>1, <1>2, <1>4, <2>4 DEF Genuine
    <2>6. CacheOK(log', {ent}, h)
      BY Zenon, <2>5 DEF CacheOK
    <2> QED
      BY Zenon, <1>1, <1>4, <2>2, <2>3, <2>6, OthersOK
  <1>5. ASSUME at' = Goes(e, Handler("append", at[e].cmd, at[e].tries, st, at[e].expected)), cache' = cache
        PROVE  EnginesOK'
    <2>1. PICK h : h = Handler("append", at[e].cmd, at[e].tries, st, at[e].expected)
      BY Zenon
    <2>2. h.pc = "append" /\ h.cmd = at[e].cmd /\ h.expected = at[e].expected
      BY Zenon, <2>1 DEF Handler
    <2>3. HandlerOK(log', h)
      BY Zenon, <1>1, <1>2, <2>2 DEF HandlerOK
    <2>4. CacheOK(log', cache[e], h)
      BY Zenon, <1>1, <1>2, <2>2 DEF CacheOK
    <2>5. at' = [at EXCEPT ![e] = h] /\ cache' = [cache EXCEPT ![e] = cache[e]]
      BY Zenon, <1>1, <1>5, <2>1 DEF Goes
    <2> QED
      BY Zenon, <1>1, <2>3, <2>4, <2>5, OthersOK
  <1>6. ASSUME at' = Retry(e), cache' = cache
        PROVE  EnginesOK'
    <2>1. at[e].pc # "append"
      BY Zenon, <1>1
    <2> QED
      BY Zenon, <1>1, <1>6, <2>1, Leads, Settles
  <1> QED
    BY Zenon, <1>3, <1>4, <1>5, <1>6

LEMMA StoresOK ==
    ASSUME EInv, NEW e \in Engines, AppendStored(e)
    PROVE  EnginesOK'
  <1>1. /\ TypeOK /\ Recorded /\ at[e].pc = "append" /\ MayStore(at[e].expected) /\ HandlerOK(log, at[e])
        /\ at[e].cmd \in Commands /\ at[e].state \in Seq(DecisionType) /\ log \in Seq(DecisionType)
        /\ log' = Append(log, Decision(at[e].cmd)) /\ Decision(at[e].cmd) \in DecisionType
    BY Zenon, StoredIsRecorded, DecisionIsTyped DEF EInv, Inductive, EnginesOK, AppendStored, TypeOK, HandlerType
  <1>2. PICK st, d : st = at[e].state /\ d = Decision(at[e].cmd)
    BY Zenon
  <1>3. log' \in Seq(DecisionType) /\ Len(log') \in Nat /\ SubSeq(log', 1, Len(log')) = log'
    BY <1>1, SubSeqFull
  <1>4. Genuine(log', Append(st, d), Len(log'))
    <2>1. CASE at[e].cmd \in Large
      <3>1. d.kind = "aborted"
        BY Zenon, <1>2, <2>1 DEF Decision
      <3>2. Append(st, d)[Len(st) + 1] = d /\ Len(Append(st, d)) = Len(st) + 1 /\ Len(st) \in Nat /\ Append(st, d) # <<>>
        BY <1>1, <1>2
      <3>3. Exists(Append(st, d)) /\ Ended(Append(st, d))
        BY <3>1, <3>2 DEF Exists, Ended
      <3> QED
        BY <1>3, <3>3 DEF Genuine
    <2>2. CASE at[e].cmd \notin Large
      <3>1. st = SubSeq(log, 1, at[e].expected) /\ Fits(log, at[e].expected, at[e].cmd)
        BY Zenon, <1>1, <1>2, <2>2 DEF HandlerOK
      <3>2. st = log
        BY Zenon, <1>1, <3>1, FitsAll
      <3>3. Append(st, d) = SubSeq(log', 1, Len(log'))
        <4>1. Append(st, d) = log'
          BY Zenon, <1>1, <1>2, <3>2
        <4> QED
          BY Zenon, <4>1, <1>3
      <3>4. Len(log') \in 0 .. Len(log')
        BY <1>3
      <3> QED
        BY Zenon, <3>3, <3>4 DEF Genuine
    <2> QED
      BY Zenon, <2>1, <2>2
  <1>5. PICK h : at' = Goes(e, h) /\ h.pc \notin {"append", "abort"}
    BY Zenon, <1>1, Leads DEF AppendStored
  <1>6. HandlerOK(log', h) /\ at' = [at EXCEPT ![e] = h]
    BY Zenon, <1>5 DEF HandlerOK, Goes
  <1>7. PICK ent : ent = [events |-> Append(st, d), lastSeq |-> Len(log')]
    BY Zenon
  <1>8. ent.events = Append(st, d) /\ ent.lastSeq = Len(log') /\ Len(log') \in 0 .. Len(log')
    BY <1>3, <1>7
  <1>9. CacheOK(log', {ent}, h)
    BY Zenon, <1>4, <1>8 DEF CacheOK
  <1>10. cache' = [cache EXCEPT ![e] = {ent}]
    BY Zenon, <1>2, <1>7 DEF AppendStored
  <1> QED
    BY Zenon, <1>1, <1>6, <1>9, <1>10, OthersOK

LEMMA HandlesOK ==
    ASSUME EInv, NEW e \in Engines, Handle(e)
    PROVE  EnginesOK' /\ WireOK'
  <1>1. TypeOK /\ Recorded
    BY Zenon, StepIsRecorded DEF EInv, Next
  <1>2. WireOK'
    <2>1. wire' = wire
      BY Zenon DEF Handle, DecideNothing, DecideRefused, DecideNotFound, DecideEvents, DecideTooLarge,
                   AbortTooLarge, AppendStored, AppendConflicts, Ack, DeadLetter
    <2> QED
      BY Zenon, <1>1, <2>1, WireStays
  <1>3. CASE DecideNothing(e)
    <2>1. at' = Then(e, "ack") /\ cache' = cache /\ at[e].pc # "append"
      BY Zenon, <1>3 DEF DecideNothing
    <2> QED
      BY Zenon, <1>1, <1>2, <2>1, Leads, Settles
  <1>4. CASE DecideRefused(e)
    <2>1. at' \in {Then(e, "ack"), Then(e, "dead")} /\ cache' = Dropped(e)
      BY Zenon, <1>4 DEF DecideRefused
    <2> QED
      BY Zenon, <1>1, <1>2, <2>1, Leads, Settles
  <1>5. CASE DecideNotFound(e)
    <2>1. at' \in {Goes(e, Idle), Then(e, "dead")} /\ cache' = Dropped(e)
      BY Zenon, <1>5 DEF DecideNotFound
    <2> QED
      BY Zenon, <1>1, <1>2, <2>1, Leads, Settles
  <1>6. CASE AppendConflicts(e)
    <2>1. \/ at' = Goes(e, Handler("decide", at[e].cmd, at[e].tries + 1, <<>>, 0))
          \/ at' = Retry(e)
      BY Zenon, <1>6 DEF AppendConflicts
    <2>2. Handler("decide", at[e].cmd, at[e].tries + 1, <<>>, 0).pc \notin {"append", "abort"}
      BY Zenon DEF Handler
    <2>3. cache' = Dropped(e)
      BY Zenon, <1>6 DEF AppendConflicts
    <2> QED
      BY Zenon, <1>1, <1>2, <2>1, <2>2, <2>3, Leads, Settles
  <1>7. CASE Ack(e) \/ DeadLetter(e)
    <2>1. at' = Goes(e, Idle) /\ cache' = cache /\ at[e].pc # "append"
      BY Zenon, <1>7 DEF Ack, DeadLetter
    <2> QED
      BY Zenon, <1>1, <1>2, <2>1, Leads, Settles
  <1> QED
    BY Zenon, <1>2, <1>3, <1>4, <1>5, <1>6, <1>7, DecidesOK, TooLargeOK, AbortsOK, StoresOK DEF Handle

\* An append that its engine gives up on goes on the wire as it was.
LEMMA SentOK ==
    ASSUME EInv, Recorded, NEW e \in Engines, at[e].pc = "append", wire' \subseteq wire \cup {Sent(at[e])}
    PROVE  WireOK'
  <1>1. TypeOK /\ WireOK /\ Fits(log, at[e].expected, at[e].cmd) /\ at[e].cmd \in Commands
    BY Zenon DEF EInv, Inductive, EnginesOK, HandlerOK, TypeOK, HandlerType
  <1>2. PICK s : s = Sent(at[e])
    BY Zenon
  <1>3. s.expected = at[e].expected /\ s.decision = Decision(at[e].cmd) /\ s.decision.cmd = at[e].cmd
    BY Zenon, <1>1, <1>2, DecisionIsTyped DEF Sent
  <1>4. Fits(log', s.expected, s.decision.cmd) /\ s.decision = Decision(s.decision.cmd)
    BY Zenon, <1>1, <1>3, OnGrowth
  <1>5. \A a \in wire : Fits(log', a.expected, a.decision.cmd) /\ a.decision = Decision(a.decision.cmd)
    BY Zenon, <1>1, OnGrowth DEF WireOK
  <1>6. \A a \in wire' : a \in wire \/ a = s
    BY Zenon, <1>2
  <1> QED
    BY Zenon, <1>4, <1>5, <1>6 DEF WireOK

LEMMA FaultsOK ==
    ASSUME EInv, NEW e \in Engines, Fault(e)
    PROVE  EnginesOK' /\ WireOK'
  <1>1. TypeOK /\ Recorded
    BY Zenon, StepIsRecorded DEF EInv, Next
  <1>2. CASE LoadFails(e)
    <2>1. at' = Retry(e) /\ (cache' = cache \/ cache' = Dropped(e)) /\ at[e].pc # "append" /\ wire' = wire
      BY Zenon, <1>2 DEF LoadFails
    <2>2. EnginesOK'
      BY Zenon, <1>1, <2>1, Leads, Settles
    <2> QED
      BY Zenon, <1>1, <2>1, <2>2, WireStays
  <1>3. CASE AppendUnknown(e)
    <2>1. at' = Retry(e) /\ cache' = Dropped(e)
      BY Zenon, <1>3 DEF AppendUnknown
    <2>2. EnginesOK'
      BY Zenon, <1>1, <2>1, Leads, Settles
    <2>3. WireOK'
      BY Zenon, <1>1, <1>3, SentOK DEF AppendUnknown
    <2> QED
      BY Zenon, <2>2, <2>3
  <1>4. CASE SettleFails(e)
    <2>1. at' = Goes(e, Idle) /\ cache' = cache /\ at[e].pc # "append" /\ wire' = wire
      BY Zenon, <1>4 DEF SettleFails
    <2>2. EnginesOK'
      BY Zenon, <1>1, <2>1, Leads, Settles
    <2> QED
      BY Zenon, <1>1, <2>1, <2>2, WireStays
  <1>5. CASE Crash(e)
    <2>1. at' = Goes(e, Idle) /\ cache' = Dropped(e)
      BY Zenon, <1>5 DEF Crash
    <2>2. EnginesOK'
      BY Zenon, <1>1, <2>1, Leads, Settles
    <2>3. wire' \subseteq wire \/ (at[e].pc = "append" /\ wire' \subseteq wire \cup {Sent(at[e])})
      BY Zenon, <1>5 DEF Crash
    <2> QED
      BY Zenon, <1>1, <2>2, <2>3, SentOK, WireStays
  <1> QED
    BY Zenon, <1>2, <1>3, <1>4, <1>5 DEF Fault

\* A step that only moves messages, appends or the pin.
LEMMA ElsewhereOK ==
    ASSUME EInv, Recorded, at' = at, cache' = cache, wire' \subseteq wire
    PROVE  Inductive'
  <1>1. TypeOK /\ EnginesOK
    BY Zenon DEF EInv, Inductive
  <1>2. EnginesOK'
    BY Zenon, <1>1, OnGrowth DEF EnginesOK
  <1> QED
    BY Zenon, <1>2, WireStays DEF Inductive

LEMMA EngineInvInit == Init => EInv
  <1> SUFFICES ASSUME Init PROVE EInv
    BY Zenon
  <1>1. \A e \in Engines : at[e].pc = "idle" /\ cache[e] = {}
    BY Zenon DEF Init, Idle, Handler
  <1>2. EnginesOK
    BY Zenon, <1>1 DEF EnginesOK, HandlerOK, CacheOK
  <1>3. WireOK
    BY Zenon DEF Init, WireOK
  <1> QED
    BY Zenon, <1>2, <1>3, EngineTypeInit DEF EInv, Inductive

LEMMA EngineInvStep == EInv /\ [Next]_vars => EInv'
  <1> SUFFICES ASSUME EInv, [Next]_vars PROVE EInv'
    BY Zenon
  <1>1. Recorded /\ TypeOK'
    BY Zenon, StepIsRecorded, EngineTypeStep DEF EInv
  <1>2. ASSUME NEW c \in Commands, Send(c)
        PROVE  Inductive'
    <2>1. at' = at /\ cache' = cache /\ wire' \subseteq wire
      BY Zenon, <1>2 DEF Send
    <2> QED
      BY Zenon, <1>1, <2>1, ElsewhereOK
  <1>3. ASSUME NEW e \in Engines, NEW c \in Commands, Deliver(e, c) \/ Redeliver(e, c)
        PROVE  Inductive'
    <2>1. Takes(e, c)
      BY Zenon, <1>3 DEF Deliver, Redeliver
    <2>2. PICK h : h = Handler("decide", c, 0, <<>>, 0)
      BY Zenon
    <2>3. h.pc \notin {"append", "abort"}
      BY Zenon, <2>2 DEF Handler
    <2>4. at' = Goes(e, h) /\ cache' = cache /\ at[e].pc # "append" /\ wire' = wire
      BY Zenon, <2>1, <2>2 DEF Takes, Goes
    <2>5. EnginesOK'
      BY Zenon, <1>1, <2>3, <2>4, Settles
    <2> QED
      BY Zenon, <1>1, <2>4, <2>5, WireStays DEF Inductive
  <1>4. ASSUME NEW e \in Engines, Handle(e) \/ Fault(e)
        PROVE  Inductive'
    BY Zenon, <1>4, HandlesOK, FaultsOK DEF Inductive
  <1>8. ASSUME NEW e \in Engines, Evict(e)
        PROVE  Inductive'
    <2>1. EnginesOK /\ at' = [at EXCEPT ![e] = at[e]] /\ cache' = [cache EXCEPT ![e] = {}] /\ wire' = wire /\ log' = log
      BY Zenon, <1>8 DEF Evict, EInv, Inductive, TypeOK, Dropped
    <2>2. HandlerOK(log', at[e]) /\ CacheOK(log', {}, at[e])
      BY Zenon, <2>1 DEF EnginesOK, CacheOK
    <2>3. EnginesOK'
      BY Zenon, <1>1, <2>1, <2>2, OthersOK
    <2> QED
      BY Zenon, <1>1, <2>1, <2>3, WireStays DEF Inductive
  <1>5. ASSUME NEW a \in wire, Land(a)
        PROVE  Inductive'
    <2>1. at' = at /\ cache' = cache /\ wire' \subseteq wire
      BY Zenon, <1>5 DEF Land
    <2> QED
      BY Zenon, <1>1, <2>1, ElsewhereOK
  <1>6. CASE PinMoves
    <2>1. at' = at /\ cache' = cache /\ wire' \subseteq wire
      BY Zenon, <1>6 DEF PinMoves
    <2> QED
      BY Zenon, <1>1, <2>1, ElsewhereOK DEF EInv
  <1>7. CASE UNCHANGED vars
    <2>1. at' = at /\ cache' = cache /\ wire' \subseteq wire
      BY Zenon, <1>7 DEF vars
    <2> QED
      BY Zenon, <1>1, <2>1, ElsewhereOK DEF EInv
  <1> QED
    BY Zenon, <1>1, <1>2, <1>3, <1>4, <1>5, <1>6, <1>7, <1>8 DEF Next, EInv

\* Every append under way was decided on the prefix of the log it expects, and
\* every cached state is such a prefix or has ended.
THEOREM EngineInvariant == Spec => []EInv
  BY EngineInvInit, EngineInvStep, PTL DEF Spec

----------------------------------------------------------------------------
\* What the log is.

\* Racing engines, late appends, crashes and lagging reads write together the
\* log one engine would write alone (the expected sequence of apply's append).
THEOREM EngineImplementsJournal == Spec => ImplementsJournal
  <1>1. Init => J!Init
    BY Zenon DEF Init, J!Init
  <1>2. EInv /\ [Next]_vars => [J!Next]_log
    <2> SUFFICES ASSUME Recorded PROVE [J!Next]_log
      BY Zenon, StepIsRecorded
    <2>1. \A c : J!Outcome(log, c) = Outcome(log, c) /\ J!Decision(c) = Decision(c)
      BY Zenon DEF J!Outcome, Outcome, J!Decision, Decision, J!Exists, Exists, J!Ended, Ended, J!Current, Current, J!Applied, Applied
    <2> QED
      BY Zenon, <2>1 DEF Recorded, J!Next, J!Record
  <1> QED
    BY <1>1, <1>2, EngineInvariant, PTL DEF Spec, ImplementsJournal, J!Spec

LEMMA RecordedOnce ==
    ASSUME TypeOK, Recorded, AppliedOnce
    PROVE  AppliedOnce'
  <1>1. CASE log' = log
    BY Zenon, <1>1 DEF AppliedOnce
  <1>2. ASSUME NEW c \in Commands, Outcome(log, c) = "events", log' = Append(log, Decision(c))
        PROVE  AppliedOnce'
    <2>1. log \in Seq(DecisionType) /\ Len(log) \in Nat /\ Decision(c) \in DecisionType /\ Decision(c).cmd = c
      BY DecisionIsTyped DEF TypeOK
    <2>2. /\ Len(log') = Len(log) + 1 /\ log'[Len(log) + 1] = Decision(c)
          /\ \A i \in 1 .. Len(log) : log'[i] = log[i]
      BY <1>2, <2>1, Grows
    <2>3. c \notin Applied(log)
      <3>1. CASE c = Start
        BY <1>2, <3>1, EventsNeedOpen DEF Applied
      <3>2. CASE c # Start
        BY Zenon, <1>2, <3>2, EventsNeedOpen DEF Current
      <3> QED
        BY Zenon, <3>1, <3>2
    <2>4. \A i \in 1 .. Len(log) : log[i].cmd # c
      BY Zenon, <2>3 DEF Applied
    <2> QED
      BY <2>1, <2>2, <2>4 DEF AppliedOnce
  <1> QED
    BY Zenon, <1>1, <1>2 DEF Recorded

\* However often a command is delivered, decided and appended, its decision is
\* stored at most once.
THEOREM CommandsAppliedOnce == Spec => []AppliedOnce
  <1>1. Init => AppliedOnce
    BY DEF Init, AppliedOnce
  <1>2. EInv /\ AppliedOnce /\ [Next]_vars => AppliedOnce'
    BY Zenon, RecordedOnce, StepIsRecorded DEF EInv
  <1> QED
    BY <1>1, <1>2, EngineInvariant, PTL DEF Spec

LEMMA RecordedOpen ==
    ASSUME TypeOK, Recorded, NothingAfterEnd
    PROVE  NothingAfterEnd'
  <1>1. CASE log' = log
    BY Zenon, <1>1 DEF NothingAfterEnd
  <1>2. ASSUME NEW c \in Commands, Outcome(log, c) = "events", log' = Append(log, Decision(c))
        PROVE  NothingAfterEnd'
    <2>1. log \in Seq(DecisionType) /\ Len(log) \in Nat /\ Decision(c) \in DecisionType
      BY DecisionIsTyped DEF TypeOK
    <2>2. Len(log') = Len(log) + 1 /\ SubSeq(log, 1, Len(log)) = log
      BY Zenon, <1>2, <2>1, Grows, SubSeqFull
    <2>3. \A n \in 0 .. Len(log) : SubSeq(log', 1, n) = SubSeq(log, 1, n)
      BY Zenon, OnLog
    <2>4. ~Ended(log)
      <3>1. CASE log = <<>>
        BY <3>1 DEF Ended
      <3>2. CASE log # <<>>
        BY Zenon, <1>2, <3>2, EventsNeedOpen DEF Exists
      <3> QED
        BY Zenon, <3>1, <3>2
    <2>5. ASSUME NEW i \in 1 .. Len(log'), i < Len(log')
          PROVE  ~Ended(SubSeq(log', 1, i))
      <3>1. i \in 0 .. Len(log) /\ i \in 1 .. Len(log) /\ (i = Len(log) \/ i < Len(log))
        <4>1. Len(log) \in Nat /\ Len(log') = Len(log) + 1
          BY Zenon, <2>1, <2>2
        <4>2. PICK n \in Nat : n = Len(log)
          BY Zenon, <4>1
        <4>3. i \in 1 .. n + 1 /\ i < n + 1
          BY Zenon, <4>1, <4>2, <2>5
        <4>4. i \in 0 .. n /\ i \in 1 .. n /\ (i = n \/ i < n)
          BY <4>3
        <4> QED
          BY Zenon, <4>2, <4>4
      <3>2. SubSeq(log', 1, i) = SubSeq(log, 1, i)
        BY Zenon, <2>3, <3>1
      <3>3. CASE i = Len(log)
        BY Zenon, <2>2, <2>4, <3>2, <3>3
      <3>4. CASE i < Len(log)
        BY Zenon, <3>1, <3>2, <3>4 DEF NothingAfterEnd
      <3> QED
        BY Zenon, <3>1, <3>3, <3>4
    <2> QED
      BY Zenon, <2>5 DEF NothingAfterEnd
  <1> QED
    BY Zenon, <1>1, <1>2 DEF Recorded

\* Nothing is stored after the decision that ended the execution.
THEOREM NothingStoredAfterEnd == Spec => []NothingAfterEnd
  <1>1. Init => NothingAfterEnd
    BY DEF Init, NothingAfterEnd
  <1>2. EInv /\ NothingAfterEnd /\ [Next]_vars => NothingAfterEnd'
    BY Zenon, RecordedOpen, StepIsRecorded DEF EInv
  <1> QED
    BY <1>1, <1>2, EngineInvariant, PTL DEF Spec

-----------------------------------------------------------------------------
\* No acknowledged command is lost, for any engines, commands and faults, as
\* long as the pin of the partition leaves an engine only when it stops and
\* reads show everything stored.
\*
\* Then only the pinned engine has a handler or a cache; what it caches is the
\* log, because no append it gave up on can be stored any more once something
\* else is; and a command the log absorbs stays absorbed.

LInv == EInv /\ Alone /\ NoneLost

\* The commands of the log after a step, and whether it has ended.
LEMMA Grown ==
    ASSUME TypeOK, NEW c \in Commands, log' = Append(log, Decision(c))
    PROVE  /\ Applied(log') = Applied(log) \cup {c} /\ Exists(log')
           /\ Ended(log) => Ended(log')
           /\ c \in Large => Ended(log')
           /\ Ended(log) => Exists(log)
  <1>1. log \in Seq(DecisionType) /\ Len(log) \in Nat /\ Decision(c) \in DecisionType /\ Decision(c).cmd = c
    BY DecisionIsTyped DEF TypeOK
  <1>2. /\ Len(log') = Len(log) + 1 /\ log'[Len(log) + 1] = Decision(c)
        /\ \A i \in 1 .. Len(log) : log'[i] = log[i]
    BY <1>1, Grows
  <1>3. Applied(log') = Applied(log) \cup {c}
    BY <1>1, <1>2 DEF Applied
  <1>4. Exists(log')
    BY <1>1, <1>2 DEF Exists
  <1>5. Ended(log) => Ended(log')
    BY <1>1, <1>2 DEF Ended
  <1>6. c \in Large => Ended(log')
    <2>1. c \in Large => Decision(c).kind = "aborted"
      BY DEF Decision
    <2> QED
      BY <1>1, <1>2, <2>1 DEF Ended
  <1>7. Ended(log) => Exists(log)
    BY <1>1 DEF Ended, Exists
  <1> QED
    BY <1>3, <1>4, <1>5, <1>6, <1>7

\* What the log absorbs stays absorbed, and so is what is recorded.
LEMMA StaysAbsorbed ==
    ASSUME TypeOK, NEW c \in Commands, log' = Append(log, Decision(c)), NEW x \in Commands,
           x = c \/ (Absorbed(log, x) /\ Needs[x] \subseteq Applied(log))
    PROVE  Absorbed(log', x)
  <1>1. /\ Applied(log') = Applied(log) \cup {c} /\ Exists(log')
        /\ Ended(log) => Ended(log')
    BY Grown
  <1>2. CASE x = Start
    BY <1>1, <1>2 DEF Absorbed, Outcome
  <1>3. CASE x # Start /\ (Ended(log') \/ x \in Invalid)
    BY <1>1, <1>3 DEF Absorbed, Outcome
  <1>4. CASE x # Start /\ ~Ended(log') /\ x \notin Invalid
    <2>1. x \in Applied(log')
      <3>1. CASE x = c
        BY <1>1, <3>1
      <3>2. CASE Absorbed(log, x) /\ Needs[x] \subseteq Applied(log)
        <4>1. ~Current(log, x)
          BY <1>1, <1>4, <3>2 DEF Absorbed, Outcome
        <4> QED
          BY <1>1, <3>2, <4>1 DEF Current
      <3> QED
        BY <3>1, <3>2
    <2> QED
      BY <1>1, <1>4, <2>1 DEF Absorbed, Outcome, Current
  <1> QED
    BY <1>2, <1>3, <1>4

LEMMA AbsorbedStep ==
    ASSUME TypeOK, Recorded, NEW x \in Commands, Absorbed(log, x), Needs[x] \subseteq Applied(log)
    PROVE  Absorbed(log', x)
  <1>1. CASE log' = log
    BY <1>1
  <1>2. ASSUME NEW c \in Commands, log' = Append(log, Decision(c))
        PROVE  Absorbed(log', x)
    BY <1>2, StaysAbsorbed
  <1> QED
    BY <1>1, <1>2 DEF Recorded

LEMMA NeedsStep ==
    ASSUME TypeOK, Recorded
    PROVE  Applied(log) \subseteq Applied(log')
  <1>1. CASE log' = log
    BY <1>1
  <1>2. ASSUME NEW c \in Commands, log' = Append(log, Decision(c))
        PROVE  Applied(log) \subseteq Applied(log')
    BY <1>2, Grown
  <1> QED
    BY <1>1, <1>2 DEF Recorded

----------------------------------------------------------------------------
\* Commands.

\* A step of the engine e that sends nothing and settles at most what e handles.
LEMMA NoneLostBy ==
    ASSUME LInv, Recorded, NEW e \in Engines, NEW h, at' = [at EXCEPT ![e] = h],
           h.pc = "ack" => h.cmd \in Commands /\ Absorbed(log', h.cmd),
           h.pc # "idle" => msgs[h.cmd] # "unsent",
           \/ msgs' = msgs
           \/ msgs' = [msgs EXCEPT ![at[e].cmd] = "dead"] /\ at[e].pc = "dead" /\ h.pc = "idle"
           \/ msgs' = [msgs EXCEPT ![at[e].cmd] = "acked"] /\ at[e].pc = "ack" /\ h.pc = "idle"
    PROVE  NoneLost'
  <1>1. /\ TypeOK /\ NoneLost /\ Applied(log) \subseteq Applied(log')
        /\ \A x \in Engines : at[x].cmd \in Commands
    BY NeedsStep DEF LInv, EInv, TypeOK, HandlerType
  <1>2. \A c \in Commands : msgs'[c] # "unsent" <=> msgs[c] # "unsent"
    BY <1>1 DEF TypeOK, NoneLost
  <1>3. \A c \in Commands : msgs'[c] # "unsent" => Needs[c] \subseteq Applied(log')
    BY Zenon, <1>1, <1>2 DEF NoneLost
  <1>4. \A c \in Commands : Absorbed(log, c) /\ msgs[c] # "unsent" => Absorbed(log', c)
    BY Zenon, <1>1, AbsorbedStep DEF NoneLost
  <1>5. ASSUME NEW c \in Commands, msgs'[c] = "acked"
        PROVE  Absorbed(log', c)
    <2>1. msgs[c] = "acked" \/ (c = at[e].cmd /\ at[e].pc = "ack")
      BY <1>1, <1>5 DEF TypeOK
    <2>2. Absorbed(log, c) /\ msgs[c] # "unsent"
      BY <1>1, <2>1 DEF NoneLost
    <2> QED
      BY Zenon, <1>4, <2>2
  <1>6. ASSUME NEW x \in Engines
        PROVE  /\ at'[x].pc # "idle" => msgs'[at'[x].cmd] # "unsent"
               /\ at'[x].pc = "ack" => Absorbed(log', at'[x].cmd)
    <2>1. CASE x = e
      <3>1. at'[x] = h
        BY <1>1, <2>1 DEF TypeOK
      <3>2. h.pc # "idle" => msgs'[h.cmd] # "unsent"
        <4>1. h.pc # "idle" => msgs' = msgs
          OBVIOUS
        <4> QED
          BY <4>1
      <3> QED
        BY Zenon, <3>1, <3>2
    <2>2. CASE x # e
      <3>1. at'[x] = at[x]
        BY <1>1, <2>2 DEF TypeOK
      <3>2. /\ at[x].pc # "idle" => msgs[at[x].cmd] # "unsent"
            /\ at[x].pc = "ack" => Absorbed(log, at[x].cmd)
        BY Zenon, <1>1 DEF NoneLost
      <3>3. at[x].pc # "idle" => msgs'[at[x].cmd] # "unsent"
        BY <1>1, <1>2, <3>2
      <3>4. at[x].pc = "ack" => Absorbed(log', at[x].cmd)
        <4>1. at[x].pc = "ack" => at[x].pc # "idle"
          OBVIOUS
        <4> QED
          BY Zenon, <1>1, <1>4, <3>2, <4>1
      <3> QED
        BY Zenon, <3>1, <3>3, <3>4
    <2> QED
      BY <2>1, <2>2
  <1> QED
    BY Zenon, <1>3, <1>5, <1>6 DEF NoneLost

\* A step that leaves the engines alone and sends at most one command.
LEMMA NoneLostElsewhere ==
    ASSUME LInv, Recorded, at' = at,
           \A c \in Commands : \/ msgs'[c] = msgs[c]
                               \/ msgs'[c] = "pending" /\ Needs[c] \subseteq Applied(log)
    PROVE  NoneLost'
  <1>1. /\ TypeOK /\ NoneLost /\ Applied(log) \subseteq Applied(log')
        /\ \A x \in Engines : at[x].cmd \in Commands
    BY NeedsStep DEF LInv, EInv, TypeOK, HandlerType
  <1>2. \A c \in Commands : msgs[c] # "unsent" => Needs[c] \subseteq Applied(log)
    BY <1>1 DEF NoneLost
  <1>3. \A c \in Commands : msgs'[c] # "unsent" => Needs[c] \subseteq Applied(log')
    BY <1>1, <1>2
  <1>4. \A c \in Commands : Absorbed(log, c) /\ msgs[c] # "unsent" => Absorbed(log', c)
    BY Zenon, <1>1, <1>2, AbsorbedStep
  <1>5. \A c \in Commands : msgs'[c] = "acked" => Absorbed(log', c)
    <2>1. \A c \in Commands : msgs'[c] = "acked" => Absorbed(log, c) /\ msgs[c] # "unsent"
      BY <1>1 DEF NoneLost
    <2> QED
      BY Zenon, <1>4, <2>1
  <1>6. ASSUME NEW x \in Engines
        PROVE  /\ at[x].pc # "idle" => msgs'[at[x].cmd] # "unsent"
               /\ at[x].pc = "ack" => Absorbed(log', at[x].cmd)
    <2>1. /\ at[x].pc # "idle" => msgs[at[x].cmd] # "unsent"
          /\ at[x].pc = "ack" => Absorbed(log, at[x].cmd) /\ at[x].pc # "idle"
      BY <1>1 DEF NoneLost
    <2>2. at[x].pc # "idle" => msgs'[at[x].cmd] # "unsent"
      BY <1>1, <2>1
    <2> QED
      BY Zenon, <1>1, <1>4, <2>1, <2>2
  <1>7. \A x \in Engines : /\ at'[x].pc # "idle" => msgs'[at'[x].cmd] # "unsent"
                           /\ at'[x].pc = "ack" => Absorbed(log', at'[x].cmd)
    BY Zenon, <1>6
  <1> QED
    BY Zenon, <1>3, <1>5, <1>7 DEF NoneLost

----------------------------------------------------------------------------
\* The pinned engine.

LEMMA AloneBy ==
    ASSUME LInv, pin' = pin, NEW h, NEW ents,
           at' = [at EXCEPT ![pin] = h], cache' = [cache EXCEPT ![pin] = ents],
           ents # {} => \A a \in wire' : a.expected < Len(log'),
           h.pc # "append" => \A ent \in ents : Sees(log', ent.events)
    PROVE  Alone'
  <1>1. TypeOK /\ Alone /\ pin \in Engines
    BY DEF LInv, EInv, TypeOK
  <1>2. at'[pin] = h /\ cache'[pin] = ents
    BY <1>1 DEF TypeOK
  <1>3. \A e \in Engines : e # pin => at'[e] = at[e] /\ cache'[e] = cache[e]
    BY <1>1 DEF TypeOK
  <1>4. \A e \in Engines : e # pin' => at'[e].pc = "idle" /\ cache'[e] = {}
    BY Zenon, <1>1, <1>3 DEF Alone
  <1> QED
    BY Zenon, <1>2, <1>4 DEF Alone

\* The pinned engine keeps or drops what it caches and goes on to h.
LEMMA AloneOn ==
    ASSUME LInv, pin' = pin, log' = log, NEW h, at' = Goes(pin, h),
           \/ cache' = Dropped(pin)
           \/ cache' = cache /\ wire' \subseteq wire /\ (h.pc = "append" \/ at[pin].pc # "append")
    PROVE  Alone'
  <1>1. TypeOK /\ Alone /\ at' = [at EXCEPT ![pin] = h]
    BY DEF LInv, EInv, Goes
  <1>2. CASE cache' = Dropped(pin)
    <2>1. cache' = [cache EXCEPT ![pin] = {}]
      BY <1>2 DEF Dropped
    <2> QED
      BY Zenon, <1>1, <2>1, AloneBy
  <1>3. CASE cache' = cache /\ wire' \subseteq wire /\ (h.pc = "append" \/ at[pin].pc # "append")
    <2>1. cache' = [cache EXCEPT ![pin] = cache[pin]]
      BY <1>1, <1>3 DEF TypeOK
    <2>2. cache[pin] # {} => \A a \in wire' : a.expected < Len(log')
      BY Zenon, <1>1, <1>3 DEF Alone
    <2>3. h.pc # "append" => \A ent \in cache[pin] : Sees(log', ent.events)
      BY Zenon, <1>1, <1>3 DEF Alone
    <2> QED
      BY Zenon, <1>1, <2>1, <2>2, <2>3, AloneBy
  <1> QED
    BY <1>2, <1>3

\* What the pinned engine decides on is as good as the log.
LEMMA EntrySees ==
    ASSUME LInv, ~LaggingReads, at[pin].pc # "append", NEW ent \in Entries(pin)
    PROVE  Sees(log, ent.events)
  <1>1. CASE cache[pin] # {}
    BY <1>1 DEF LInv, Alone, Entries
  <1>2. CASE cache[pin] = {}
    <2>1. ent = [events |-> log, lastSeq |-> Len(log)]
      BY <1>2 DEF Entries, Readable
    <2> QED
      BY <2>1 DEF Sees
  <1> QED
    BY <1>1, <1>2

LEMMA SeesAbsorbed ==
    ASSUME TypeOK, NEW st, Sees(log, st), NEW c \in Commands, Outcome(st, c) \in {"nothing", "rejected", "invalid"}
    PROVE  Absorbed(log, c)
  <1>1. CASE st = log
    BY <1>1 DEF Absorbed
  <1>2. CASE Ended(log)
    <2>1. Exists(log)
      BY <1>2 DEF Ended, Exists, TypeOK
    <2> QED
      BY <1>2, <2>1 DEF Absorbed, Outcome
  <1> QED
    BY <1>1, <1>2 DEF Sees

\* Only the pinned engine has something to do.
LEMMA Pinned ==
    ASSUME LInv, NEW e \in Engines, at[e].pc # "idle" \/ cache[e] # {}
    PROVE  e = pin
  BY DEF LInv, Alone

\* A handler of the pinned engine that settles, or gives up.
LEMMA OnFrom ==
    ASSUME LInv, at[pin].pc # "idle", log' = log, pin' = pin, msgs' = msgs,
           \/ at' = Goes(pin, Idle) \/ at' = Retry(pin) \/ at' = Then(pin, "dead")
           \/ at' = Then(pin, "ack") /\ Absorbed(log, at[pin].cmd),
           cache' = Dropped(pin) \/ (cache' = cache /\ wire' \subseteq wire /\ at[pin].pc # "append")
    PROVE  Alone' /\ NoneLost'
  <1>1. TypeOK /\ NoneLost /\ pin \in Engines /\ at[pin].cmd \in Commands /\ at[pin] \in HandlerType /\ Recorded
    BY DEF LInv, EInv, TypeOK, HandlerType, Recorded
  <1>2. msgs[at[pin].cmd] # "unsent"
    BY Zenon, <1>1 DEF NoneLost
  <1>3. PICK h : /\ at' = Goes(pin, h)
                 /\ h.pc \in {"idle", "dead", "ack"} /\ (h.pc = "idle" \/ h.cmd = at[pin].cmd)
                 /\ h.pc = "ack" => Absorbed(log, at[pin].cmd)
    <2>1. Idle.pc = "idle"
      BY DEF Idle, Handler
    <2>2. /\ [at[pin] EXCEPT !.pc = "dead"].pc = "dead" /\ [at[pin] EXCEPT !.pc = "dead"].cmd = at[pin].cmd
          /\ [at[pin] EXCEPT !.pc = "ack"].pc = "ack" /\ [at[pin] EXCEPT !.pc = "ack"].cmd = at[pin].cmd
      BY <1>1 DEF HandlerType
    <2>3. CASE at' = Goes(pin, Idle)
      BY <2>1, <2>3
    <2>4. CASE at' = Then(pin, "dead")
      <3>1. at' = Goes(pin, [at[pin] EXCEPT !.pc = "dead"])
        BY <2>4 DEF Then
      <3> QED
        BY <2>2, <3>1
    <2>5. CASE at' = Then(pin, "ack") /\ Absorbed(log, at[pin].cmd)
      <3>1. at' = Goes(pin, [at[pin] EXCEPT !.pc = "ack"])
        BY <2>5 DEF Then
      <3> QED
        BY <2>2, <2>5, <3>1
    <2> QED
      BY Zenon, <2>3, <2>4, <2>5 DEF Retry
  <1>4. Alone'
    BY Zenon, <1>3, AloneOn
  <1>5. at' = [at EXCEPT ![pin] = h]
    BY <1>3 DEF Goes
  <1>6. h.pc = "ack" => h.cmd \in Commands /\ Absorbed(log', h.cmd)
    <2>1. h.pc = "ack" => h.cmd = at[pin].cmd
      BY <1>3
    <2> QED
      BY Zenon, <1>1, <1>3, <2>1
  <1>7. h.pc # "idle" => msgs[h.cmd] # "unsent"
    BY Zenon, <1>2, <1>3
  <1>8. NoneLost'
    BY Zenon, <1>1, <1>5, <1>6, <1>7, NoneLostBy
  <1> QED
    BY <1>4, <1>8

\* A handler of the pinned engine that goes on with its command.
LEMMA OnWith ==
    ASSUME LInv, at[pin].pc # "idle", log' = log, pin' = pin, msgs' = msgs,
           NEW pc \in {"decide", "abort", "append"}, NEW n, NEW st, NEW seq,
           at' = Goes(pin, Handler(pc, at[pin].cmd, n, st, seq))
    PROVE  NoneLost'
  <1>1. TypeOK /\ NoneLost /\ pin \in Engines /\ Recorded
    BY DEF LInv, EInv, TypeOK, Recorded
  <1>2. msgs[at[pin].cmd] # "unsent"
    BY Zenon, <1>1 DEF NoneLost
  <1>3. PICK h : h = Handler(pc, at[pin].cmd, n, st, seq)
    OBVIOUS
  <1>4. h.pc = pc /\ h.cmd = at[pin].cmd
    BY <1>3 DEF Handler
  <1>5. at' = [at EXCEPT ![pin] = h] /\ h.pc # "ack" /\ msgs[h.cmd] # "unsent"
    BY <1>2, <1>3, <1>4 DEF Goes
  <1> QED
    BY Zenon, <1>1, <1>5, NoneLostBy

LEMMA LossDecide ==
    ASSUME LInv, ~LaggingReads, at[pin].pc = "decide",
           DecideNothing(pin) \/ DecideRefused(pin) \/ DecideNotFound(pin)
    PROVE  Alone' /\ NoneLost'
  <1>1. TypeOK /\ at[pin].cmd \in Commands /\ at[pin].pc # "idle" /\ at[pin].pc # "append"
    BY DEF LInv, EInv, TypeOK, HandlerType
  <1>2. log' = log /\ pin' = pin /\ msgs' = msgs /\ wire' = wire
    BY DEF DecideNothing, DecideRefused, DecideNotFound
  <1>3. \A ent \in Entries(pin) : Outcome(ent.events, at[pin].cmd) \in {"nothing", "rejected", "invalid"} => Absorbed(log, at[pin].cmd)
    BY Zenon, <1>1, EntrySees, SeesAbsorbed
  <1>4. CASE DecideNothing(pin)
    <2>1. Absorbed(log, at[pin].cmd) /\ at' = Then(pin, "ack") /\ cache' = cache
      BY Zenon, <1>3, <1>4 DEF DecideNothing
    <2> QED
      BY Zenon, <1>1, <1>2, <2>1, OnFrom
  <1>5. CASE DecideRefused(pin)
    <2>1. /\ at' = Then(pin, "dead") \/ (at' = Then(pin, "ack") /\ Absorbed(log, at[pin].cmd))
          /\ cache' = Dropped(pin)
      BY <1>3, <1>5 DEF DecideRefused
    <2> QED
      BY Zenon, <1>1, <1>2, <2>1, OnFrom
  <1>6. CASE DecideNotFound(pin)
    <2>1. at' \in {Goes(pin, Idle), Then(pin, "dead")} /\ cache' = Dropped(pin)
      BY <1>6 DEF DecideNotFound
    <2> QED
      BY Zenon, <1>1, <1>2, <2>1, OnFrom
  <1> QED
    BY <1>4, <1>5, <1>6

LEMMA LossDecideEvents ==
    ASSUME LInv, DecideEvents(pin) \/ DecideTooLarge(pin)
    PROVE  Alone' /\ NoneLost'
  <1>1. /\ TypeOK /\ Alone /\ at[pin].pc # "idle" /\ at[pin].pc # "append"
        /\ log' = log /\ pin' = pin /\ msgs' = msgs /\ wire' = wire
    BY DEF LInv, EInv, DecideEvents, DecideTooLarge
  <1>2. CASE DecideEvents(pin)
    <2>1. PICK ent : /\ at' = Goes(pin, Handler("append", at[pin].cmd, at[pin].tries, ent.events, ent.lastSeq))
                     /\ cache' = [cache EXCEPT ![pin] = {Moved(x, at[pin].cmd) : x \in @}]
      BY Zenon, <1>2 DEF DecideEvents
    <2>2. NoneLost'
      BY Zenon, <1>1, <2>1, OnWith
    <2>3. PICK h, ents : /\ h = Handler("append", at[pin].cmd, at[pin].tries, ent.events, ent.lastSeq)
                         /\ ents = {Moved(x, at[pin].cmd) : x \in cache[pin]}
      OBVIOUS
    <2>4. h.pc = "append" /\ at' = [at EXCEPT ![pin] = h]
      BY <2>1, <2>3 DEF Handler, Goes
    <2>5. cache' = [cache EXCEPT ![pin] = ents]
      BY Zenon, <2>1, <2>3
    <2>6. ents # {} => cache[pin] # {}
      BY <2>3
    <2>7. ents # {} => \A a \in wire' : a.expected < Len(log')
      BY Zenon, <1>1, <2>6 DEF Alone
    <2>8. Alone'
      BY Zenon, <1>1, <2>4, <2>5, <2>7, AloneBy
    <2> QED
      BY <2>2, <2>8
  <1>3. CASE DecideTooLarge(pin)
    <2>1. PICK ent : at' = Goes(pin, Handler("abort", at[pin].cmd, at[pin].tries, <<>>, ent.lastSeq))
      BY Zenon, <1>3 DEF DecideTooLarge
    <2>2. cache' = Dropped(pin)
      BY <1>3 DEF DecideTooLarge
    <2> QED
      BY Zenon, <1>1, <2>1, <2>2, OnWith, AloneOn
  <1> QED
    BY <1>2, <1>3

LEMMA LossAbort ==
    ASSUME LInv, ~LaggingReads, AbortTooLarge(pin)
    PROVE  Alone' /\ NoneLost'
  <1>1. /\ TypeOK /\ Alone /\ WireOK /\ log \in Seq(DecisionType) /\ Len(log) \in Nat /\ pin \in Engines
        /\ at[pin].pc = "abort" /\ at[pin].cmd \in Commands
        /\ log' = log /\ pin' = pin /\ msgs' = msgs /\ wire' = wire
    BY SMTT(40) DEF LInv, EInv, Inductive, TypeOK, HandlerType, AbortTooLarge
  <1>2. at[pin].pc # "idle" /\ at[pin].pc # "append"
    BY <1>1
  <1>3. \/ /\ Exists(log) /\ Ended(log)
           /\ at' = Then(pin, "ack")
           /\ cache' = [cache EXCEPT ![pin] = {[events |-> log, lastSeq |-> at[pin].expected]}]
        \/ /\ at' = Goes(pin, Handler("append", at[pin].cmd, at[pin].tries, log, at[pin].expected))
           /\ cache' = cache
        \/ at' = Retry(pin) /\ cache' = cache
    <2>1. Readable = {log}
      BY DEF Readable
    <2> QED
      BY Zenon, <2>1 DEF AbortTooLarge
  <1>4. ASSUME Exists(log), Ended(log), at' = Then(pin, "ack"),
               cache' = [cache EXCEPT ![pin] = {[events |-> log, lastSeq |-> at[pin].expected]}]
        PROVE  Alone' /\ NoneLost'
    <2>1. Absorbed(log, at[pin].cmd)
      BY <1>4 DEF Absorbed, Outcome
    <2>2. PICK h : h = [at[pin] EXCEPT !.pc = "ack"]
      OBVIOUS
    <2>3. h.pc = "ack" /\ h.cmd = at[pin].cmd /\ at' = [at EXCEPT ![pin] = h]
      BY <1>1, <1>4, <2>2 DEF Then, Goes, TypeOK, HandlerType
    <2>4. ASSUME NEW a \in wire
          PROVE  a.expected < Len(log)
      <3>1. Fits(log, a.expected, a.decision.cmd) /\ a.decision.cmd \in Commands
        BY <1>1 DEF WireOK, TypeOK, AppendType, DecisionType
      <3>2. a.expected # Len(log)
        <4>1. Outcome(log, a.decision.cmd) # "events"
          BY <1>4, <3>1, EventsNeedOpen
        <4> QED
          BY Zenon, <1>1, <3>1, <4>1, FitsAll DEF MayStore
      <3>3. a.expected \in 0 .. Len(log)
        BY <3>1 DEF Fits
      <3> QED
        BY <1>1, <3>2, <3>3
    <2>5. PICK ent : ent = [events |-> log, lastSeq |-> at[pin].expected]
      OBVIOUS
    <2>6. Sees(log', ent.events) /\ cache' = [cache EXCEPT ![pin] = {ent}]
      BY <1>1, <1>4, <2>5 DEF Sees
    <2>7. Alone'
      BY Zenon, <1>1, <2>3, <2>4, <2>6, AloneBy
    <2>8. msgs[h.cmd] # "unsent" /\ Recorded
      BY <1>1, <2>3 DEF LInv, NoneLost, Recorded
    <2>9. NoneLost'
      BY Zenon, <1>1, <2>1, <2>3, <2>8, NoneLostBy
    <2> QED
      BY <2>7, <2>9
  <1>5. ASSUME at' = Goes(pin, Handler("append", at[pin].cmd, at[pin].tries, log, at[pin].expected)), cache' = cache
        PROVE  Alone' /\ NoneLost'
    <2>1. Handler("append", at[pin].cmd, at[pin].tries, log, at[pin].expected).pc = "append"
      BY DEF Handler
    <2>2. NoneLost'
      BY Zenon, <1>1, <1>2, <1>5, OnWith
    <2>3. Alone'
      BY Zenon, <1>1, <1>2, <1>5, <2>1, AloneOn
    <2> QED
      BY <2>2, <2>3
  <1>6. ASSUME at' = Retry(pin), cache' = cache
        PROVE  Alone' /\ NoneLost'
    BY Zenon, <1>1, <1>2, <1>6, OnFrom
  <1> QED
    BY Zenon, <1>3, <1>4, <1>5, <1>6

LEMMA LossStored ==
    ASSUME LInv, AppendStored(pin)
    PROVE  Alone' /\ NoneLost'
  <1>1. /\ TypeOK /\ WireOK /\ log \in Seq(DecisionType) /\ Len(log) \in Nat /\ pin \in Engines
        /\ HandlerOK(log, at[pin]) /\ MayStore(at[pin].expected)
        /\ at[pin].pc = "append" /\ at[pin].cmd \in Commands /\ at[pin].state \in Seq(DecisionType)
        /\ log' = Append(log, Decision(at[pin].cmd)) /\ Decision(at[pin].cmd) \in DecisionType
        /\ pin' = pin /\ msgs' = msgs /\ wire' = wire
    BY SMTT(40), DecisionIsTyped DEF LInv, EInv, Inductive, EnginesOK, TypeOK, HandlerType, AppendStored
  <1>2. Recorded
    BY StoredIsRecorded, <1>1 DEF LInv
  <1>3. PICK h : h = [at[pin] EXCEPT !.pc = "ack"]
    OBVIOUS
  <1>4. h.pc = "ack" /\ h.cmd = at[pin].cmd /\ at' = [at EXCEPT ![pin] = h]
    BY <1>1, <1>3 DEF AppendStored, Then, Goes, TypeOK, HandlerType
  <1>5. Absorbed(log', h.cmd) /\ msgs[h.cmd] # "unsent"
    BY <1>1, <1>4, StaysAbsorbed DEF LInv, NoneLost
  <1>6. NoneLost'
    BY Zenon, <1>1, <1>2, <1>4, <1>5, NoneLostBy
  <1>7. \A a \in wire' : a.expected < Len(log')
    <2>1. Len(log') = Len(log) + 1
      BY <1>1, Grows
    <2>2. \A a \in wire : a.expected \in 0 .. Len(log)
      BY <1>1 DEF WireOK, Fits
    <2> QED
      BY <1>1, <2>1, <2>2
  <1>8. PICK st, d : st = at[pin].state /\ d = Decision(at[pin].cmd)
    OBVIOUS
  <1>9. Sees(log', Append(st, d))
    <2>1. CASE at[pin].cmd \in Large
      <3>1. d.kind = "aborted" /\ Ended(log')
        BY <1>1, <1>8, <2>1, Grown DEF Decision
      <3>2. Append(st, d)[Len(st) + 1] = d /\ Len(Append(st, d)) = Len(st) + 1 /\ Len(st) \in Nat /\ Append(st, d) # <<>>
        BY <1>1, <1>8
      <3>3. Exists(Append(st, d)) /\ Ended(Append(st, d))
        BY <3>1, <3>2 DEF Exists, Ended
      <3> QED
        BY <3>1, <3>3 DEF Sees
    <2>2. CASE at[pin].cmd \notin Large
      <3>1. st = SubSeq(log, 1, at[pin].expected) /\ Fits(log, at[pin].expected, at[pin].cmd)
        BY <1>1, <1>8, <2>2 DEF HandlerOK
      <3>2. st = log
        BY Zenon, <1>1, <3>1, FitsAll
      <3> QED
        BY Zenon, <1>1, <1>8, <3>2 DEF Sees
    <2> QED
      BY <2>1, <2>2
  <1>10. PICK ent : ent = [events |-> Append(st, d), lastSeq |-> Len(log')]
    OBVIOUS
  <1>11. Sees(log', ent.events)
    BY <1>9, <1>10
  <1>12. cache' = [cache EXCEPT ![pin] = {ent}]
    BY Zenon, <1>8, <1>10 DEF AppendStored
  <1>13. Alone'
    BY Zenon, <1>1, <1>4, <1>7, <1>11, <1>12, AloneBy
  <1> QED
    BY <1>6, <1>13

LEMMA LossSettles ==
    ASSUME LInv, Ack(pin) \/ DeadLetter(pin)
    PROVE  Alone' /\ NoneLost'
  <1>1. /\ TypeOK /\ pin \in Engines /\ Recorded /\ at' = Goes(pin, Idle) /\ at' = [at EXCEPT ![pin] = Idle]
        /\ at[pin].pc # "append" /\ Idle.pc = "idle"
        /\ log' = log /\ pin' = pin /\ cache' = cache /\ wire' = wire
    BY DEF LInv, EInv, TypeOK, Ack, DeadLetter, Recorded, Goes, Idle, Handler
  <1>2. Alone'
    BY Zenon, <1>1, AloneOn
  <1>3. \/ msgs' = [msgs EXCEPT ![at[pin].cmd] = "dead"] /\ at[pin].pc = "dead"
        \/ msgs' = [msgs EXCEPT ![at[pin].cmd] = "acked"] /\ at[pin].pc = "ack"
    BY Zenon DEF Ack, DeadLetter
  <1>4. Idle.pc # "ack"
    BY <1>1
  <1>5. NoneLost'
    BY Zenon, <1>1, <1>3, <1>4, NoneLostBy
  <1> QED
    BY <1>2, <1>5

LEMMA LossHandle ==
    ASSUME LInv, ~LaggingReads, NEW e \in Engines, Handle(e)
    PROVE  Alone' /\ NoneLost'
  <1>1. at[e].pc # "idle"
    BY DEF Handle, DecideNothing, DecideRefused, DecideNotFound, DecideEvents, DecideTooLarge,
           AbortTooLarge, AppendStored, AppendConflicts, Ack, DeadLetter
  <1>2. Handle(pin)
    BY <1>1, Pinned
  <1>3. CASE DecideNothing(pin) \/ DecideRefused(pin) \/ DecideNotFound(pin)
    <2>1. at[pin].pc = "decide"
      BY <1>3 DEF DecideNothing, DecideRefused, DecideNotFound
    <2> QED
      BY Zenon, <1>3, <2>1, LossDecide
  <1>4. CASE AppendConflicts(pin)
    <2>1. /\ log' = log /\ pin' = pin /\ msgs' = msgs /\ wire' = wire /\ cache' = Dropped(pin)
          /\ at[pin].pc # "idle" /\ at[pin].pc = "append"
      BY <1>4 DEF AppendConflicts
    <2>2. CASE at' = Goes(pin, Handler("decide", at[pin].cmd, at[pin].tries + 1, <<>>, 0))
      BY Zenon, <2>1, <2>2, OnWith, AloneOn
    <2>3. CASE at' = Retry(pin)
      BY Zenon, <2>1, <2>3, OnFrom
    <2> QED
      BY Zenon, <1>4, <2>2, <2>3 DEF AppendConflicts
  <1> QED
    BY <1>2, <1>3, <1>4, LossDecideEvents, LossAbort, LossStored, LossSettles DEF Handle

LEMMA LossFault ==
    ASSUME LInv, NEW e \in Engines, Fault(e)
    PROVE  Alone' /\ NoneLost'
  <1>1. TypeOK /\ Alone /\ pin \in Engines /\ Recorded
    BY DEF LInv, EInv, TypeOK, Fault, LoadFails, AppendUnknown, SettleFails, Crash, Recorded
  <1>2. ASSUME LoadFails(e) \/ AppendUnknown(e) \/ SettleFails(e)
        PROVE  Alone' /\ NoneLost'
    <2>1. at[e].pc # "idle"
      BY <1>2 DEF LoadFails, AppendUnknown, SettleFails
    <2>2. e = pin
      BY <2>1, Pinned
    <2>3. /\ log' = log /\ pin' = pin /\ msgs' = msgs /\ at[pin].pc # "idle"
          /\ at' = Retry(pin) \/ at' = Goes(pin, Idle)
          /\ cache' = Dropped(pin) \/ (cache' = cache /\ wire' \subseteq wire /\ at[pin].pc # "append")
      BY <1>2, <2>1, <2>2 DEF LoadFails, AppendUnknown, SettleFails
    <2> QED
      BY Zenon, <2>3, OnFrom
  <1>3. CASE Crash(e)
    <2>1. /\ at' = [at EXCEPT ![e] = Idle] /\ cache' = [cache EXCEPT ![e] = {}] /\ log' = log /\ msgs' = msgs
          /\ Idle.pc = "idle" /\ Idle.pc # "ack"
      BY <1>3 DEF Crash, Goes, Dropped, Idle, Handler
    <2>2. NoneLost'
      BY Zenon, <1>1, <2>1, NoneLostBy
    <2>3. at'[e] = Idle /\ cache'[e] = {} /\ \A x \in Engines : x # e => at'[x] = at[x] /\ cache'[x] = cache[x]
      BY <1>1, <2>1 DEF TypeOK
    <2>4. CASE pin = e
      <3>1. \A x \in Engines : at'[x].pc = "idle" /\ cache'[x] = {}
        BY Zenon, <1>1, <2>1, <2>3, <2>4 DEF Alone
      <3>2. pin' \in Engines
        BY <1>1, <1>3 DEF Crash
      <3> QED
        BY Zenon, <2>2, <3>1, <3>2 DEF Alone
    <2>5. CASE pin # e
      <3>1. at[e].pc = "idle"
        BY <1>1, <2>5 DEF Alone
      <3>2. wire' = wire /\ pin' = pin
        BY <1>3, <2>5, <3>1 DEF Crash
      <3>3. at'[pin] = at[pin] /\ cache'[pin] = cache[pin]
        BY <1>1, <2>3, <2>5
      <3>4. \A x \in Engines : x # pin => at'[x].pc = "idle" /\ cache'[x] = {}
        BY Zenon, <1>1, <2>1, <2>3 DEF Alone
      <3> QED
        BY Zenon, <1>1, <2>1, <2>2, <3>2, <3>3, <3>4 DEF Alone
    <2> QED
      BY <2>4, <2>5
  <1> QED
    BY <1>2, <1>3 DEF Fault

\* A late append is stored only while nothing is cached.
LEMMA LossLand ==
    ASSUME LInv, NEW a \in wire, Land(a)
    PROVE  Alone' /\ NoneLost'
  <1>1. TypeOK /\ Alone /\ pin' = pin /\ at' = at /\ cache' = cache /\ msgs' = msgs /\ wire' \subseteq wire /\ Recorded
    BY LandedIsRecorded DEF LInv, EInv, Land
  <1>2. NoneLost'
    BY <1>1, NoneLostElsewhere
  <1>3. cache[pin] # {} => log' = log
    <2>1. cache[pin] # {} => a.expected < Len(log)
      BY <1>1 DEF Alone
    <2>2. cache[pin] # {} => ~MayStore(a.expected)
      BY <1>1, <2>1 DEF MayStore, TypeOK
    <2> QED
      BY <2>2 DEF Land
  <1>4. CASE cache[pin] = {}
    BY Zenon, <1>1, <1>2, <1>4 DEF Alone
  <1>5. CASE cache[pin] # {}
    <2>1. log' = log
      BY <1>3, <1>5
    <2> QED
      BY Zenon, <1>1, <1>2, <1>5, <2>1 DEF Alone
  <1> QED
    BY <1>4, <1>5

LEMMA LossStep == ~PinReturns /\ ~LaggingReads /\ LInv /\ [Next]_vars => LInv'
  <1> SUFFICES ASSUME ~PinReturns, ~LaggingReads, LInv, [Next]_vars PROVE LInv'
    OBVIOUS
  <1>1. EInv' /\ Recorded /\ TypeOK /\ Alone /\ NoneLost /\ pin \in Engines
    BY EngineInvStep, StepIsRecorded DEF LInv, EInv, TypeOK
  <1>2. ASSUME NEW c \in Commands, Send(c)
        PROVE  Alone' /\ NoneLost'
    <2>1. UNCHANGED <<log, wire, pin, cache, at>>
      BY <1>2 DEF Send
    <2>2. \A x \in Commands : \/ msgs'[x] = msgs[x]
                              \/ msgs'[x] = "pending" /\ Needs[x] \subseteq Applied(log)
      BY <1>1, <1>2 DEF Send, TypeOK
    <2>3. NoneLost'
      BY <1>1, <2>1, <2>2, NoneLostElsewhere
    <2> QED
      BY Zenon, <1>1, <2>1, <2>3 DEF Alone
  <1>3. ASSUME NEW e \in Engines, NEW c \in Commands, Deliver(e, c) \/ Redeliver(e, c)
        PROVE  Alone' /\ NoneLost'
    <2>1. /\ e = pin /\ at[pin].pc = "idle" /\ msgs[c] = "pending"
          /\ at' = Goes(pin, Handler("decide", c, 0, <<>>, 0))
          /\ UNCHANGED <<log, wire, msgs, pin, cache>>
      BY <1>3 DEF Deliver, Redeliver, Takes, Deliverable, Goes
    <2>2. PICK h : h = Handler("decide", c, 0, <<>>, 0)
      OBVIOUS
    <2>3. h.pc = "decide" /\ h.cmd = c
      BY <2>2 DEF Handler
    <2>4. at' = [at EXCEPT ![pin] = h] /\ h.pc # "ack" /\ msgs[h.cmd] # "unsent" /\ at[pin].pc # "append"
      BY <2>1, <2>2, <2>3 DEF Goes
    <2>5. NoneLost'
      BY Zenon, <1>1, <2>1, <2>4, NoneLostBy
    <2>6. Alone'
      BY Zenon, <2>1, <2>2, <2>4, AloneOn
    <2> QED
      BY <2>5, <2>6
  <1>4. ASSUME NEW e \in Engines, Handle(e) \/ Fault(e)
        PROVE  Alone' /\ NoneLost'
    BY <1>4, LossHandle, LossFault
  <1>5. ASSUME NEW e \in Engines, Evict(e)
        PROVE  Alone' /\ NoneLost'
    <2>1. e = pin
      BY <1>5, Pinned DEF Evict
    <2>2. /\ at' = Goes(pin, at[pin]) /\ cache' = Dropped(pin) /\ at' = at
          /\ UNCHANGED <<log, wire, msgs, pin>>
      BY <1>1, <1>5, <2>1 DEF Evict, Goes, TypeOK
    <2>3. NoneLost'
      BY <1>1, <2>2, NoneLostElsewhere
    <2>4. Alone'
      BY Zenon, <2>2, AloneOn
    <2> QED
      BY <2>3, <2>4
  <1>6. ASSUME NEW a \in wire, Land(a)
        PROVE  Alone' /\ NoneLost'
    BY <1>6, LossLand
  <1>7. ~PinMoves
    BY DEF PinMoves
  <1>8. CASE UNCHANGED vars
    <2>1. UNCHANGED <<log, wire, msgs, pin, cache, at>>
      BY <1>8 DEF vars
    <2>2. NoneLost'
      BY <1>1, <2>1, NoneLostElsewhere
    <2> QED
      BY Zenon, <1>1, <2>1, <2>2 DEF Alone, LInv
  <1> QED
    BY <1>1, <1>2, <1>3, <1>4, <1>5, <1>6, <1>7, <1>8 DEF Next, LInv

LEMMA LossInit == Init => LInv
  <1> SUFFICES ASSUME Init PROVE LInv
    OBVIOUS
  <1>1. TypeOK
    BY EngineInvInit DEF EInv
  <1>2. \A e \in Engines : at[e].pc = "idle" /\ cache[e] = {}
    BY DEF Init, Idle, Handler
  <1>3. \A c \in Commands : msgs[c] = "unsent"
    BY DEF Init
  <1>4. Alone
    BY <1>1, <1>2 DEF Alone, TypeOK
  <1>5. NoneLost
    BY <1>2, <1>3 DEF NoneLost
  <1> QED
    BY <1>4, <1>5, EngineInvInit DEF LInv

\* While an engine keeps its pin until it stops and reads do not lag, a command
\* is acknowledged only when the log has its decision or absorbs it, whatever
\* crashes, fails, times out or arrives late.
THEOREM NoCommandIsLost ==
    ASSUME ~PinReturns, ~LaggingReads
    PROVE  Spec => []NoLostCommand
  <1>1. LInv /\ [Next]_vars => LInv'
    BY LossStep
  <1>2. LInv => NoLostCommand
    BY DEF LInv, NoneLost, Absorbed, NoLostCommand
  <1> QED
    BY <1>1, <1>2, LossInit, PTL DEF Spec

=============================================================================
