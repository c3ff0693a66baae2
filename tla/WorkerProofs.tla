---------------------------- MODULE WorkerProofs -----------------------------
(***************************************************************************)
(* The safety of the workers for every number of jobs, handlers, processes *)
(* and faults: no job is dropped, a busy key costs no delivery and one     *)
(* handler of a process, and the limit of the key holds.                   *)
(*                                                                         *)
(* Each property has an inductive invariant of its own, proved from the    *)
(* types and, for the limit, from the fact that no job is in two hands.    *)
(* The lemmas of the first two sections say once what the steps of a       *)
(* handler do to its record, so that the others need not open the actions. *)
(***************************************************************************)
EXTENDS Worker, FiniteSetTheorems, TLAPS

----------------------------------------------------------------------------
(* Types. *)

AtType == [Handlers -> HandlerType \cup {Idle}]

\* A handler's step: it goes on with its message or is done; the others rest.
Shape(h) ==
    /\ Busy(h) /\ at[h] \in HandlerType /\ at' \in AtType
    /\ \A g \in Handlers \ {h} : at'[g] = at[g]
    /\ at'[h] = Idle \/ (at'[h] \in HandlerType /\ at'[h].msg = at[h].msg)

LEMMA Records ==
    ASSUME NEW r \in HandlerType \cup {Idle}
    PROVE  /\ r.pc # "idle" => r \in HandlerType
           /\ r \in HandlerType => /\ r.pc \in Pcs /\ r.msg \in Msgs /\ r.next \subseteq Jobs
                                   /\ r.pc # "idle" /\ r.how \in {"first", "waiter", "kept"}
                                   /\ JobOf(r.msg) \in Jobs
  BY DEF HandlerType, Idle, Pcs, Msgs, JobOf

LEMMA IdlePc == Idle.pc = "idle"
  BY Zenon DEF Idle

LEMMA MovesShape ==
    ASSUME TypeOK, NEW h \in Handlers, Busy(h), NEW pc \in Pcs, Goes(h, pc)
    PROVE  Shape(h) /\ at'[h] \in HandlerType /\ at'[h].pc = pc /\ at'[h].how = at[h].how /\ at'[h].next = at[h].next
  <1>1. at[h] \in HandlerType
    BY Zenon, Records DEF TypeOK, Busy
  <1>2. at'[h] = [at[h] EXCEPT !.pc = pc] /\ [at[h] EXCEPT !.pc = pc] \in HandlerType
    BY Zenon, <1>1 DEF Goes, TypeOK, HandlerType
  <1>3. LET r == [at[h] EXCEPT !.pc = pc]
        IN  r.msg = at[h].msg /\ r.pc = pc /\ r.how = at[h].how /\ r.next = at[h].next
    BY Zenon, <1>1 DEF HandlerType
  <1> QED
    BY Zenon, <1>1, <1>2, <1>3 DEF Goes, TypeOK, Shape, AtType

LEMMA EndsShape ==
    ASSUME TypeOK, NEW h \in Handlers, Busy(h), Ends(h)
    PROVE  Shape(h) /\ at'[h] = Idle
  BY Zenon, Records DEF Ends, TypeOK, Shape, AtType, Busy

\* The steps of a handler that change its record otherwise.
LEMMA SetsNext ==
    ASSUME TypeOK, NEW h \in Handlers, Busy(h), NEW pc \in Pcs, NEW next \in SUBSET Jobs,
           at' = [at EXCEPT ![h].pc = pc, ![h].next = next]
    PROVE  Shape(h) /\ at'[h] \in HandlerType /\ at'[h].pc = pc /\ at'[h].how = at[h].how /\ at'[h].next = next
  <1>1. at[h] \in HandlerType
    BY Zenon, Records DEF TypeOK, Busy
  <1>2. /\ at'[h] \in HandlerType /\ at'[h].msg = at[h].msg
        /\ at'[h].pc = pc /\ at'[h].how = at[h].how /\ at'[h].next = next
    BY Zenon, <1>1 DEF TypeOK, HandlerType
  <1> QED
    BY Zenon, <1>1, <1>2 DEF TypeOK, Shape, AtType

LEMMA SetsHow ==
    ASSUME TypeOK, NEW h \in Handlers, Busy(h), NEW how \in {"first", "waiter", "kept"},
           at' = [at EXCEPT ![h].how = how, ![h].pc = "get"]
    PROVE  Shape(h) /\ at'[h] \in HandlerType /\ at'[h].pc = "get" /\ at'[h].how = how
  <1>1. at[h] \in HandlerType
    BY Zenon, Records DEF TypeOK, Busy
  <1>2. at'[h] \in HandlerType /\ at'[h].msg = at[h].msg /\ at'[h].pc = "get" /\ at'[h].how = how
    BY Zenon, <1>1 DEF TypeOK, HandlerType, Pcs
  <1> QED
    BY Zenon, <1>1, <1>2 DEF TypeOK, Shape, AtType

HandlerStep(h) ==
    \/ Read(h) \/ ReadFails(h) \/ Acquire(h) \/ AcquireFails(h) \/ Granted(h) \/ Conflict(h) \/ GrantUnseen(h)
    \/ Release(h) \/ Released(h) \/ ReleaseFails(h) \/ Claim(h) \/ TurnAway(h) \/ Wait(h) \/ HandBack(h)
    \/ Handed(h) \/ HandBackFails(h) \/ Finish(h) \/ Stop(h) \/ FinishFails(h) \/ Ack(h) \/ Exhausted(h)
    \/ Bad(h) \/ GiveUpUnsent(h) \/ GiveUpFails(h)

\* The same steps in three groups: those that take a slot, those that wait for one
\* or hand the job back, and those that finish.
Takes(h) ==
    \/ Read(h) \/ ReadFails(h) \/ Acquire(h) \/ AcquireFails(h) \/ Granted(h) \/ Conflict(h) \/ GrantUnseen(h)
    \/ Exhausted(h) \/ Bad(h)
Waits(h) == Claim(h) \/ TurnAway(h) \/ Wait(h) \/ HandBack(h) \/ Handed(h) \/ HandBackFails(h)
Finishes(h) ==
    \/ Release(h) \/ Released(h) \/ ReleaseFails(h) \/ Finish(h) \/ Stop(h) \/ FinishFails(h) \/ Ack(h)
    \/ GiveUpUnsent(h) \/ GiveUpFails(h)

LEMMA ThreeGroups ==
    ASSUME NEW h \in Handlers, HandlerStep(h)
    PROVE  Takes(h) \/ Waits(h) \/ Finishes(h)
  BY Zenon DEF HandlerStep, Takes, Waits, Finishes

LEMMA NextSteps ==
    ASSUME Next
    PROVE  \/ \E h \in Handlers : HandlerStep(h) \/ Renew(h)
           \/ \E h \in Handlers, m \in Msgs : Deliver(h, m)
           \/ \E m \in Msgs : Expire(m) \/ Fire(m)
           \/ \E j \in Jobs : Obsolete(j) \/ Lapse(j)
           \/ \E p \in Procs : Shutdown(p) \/ Crash(p)
  BY Zenon DEF Next, Step, HandlerStep

LEMMA JobInHand ==
    ASSUME TypeOK, NEW h \in Handlers, Busy(h)
    PROVE  at[h] \in HandlerType /\ JobAt(h) \in Jobs /\ at[h].msg \in Msgs /\ at[h].next \subseteq Jobs
           /\ at[h].how \in {"first", "waiter", "kept"}
  BY Zenon, Records DEF TypeOK, Busy, JobAt

LEMMA StepShape ==
    ASSUME TypeOK, NEW h \in Handlers, HandlerStep(h)
    PROVE  Shape(h)
  <1>0. Busy(h)
    BY Zenon DEF HandlerStep, Read, ReadFails, Acquire, AcquireFails, Granted, Conflict, GrantUnseen, Release, Released,
           ReleaseFails, Claim, TurnAway, Wait, HandBack, Handed, HandBackFails, Finish, Stop, FinishFails, Ack,
           Exhausted, Bad, GiveUpUnsent, GiveUpFails, Busy
  <1>1. CASE Ends(h)
    BY Zenon, <1>0, <1>1, EndsShape
  <1>2. CASE \E pc \in Pcs : Goes(h, pc)
    BY Zenon, <1>0, <1>2, MovesShape
  <1>3. CASE Acquire(h) /\ Acquirable(JobAt(h))
    <2> DEFINE N == (sem \ lapsed) \cup {JobAt(h)}
    <2>1. N \in SUBSET Jobs
      BY Zenon, <1>0, JobInHand DEF TypeOK
    <2>2. at' = [at EXCEPT ![h].pc = "cas", ![h].next = N]
      BY Zenon, <1>3 DEF Acquire
    <2> HIDE DEF N
    <2> QED
      BY Zenon, <1>0, <2>1, <2>2, SetsNext DEF Pcs
  <1>4. CASE Release(h)
    <2> DEFINE N == sem \ {JobAt(h)}
    <2>1. N \in SUBSET Jobs /\ "relcas" \in Pcs
      BY Zenon DEF TypeOK, Pcs
    <2>2. at' = [at EXCEPT ![h].pc = "relcas", ![h].next = N]
      BY Zenon, <1>4 DEF Release
    <2> HIDE DEF N
    <2> QED
      BY Zenon, <1>0, <2>1, <2>2, SetsNext
  <1>5. CASE Claim(h)
    BY Zenon, <1>0, <1>5, SetsHow DEF Claim
  <1>6. CASE HandBackFails(h) /\ ~Ends(h)
    BY Zenon, <1>0, <1>6, SetsHow DEF HandBackFails
  <1> QED
    BY Zenon, <1>1, <1>2, <1>3, <1>4, <1>5, <1>6
       DEF HandlerStep, Read, ReadFails, Acquire, AcquireFails, Granted, Conflict, GrantUnseen, Released, Refused,
           ReleaseFails, TurnAway, Wait, HandBack, Handed, HandBackFails, Finish, Stop, FinishFails, Ack,
           Exhausted, Bad, GiveUpUnsent, GiveUpFails, Pcs

LEMMA TypeInit ==
    ASSUME Init
    PROVE  TypeOK
  BY Zenon, WorkerAssumption DEF Init, TypeOK, Msgs

LEMMA TypeHandler ==
    ASSUME TypeOK, NEW h \in Handlers, HandlerStep(h)
    PROVE  TypeOK'
  <1>1. at' \in AtType
    BY Zenon, StepShape DEF Shape
  <1>2. Busy(h) /\ JobAt(h) \in Jobs /\ at[h].msg \in Msgs /\ at[h].next \subseteq Jobs
    BY Zenon, StepShape, JobInHand DEF Shape
  <1>3. queue' \in [Msgs -> {"none", "ready", "out"}] /\ delivered' = delivered
    BY Zenon, <1>2 DEF TypeOK, HandlerStep, Read, ReadFails, Acquire, AcquireFails, Granted, Conflict, GrantUnseen, Release,
           Released, ReleaseFails, Claim, TurnAway, Wait, HandBack, Handed, HandBackFails, Finish, Stop, FinishFails,
           Ack, Exhausted, Bad, GiveUpUnsent, GiveUpFails, Gone
  <1>4. sem' \subseteq Jobs /\ lapsed' \subseteq sem' /\ fresh' \subseteq Handlers
    BY Zenon, <1>2 DEF TypeOK, HandlerStep, Read, ReadFails, Acquire, AcquireFails, Granted, Conflict, GrantUnseen, Release,
           Released, ReleaseFails, Claim, TurnAway, Wait, HandBack, Handed, HandBackFails, Finish, Stop, FinishFails,
           Ack, Exhausted, Bad, GiveUpUnsent, GiveUpFails, Stores
  <1>5. delayed' \subseteq Jobs /\ waiting' \subseteq Procs /\ stopping' \subseteq Leaving
    <2>1. CASE Takes(h)
      BY Zenon, <1>2, WorkerAssumption, <2>1
         DEF TypeOK, Unclaimed, Takes, Read, ReadFails, Acquire, AcquireFails, Granted, Conflict, GrantUnseen, Exhausted, Bad
    <2>2. CASE Waits(h)
      BY <1>2, WorkerAssumption, <2>2
         DEF TypeOK, Unclaimed, Waits, Claim, TurnAway, Wait, HandBack, Handed, HandBackFails
    <2>3. CASE Finishes(h)
      BY <1>2, WorkerAssumption, <2>3
         DEF TypeOK, Unclaimed, Finishes, Release, Released, ReleaseFails, Finish, Stop, FinishFails, Ack, GiveUpUnsent, GiveUpFails
    <2> QED
      BY Zenon, <2>1, <2>2, <2>3, ThreeGroups
  <1>6. results' \subseteq Jobs /\ unwanted' \subseteq Jobs /\ (dlq \cup unread)' \subseteq Jobs /\ faults' \in Nat
    <2>1. CASE Takes(h)
      BY <1>2, <2>1
         DEF TypeOK, Failing, Takes, Read, ReadFails, Acquire, AcquireFails, Granted, Conflict, GrantUnseen, Exhausted, Bad
    <2>2. CASE Waits(h)
      BY <1>2, <2>2
         DEF TypeOK, Failing, Waits, Claim, TurnAway, Wait, HandBack, Handed, HandBackFails
    <2>3. CASE Finishes(h)
      BY <1>2, <2>3
         DEF TypeOK, Failing, Finishes, Release, Released, ReleaseFails, Finish, Stop, FinishFails, Ack, GiveUpUnsent, GiveUpFails
    <2> QED
      BY Zenon, <2>1, <2>2, <2>3, ThreeGroups
  <1> QED
    BY Zenon, <1>1, <1>3, <1>4, <1>5, <1>6 DEF TypeOK, AtType

LEMMA TypeNext ==
    ASSUME TypeOK, [Next]_vars
    PROVE  TypeOK'
  <1>1. CASE \E h \in Handlers : HandlerStep(h)
    BY Zenon, <1>1, TypeHandler
  <1>2. CASE \E h \in Handlers : Renew(h)
    BY Zenon, <1>2 DEF Renew, TypeOK
  <1>3. CASE \E h \in Handlers, m \in Msgs : Deliver(h, m)
    <2> PICK h \in Handlers, m \in Msgs : Deliver(h, m)
      BY Zenon, <1>3
    <2>1. [pc |-> "read", msg |-> m, how |-> "first", next |-> {}] \in HandlerType
      BY Zenon DEF HandlerType, Pcs
    <2> QED
      BY <2>1 DEF Deliver, TypeOK
  <1>4. CASE \E m \in Msgs : Expire(m) \/ Fire(m)
    BY <1>4 DEF Expire, Fire, TypeOK, Failing
  <1>5. CASE \E j \in Jobs : Obsolete(j) \/ Lapse(j)
    BY <1>5 DEF Obsolete, Lapse, TypeOK, Failing
  <1>6. CASE \E p \in Procs : Shutdown(p) \/ Crash(p)
    BY <1>6 DEF Shutdown, Crash, TypeOK, Failing
  <1>7. CASE UNCHANGED vars
    BY Zenon, <1>7 DEF vars, TypeOK
  <1> QED
    BY Zenon, <1>1, <1>2, <1>3, <1>4, <1>5, <1>6, <1>7, NextSteps

\* Messages, holders and handlers keep their types, and only holders have a lease
\* that can have run out (semValue.Holders), for every number of jobs, handlers
\* and processes.
THEOREM TypeCorrect == Spec => []TypeOK
  BY TypeInit, TypeNext, PTL DEF Spec

----------------------------------------------------------------------------
(* Where the steps lead. *)

\* Handler h goes to pc with its message, or is done.
To(h, pc) ==
    /\ Shape(h) /\ at'[h] \in HandlerType /\ at'[h].pc = pc /\ at'[h].how = at[h].how /\ at'[h].next = at[h].next
Done(h) == Shape(h) /\ at'[h] = Idle

LEMMA Leads ==
    ASSUME TypeOK, NEW h \in Handlers, HandlerStep(h)
    PROVE  /\ Read(h) => To(h, "exhaust") \/ To(h, "get") \/ To(h, "bad")
           /\ AcquireFails(h) => To(h, "busy") \/ To(h, "wait")
           /\ Granted(h) => To(h, "run")
           /\ Conflict(h) => To(h, "get") \/ To(h, "busy") \/ To(h, "wait")
           /\ GrantUnseen(h) => To(h, "get")
           /\ Released(h) => To(h, "release") \/ Done(h)
           /\ TurnAway(h) => To(h, "handback")
           /\ Wait(h) => To(h, "get") \/ To(h, "handback")
           /\ HandBack(h) => To(h, "handed")
           /\ Finish(h) \/ Stop(h) => To(h, "ack")
           /\ FinishFails(h) \/ Ack(h) => To(h, "release")
           /\ ReadFails(h) \/ ReleaseFails(h) \/ Handed(h) \/ Exhausted(h) \/ Bad(h) => Done(h)
           /\ GiveUpUnsent(h) \/ GiveUpFails(h) => Done(h)
  <1>0. Busy(h)
    BY Zenon, StepShape DEF Shape
  <1>1. ASSUME NEW pc \in Pcs, Goes(h, pc) PROVE To(h, pc)
    BY Zenon, <1>0, <1>1, MovesShape DEF To
  <1>2. Ends(h) => Done(h)
    BY Zenon, <1>0, EndsShape DEF Done
  <1>3. Refused(h) => To(h, "busy") \/ To(h, "wait")
    BY Zenon, <1>1 DEF Refused, Pcs
  <1> USE DEF Pcs
  <1>4. Read(h) => To(h, "exhaust") \/ To(h, "get") \/ To(h, "bad")
    BY Zenon, <1>1 DEF Read
  <1>5. AcquireFails(h) => To(h, "busy") \/ To(h, "wait")
    BY Zenon, <1>3 DEF AcquireFails
  <1>6. (Granted(h) => To(h, "run")) /\ (GrantUnseen(h) => To(h, "get"))
    BY Zenon, <1>1 DEF Granted, GrantUnseen
  <1>7. Conflict(h) => To(h, "get") \/ To(h, "busy") \/ To(h, "wait")
    BY Zenon, <1>1, <1>3 DEF Conflict
  <1>8. Released(h) => To(h, "release") \/ Done(h)
    BY Zenon, <1>1, <1>2 DEF Released
  <1>9. (TurnAway(h) => To(h, "handback")) /\ (Wait(h) => To(h, "get") \/ To(h, "handback"))
    BY Zenon, <1>1 DEF TurnAway, Wait
  <1>10. (HandBack(h) => To(h, "handed")) /\ (Finish(h) \/ Stop(h) => To(h, "ack"))
    BY Zenon, <1>1 DEF HandBack, Finish, Stop
  <1>11. FinishFails(h) \/ Ack(h) => To(h, "release")
    BY Zenon, <1>1 DEF FinishFails, Ack
  <1>12. ReadFails(h) \/ ReleaseFails(h) \/ Handed(h) \/ Exhausted(h) \/ Bad(h) => Done(h)
    BY Zenon, <1>2 DEF ReadFails, ReleaseFails, Handed, Exhausted, Bad
  <1>13. GiveUpUnsent(h) \/ GiveUpFails(h) => Done(h)
    BY Zenon, <1>2 DEF GiveUpUnsent, GiveUpFails
  <1> QED
    BY Zenon, <1>4, <1>5, <1>6, <1>7, <1>8, <1>9, <1>10, <1>11, <1>12, <1>13

LEMMA LeadsElse ==
    ASSUME TypeOK, NEW h \in Handlers, HandlerStep(h)
    PROVE  /\ Acquire(h) => \/ To(h, "busy") /\ at[h].how = "first"
                            \/ To(h, "wait") /\ at[h].how # "first"
                            \/ /\ Shape(h) /\ at'[h] \in HandlerType /\ at'[h].pc = "cas" /\ at'[h].how = at[h].how
                               /\ Acquirable(JobAt(h)) /\ at'[h].next = (sem \ lapsed) \cup {JobAt(h)}
           /\ Release(h) => /\ Shape(h) /\ at'[h] \in HandlerType /\ at'[h].pc = "relcas" /\ at'[h].how = at[h].how
                            /\ at'[h].next = sem \ {JobAt(h)}
           /\ Claim(h) => Shape(h) /\ at'[h] \in HandlerType /\ at'[h].pc = "get" /\ at'[h].how = "waiter"
           /\ HandBackFails(h) =>
                 \/ Shape(h) /\ at'[h] \in HandlerType /\ at'[h].pc = "get" /\ at'[h].how = "kept" /\ at[h].how = "first"
                 \/ Done(h) /\ at[h].how # "first"
  <1>0. Busy(h) /\ JobAt(h) \in Jobs /\ at[h].next \subseteq Jobs /\ at[h].how \in {"first", "waiter", "kept"}
    BY Zenon, StepShape, JobInHand DEF Shape
  <1> USE DEF Pcs
  <1>1. Acquire(h) => \/ To(h, "busy") /\ at[h].how = "first"
                      \/ To(h, "wait") /\ at[h].how # "first"
                      \/ /\ Shape(h) /\ at'[h] \in HandlerType /\ at'[h].pc = "cas" /\ at'[h].how = at[h].how
                         /\ Acquirable(JobAt(h)) /\ at'[h].next = (sem \ lapsed) \cup {JobAt(h)}
    <2> DEFINE N == (sem \ lapsed) \cup {JobAt(h)}
    <2>1. N \in SUBSET Jobs
      BY Zenon, <1>0 DEF TypeOK
    <2>2. CASE Acquirable(JobAt(h))
      <3>1. Acquire(h) => at' = [at EXCEPT ![h].pc = "cas", ![h].next = N]
        BY Zenon, <2>2 DEF Acquire
      <3> HIDE DEF N
      <3>2. Acquire(h) => /\ Shape(h) /\ at'[h] \in HandlerType /\ at'[h].pc = "cas"
                          /\ at'[h].how = at[h].how /\ at'[h].next = N
        BY Zenon, <1>0, <2>1, <3>1, SetsNext
      <3> QED
        BY Zenon, <2>2, <3>2 DEF N
    <2>3. CASE ~Acquirable(JobAt(h)) /\ at[h].how = "first"
      BY Zenon, <1>0, <2>3, MovesShape DEF Acquire, Refused, To
    <2>4. CASE ~Acquirable(JobAt(h)) /\ at[h].how # "first"
      BY Zenon, <1>0, <2>4, MovesShape DEF Acquire, Refused, To
    <2> QED
      BY Zenon, <2>2, <2>3, <2>4
  <1>2. Release(h) => /\ Shape(h) /\ at'[h] \in HandlerType /\ at'[h].pc = "relcas" /\ at'[h].how = at[h].how
                      /\ at'[h].next = sem \ {JobAt(h)}
    <2> DEFINE N == sem \ {JobAt(h)}
    <2>1. N \in SUBSET Jobs /\ "relcas" \in Pcs
      BY Zenon DEF TypeOK
    <2>2. Release(h) => at' = [at EXCEPT ![h].pc = "relcas", ![h].next = N]
      BY Zenon DEF Release
    <2> HIDE DEF N
    <2>3. Release(h) => /\ Shape(h) /\ at'[h] \in HandlerType /\ at'[h].pc = "relcas"
                        /\ at'[h].how = at[h].how /\ at'[h].next = N
      BY Zenon, <1>0, <2>1, <2>2, SetsNext
    <2> QED
      BY Zenon, <2>3 DEF N
  <1>3. Claim(h) => Shape(h) /\ at'[h] \in HandlerType /\ at'[h].pc = "get" /\ at'[h].how = "waiter"
    BY Zenon, <1>0, SetsHow DEF Claim
  <1>4. HandBackFails(h) =>
           \/ Shape(h) /\ at'[h] \in HandlerType /\ at'[h].pc = "get" /\ at'[h].how = "kept" /\ at[h].how = "first"
           \/ Done(h) /\ at[h].how # "first"
    BY Zenon, <1>0, SetsHow, EndsShape DEF HandBackFails, Done
  <1> QED
    BY Zenon, <1>1, <1>2, <1>3, <1>4

\* The same without the records: the places a step leads to.
LEMMA Places ==
    ASSUME TypeOK, NEW h \in Handlers, HandlerStep(h)
    PROVE  /\ Read(h) => at'[h].pc \in {"exhaust", "get", "bad"}
           /\ AcquireFails(h) => at'[h].pc \in {"busy", "wait"}
           /\ Granted(h) => at'[h].pc = "run"
           /\ Conflict(h) => at'[h].pc \in {"get", "busy", "wait"}
           /\ GrantUnseen(h) \/ Claim(h) => at'[h].pc = "get"
           /\ Released(h) => at'[h].pc \in {"release", "idle"}
           /\ TurnAway(h) => at'[h].pc = "handback"
           /\ Wait(h) => at'[h].pc \in {"get", "handback"}
           /\ HandBack(h) => at'[h].pc = "handed"
           /\ HandBackFails(h) => at'[h].pc \in {"get", "idle"}
           /\ Acquire(h) => at'[h].pc \in {"busy", "wait", "cas"}
           /\ Release(h) => at'[h].pc = "relcas"
           /\ Finish(h) \/ Stop(h) => at'[h].pc = "ack"
           /\ FinishFails(h) \/ Ack(h) => at'[h].pc = "release"
           /\ ReadFails(h) \/ ReleaseFails(h) \/ Handed(h) \/ Exhausted(h) \/ Bad(h) => at'[h].pc = "idle"
           /\ GiveUpUnsent(h) \/ GiveUpFails(h) => at'[h].pc = "idle"
  <1>1. /\ \A pc : To(h, pc) => at'[h].pc = pc
        /\ Done(h) => at'[h].pc = "idle"
    BY Zenon, IdlePc DEF To, Done
  <1>2. /\ GrantUnseen(h) => at'[h].pc = "get"
        /\ Claim(h) => at'[h].pc = "get"
        /\ HandBackFails(h) => at'[h].pc \in {"get", "idle"}
        /\ Release(h) => at'[h].pc = "relcas"
        /\ Acquire(h) => at'[h].pc \in {"busy", "wait", "cas"}
    BY Zenon, <1>1, Leads, LeadsElse
  <1> QED
    BY Zenon, <1>1, <1>2, Leads

\* The other steps give a handler a message, end it or leave it alone.
LEMMA AtElse ==
    ASSUME TypeOK, [Next]_vars, ~\E h \in Handlers : HandlerStep(h)
    PROVE  \A h \in Handlers : \/ at'[h] = at[h]
                               \/ at'[h] = Idle
                               \/ at'[h].pc = "read" /\ at'[h].how = "first"
  <1>1. CASE \E g \in Handlers, m \in Msgs : Deliver(g, m)
    <2> PICK g \in Handlers, m \in Msgs : Deliver(g, m)
      BY Zenon, <1>1
    <2> DEFINE r == [pc |-> "read", msg |-> m, how |-> "first", next |-> {}]
    <2>1. at'[g] = r /\ \A h \in Handlers : h # g => at'[h] = at[h]
      BY Zenon DEF Deliver, TypeOK
    <2>2. r.pc = "read" /\ r.how = "first"
      BY Zenon
    <2> HIDE DEF r
    <2> QED
      BY Zenon, <2>1, <2>2
  <1>2. CASE \E p \in Procs : Crash(p)
    BY Zenon, <1>2 DEF Crash
  <1>3. CASE at' = at
    BY Zenon, <1>3
  <1>4. \/ \E g \in Handlers, m \in Msgs : Deliver(g, m)
        \/ \E p \in Procs : Crash(p)
        \/ at' = at
    BY Zenon, NextSteps DEF Renew, Expire, Fire, Obsolete, Lapse, Shutdown, vars
  <1> QED
    BY Zenon, <1>1, <1>2, <1>3, <1>4

\* Which steps lead to a place.
LEMMA Arrivals ==
    ASSUME TypeOK, NEW h \in Handlers, HandlerStep(h)
    PROVE  /\ at'[h].pc = "handed" => HandBack(h)
           /\ at'[h].pc = "ack" => Finish(h) \/ Stop(h)
           /\ at'[h].pc = "run" => Granted(h)
           /\ at'[h].pc = "cas" => Acquire(h)
           /\ at'[h].pc = "relcas" => Release(h)
           /\ at'[h].pc = "release" => FinishFails(h) \/ Ack(h) \/ Released(h)
           /\ at'[h].pc = "idle" => Done(h)
           /\ at'[h].pc = "idle" => \/ ReadFails(h) \/ Released(h) \/ ReleaseFails(h) \/ Handed(h)
                                    \/ HandBackFails(h) \/ Exhausted(h) \/ Bad(h) \/ GiveUpUnsent(h) \/ GiveUpFails(h)
  <1>1. at'[h].pc = "idle" => Done(h)
    <2>1. Shape(h) /\ (at'[h] \in HandlerType => at'[h].pc # "idle")
      BY Zenon, StepShape, Records DEF Shape, AtType
    <2> QED
      BY Zenon, <2>1 DEF Shape, Done
  <1> QED
    BY Zenon, <1>1, Places DEF HandlerStep

----------------------------------------------------------------------------
(* No job is dropped. *)

Answered(j) == j \in results \cup unwanted \cup dlq \cup unread

\* A message that brings its job back, whatever becomes of it: nobody who works
\* on it has scheduled a copy and is about to acknowledge it.
Pending(m) == queue[m] # "none" /\ \A h \in Handlers : Works(h, m) => at[h].pc # "handed"

\* NoJobDropped does not say why an acknowledged message is not missed. A handler
\* that has handed its job back acknowledges a message that is not pending any
\* more, one that has run it acknowledges the message of an answered job.
DropInv ==
    /\ dlq \subseteq results
    /\ \A h \in Handlers : at[h].pc = "ack" => JobAt(h) \in results \cup unwanted
    /\ \A j \in Jobs : Answered(j) \/ j \in delayed \/ \E m \in Msgs : JobOf(m) = j /\ Pending(m)

LEMMA DropInit ==
    ASSUME Init
    PROVE  DropInv
  <1>1. \A j \in Jobs : <<j, 1>> \in Msgs /\ JobOf(<<j, 1>>) = j
    BY WorkerAssumption DEF Msgs, JobOf
  <1>2. \A m \in Msgs, h \in Handlers : ~Works(h, m)
    BY Zenon DEF Init, Works, Busy, Idle
  <1>3. \A h \in Handlers : at[h].pc # "ack"
    BY Zenon DEF Init, Idle
  <1>4. \A j \in Jobs : Pending(<<j, 1>>)
    BY Zenon, <1>1, <1>2 DEF Init, Pending
  <1> QED
    BY Zenon, <1>1, <1>3, <1>4 DEF Init, DropInv

\* The bookkeeping of a step: what it answers, schedules and acknowledges.
LEMMA Books ==
    ASSUME NEW h \in Handlers, HandlerStep(h), dlq \subseteq results
    PROVE  /\ dlq' \subseteq results' /\ results \subseteq results' /\ unwanted' = unwanted /\ dlq \subseteq dlq'
           /\ unread \subseteq unread' /\ delayed \subseteq delayed'
           /\ queue' = queue \/ (Gone(at[h].msg) /\ (Handed(h) \/ Ack(h) \/ Exhausted(h) \/ Bad(h)))
  BY Zenon DEF HandlerStep, Read, ReadFails, Acquire, AcquireFails, Granted, Conflict, GrantUnseen, Release,
         Released, ReleaseFails, Claim, TurnAway, Wait, HandBack, Handed, HandBackFails, Finish, Stop, FinishFails,
         Ack, Exhausted, Bad, GiveUpUnsent, GiveUpFails

LEMMA DropHandler ==
    ASSUME TypeOK, DropInv, NEW h \in Handlers, HandlerStep(h)
    PROVE  DropInv'
  <1> PICK m0 \in Msgs, j0 \in Jobs : m0 = at[h].msg /\ j0 = JobAt(h) /\ j0 = JobOf(m0)
    BY Zenon, StepShape, JobInHand DEF Shape, JobAt
  <1>0. Shape(h) /\ Busy(h)
    BY Zenon, StepShape DEF Shape
  <1>1. /\ dlq' \subseteq results' /\ results \subseteq results' /\ unwanted' = unwanted /\ dlq \subseteq dlq'
        /\ unread \subseteq unread' /\ delayed \subseteq delayed'
        /\ queue' = queue \/ (Gone(m0) /\ (Handed(h) \/ Ack(h) \/ Exhausted(h) \/ Bad(h)))
    BY Zenon, Books DEF DropInv
  <1>2. \A m \in Msgs \ {m0} : Pending(m) => Pending(m)'
    <2> TAKE m \in Msgs \ {m0}
    <2>1. queue'[m] = queue[m]
      BY Zenon, <1>0, <1>1 DEF Gone, TypeOK
    <2>2. \A g \in Handlers : Works(g, m)' => g # h /\ Works(g, m) /\ at'[g] = at[g]
      BY Zenon, <1>0, IdlePc DEF Works, Busy, Shape
    <2> QED
      BY Zenon, <2>1, <2>2 DEF Pending
  <1>3. Pending(m0) => Pending(m0)' \/ j0 \in delayed' \/ Answered(j0)'
    <2>1. CASE HandBack(h)
      BY Zenon, <2>1 DEF HandBack
    <2>2. CASE Handed(h)
      BY Zenon, <1>0, <2>2 DEF Handed, Pending, Works
    <2>3. CASE Exhausted(h) \/ Bad(h) \/ Ack(h)
      <3>1. CASE Exhausted(h)
        BY Zenon, <1>0, <1>1, <3>1 DEF Answered, Exhausted
      <3>2. CASE Bad(h)
        BY Zenon, <1>0, <1>1, <3>2 DEF Answered, Bad
      <3>3. CASE Ack(h)
        <4>1. j0 \in results \cup unwanted
          BY Zenon, <3>3 DEF DropInv, Ack
        <4> QED
          BY Zenon, <1>1, <4>1 DEF Answered
      <3> QED
        BY Zenon, <2>3, <3>1, <3>2, <3>3
    <2>4. CASE queue' = queue /\ ~HandBack(h)
      <3>1. at'[h].pc # "handed"
        BY Zenon, <2>4, Arrivals
      <3>2. \A g \in Handlers \ {h} : Works(g, m0)' => Works(g, m0) /\ at'[g] = at[g]
        BY Zenon, <1>0 DEF Works, Busy, Shape
      <3> QED
        BY Zenon, <2>4, <3>1, <3>2 DEF Pending
    <2> QED
      BY Zenon, <1>1, <2>1, <2>2, <2>3, <2>4
  <1>4. ASSUME NEW g \in Handlers, at'[g].pc = "ack" PROVE JobAt(g)' \in results' \cup unwanted'
    <2>1. CASE g # h
      BY Zenon, <1>0, <1>1, <1>4, <2>1 DEF Shape, JobAt, DropInv
    <2>2. CASE g = h
      <3>1. Finish(h) \/ Stop(h)
        BY Zenon, <1>4, <2>2, Arrivals
      <3>2. JobAt(h)' = JobAt(h)
        BY Zenon, <1>0, <1>4, <2>2, IdlePc DEF Shape, JobAt
      <3> QED
        BY Zenon, <2>2, <3>1, <3>2 DEF Finish, Stop
    <2> QED
      BY Zenon, <2>1, <2>2
  <1>5. ASSUME NEW j \in Jobs PROVE (Answered(j) \/ j \in delayed \/ \E m \in Msgs : JobOf(m) = j /\ Pending(m))'
    <2>1. CASE Answered(j) \/ j \in delayed
      BY Zenon, <1>1, <2>1 DEF Answered
    <2>2. CASE \E m \in Msgs : JobOf(m) = j /\ Pending(m)
      BY Zenon, <1>2, <1>3, <2>2
    <2> QED
      BY Zenon, <2>1, <2>2 DEF DropInv
  <1> QED
    BY Zenon, <1>1, <1>4, <1>5 DEF DropInv

\* What the other steps do to the messages: a pending one stays pending.
LEMMA StaysPending ==
    ASSUME NEW m \in Msgs, Pending(m), queue'[m] # "none",
           \A h \in Handlers : at'[h] = at[h] \/ at'[h] = Idle \/ at'[h].pc = "read"
    PROVE  Pending(m)'
  BY Zenon, IdlePc DEF Pending, Works, Busy

LEMMA DropNext ==
    ASSUME TypeOK, DropInv, [Next]_vars
    PROVE  DropInv'
  <1>1. CASE \E h \in Handlers : HandlerStep(h)
    BY Zenon, <1>1, DropHandler
  <1>2. CASE \E m \in Msgs : Fire(m)
    <2> PICK m \in Msgs : Fire(m)
      BY Zenon, <1>2
    <2>1. Pending(m)' /\ \A n \in Msgs : Pending(n) => Pending(n)'
      BY Zenon DEF Fire, TypeOK, Pending, Works, Busy
    <2>2. ASSUME NEW j \in Jobs PROVE (Answered(j) \/ j \in delayed \/ \E n \in Msgs : JobOf(n) = j /\ Pending(n))'
      BY Zenon, <2>1 DEF Fire, DropInv, Answered
    <2> QED
      BY Zenon, <2>2 DEF Fire, DropInv, JobAt
  <1>3. CASE \/ \E h \in Handlers : Renew(h) \/ (\E m \in Msgs : Deliver(h, m))
             \/ \E m \in Msgs : Expire(m)
             \/ \E j \in Jobs : Obsolete(j) \/ Lapse(j)
             \/ \E p \in Procs : Shutdown(p) \/ Crash(p)
             \/ UNCHANGED vars
    <2>1. /\ \A h \in Handlers : at'[h] = at[h] \/ at'[h] = Idle \/ at'[h].pc = "read"
          /\ \A m \in Msgs : queue[m] # "none" => queue'[m] # "none"
          /\ delayed' = delayed /\ results' = results /\ dlq' = dlq /\ unread' = unread /\ unwanted \subseteq unwanted'
      BY SMTT(30), <1>3 DEF Renew, Deliver, Expire, Obsolete, Lapse, Shutdown, Crash, vars, TypeOK
    <2>2. \A m \in Msgs : Pending(m) => Pending(m)'
      BY Zenon, <2>1, StaysPending DEF Pending
    <2>3. ASSUME NEW j \in Jobs PROVE (Answered(j) \/ j \in delayed \/ \E n \in Msgs : JobOf(n) = j /\ Pending(n))'
      BY Zenon, <2>1, <2>2 DEF DropInv, Answered
    <2>4. ASSUME NEW h \in Handlers, at'[h].pc = "ack" PROVE JobAt(h)' \in results' \cup unwanted'
      BY Zenon, <2>1, <2>4, IdlePc DEF DropInv, JobAt
    <2> QED
      BY Zenon, <2>1, <2>3, <2>4 DEF DropInv
  <1> QED
    BY Zenon, <1>1, <1>2, <1>3, NextSteps

\* A job is never dropped: until it is answered, unwanted or a dead letter there is
\* a message or a schedule for it, and the attempt of a dead letter has failed
\* (handle, handBack, exhausted) -- for any number of jobs, handlers, processes and
\* faults, with late heartbeats, lost acks, second deliveries and lapsed leases.
THEOREM NoJobIsDropped == Spec => []NoJobDropped
  <1>1. DropInv => NoJobDropped
    BY Zenon DEF DropInv, NoJobDropped, Answered, Pending
  <1> QED
    BY <1>1, TypeInit, TypeNext, DropInit, DropNext, PTL DEF Spec

----------------------------------------------------------------------------
(* A busy key costs no delivery. *)

\* A message that will be delivered again if it is not acknowledged soon: nobody
\* works on it but to release the slot.
Abandoned(m) ==
    \/ queue[m] = "ready"
    \/ queue[m] = "out" /\ \A h \in Handlers : Works(h, m) => at[h].pc \in {"release", "relcas"}

\* BusyIsFree bounds the deliveries after the fact. Before one, a fault must have
\* paid for it: by the time a message is abandoned.
FreeInv ==
    \A m \in Msgs : delivered[m] <= faults + 1 /\ (Abandoned(m) => delivered[m] <= faults)

LEMMA Charges ==
    ASSUME TypeOK, NEW h \in Handlers, HandlerStep(h)
    PROVE  /\ delivered' = delivered /\ (faults' = faults \/ faults' = faults + 1)
           /\ faults' = faults /\ queue' = queue => ~(Handed(h) \/ Ack(h) \/ Exhausted(h) \/ Bad(h)) \/ queue[at[h].msg] = "none"
           /\ ReadFails(h) \/ ReleaseFails(h) \/ HandBackFails(h) \/ FinishFails(h) \/ GiveUpUnsent(h) \/ GiveUpFails(h)
                 => faults' = faults + 1
  <1>1. at[h].msg \in Msgs
    BY Zenon, StepShape, JobInHand DEF Shape
  <1>2. faults + 1 # faults
    BY DEF TypeOK
  <1>3. delivered' = delivered /\ (faults' = faults \/ faults' = faults + 1)
    BY Zenon DEF HandlerStep, Read, ReadFails, Acquire, AcquireFails, Granted, Conflict, GrantUnseen, Release,
           Released, ReleaseFails, Claim, TurnAway, Wait, HandBack, Handed, HandBackFails, Finish, Stop, FinishFails,
           Ack, Exhausted, Bad, GiveUpUnsent, GiveUpFails, Failing
  <1>4. (Handed(h) \/ Ack(h) \/ Exhausted(h) \/ Bad(h)) /\ faults' = faults => queue'[at[h].msg] = "none"
    BY Zenon, <1>1, <1>2 DEF Handed, Ack, Exhausted, Bad, Gone, TypeOK, Failing
  <1>5. ReadFails(h) \/ ReleaseFails(h) \/ HandBackFails(h) \/ FinishFails(h) \/ GiveUpUnsent(h) \/ GiveUpFails(h)
           => faults' = faults + 1
    BY Zenon DEF ReadFails, ReleaseFails, HandBackFails, FinishFails, GiveUpUnsent, GiveUpFails, Failing
  <1> QED
    BY Zenon, <1>3, <1>4, <1>5

LEMMA FreeHandler ==
    ASSUME TypeOK, DropInv, FreeInv, NEW h \in Handlers, HandlerStep(h)
    PROVE  FreeInv'
  <1> PICK m0 \in Msgs : m0 = at[h].msg
    BY Zenon, StepShape, JobInHand DEF Shape
  <1>0. Shape(h) /\ Busy(h)
    BY Zenon, StepShape DEF Shape
  <1>1. \A m \in Msgs : delivered'[m] = delivered[m] /\ delivered[m] \in Nat /\ faults \in Nat
    BY Zenon, Charges DEF TypeOK
  <1>2. CASE faults' = faults + 1
    BY <1>1, <1>2 DEF FreeInv
  <1>3. CASE faults' = faults /\ faults' # faults + 1
    <2>1. ASSUME NEW m \in Msgs, Abandoned(m)', m # m0 PROVE Abandoned(m)
      <3>1. queue'[m] = queue[m]
        BY Zenon, <2>1, Books DEF Gone, TypeOK, DropInv
      <3>2. \A g \in Handlers : Works(g, m) => g # h /\ Works(g, m)' /\ at'[g] = at[g]
        BY Zenon, <1>0, <2>1 DEF Works, Busy, Shape
      <3> QED
        BY Zenon, <2>1, <3>1, <3>2 DEF Abandoned
    <2>2. ASSUME Abandoned(m0)' PROVE Abandoned(m0)
      <3>1. queue' = queue
        BY Zenon, <2>2, Books DEF Gone, TypeOK, DropInv, Abandoned
      <3>2. ~(Handed(h) \/ Ack(h) \/ Exhausted(h) \/ Bad(h))
        BY Zenon, <1>3, <2>2, <3>1, Charges DEF Abandoned
      <3>3. at'[h].pc \in {"idle", "release", "relcas"} => Released(h) \/ Release(h)
        BY Zenon, <1>3, <3>2, Arrivals, Charges
      <3>4. Released(h) \/ Release(h) => at[h].pc \in {"release", "relcas"}
        BY Zenon DEF Released, Release
      <3>5. at'[h].pc # "idle" => Works(h, m0)'
        BY Zenon, <1>0, IdlePc DEF Shape, Works, Busy
      <3>6. \A g \in Handlers \ {h} : Works(g, m0) => Works(g, m0)' /\ at'[g] = at[g]
        BY Zenon, <1>0 DEF Works, Busy, Shape
      <3> QED
        BY Zenon, <2>2, <3>1, <3>3, <3>4, <3>5, <3>6 DEF Abandoned
    <2> QED
      BY Zenon, <1>1, <1>3, <2>1, <2>2 DEF FreeInv
  <1> QED
    BY Zenon, <1>1, <1>2, <1>3, Charges

LEMMA FreeNext ==
    ASSUME TypeOK, DropInv, FreeInv, [Next]_vars
    PROVE  FreeInv'
  <1>0. \A m \in Msgs : delivered[m] \in Nat /\ faults \in Nat
    BY Zenon DEF TypeOK
  <1>1. CASE \E h \in Handlers : HandlerStep(h)
    BY Zenon, <1>1, FreeHandler
  <1>2. CASE \E p \in Procs : Crash(p)
    BY <1>0, <1>2 DEF Crash, Failing, FreeInv
  <1>3. CASE \E h \in Handlers, m \in Msgs : Deliver(h, m)
    <2> PICK h \in Handlers, m \in Msgs : Deliver(h, m)
      BY Zenon, <1>3
    <2>1. /\ delivered' = [delivered EXCEPT ![m] = @ + 1] /\ queue' = [queue EXCEPT ![m] = "out"] /\ faults' = faults
          /\ at'[h].pc = "read" /\ at'[h].msg = m /\ ~Busy(h) /\ \A g \in Handlers \ {h} : at'[g] = at[g]
      BY Zenon DEF Deliver, TypeOK
    <2>2. ~Abandoned(m)'
      BY Zenon, <2>1 DEF Abandoned, Works, Busy, TypeOK
    <2>3. ASSUME NEW n \in Msgs, n # m, Abandoned(n)' PROVE Abandoned(n)
      BY Zenon, <2>1, <2>3 DEF Abandoned, Works, Busy, TypeOK
    <2>4. delivered[m] <= faults
      BY Zenon DEF Deliver, Abandoned, FreeInv
    <2> QED
      BY <1>0, <2>1, <2>2, <2>3, <2>4 DEF FreeInv, TypeOK
  <1>4. CASE \E m \in Msgs : Expire(m)
    <2> PICK m \in Msgs : Expire(m)
      BY Zenon, <1>4
    <2>1. CASE faults' = faults + 1
      BY <1>0, <2>1 DEF Expire, FreeInv
    <2>2. CASE \A h \in Handlers : ~Works(h, m)
      <3>1. ASSUME NEW n \in Msgs, Abandoned(n)' PROVE Abandoned(n)
        BY Zenon, <2>2, <3>1 DEF Expire, Abandoned, Works, Busy, TypeOK
      <3>2. faults' = faults \/ faults' = faults + 1
        BY Zenon DEF Expire, Failing
      <3> QED
        BY <1>0, <3>1, <3>2 DEF Expire, FreeInv
    <2> QED
      BY Zenon, <2>1, <2>2 DEF Expire, Failing
  <1>5. CASE \E m \in Msgs : Fire(m)
    <2> PICK m \in Msgs : Fire(m)
      BY Zenon, <1>5
    <2>1. ASSUME NEW n \in Msgs, n # m, Abandoned(n)' PROVE Abandoned(n)
      BY Zenon, <2>1 DEF Fire, Abandoned, Works, Busy, TypeOK
    <2> QED
      BY <1>0, <2>1 DEF Fire, FreeInv, TypeOK
  <1>6. CASE \/ \E h \in Handlers : Renew(h)
             \/ \E j \in Jobs : Obsolete(j) \/ Lapse(j)
             \/ \E p \in Procs : Shutdown(p)
             \/ UNCHANGED vars
    <2>1. delivered' = delivered /\ queue' = queue /\ at' = at /\ (faults' = faults \/ faults' = faults + 1)
      BY Zenon, <1>6 DEF Renew, Obsolete, Lapse, Shutdown, vars, Failing
    <2> QED
      BY <1>0, <2>1 DEF FreeInv, Abandoned, Works, Busy
  <1> QED
    BY Zenon, <1>1, <1>2, <1>3, <1>4, <1>5, <1>6, NextSteps

\* A busy key costs no delivery attempts: a message is delivered again only after
\* something failed, however many jobs wait for the key and however long (slot,
\* handBack) -- so a limit never turns a healthy job into a dead letter.
THEOREM BusyKeyIsFree == Spec => []BusyIsFree
  <1>1. Init => FreeInv
    BY DEF Init, FreeInv
  <1>2. FreeInv => BusyIsFree
    BY Zenon DEF FreeInv, BusyIsFree
  <1> QED
    BY <1>1, <1>2, TypeInit, TypeNext, DropInit, DropNext, FreeNext, PTL DEF Spec

----------------------------------------------------------------------------
(* One waiter per process. *)

\* The designated waiter of a process, from claimWaiter to the deferred release.
Seeking == {"get", "cas", "busy", "wait", "handback", "handed"}
Waiter(h) == at[h].pc \in Seeking /\ at[h].how = "waiter"
Kept == {h \in Handlers : Busy(h) /\ at[h].how = "kept"}

\* OneWaiter counts handlers; that there is one of them comes from the claim,
\* which belongs to one handler from the claim to its release.
WaitInv ==
    /\ \A h \in Handlers : Waiter(h) => ProcOf[h] \in waiting
    /\ \A g, h \in Handlers : Waiter(g) /\ Waiter(h) /\ ProcOf[g] = ProcOf[h] => g = h
    /\ \A h \in Handlers : (at[h].pc = "wait" => at[h].how # "first") /\ (at[h].pc = "read" => at[h].how = "first")
    /\ IsFiniteSet(Kept) /\ Cardinality(Kept) <= faults

LEMMA OneMore ==
    ASSUME NEW S, IsFiniteSet(S), NEW x, NEW T \in SUBSET (S \cup {x})
    PROVE  IsFiniteSet(T) /\ Cardinality(T) \in Nat /\ Cardinality(S) \in Nat /\ Cardinality(T) <= Cardinality(S) + 1
  <1> DEFINE U == S \cup {x}
  <1>1. Cardinality(S) \in Nat
    BY Zenon, FS_CardinalityType
  <1>2. IsFiniteSet(U) /\ (Cardinality(U) = Cardinality(S) \/ Cardinality(U) = Cardinality(S) + 1)
    BY Zenon, FS_AddElement, Zenon
  <1> HIDE DEF U
  <1>3. IsFiniteSet(T) /\ Cardinality(T) <= Cardinality(U)
    BY Zenon, <1>2, FS_Subset, Zenon DEF U
  <1>4. Cardinality(T) \in Nat /\ Cardinality(U) \in Nat
    BY Zenon, <1>2, <1>3, FS_CardinalityType, Zenon
  <1> QED
    BY <1>1, <1>2, <1>3, <1>4

\* How a handler came to wait changes only in slot.
LEMMA HowChanges ==
    ASSUME TypeOK, NEW h \in Handlers, HandlerStep(h), at'[h].pc # "idle"
    PROVE  /\ at'[h].how = at[h].how \/ (Claim(h) /\ at'[h].how = "waiter")
                 \/ (HandBackFails(h) /\ at'[h].how = "kept")
           /\ at'[h].pc = "wait" => at'[h].how # "first"
           /\ at'[h].pc \in Seeking /\ ~Claim(h) => at[h].pc \in Seeking \cup {"read"}
           /\ at'[h].pc # "read"
  <1>0. Busy(h)
    BY Zenon, StepShape DEF Shape
  <1>1. Refused(h) => (at'[h].pc = "wait" => at[h].how # "first")
    <2>1. CASE at[h].how = "first"
      BY Zenon, <1>0, <2>1, MovesShape DEF Refused, Pcs
    <2> QED
      BY Zenon, <2>1
  <1>2. Goes(h, "get") => at'[h].pc = "get"
    BY Zenon, <1>0, MovesShape DEF Pcs
  <1>3. AcquireFails(h) \/ Conflict(h) => (at'[h].pc = "wait" => at[h].how # "first")
    BY Zenon, <1>1, <1>2 DEF AcquireFails, Conflict
  <1>4. at'[h].pc = "wait" => AcquireFails(h) \/ Conflict(h) \/ Acquire(h)
    BY Zenon, Places DEF HandlerStep
  <1>5. at'[h].how = at[h].how \/ (Claim(h) /\ at'[h].how = "waiter") \/ (HandBackFails(h) /\ at'[h].how = "kept")
    <2>1. /\ \A pc : To(h, pc) => at'[h].how = at[h].how
          /\ ~Done(h)
      BY Zenon, IdlePc DEF To, Done
    <2>2. /\ Acquire(h) => at'[h].how = at[h].how
          /\ Release(h) => at'[h].how = at[h].how
          /\ Claim(h) => at'[h].how = "waiter"
          /\ HandBackFails(h) => at'[h].how = "kept"
      BY Zenon, <2>1, LeadsElse
    <2>3. CASE Takes(h)
      BY Zenon, <2>1, <2>2, <2>3, Leads DEF Takes
    <2>4. CASE Waits(h)
      BY Zenon, <2>1, <2>2, <2>4, Leads DEF Waits
    <2>5. CASE Finishes(h)
      BY Zenon, <2>1, <2>2, <2>5, Leads DEF Finishes
    <2> QED
      BY Zenon, <2>3, <2>4, <2>5, ThreeGroups
  <1>6. at'[h].pc \in Seeking /\ ~Claim(h) => at[h].pc \in Seeking \cup {"read"}
    <2>1. at'[h].pc \in Seeking =>
             \/ Read(h) \/ Acquire(h) \/ AcquireFails(h) \/ Conflict(h) \/ GrantUnseen(h) \/ TurnAway(h) \/ Wait(h)
             \/ HandBack(h) \/ HandBackFails(h) \/ Claim(h)
      BY Zenon, Places DEF HandlerStep, Seeking
    <2> QED
      BY Zenon, <2>1 DEF Seeking, Read, Acquire, AcquireFails, Conflict, GrantUnseen, TurnAway, Wait, HandBack, HandBackFails
  <1>7. at'[h].pc # "read"
    BY Zenon, Places DEF HandlerStep
  <1>8. at'[h].pc = "wait" => at'[h].how # "first"
    BY Zenon, <1>3, <1>4, <1>5, LeadsElse DEF To
  <1> QED
    BY Zenon, <1>5, <1>6, <1>7, <1>8

\* The claim is taken by Claim and given up when the waiter stops seeking.
LEMMA Claims ==
    ASSUME TypeOK, NEW h \in Handlers, HandlerStep(h)
    PROVE  \/ waiting' = waiting /\ ~Claim(h)
           \/ Claim(h)
           \/ waiting' = Unclaimed(h) /\ at[h].pc \in Seeking /\ at'[h].pc \notin Seeking /\ ~Claim(h)
  <1>1. CASE Granted(h)
    BY Zenon, <1>1, Leads DEF Granted, To, Seeking, Claim
  <1>2. CASE Handed(h)
    BY Zenon, <1>2, Leads, IdlePc DEF Handed, Done, Seeking, Claim
  <1>3. CASE HandBackFails(h)
    <2>1. CASE at[h].how = "first"
      BY Zenon, <1>3, <2>1 DEF HandBackFails, Claim
    <2>2. CASE at[h].how # "first"
      <3>1. at'[h].pc = "idle"
        BY Zenon, <1>3, <2>2, LeadsElse, IdlePc DEF Done
      <3>2. at[h].pc = "handback" /\ waiting' = Unclaimed(h)
        BY Zenon, <1>3, <2>2 DEF HandBackFails
      <3> QED
        BY Zenon, <3>1, <3>2 DEF Seeking, Claim
    <2> QED
      BY Zenon, <2>1, <2>2
  <1> QED
    <2>1. CASE Takes(h)
      BY Zenon, <1>1, <2>1 DEF Takes, Read, ReadFails, Acquire, AcquireFails, Conflict, GrantUnseen, Exhausted, Bad, Claim
    <2>2. CASE Waits(h)
      BY Zenon, <1>2, <1>3, <2>2 DEF Waits, TurnAway, Wait, HandBack, Claim
    <2>3. CASE Finishes(h)
      BY Zenon, <2>3 DEF Finishes, Release, Released, ReleaseFails, Finish, Stop, FinishFails, Ack, GiveUpUnsent, GiveUpFails,
                  Claim
    <2> QED
      BY Zenon, <2>1, <2>2, <2>3, ThreeGroups

LEMMA WaitHandler ==
    ASSUME TypeOK, WaitInv, NEW h \in Handlers, HandlerStep(h)
    PROVE  WaitInv'
  <1>0. Shape(h) /\ \A g \in Handlers \ {h} : at'[g] = at[g]
    BY Zenon, StepShape DEF Shape
  <1>1. \A g \in Handlers \ {h} : (Waiter(g)' <=> Waiter(g)) /\ (Busy(g)' <=> Busy(g))
    BY Zenon, <1>0 DEF Waiter, Busy
  <1>2. Waiter(h)' /\ ~Claim(h) => Waiter(h) /\ waiting' = waiting
    BY Zenon, HowChanges, Claims DEF Waiter, WaitInv, Seeking
  <1>3. ASSUME NEW g \in Handlers, Waiter(g)' PROVE ProcOf[g] \in waiting'
    <2>1. CASE g = h
      BY Zenon, <1>2, <1>3, <2>1 DEF WaitInv, Claim
    <2>2. CASE g # h
      BY Zenon, <1>1, <1>3, <2>2, Claims DEF WaitInv, Claim, Unclaimed, Waiter
    <2> QED
      BY Zenon, <2>1, <2>2
  <1>4. ASSUME NEW f \in Handlers, NEW g \in Handlers, Waiter(f)', Waiter(g)', ProcOf[f] = ProcOf[g] PROVE f = g
    <2>1. CASE Claim(h)
      BY Zenon, <1>1, <1>4, <2>1 DEF WaitInv, Claim
    <2>2. CASE ~Claim(h)
      BY Zenon, <1>1, <1>2, <1>4, <2>2 DEF WaitInv
    <2> QED
      BY Zenon, <2>1, <2>2
  <1>5. ASSUME NEW g \in Handlers
        PROVE  (at'[g].pc = "wait" => at'[g].how # "first") /\ (at'[g].pc = "read" => at'[g].how = "first")
    BY Zenon, <1>0, HowChanges DEF WaitInv
  <1>6. IsFiniteSet(Kept') /\ Cardinality(Kept') <= faults'
    <2>0. faults \in Nat /\ Cardinality(Kept) \in Nat /\ (faults' = faults \/ faults' = faults + 1)
      BY Zenon, Charges, FS_CardinalityType DEF TypeOK, WaitInv
    <2>1. CASE HandBackFails(h)
      <3>1. Kept' \subseteq Kept \cup {h}
        BY Zenon, <1>0 DEF Kept, Busy
      <3>2. IsFiniteSet(Kept') /\ Cardinality(Kept') \in Nat /\ Cardinality(Kept') <= Cardinality(Kept) + 1
        BY Zenon, <3>1, OneMore DEF WaitInv
      <3> QED
        BY SMTT(30), <2>0, <2>1, <3>2, Charges DEF WaitInv
    <2>2. CASE ~HandBackFails(h)
      <3>1. Kept' \subseteq Kept
        <4> SUFFICES ASSUME NEW g \in Handlers, Busy(g)', at'[g].how = "kept" PROVE Busy(g) /\ at[g].how = "kept"
          BY Zenon DEF Kept
        <4> QED
          BY Zenon, <1>0, <2>2, HowChanges DEF Busy, Shape
      <3>2. IsFiniteSet(Kept') /\ Cardinality(Kept') <= Cardinality(Kept)
        BY Zenon, <3>1, FS_Subset DEF WaitInv
      <3>3. Cardinality(Kept') \in Nat
        BY Zenon, <3>2, FS_CardinalityType
      <3> QED
        BY <2>0, <3>2, <3>3 DEF WaitInv
    <2> QED
      BY Zenon, <2>1, <2>2
  <1> QED
    BY Zenon, <1>3, <1>4, <1>5, <1>6 DEF WaitInv

LEMMA WaitNext ==
    ASSUME TypeOK, WaitInv, [Next]_vars
    PROVE  WaitInv'
  <1>1. CASE \E h \in Handlers : HandlerStep(h)
    BY Zenon, <1>1, WaitHandler
  <1>2. CASE ~\E h \in Handlers : HandlerStep(h)
    <2>0. faults \in Nat /\ Cardinality(Kept) \in Nat
      BY Zenon, FS_CardinalityType DEF TypeOK, WaitInv
    <2>1. /\ \A h \in Handlers : \/ at'[h] = at[h]
                                 \/ at'[h] = Idle
                                 \/ at'[h].pc = "read" /\ at'[h].how = "first"
          /\ faults' = faults \/ faults' = faults + 1
          /\ waiting' = waiting \/ \E p \in Procs : Crash(p)
      <3>1. /\ faults' = faults \/ faults' = faults + 1
            /\ waiting' = waiting \/ \E p \in Procs : Crash(p)
        BY Zenon, <1>2, NextSteps DEF Renew, Deliver, Expire, Fire, Obsolete, Lapse, Shutdown, Crash, vars, Failing
      <3> QED
        BY Zenon, <1>2, <3>1, AtElse
    <2>2. \A h \in Handlers : Waiter(h)' => Waiter(h) /\ at'[h] = at[h]
      BY Zenon, <2>1, IdlePc DEF Waiter, Seeking
    <2>3. ASSUME NEW h \in Handlers, Waiter(h)' PROVE ProcOf[h] \in waiting'
      <3>1. CASE \E p \in Procs : Crash(p)
        BY Zenon, <2>2, <2>3, <3>1, IdlePc DEF Crash, WaitInv, Waiter, Seeking
      <3> QED
        BY Zenon, <2>1, <2>2, <2>3, <3>1 DEF WaitInv
    <2>4. \A g, h \in Handlers : Waiter(g)' /\ Waiter(h)' /\ ProcOf[g] = ProcOf[h] => g = h
      BY Zenon, <2>2 DEF WaitInv
    <2>5. ASSUME NEW h \in Handlers
          PROVE  (at'[h].pc = "wait" => at'[h].how # "first") /\ (at'[h].pc = "read" => at'[h].how = "first")
      BY Zenon, <2>1, IdlePc DEF WaitInv
    <2>6. Kept' \subseteq Kept
      BY Zenon, <2>1, IdlePc DEF Kept, Busy
    <2>7. IsFiniteSet(Kept') /\ Cardinality(Kept') <= Cardinality(Kept) /\ Cardinality(Kept') \in Nat
      BY Zenon, <2>6, FS_Subset, FS_CardinalityType DEF WaitInv
    <2> QED
      BY <2>0, <2>1, <2>3, <2>4, <2>5, <2>7 DEF WaitInv
  <1> QED
    BY Zenon, <1>1, <1>2

LEMMA WaitInit ==
    ASSUME Init
    PROVE  WaitInv
  <1>1. Kept = {}
    BY Zenon DEF Init, Kept, Busy, Idle
  <1> QED
    BY SMTT(30), <1>1, FS_EmptySet DEF Init, WaitInv, Waiter, Seeking, Idle

LEMMA WaitCount ==
    ASSUME TypeOK, WaitInv
    PROVE  OneWaiter
  <1> SUFFICES ASSUME NEW p \in Procs
               PROVE  Cardinality({h \in Handlers : ProcOf[h] = p /\ at[h].pc = "wait"}) <= 1 + faults
    BY Zenon DEF OneWaiter
  <1> DEFINE W == {h \in Handlers : ProcOf[h] = p /\ at[h].pc = "wait"}
  <1>0. faults \in Nat /\ Cardinality(Kept) \in Nat /\ Cardinality(Kept) <= faults
    BY Zenon, FS_CardinalityType DEF TypeOK, WaitInv
  <1>1. \A h \in W : h \in Kept \/ Waiter(h)
    <2> TAKE h \in W
    <2>1. Busy(h)
      BY Zenon DEF Busy
    <2>2. at[h].how \in {"first", "waiter", "kept"}
      BY Zenon, <2>1, JobInHand
    <2> QED
      BY Zenon, <2>1, <2>2 DEF WaitInv, Kept, Waiter, Seeking
  <1>2. \E w : W \subseteq Kept \cup {w}
    <2>1. CASE \E w \in W : Waiter(w)
      BY Zenon, <1>1, <2>1 DEF WaitInv
    <2>2. CASE ~\E w \in W : Waiter(w)
      BY Zenon, <1>1, <2>2
    <2> QED
      BY Zenon, <2>1, <2>2
  <1>3. PICK w : W \subseteq Kept \cup {w}
    BY Zenon, <1>2
  <1>4. Cardinality(W) \in Nat /\ Cardinality(W) <= Cardinality(Kept) + 1
    <2> HIDE DEF W
    <2> QED
      BY Zenon, <1>3, OneMore DEF WaitInv
  <1> QED
    BY <1>0, <1>4

\* A busy key keeps one handler of each process and those whose hand-back failed
\* (claimWaiter, releaseWaiter), whatever crashes, so the other handlers stay free
\* for jobs of other keys.
THEOREM OneWaiterPerProcess == Spec => []OneWaiter
  BY TypeInit, TypeNext, WaitInit, WaitNext, WaitCount, PTL DEF Spec

----------------------------------------------------------------------------
(* No job in two hands. *)

Active(h) == Busy(h) /\ at[h].pc # "handed"
Parting == {"release", "relcas"}

\* Unless messages are duplicated (heartbeats missed, acks of hand-backs lost) a
\* job has one pending message or one schedule or neither, and one handler works
\* on it: others have only the ack of a handed back copy to send. A handler whose
\* message is gone has the last of its job.
OnePending == \A m, n \in Msgs : Pending(m) /\ Pending(n) /\ JobOf(m) = JobOf(n) => m = n
NotBoth == \A m \in Msgs : Pending(m) => JobOf(m) \notin delayed
OneHandler == \A g, h \in Handlers : Busy(g) /\ Busy(h) /\ at[g].msg = at[h].msg => g = h
StillOut ==
    \A h \in Handlers : Busy(h) =>
        queue[at[h].msg] = "out" \/ (queue[at[h].msg] = "none" /\ at[h].pc \in Parting)
OneActive == \A g, h \in Handlers : Active(g) /\ Active(h) /\ JobAt(g) = JobAt(h) => g = h
LastOfJob ==
    \A h \in Handlers : Busy(h) /\ queue[at[h].msg] = "none" =>
        JobAt(h) \notin delayed /\ \A m \in Msgs : Pending(m) => JobOf(m) # JobAt(h)
UniqueInv == OnePending /\ NotBoth /\ OneHandler /\ StillOut /\ OneActive /\ LastOfJob

LEMMA UniqueInit ==
    ASSUME Init
    PROVE  UniqueInv
  <1>1. \A h \in Handlers : ~Busy(h)
    BY Zenon DEF Init, Busy, Idle
  <1>2. \A m, n \in Msgs : Pending(m) /\ Pending(n) /\ JobOf(m) = JobOf(n) => m = n
    BY DEF Init, Pending, JobOf, Msgs
  <1> QED
    BY Zenon, <1>1, <1>2 DEF Init, UniqueInv, Active, OnePending, NotBoth, OneHandler, StillOut, OneActive, LastOfJob

\* A pending message has one handler at most, which is active.
LEMMA OutIsPending ==
    ASSUME UniqueInv, NEW h \in Handlers, Active(h), at[h].msg \in Msgs, queue[at[h].msg] # "none"
    PROVE  Pending(at[h].msg)
  BY Zenon DEF UniqueInv, OneHandler, Pending, Works, Active

\* Steps of a handler that neither schedule nor acknowledge anything.
LEMMA UniquePlain ==
    ASSUME TypeOK, UniqueInv, NEW h \in Handlers, Shape(h), queue' = queue, delayed' = delayed,
           at[h].pc # "handed", at'[h].pc # "handed",
           at[h].pc \in Parting => at'[h].pc \in Parting \cup {"idle"}
    PROVE  UniqueInv'
  <1>1. \A g \in Handlers : Busy(g)' => Busy(g) /\ at'[g].msg = at[g].msg /\ JobAt(g)' = JobAt(g)
    BY Zenon, IdlePc DEF Shape, Busy, JobAt
  <1>2. \A g \in Handlers : Active(g)' => Active(g) /\ JobAt(g)' = JobAt(g)
    BY Zenon, <1>1 DEF Shape, Active
  <1>3. \A m \in Msgs : Pending(m)' <=> Pending(m)
    <2> TAKE m \in Msgs
    <2>1. ASSUME NEW g \in Handlers
          PROVE  Works(g, m)' /\ at'[g].pc = "handed" <=> Works(g, m) /\ at[g].pc = "handed"
      BY Zenon DEF Works, Shape, Busy
    <2> QED
      BY Zenon, <2>1 DEF Pending
  <1>4. ASSUME NEW g \in Handlers, Busy(g)'
        PROVE  queue'[at'[g].msg] = "out" \/ (queue'[at'[g].msg] = "none" /\ at'[g].pc \in Parting)
    <2>1. CASE g = h
      BY Zenon, <1>1, <1>4, <2>1 DEF UniqueInv, StillOut, Busy
    <2>2. CASE g # h
      BY Zenon, <1>1, <1>4, <2>2 DEF UniqueInv, StillOut, Shape
    <2> QED
      BY Zenon, <2>1, <2>2
  <1>5. OnePending' /\ NotBoth'
    BY Zenon, <1>3 DEF UniqueInv, OnePending, NotBoth
  <1>6. OneHandler' /\ OneActive'
    BY Zenon, <1>1, <1>2 DEF UniqueInv, OneHandler, OneActive
  <1>7. LastOfJob'
    BY Zenon, <1>1, <1>3 DEF UniqueInv, LastOfJob
  <1> QED
    BY Zenon, <1>4, <1>5, <1>6, <1>7 DEF UniqueInv, StillOut

\* Scheduling a copy takes the job from the message to the schedule.
LEMMA UniqueHandBack ==
    ASSUME TypeOK, UniqueInv, NEW h \in Handlers, HandBack(h)
    PROVE  UniqueInv'
  <1>0. To(h, "handed") /\ Shape(h) /\ Busy(h) /\ at'[h].msg = at[h].msg
    <2>1. HandlerStep(h)
      BY Zenon DEF HandlerStep
    <2>2. To(h, "handed")
      BY Zenon, <2>1, Leads
    <2> QED
      BY Zenon, <2>2, IdlePc DEF To, Shape
  <1> PICK m0 \in Msgs, j0 \in Jobs : m0 = at[h].msg /\ j0 = JobAt(h) /\ j0 = JobOf(m0)
    BY Zenon, <1>0, JobInHand DEF JobAt
  <1>1. Active(h) /\ queue[m0] = "out" /\ Pending(m0)
    BY Zenon, <1>0, OutIsPending DEF HandBack, Active, UniqueInv, StillOut, Parting
  <1>2. \A g \in Handlers : /\ Busy(g)' => Busy(g) /\ at'[g].msg = at[g].msg /\ JobAt(g)' = JobAt(g)
                            /\ Busy(g)' => at'[g].pc = at[g].pc \/ g = h
    <2> SUFFICES ASSUME NEW g \in Handlers, Busy(g)'
                 PROVE  /\ Busy(g) /\ at'[g].msg = at[g].msg /\ JobAt(g)' = JobAt(g)
                        /\ at'[g].pc = at[g].pc \/ g = h
      BY Zenon
    <2>1. g = h \/ at'[g] = at[g]
      BY Zenon, <1>0 DEF Shape
    <2> QED
      BY Zenon, <1>0, <2>1 DEF Busy, JobAt
  <1>3. \A g \in Handlers : Active(g)' => Active(g) /\ JobAt(g)' = JobAt(g)
    BY Zenon, <1>0, <1>2 DEF Active, To
  <1>4. \A m \in Msgs : Pending(m)' => Pending(m) /\ m # m0
    <2> SUFFICES ASSUME NEW m \in Msgs, Pending(m)' PROVE Pending(m) /\ m # m0
      BY Zenon
    <2>1. m # m0
      BY Zenon, <1>0 DEF Pending, Works, To, Busy
    <2>2. \A g \in Handlers : Works(g, m) => g # h /\ Works(g, m)' /\ at'[g] = at[g]
      BY Zenon, <1>0, <2>1 DEF Works, Shape, Busy
    <2> QED
      BY Zenon, <2>1, <2>2 DEF Pending, HandBack
  <1>5. OnePending' /\ OneHandler' /\ OneActive'
    BY Zenon, <1>2, <1>3, <1>4 DEF UniqueInv, OnePending, OneHandler, OneActive
  <1>6. NotBoth'
    BY Zenon, <1>1, <1>4 DEF UniqueInv, OnePending, NotBoth, HandBack
  <1>7. StillOut'
    <2> SUFFICES ASSUME NEW g \in Handlers, Busy(g)'
                 PROVE  queue'[at'[g].msg] = "out" \/ (queue'[at'[g].msg] = "none" /\ at'[g].pc \in Parting)
      BY Zenon DEF StillOut
    <2> QED
      BY Zenon, <1>1, <1>2 DEF UniqueInv, StillOut, HandBack
  <1>8. LastOfJob'
    BY Zenon, <1>1, <1>2, <1>4 DEF UniqueInv, LastOfJob, HandBack
  <1> QED
    BY Zenon, <1>5, <1>6, <1>7, <1>8 DEF UniqueInv

\* Acknowledging the message of a handler that is done with its job.
LEMMA UniqueGone ==
    ASSUME TypeOK, UniqueInv, NEW h \in Handlers, Shape(h), Gone(at[h].msg), delayed' = delayed,
           at'[h].pc = "idle" \/ (Active(h) /\ at'[h].pc \in Parting)
    PROVE  UniqueInv'
  <1> PICK m0 \in Msgs, j0 \in Jobs : m0 = at[h].msg /\ j0 = JobAt(h) /\ j0 = JobOf(m0)
    BY Zenon, JobInHand DEF JobAt, Shape
  <1>0. queue' = [queue EXCEPT ![m0] = "none"] /\ queue'[m0] = "none" /\ \A m \in Msgs \ {m0} : queue'[m] = queue[m]
    BY Zenon DEF Gone, TypeOK
  <1>1. \A g \in Handlers : /\ Busy(g)' => Busy(g) /\ at'[g].msg = at[g].msg /\ JobAt(g)' = JobAt(g)
                            /\ Busy(g)' /\ g # h => at'[g].pc = at[g].pc /\ at[g].msg # m0 /\ at[g].msg \in Msgs
    <2> SUFFICES ASSUME NEW g \in Handlers, Busy(g)'
                 PROVE  /\ Busy(g) /\ at'[g].msg = at[g].msg /\ JobAt(g)' = JobAt(g)
                        /\ g # h => at'[g].pc = at[g].pc /\ at[g].msg # m0 /\ at[g].msg \in Msgs
      BY Zenon
    <2>1. Busy(g) /\ at'[g].msg = at[g].msg
      BY Zenon, IdlePc DEF Shape, Busy
    <2>2. at[g].msg \in Msgs
      BY Zenon, <2>1, JobInHand
    <2> QED
      BY Zenon, <2>1, <2>2 DEF Shape, JobAt, UniqueInv, OneHandler
  <1>2. \A m \in Msgs : Pending(m)' => Pending(m) /\ m # m0
    <2> SUFFICES ASSUME NEW m \in Msgs, Pending(m)' PROVE Pending(m) /\ m # m0
      BY Zenon
    <2>1. m # m0
      BY Zenon, <1>0 DEF Pending
    <2>2. \A g \in Handlers : Works(g, m) => g # h /\ Works(g, m)' /\ at'[g] = at[g]
      BY Zenon, <2>1 DEF Works, Shape, Busy
    <2> QED
      BY Zenon, <1>0, <2>1, <2>2 DEF Pending
  <1>3. OnePending' /\ NotBoth' /\ OneHandler'
    BY Zenon, <1>1, <1>2 DEF UniqueInv, OnePending, NotBoth, OneHandler
  <1>4. StillOut'
    <2> SUFFICES ASSUME NEW g \in Handlers, Busy(g)'
                 PROVE  queue'[at'[g].msg] = "out" \/ (queue'[at'[g].msg] = "none" /\ at'[g].pc \in Parting)
      BY Zenon DEF StillOut
    <2>1. CASE g = h
      BY Zenon, <1>0, <1>1, <2>1 DEF Busy
    <2>2. CASE g # h
      BY SMTT(30), <1>0, <1>1, <2>2 DEF UniqueInv, StillOut
    <2> QED
      BY Zenon, <2>1, <2>2
  <1>5. OneActive'
    <2>1. \A g \in Handlers : Active(g)' => Active(g) /\ JobAt(g)' = JobAt(g)
      BY Zenon, <1>1 DEF Active, Busy
    <2> QED
      BY Zenon, <2>1 DEF UniqueInv, OneActive
  <1>6. LastOfJob'
    <2> SUFFICES ASSUME NEW g \in Handlers, Busy(g)', queue'[at'[g].msg] = "none"
                 PROVE  JobAt(g)' \notin delayed' /\ \A m \in Msgs : Pending(m)' => JobOf(m) # JobAt(g)'
      BY Zenon DEF LastOfJob
    <2>1. CASE g # h
      BY SMTT(30), <1>0, <1>1, <1>2, <2>1 DEF UniqueInv, LastOfJob
    <2>2. CASE g = h /\ queue[m0] = "none"
      BY Zenon, <1>1, <1>2, <2>2 DEF UniqueInv, LastOfJob
    <2>3. CASE g = h /\ queue[m0] # "none"
      <3>0. Active(h)
        BY Zenon, <2>3 DEF Busy
      <3>1. Pending(m0)
        BY Zenon, <2>3, <3>0, OutIsPending
      <3>2. JobAt(g)' = j0
        BY Zenon, <1>1, <2>3
      <3>3. j0 \notin delayed
        BY Zenon, <3>1 DEF UniqueInv, NotBoth
      <3>4. \A m \in Msgs : Pending(m) /\ m # m0 => JobOf(m) # j0
        BY Zenon, <3>1 DEF UniqueInv, OnePending
      <3> QED
        BY Zenon, <1>2, <3>2, <3>3, <3>4
    <2> QED
      BY Zenon, <2>1, <2>2, <2>3
  <1> QED
    BY Zenon, <1>3, <1>4, <1>5, <1>6 DEF UniqueInv

LEMMA UniqueHandler ==
    ASSUME TypeOK, UniqueInv, ~Duplicates, NEW h \in Handlers, HandlerStep(h)
    PROVE  UniqueInv'
  <1>0. Shape(h)
    BY Zenon, StepShape
  <1>1. CASE HandBack(h)
    BY Zenon, <1>1, UniqueHandBack
  <1>2. CASE Handed(h) \/ Exhausted(h) \/ Bad(h)
    <2>1. Gone(at[h].msg) /\ delayed' = delayed
      BY Zenon, <1>2 DEF Handed, Exhausted, Bad
    <2>2. at'[h].pc = "idle"
      BY Zenon, <1>2, Places
    <2> QED
      BY Zenon, <1>0, <2>1, <2>2, UniqueGone
  <1>3. CASE Ack(h) /\ Gone(at[h].msg)
    <2>1. delayed' = delayed /\ Active(h)
      BY Zenon, <1>3 DEF Ack, Active, Busy
    <2>2. at'[h].pc \in Parting
      BY Zenon, <1>3, Leads DEF To, Parting
    <2> QED
      BY Zenon, <1>0, <1>3, <2>1, <2>2, UniqueGone
  <1>4. CASE ~(HandBack(h) \/ Handed(h) \/ Exhausted(h) \/ Bad(h)) /\ ~(Ack(h) /\ Gone(at[h].msg))
    <2>1. queue' = queue /\ delayed' = delayed /\ at[h].pc # "handed"
      BY Zenon, <1>4 DEF HandlerStep, Read, ReadFails, Acquire, AcquireFails, Granted, Conflict, GrantUnseen, Release,
           Released, ReleaseFails, Claim, TurnAway, Wait, HandBackFails, Finish, Stop, FinishFails,
           Ack, GiveUpUnsent, GiveUpFails
    <2>2. at'[h].pc # "handed"
      BY Zenon, <1>4, Arrivals
    <2>3. at[h].pc \in Parting => Release(h) \/ Released(h) \/ ReleaseFails(h)
      BY Zenon DEF Parting, HandlerStep, Read, ReadFails, Acquire, AcquireFails, Granted, Conflict, GrantUnseen,
           Claim, TurnAway, Wait, HandBack, Handed, HandBackFails, Finish, Stop, FinishFails,
           Ack, Exhausted, Bad, GiveUpUnsent, GiveUpFails
    <2>4. at[h].pc \in Parting => at'[h].pc \in Parting \cup {"idle"}
      BY Zenon, <2>3, Places DEF Parting
    <2> QED
      BY Zenon, <1>0, <2>1, <2>2, <2>4, UniquePlain
  <1> QED
    BY Zenon, <1>1, <1>2, <1>3, <1>4

LEMMA UniqueNext ==
    ASSUME TypeOK, UniqueInv, ~Duplicates, [Next]_vars
    PROVE  UniqueInv'
  <1>1. CASE \E h \in Handlers : HandlerStep(h)
    BY Zenon, <1>1, UniqueHandler
  <1>2. CASE \E h \in Handlers, m \in Msgs : Deliver(h, m)
    <2> PICK h \in Handlers, m \in Msgs : Deliver(h, m)
      BY Zenon, <1>2
    <2>1. /\ queue[m] = "ready" /\ queue' = [queue EXCEPT ![m] = "out"] /\ delayed' = delayed
          /\ at'[h].pc = "read" /\ at'[h].msg = m /\ ~Busy(h) /\ \A g \in Handlers \ {h} : at'[g] = at[g]
      BY Zenon DEF Deliver, TypeOK
    <2>2. \A g \in Handlers : Busy(g) => at[g].msg # m /\ at[g].msg \in Msgs
      BY Zenon, <2>1, JobInHand DEF UniqueInv, StillOut
    <2>3. Pending(m) /\ \A n \in Msgs : (Pending(n)' <=> Pending(n)) /\ (queue'[n] = "none" <=> queue[n] = "none")
      <3>1. ASSUME NEW n \in Msgs PROVE queue'[n] = "none" <=> queue[n] = "none"
        BY Zenon, <2>1 DEF TypeOK
      <3>2. ASSUME NEW n \in Msgs, NEW g \in Handlers
            PROVE  Works(g, n)' /\ at'[g].pc = "handed" <=> Works(g, n) /\ at[g].pc = "handed"
        BY Zenon, <2>1 DEF Works, Busy
      <3>3. Pending(m)
        BY Zenon, <2>1, <2>2 DEF Pending, Works
      <3> QED
        BY Zenon, <3>1, <3>2, <3>3 DEF Pending
    <2>4. \A g \in Handlers : Active(g) => JobAt(g) # JobOf(m)
      <3> SUFFICES ASSUME NEW g \in Handlers, Active(g), JobAt(g) = JobOf(m) PROVE FALSE
        BY Zenon
      <3>1. Busy(g) /\ at[g].msg \in Msgs /\ at[g].msg # m
        BY Zenon, <2>2 DEF Active
      <3>2. CASE queue[at[g].msg] = "none"
        BY Zenon, <2>3, <3>1, <3>2 DEF UniqueInv, LastOfJob
      <3>3. CASE queue[at[g].msg] # "none"
        BY Zenon, <2>3, <3>1, <3>3, OutIsPending DEF UniqueInv, OnePending, JobAt
      <3> QED
        BY Zenon, <3>2, <3>3
    <2>5. OnePending' /\ NotBoth'
      BY Zenon, <2>1, <2>3 DEF UniqueInv, OnePending, NotBoth
    <2>6. OneHandler'
      BY SMTT(30), <2>1, <2>2 DEF UniqueInv, OneHandler, Busy
    <2>7. OneActive'
      BY SMTT(30), <2>1, <2>4 DEF UniqueInv, OneActive, Active, Busy, JobAt
    <2>8. StillOut'
      BY Zenon, <2>1, <2>2 DEF UniqueInv, StillOut, Busy, TypeOK
    <2>9. LastOfJob'
      BY SMTT(30), <2>1, <2>2, <2>3 DEF UniqueInv, LastOfJob, Busy, JobAt, TypeOK
    <2> QED
      BY Zenon, <2>5, <2>6, <2>7, <2>8, <2>9 DEF UniqueInv
  <1>3. CASE \E m \in Msgs : Expire(m)
    <2> PICK m \in Msgs : Expire(m)
      BY Zenon, <1>3
    <2>1. at' = at /\ delayed' = delayed /\ \A h \in Handlers : Busy(h) => at[h].msg # m
      BY Zenon DEF Expire, Works
    <2>2. \A n \in Msgs : (queue'[n] = "none" <=> queue[n] = "none") /\ (n # m => queue'[n] = queue[n])
      BY Zenon DEF Expire, TypeOK
    <2>3. \A n \in Msgs : Pending(n)' <=> Pending(n)
      BY Zenon, <2>1, <2>2 DEF Pending, Works, Busy
    <2>4. \A h \in Handlers : Busy(h) => at[h].msg \in Msgs
      BY Zenon, JobInHand
    <2>5. OnePending' /\ NotBoth' /\ OneHandler' /\ OneActive'
      BY Zenon, <2>1, <2>3 DEF UniqueInv, OnePending, NotBoth, OneHandler, OneActive, Busy, Active, JobAt
    <2>6. StillOut' /\ LastOfJob'
      BY Zenon, <2>1, <2>2, <2>3, <2>4 DEF UniqueInv, StillOut, LastOfJob, Busy, JobAt
    <2> QED
      BY Zenon, <2>5, <2>6 DEF UniqueInv
  <1>4. CASE \E m \in Msgs : Fire(m)
    <2> PICK m \in Msgs : Fire(m)
      BY Zenon, <1>4
    <2>1. /\ at' = at /\ delayed' = delayed \ {JobOf(m)} /\ JobOf(m) \in delayed /\ queue[m] = "none"
          /\ \A h \in Handlers : Busy(h) => at[h].msg # m
      BY Zenon DEF Fire, Works
    <2>2. \A n \in Msgs : n # m => queue'[n] = queue[n]
      BY Zenon DEF Fire, TypeOK
    <2>3. \A n \in Msgs : Pending(n)' => Pending(n) \/ n = m
      BY Zenon, <2>1, <2>2 DEF Pending, Works, Busy
    <2>4. \A h \in Handlers : Busy(h) => at[h].msg \in Msgs
      BY Zenon, JobInHand
    <2>5. OnePending' /\ NotBoth' /\ OneHandler' /\ OneActive'
      BY Zenon, <2>1, <2>3 DEF UniqueInv, OnePending, NotBoth, OneHandler, OneActive, Busy, Active, JobAt
    <2>6. StillOut' /\ LastOfJob'
      BY Zenon, <2>1, <2>2, <2>3, <2>4 DEF UniqueInv, StillOut, LastOfJob, Busy, JobAt
    <2> QED
      BY Zenon, <2>5, <2>6 DEF UniqueInv
  <1>5. CASE \E p \in Procs : Crash(p)
    <2>1. /\ \A h \in Handlers : at'[h] = at[h] \/ (at'[h] = Idle /\ at[h].pc # "handed")
          /\ queue' = queue /\ delayed' = delayed
      BY Zenon, <1>5 DEF Crash, TypeOK
    <2>2. \A h \in Handlers : Busy(h)' => Busy(h) /\ at'[h] = at[h] /\ JobAt(h)' = JobAt(h)
      BY Zenon, <2>1, IdlePc DEF Busy, JobAt
    <2>3. \A n \in Msgs : Pending(n)' <=> Pending(n)
      <3>1. ASSUME NEW n \in Msgs, NEW g \in Handlers
            PROVE  Works(g, n)' /\ at'[g].pc = "handed" <=> Works(g, n) /\ at[g].pc = "handed"
        BY Zenon, <2>1, IdlePc DEF Works, Busy
      <3> QED
        BY Zenon, <2>1, <3>1 DEF Pending
    <2>4. OnePending' /\ NotBoth' /\ OneHandler'
      BY Zenon, <2>1, <2>2, <2>3 DEF UniqueInv, OnePending, NotBoth, OneHandler
    <2>5. OneActive'
      BY Zenon, <2>2 DEF UniqueInv, OneActive, Active
    <2>6. StillOut' /\ LastOfJob'
      BY Zenon, <2>1, <2>2, <2>3 DEF UniqueInv, StillOut, LastOfJob
    <2> QED
      BY Zenon, <2>4, <2>5, <2>6 DEF UniqueInv
  <1>6. CASE \/ \E h \in Handlers : Renew(h)
             \/ \E j \in Jobs : Obsolete(j) \/ Lapse(j)
             \/ \E p \in Procs : Shutdown(p)
             \/ UNCHANGED vars
    <2>1. queue' = queue /\ at' = at /\ delayed' = delayed
      BY Zenon, <1>6 DEF Renew, Obsolete, Lapse, Shutdown, vars
    <2> QED
      BY <2>1 DEF UniqueInv, OnePending, NotBoth, OneHandler, StillOut, OneActive, LastOfJob, Pending, Works, Busy,
                  Active, JobAt
  <1> QED
    BY Zenon, <1>1, <1>2, <1>3, <1>4, <1>5, <1>6, NextSteps

----------------------------------------------------------------------------
(* The limit of the key. *)

\* What the writes of the semaphore rest on: a handler that holds a slot is a
\* holder with a lease, and a write on the latest revision keeps every such holder
\* (an acquire may drop lapsed ones, a release drops its own).
HoldersKept == \A h \in Handlers : at[h].pc \in Holding => JobAt(h) \in sem \ lapsed
AcquiresFit ==
    \A h \in fresh : at[h].pc = "cas" =>
        /\ (sem \ lapsed) \cup {JobAt(h)} \subseteq at[h].next
        /\ IsFiniteSet(at[h].next) /\ Cardinality(at[h].next) <= Max
ReleasesFit == \A h \in fresh : at[h].pc = "relcas" => at[h].next = sem \ {JobAt(h)}
SemInv == HoldersKept /\ AcquiresFit /\ ReleasesFit /\ IsFiniteSet(sem) /\ Cardinality(sem) <= Max

LEMMA SemInit ==
    ASSUME Init
    PROVE  SemInv
  BY SMTT(30), FS_EmptySet, WorkerAssumption DEF Init, SemInv, HoldersKept, AcquiresFit, ReleasesFit, Holding, Idle

\* The holders an acquire is about to write are within the limit.
LEMMA AcquireFits ==
    ASSUME TypeOK, SemInv, NEW j \in Jobs, Acquirable(j)
    PROVE  LET next == (sem \ lapsed) \cup {j}
           IN  IsFiniteSet(next) /\ Cardinality(next) <= Max
  <1> DEFINE L == sem \ lapsed
             N == L \cup {j}
  <1>1. IsFiniteSet(L) /\ Cardinality(L) <= Cardinality(sem)
    BY Zenon, FS_Subset DEF SemInv
  <1>2. Cardinality(L) \in Nat /\ Cardinality(sem) \in Nat
    BY Zenon, <1>1, FS_CardinalityType DEF SemInv
  <1>3. j \in L \/ Cardinality(L) < Max
    BY Zenon DEF Acquirable
  <1>4. Cardinality(L) <= Max
    BY <1>1, <1>2, WorkerAssumption DEF SemInv
  <1> HIDE DEF L
  <1>5. IsFiniteSet(N) /\ Cardinality(N) = IF j \in L THEN Cardinality(L) ELSE Cardinality(L) + 1
    BY Zenon, <1>1, FS_AddElement
  <1> HIDE DEF N
  <1>6. IsFiniteSet(N) /\ Cardinality(N) <= Max
    BY <1>2, <1>3, <1>4, <1>5, WorkerAssumption
  <1> QED
    BY Zenon, <1>6 DEF N, L

\* Who writes the semaphore, and what.
LEMMA SemBooks ==
    ASSUME TypeOK, NEW h \in Handlers, HandlerStep(h)
    PROVE  \/ /\ sem' = sem /\ lapsed' = lapsed
              /\ fresh' = fresh \/ (fresh' = fresh \cup {h} /\ (Acquire(h) \/ Release(h)))
           \/ /\ Granted(h) \/ GrantUnseen(h)
              /\ h \in fresh /\ at[h].pc = "cas" /\ sem' = at[h].next /\ fresh' = {}
              /\ lapsed' = (lapsed \cap at[h].next) \ {JobAt(h)}
           \/ /\ Released(h) /\ Ends(h) /\ h \in fresh /\ at[h].pc = "relcas" /\ sem' = at[h].next /\ fresh' = {}
              /\ lapsed' = lapsed \cap at[h].next
  <1>1. CASE Takes(h)
    BY Zenon, <1>1
       DEF Writable, Stores, Takes, Read, ReadFails, Acquire, AcquireFails, Granted, Conflict, GrantUnseen, Exhausted, Bad
  <1>2. CASE Waits(h)
    BY Zenon, <1>2
       DEF Writable, Stores, Waits, Claim, TurnAway, Wait, HandBack, Handed, HandBackFails
  <1>3. CASE Finishes(h)
    BY Zenon, <1>3
       DEF Writable, Stores, Finishes, Release, Released, ReleaseFails, Finish, Stop, FinishFails, Ack, GiveUpUnsent, GiveUpFails
  <1> QED
    BY Zenon, <1>1, <1>2, <1>3, ThreeGroups

LEMMA SemHandler ==
    ASSUME TypeOK, UniqueInv, SemInv, NEW h \in Handlers, HandlerStep(h)
    PROVE  SemInv'
  <1> PICK j0 \in Jobs : j0 = JobAt(h)
    BY Zenon, StepShape, JobInHand DEF Shape
  <1>0. Shape(h) /\ \A g \in Handlers \ {h} : at'[g] = at[g] /\ JobAt(g)' = JobAt(g)
    BY Zenon, StepShape DEF Shape, JobAt
  <1>1. at'[h].pc # "idle" => JobAt(h)' = j0
    BY Zenon, <1>0, IdlePc DEF Shape, JobAt
  <1>2. at'[h].pc \in Holding => Granted(h) \/ at[h].pc \in Holding
    BY Zenon, Arrivals DEF Holding, Finish, Stop, FinishFails, Ack, Released, Release
  <1>3. CASE Granted(h) \/ GrantUnseen(h)
    <2>1. h \in fresh /\ at[h].pc = "cas" /\ sem' = at[h].next /\ fresh' = {}
          /\ lapsed' = (lapsed \cap at[h].next) \ {JobAt(h)}
      BY Zenon, <1>3 DEF Granted, GrantUnseen, Writable, Stores
    <2>2. (sem \ lapsed) \cup {j0} \subseteq sem' /\ IsFiniteSet(sem') /\ Cardinality(sem') <= Max
      BY Zenon, <2>1 DEF SemInv, AcquiresFit
    <2>3. (sem \ lapsed) \cup {j0} \subseteq sem' \ lapsed'
      BY Zenon, <2>1, <2>2
    <2>4. HoldersKept'
      <3> SUFFICES ASSUME NEW g \in Handlers, at'[g].pc \in Holding PROVE JobAt(g)' \in sem' \ lapsed'
        BY Zenon DEF HoldersKept
      <3>1. CASE g = h
        BY Zenon, <1>1, <2>3, <3>1 DEF Holding
      <3>2. CASE g # h
        BY Zenon, <1>0, <2>3, <3>2 DEF SemInv, HoldersKept
      <3> QED
        BY Zenon, <3>1, <3>2
    <2> QED
      BY Zenon, <2>1, <2>2, <2>4 DEF SemInv, AcquiresFit, ReleasesFit
  <1>4. CASE Released(h) /\ Ends(h) /\ h \in fresh /\ at[h].pc = "relcas" /\ sem' = at[h].next /\ fresh' = {}
             /\ lapsed' = lapsed \cap at[h].next
    <2>1. sem' = sem \ {j0} /\ lapsed' \subseteq lapsed
      BY Zenon, <1>4 DEF SemInv, ReleasesFit
    <2>2. IsFiniteSet(sem') /\ Cardinality(sem') <= Max
      <3>1. IsFiniteSet(sem') /\ Cardinality(sem') <= Cardinality(sem)
        BY Zenon, <2>1, FS_Subset DEF SemInv
      <3>2. Cardinality(sem') \in Nat /\ Cardinality(sem) \in Nat
        BY Zenon, <3>1, FS_CardinalityType DEF SemInv
      <3> QED
        BY <3>1, <3>2, WorkerAssumption DEF SemInv
    <2>3. HoldersKept'
      <3> SUFFICES ASSUME NEW g \in Handlers, at'[g].pc \in Holding PROVE JobAt(g)' \in sem' \ lapsed'
        BY Zenon DEF HoldersKept
      <3>0. at'[h].pc = "idle"
        BY Zenon, <1>0, <1>4, EndsShape, IdlePc DEF Shape
      <3>1. g # h
        BY Zenon, <3>0 DEF Holding
      <3>2. at[g].pc \in Holding /\ JobAt(g)' = JobAt(g)
        BY Zenon, <1>0, <3>1
      <3>3. Active(g) /\ Active(h)
        BY Zenon, <1>4, <3>2 DEF Active, Busy, Holding
      <3>4. JobAt(g) # j0
        BY Zenon, <3>1, <3>3 DEF UniqueInv, OneActive
      <3> QED
        BY Zenon, <2>1, <3>2, <3>4 DEF SemInv, HoldersKept
    <2> QED
      BY Zenon, <1>4, <2>2, <2>3 DEF SemInv, AcquiresFit, ReleasesFit
  <1>5. CASE /\ sem' = sem /\ lapsed' = lapsed /\ ~(Granted(h) \/ GrantUnseen(h))
             /\ fresh' = fresh \/ (fresh' = fresh \cup {h} /\ (Acquire(h) \/ Release(h)))
    <2>1. HoldersKept'
      <3> SUFFICES ASSUME NEW g \in Handlers, at'[g].pc \in Holding PROVE JobAt(g)' \in sem' \ lapsed'
        BY Zenon DEF HoldersKept
      <3>1. CASE g = h
        BY Zenon, <1>1, <1>2, <1>5, <3>1 DEF SemInv, HoldersKept, Holding
      <3>2. CASE g # h
        BY Zenon, <1>0, <1>5, <3>2 DEF SemInv, HoldersKept
      <3> QED
        BY Zenon, <3>1, <3>2
    <2>2. AcquiresFit'
      <3> SUFFICES ASSUME NEW g \in fresh', at'[g].pc = "cas"
                   PROVE  /\ (sem \ lapsed) \cup {JobAt(g)'} \subseteq at'[g].next
                          /\ IsFiniteSet(at'[g].next) /\ Cardinality(at'[g].next) <= Max
        BY Zenon, <1>5 DEF AcquiresFit
      <3>1. CASE g = h
        <4>1. Acquire(h)
          BY Zenon, <3>1, Arrivals
        <4>2. Acquirable(j0) /\ at'[h].next = (sem \ lapsed) \cup {j0}
          BY Zenon, <3>1, <4>1, LeadsElse DEF To
        <4>3. IsFiniteSet(at'[h].next) /\ Cardinality(at'[h].next) <= Max
          BY Zenon, <4>2, AcquireFits
        <4> QED
          BY Zenon, <1>1, <3>1, <4>2, <4>3
      <3>2. CASE g # h
        <4>1. g \in fresh /\ at'[g] = at[g] /\ JobAt(g)' = JobAt(g)
          BY Zenon, <1>0, <1>5, <3>2 DEF TypeOK
        <4> QED
          BY Zenon, <4>1 DEF SemInv, AcquiresFit
      <3> QED
        BY Zenon, <3>1, <3>2
    <2>3. ReleasesFit'
      <3> SUFFICES ASSUME NEW g \in fresh', at'[g].pc = "relcas" PROVE at'[g].next = sem \ {JobAt(g)'}
        BY Zenon, <1>5 DEF ReleasesFit
      <3>1. CASE g = h
        BY Zenon, <1>1, <3>1, Arrivals, LeadsElse
      <3>2. CASE g # h
        <4>1. g \in fresh /\ at'[g] = at[g] /\ JobAt(g)' = JobAt(g)
          BY Zenon, <1>0, <1>5, <3>2 DEF TypeOK
        <4> QED
          BY Zenon, <4>1 DEF SemInv, ReleasesFit
      <3> QED
        BY Zenon, <3>1, <3>2
    <2> QED
      BY Zenon, <1>5, <2>1, <2>2, <2>3 DEF SemInv
  <1> QED
    BY Zenon, <1>3, <1>4, <1>5, SemBooks

LEMMA SemNext ==
    ASSUME TypeOK, UniqueInv, SemInv, ~LateRenewals, [Next]_vars
    PROVE  SemInv'
  <1>1. CASE \E h \in Handlers : HandlerStep(h)
    BY Zenon, <1>1, SemHandler
  <1>2. CASE \E h \in Handlers : Renew(h)
    BY Zenon, <1>2 DEF Renew, SemInv, HoldersKept, AcquiresFit, ReleasesFit, JobAt
  <1>3. CASE \E j \in Jobs : Lapse(j)
    <2> PICK j \in Jobs : Lapse(j)
      BY Zenon, <1>3
    <2>1. /\ sem' = sem /\ at' = at /\ fresh' = fresh /\ lapsed' = lapsed \cup {j}
          /\ \A h \in Handlers : at[h].pc \in Holding => JobAt(h) # j
      BY Zenon DEF Lapse, Holds
    <2> QED
      BY Zenon, <2>1 DEF SemInv, HoldersKept, AcquiresFit, ReleasesFit, JobAt
  <1>4. CASE \/ \E h \in Handlers, m \in Msgs : Deliver(h, m)
             \/ \E m \in Msgs : Expire(m) \/ Fire(m)
             \/ \E j \in Jobs : Obsolete(j)
             \/ \E p \in Procs : Shutdown(p) \/ Crash(p)
             \/ UNCHANGED vars
    <2>0. CASE \E h \in Handlers : HandlerStep(h)
      BY Zenon, <1>1, <2>0
    <2> SUFFICES ASSUME ~\E h \in Handlers : HandlerStep(h) PROVE SemInv'
      BY Zenon, <2>0
    <2>1. /\ sem' = sem /\ lapsed' = lapsed /\ fresh' = fresh
          /\ \A h \in Handlers : at'[h] = at[h] \/ at'[h] = Idle \/ at'[h].pc = "read"
      BY Zenon, <1>4, AtElse DEF Deliver, Expire, Fire, Obsolete, Shutdown, Crash, vars
    <2>2. \A h \in Handlers : at'[h].pc \in Holding \cup {"cas"} => at'[h] = at[h] /\ JobAt(h)' = JobAt(h)
      BY Zenon, <2>1, IdlePc DEF Holding, JobAt
    <2> QED
      BY Zenon, <2>1, <2>2 DEF SemInv, HoldersKept, AcquiresFit, ReleasesFit, Holding, TypeOK
  <1> QED
    BY Zenon, <1>1, <1>2, <1>3, <1>4, NextSteps

\* Those who run hold slots, each its own.
LEMMA SemCount ==
    ASSUME TypeOK, UniqueInv, SemInv
    PROVE  WithinLimit
  <1> DEFINE f == [h \in Running |-> JobAt(h)]
  <1>1. \A h \in Running : JobAt(h) \in sem /\ Active(h)
    BY Zenon DEF Running, SemInv, HoldersKept, Holding, Active, Busy
  <1>2. f \in Injection(Running, sem)
    BY Zenon, <1>1 DEF Injection, IsInjective, UniqueInv, OneActive, Running
  <1>3. IsFiniteSet(Running) /\ Cardinality(Running) <= Cardinality(sem)
    BY Zenon, <1>2, FS_Injection DEF SemInv
  <1>4. Cardinality(Running) \in Nat /\ Cardinality(sem) \in Nat
    BY Zenon, <1>3, FS_CardinalityType DEF SemInv
  <1> QED
    BY <1>3, <1>4, WorkerAssumption DEF WithinLimit, SemInv

\* The limit of a key: no more of its jobs run at once, in all processes together,
\* than Concurrency.Max (acquire, release, casSem), whatever crashes and fails --
\* as long as leases are renewed in time and no message is delivered to a second
\* handler under the first.
THEOREM LimitHolds ==
    ASSUME ~Duplicates, ~LateRenewals
    PROVE  Spec => []WithinLimit
  <1>1. UniqueInv /\ TypeOK /\ [Next]_vars => UniqueInv'
    BY Zenon, UniqueNext
  <1>2. SemInv /\ UniqueInv /\ TypeOK /\ [Next]_vars => SemInv'
    BY Zenon, SemNext
  <1> QED
    BY <1>1, <1>2, TypeInit, TypeNext, UniqueInit, SemInit, SemCount, PTL DEF Spec
=============================================================================
