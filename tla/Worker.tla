------------------------------- MODULE Worker -------------------------------
(***************************************************************************)
(* The workers of one kind of job and the limit of one concurrency key:    *)
(* worker.go, semaphore.go and cancel.go.                                  *)
(*                                                                         *)
(* Processes take messages from the work queue, each with a few handlers.  *)
(* A job runs while its id is among the holders in the sem bucket, a value *)
(* that is read, changed and written back if nobody wrote in between.      *)
(* When the key is busy, one handler of each process waits and the others  *)
(* hand their job back as a delayed copy.  Messages come again when nobody *)
(* acknowledges them or keeps them alive; processes crash; calls fail.     *)
(*                                                                         *)
(* Time is left out: the lease of a holder may run out once nobody renews  *)
(* it, and a message may come again once nobody works on it.               *)
(***************************************************************************)
EXTENDS Naturals, FiniteSets

CONSTANTS
    Jobs,          \* the attempts of tasks that share the key
    Handlers,      \* the handler goroutines of all processes
    Procs,         \* the worker processes
    ProcOf,        \* the process of a handler
    Leaving,       \* the processes that may be shut down
    Max,           \* Concurrency.Max of the key
    MaxDeliver,    \* effMaxDeliver: deliveries of one message before it is given up
    Copies,        \* bound: messages of one job at a time
    MaxFaults,     \* bound: crashes and failed calls
    Duplicates,    \* whether one job may be in two handlers' hands
    LateRenewals   \* whether a lease may run out under a handler that runs

ASSUME WorkerAssumption ==
    /\ ProcOf \in [Handlers -> Procs] /\ Leaving \subseteq Procs
    /\ Max \in Nat \ {0} /\ MaxDeliver \in Nat /\ Copies \in Nat \ {0} /\ MaxFaults \in Nat
    /\ Duplicates \in BOOLEAN /\ LateRenewals \in BOOLEAN

VARIABLES
    queue,      \* each message: none, ready, or out with a handler
    delivered,  \* how often it was delivered
    delayed,    \* the jobs with a scheduled copy
    sem,        \* semValue: the holders of the key
    lapsed,     \* the holders whose lease ran out
    fresh,      \* the handlers whose read of sem is still the latest revision
    at,         \* the handlers
    waiting,    \* the processes with a designated waiter
    stopping,   \* the processes that shut down
    results,    \* the jobs answered to the engine
    unwanted,   \* the jobs whose answer would be stale
    dlq,        \* the jobs recorded as dead letters after too many deliveries
    unread,     \* the jobs recorded as dead letters because nobody can read them
    faults      \* how many faults happened

vars == <<queue, delivered, delayed, sem, lapsed, fresh, at, waiting, stopping, results, unwanted, dlq, unread, faults>>

Msgs == Jobs \X (1 .. Copies)
JobOf(m) == m[1]

\* A handler: where it is, its message, whether it is the waiter or keeps a job
\* it could not hand back, and the holders it is about to write.
Pcs == {"read", "get", "cas", "busy", "wait", "handback", "handed", "run", "ack", "release", "relcas", "exhaust", "bad"}
HandlerType == [pc : Pcs, msg : Msgs, how : {"first", "waiter", "kept"}, next : SUBSET Jobs]
Idle == [pc |-> "idle"]

Busy(h) == at[h].pc # "idle"
JobAt(h) == JobOf(at[h].msg)
Works(h, m) == Busy(h) /\ at[h].msg = m
Holding == {"run", "ack", "release", "relcas"}
Holds(h, j) == at[h].pc \in Holding /\ JobAt(h) = j

Init ==
    /\ queue = [m \in Msgs |-> IF m[2] = 1 THEN "ready" ELSE "none"]
    /\ delivered = [m \in Msgs |-> 0]
    /\ at = [h \in Handlers |-> Idle]
    /\ delayed = {} /\ sem = {} /\ lapsed = {} /\ fresh = {} /\ waiting = {} /\ stopping = {}
    /\ results = {} /\ unwanted = {} /\ dlq = {} /\ unread = {} /\ faults = 0

Goes(h, pc) == at' = [at EXCEPT ![h].pc = pc]
Ends(h) == at' = [at EXCEPT ![h] = Idle]
\* The deferred releaseWaiter of slot.
Unclaimed(h) == IF at[h].how = "waiter" THEN waiting \ {ProcOf[h]} ELSE waiting
Gone(m) == queue' = [queue EXCEPT ![m] = "none"]
Failing == faults < MaxFaults /\ faults' = faults + 1

----------------------------------------------------------------------------
(* The work queue. *)

Deliver(h, m) ==
    /\ ~Busy(h) /\ ProcOf[h] \notin stopping /\ queue[m] = "ready"
    /\ queue' = [queue EXCEPT ![m] = "out"]
    /\ delivered' = [delivered EXCEPT ![m] = @ + 1]
    /\ at' = [at EXCEPT ![h] = [pc |-> "read", msg |-> m, how |-> "first", next |-> {}]]
    /\ UNCHANGED <<delayed, sem, lapsed, fresh, waiting, stopping, results, unwanted, dlq, unread, faults>>

\* handle: give up a message delivered too often, one of another protocol version,
\* and one whose body is missing or cannot be decoded.
Read(h) ==
    /\ at[h].pc = "read"
    /\ \/ Goes(h, IF delivered[at[h].msg] > MaxDeliver THEN "exhaust" ELSE "get")
       \/ Goes(h, "bad")
    /\ UNCHANGED <<queue, delivered, delayed, sem, lapsed, fresh, waiting, stopping, results, unwanted, dlq, unread, faults>>

\* resolve tries to read the body until the process shuts down, then naks.
ReadFails(h) ==
    /\ at[h].pc = "read" /\ ProcOf[h] \in stopping /\ Failing /\ Ends(h)
    /\ UNCHANGED <<queue, delivered, delayed, sem, lapsed, fresh, waiting, stopping, results, unwanted, dlq, unread>>

\* A message nobody works on comes again after the ack wait or the delay of its
\* nak; one somebody works on only if its heartbeats are missed.
Expire(m) ==
    /\ queue[m] = "out" /\ queue' = [queue EXCEPT ![m] = "ready"]
    /\ \/ (\A h \in Handlers : ~Works(h, m)) /\ faults' = faults
       \/ (\E h \in Handlers : Works(h, m)) /\ Duplicates /\ Failing
    /\ UNCHANGED <<delivered, delayed, sem, lapsed, fresh, at, waiting, stopping, results, unwanted, dlq, unread>>

\* The schedule of a handed back job fires: a new message, not one a handler
\* still has an old delivery of.
Fire(m) ==
    /\ JobOf(m) \in delayed /\ queue[m] = "none" /\ \A h \in Handlers : ~Works(h, m)
    /\ queue' = [queue EXCEPT ![m] = "ready"] /\ delivered' = [delivered EXCEPT ![m] = 0]
    /\ delayed' = delayed \ {JobOf(m)}
    /\ UNCHANGED <<sem, lapsed, fresh, at, waiting, stopping, results, unwanted, dlq, unread, faults>>

\* The attempt times out, its task is dropped or its execution ends.
Obsolete(j) ==
    /\ j \notin unwanted /\ unwanted' = unwanted \cup {j}
    /\ UNCHANGED <<queue, delivered, delayed, sem, lapsed, fresh, at, waiting, stopping, results, dlq, unread, faults>>

----------------------------------------------------------------------------
(* The semaphore: acquire, renewSlot, release, each a casSem. *)

\* Holders that are not purged.
AcquirableWithLapsed(j) == j \in sem \/ Cardinality(sem) < Max

\* acquire refuses when the holders that are left fill the limit.
Acquirable(j) == j \in sem \ lapsed \/ Cardinality(sem \ lapsed) < Max

Refused(h) ==
    Goes(h, IF at[h].how = "first" THEN "busy" ELSE "wait")

\* Reading the holders for an acquire.
Acquire(h) ==
    /\ at[h].pc = "get"
    /\ IF Acquirable(JobAt(h))
       THEN /\ at' = [at EXCEPT ![h].pc = "cas", ![h].next = (sem \ lapsed) \cup {JobAt(h)}]
            /\ fresh' = fresh \cup {h}
       ELSE Refused(h) /\ fresh' = fresh
    /\ UNCHANGED <<queue, delivered, delayed, sem, lapsed, waiting, stopping, results, unwanted, dlq, unread, faults>>

AcquireFails(h) ==
    /\ at[h].pc = "get" /\ Failing /\ Refused(h)
    /\ UNCHANGED <<queue, delivered, delayed, sem, lapsed, fresh, waiting, stopping, results, unwanted, dlq, unread>>

\* A write whatever the revision read.
WritableAlways(h) == TRUE

\* kv.Update: only on the revision that was read.
Writable(h) == h \in fresh

\* The new value is stored: every other read is now old.
Stores(h) == sem' = at[h].next /\ fresh' = {}

\* A grant that forgets no lease.
GrantedKeepsLeases(h) ==
    /\ at[h].pc = "cas" /\ Writable(h) /\ Stores(h) /\ lapsed' = lapsed
    /\ Goes(h, "run") /\ waiting' = Unclaimed(h)
    /\ UNCHANGED <<queue, delivered, delayed, stopping, results, unwanted, dlq, unread, faults>>

Granted(h) ==
    /\ at[h].pc = "cas" /\ Writable(h) /\ Stores(h)
    /\ lapsed' = (lapsed \cap at[h].next) \ {JobAt(h)}
    /\ Goes(h, "run") /\ waiting' = Unclaimed(h)
    /\ UNCHANGED <<queue, delivered, delayed, stopping, results, unwanted, dlq, unread, faults>>

\* Somebody wrote in between: read again, or give up after semCASAttempts.
Conflict(h) ==
    /\ at[h].pc = "cas" /\ ~Writable(h)
    /\ Goes(h, "get") \/ Refused(h)
    /\ UNCHANGED <<queue, delivered, delayed, sem, lapsed, fresh, waiting, stopping, results, unwanted, dlq, unread, faults>>

\* The write is stored but the call fails: the loop reads again.
GrantUnseen(h) ==
    /\ at[h].pc = "cas" /\ Writable(h) /\ Stores(h) /\ Failing
    /\ lapsed' = (lapsed \cap at[h].next) \ {JobAt(h)}
    /\ Goes(h, "get")
    /\ UNCHANGED <<queue, delivered, delayed, waiting, stopping, results, unwanted, dlq, unread>>

\* renewSlot, every ack wait until the release begins: the lease starts anew,
\* even one that ran out.
Renew(h) ==
    /\ at[h].pc \in Holding \ {"relcas"} /\ JobAt(h) \in sem
    /\ lapsed' = lapsed \ {JobAt(h)} /\ fresh' = {}
    /\ UNCHANGED <<queue, delivered, delayed, sem, at, waiting, stopping, results, unwanted, dlq, unread, faults>>

\* The lease of a holder that nobody renews runs out.
Lapse(j) ==
    /\ j \in sem \ lapsed /\ lapsed' = lapsed \cup {j}
    /\ \/ (\A h \in Handlers : ~Holds(h, j)) /\ faults' = faults
       \/ (\E h \in Handlers : Holds(h, j)) /\ LateRenewals /\ Failing
    /\ UNCHANGED <<queue, delivered, delayed, sem, fresh, at, waiting, stopping, results, unwanted, dlq, unread>>

Release(h) ==
    /\ at[h].pc = "release"
    /\ at' = [at EXCEPT ![h].pc = "relcas", ![h].next = sem \ {JobAt(h)}]
    /\ fresh' = fresh \cup {h}
    /\ UNCHANGED <<queue, delivered, delayed, sem, lapsed, waiting, stopping, results, unwanted, dlq, unread, faults>>

Released(h) ==
    /\ at[h].pc = "relcas"
    /\ \/ /\ Writable(h) /\ Stores(h) /\ lapsed' = lapsed \cap at[h].next /\ Ends(h)
       \/ /\ ~Writable(h)
          /\ Goes(h, "release") \/ Ends(h)
          /\ UNCHANGED <<sem, lapsed, fresh>>
    /\ UNCHANGED <<queue, delivered, delayed, waiting, stopping, results, unwanted, dlq, unread, faults>>

\* The slot stays taken until its lease runs out.
ReleaseFails(h) ==
    /\ at[h].pc \in {"release", "relcas"} /\ Failing /\ Ends(h)
    /\ UNCHANGED <<queue, delivered, delayed, sem, lapsed, fresh, waiting, stopping, results, unwanted, dlq, unread>>

----------------------------------------------------------------------------
(* slot: one waiter per process, the others hand their job back. *)

\* Every handler becomes a waiter.
ClaimAnyway(h) ==
    /\ at[h].pc = "busy" /\ waiting' = waiting \cup {ProcOf[h]}
    /\ at' = [at EXCEPT ![h].how = "waiter", ![h].pc = "get"]
    /\ UNCHANGED <<queue, delivered, delayed, sem, lapsed, fresh, stopping, results, unwanted, dlq, unread, faults>>

\* claimWaiter.
Claim(h) ==
    /\ at[h].pc = "busy" /\ ProcOf[h] \notin waiting
    /\ waiting' = waiting \cup {ProcOf[h]}
    /\ at' = [at EXCEPT ![h].how = "waiter", ![h].pc = "get"]
    /\ UNCHANGED <<queue, delivered, delayed, sem, lapsed, fresh, stopping, results, unwanted, dlq, unread, faults>>

TurnAway(h) ==
    /\ at[h].pc = "busy" /\ ProcOf[h] \in waiting
    /\ Goes(h, "handback")
    /\ UNCHANGED <<queue, delivered, delayed, sem, lapsed, fresh, waiting, stopping, results, unwanted, dlq, unread, faults>>

\* waitSlot: try again after a while, until the process shuts down.
Wait(h) ==
    /\ at[h].pc = "wait"
    /\ Goes(h, "get") \/ (ProcOf[h] \in stopping /\ Goes(h, "handback"))
    /\ UNCHANGED <<queue, delivered, delayed, sem, lapsed, fresh, waiting, stopping, results, unwanted, dlq, unread, faults>>

\* Acknowledging the message before its copy is scheduled.
HandBackAcksFirst(h) ==
    /\ at[h].pc = "handback" /\ Gone(at[h].msg)
    /\ Goes(h, "handed")
    /\ UNCHANGED <<delivered, delayed, sem, lapsed, fresh, waiting, stopping, results, unwanted, dlq, unread, faults>>

\* handBack: schedule a copy of the job, on a subject of its own ...
HandBack(h) ==
    /\ at[h].pc = "handback" /\ delayed' = delayed \cup {JobAt(h)}
    /\ Goes(h, "handed")
    /\ UNCHANGED <<queue, delivered, sem, lapsed, fresh, waiting, stopping, results, unwanted, dlq, unread, faults>>

\* Handing back with a nak: the message itself comes again.
HandedWithNak(h) ==
    /\ at[h].pc = "handed"
    /\ queue' = [queue EXCEPT ![at[h].msg] = "ready"] /\ delayed' = delayed \ {JobAt(h)}
    /\ Ends(h) /\ waiting' = Unclaimed(h)
    /\ UNCHANGED <<delivered, sem, lapsed, fresh, stopping, results, unwanted, dlq, unread, faults>>

\* ... then ack the original, if the ack arrives.
Handed(h) ==
    /\ at[h].pc = "handed"
    /\ \/ Gone(at[h].msg) /\ faults' = faults
       \/ queue' = queue /\ Duplicates /\ Failing
    /\ Ends(h) /\ waiting' = Unclaimed(h)
    /\ UNCHANGED <<delivered, delayed, sem, lapsed, fresh, stopping, results, unwanted, dlq, unread>>

\* No copy can be scheduled: the job waits too; at shutdown it is naked.
HandBackFails(h) ==
    /\ at[h].pc = "handback" /\ Failing
    /\ \/ /\ at[h].how = "first" /\ waiting' = waiting
          /\ at' = [at EXCEPT ![h].how = "kept", ![h].pc = "get"]
       \/ at[h].how # "first" /\ Ends(h) /\ waiting' = Unclaimed(h)
    /\ UNCHANGED <<queue, delivered, delayed, sem, lapsed, fresh, stopping, results, unwanted, dlq, unread>>

----------------------------------------------------------------------------
(* Running a job. *)

\* The handler returns and its answer is published under the id of the attempt.
Finish(h) ==
    /\ at[h].pc = "run" /\ results' = results \cup {JobAt(h)}
    /\ Goes(h, "ack")
    /\ UNCHANGED <<queue, delivered, delayed, sem, lapsed, fresh, waiting, stopping, unwanted, dlq, unread, faults>>

\* A stop notice, or watchLive, finds the job unwanted: its result is dropped.
Stop(h) ==
    /\ at[h].pc = "run" /\ JobAt(h) \in unwanted
    /\ Goes(h, "ack")
    /\ UNCHANGED <<queue, delivered, delayed, sem, lapsed, fresh, waiting, stopping, results, unwanted, dlq, unread, faults>>

\* The answer is not published (or not known to be): the message is naked.
FinishFails(h) ==
    /\ at[h].pc = "run" /\ Failing
    /\ results' \in {results, results \cup {JobAt(h)}}
    /\ Goes(h, "release")
    /\ UNCHANGED <<queue, delivered, delayed, sem, lapsed, fresh, waiting, stopping, unwanted, dlq, unread>>

\* The ack arrives, or not; the slot is released either way.
Ack(h) ==
    /\ at[h].pc = "ack"
    /\ \/ Gone(at[h].msg) /\ faults' = faults
       \/ queue' = queue /\ Failing
    /\ Goes(h, "release")
    /\ UNCHANGED <<delivered, delayed, sem, lapsed, fresh, waiting, stopping, results, unwanted, dlq, unread>>

\* exhausted: fail the attempt, record the dead letter, terminate the message.
Exhausted(h) ==
    /\ at[h].pc = "exhaust"
    /\ results' = results \cup {JobAt(h)} /\ dlq' = dlq \cup {JobAt(h)}
    /\ Gone(at[h].msg) /\ Ends(h)
    /\ UNCHANGED <<delivered, delayed, sem, lapsed, fresh, waiting, stopping, unwanted, unread, faults>>

\* deadLetter of what cannot be read: nobody is told.
Bad(h) ==
    /\ at[h].pc = "bad" /\ unread' = unread \cup {JobAt(h)}
    /\ Gone(at[h].msg) /\ Ends(h)
    /\ UNCHANGED <<delivered, delayed, sem, lapsed, fresh, waiting, stopping, results, unwanted, dlq, faults>>

\* The failure is not published, or it is and the dead letter or the term fails.
GiveUpUnsent(h) ==
    /\ at[h].pc \in {"exhaust", "bad"} /\ Failing /\ Ends(h)
    /\ UNCHANGED <<queue, delivered, delayed, sem, lapsed, fresh, waiting, stopping, results, unwanted, dlq, unread>>

GiveUpFails(h) ==
    /\ at[h].pc \in {"exhaust", "bad"} /\ Failing /\ Ends(h)
    /\ IF at[h].pc = "bad"
       THEN unread' = unread \cup {JobAt(h)} /\ UNCHANGED <<results, dlq>>
       ELSE results' = results \cup {JobAt(h)} /\ dlq' \in {dlq, dlq \cup {JobAt(h)}} /\ unread' = unread
    /\ UNCHANGED <<queue, delivered, delayed, sem, lapsed, fresh, waiting, stopping, unwanted>>

----------------------------------------------------------------------------
(* Processes. *)

Shutdown(p) ==
    /\ p \in Leaving \ stopping /\ stopping' = stopping \cup {p}
    /\ UNCHANGED <<queue, delivered, delayed, sem, lapsed, fresh, at, waiting, results, unwanted, dlq, unread, faults>>

\* The process dies and is started again; a copy it scheduled is a duplicate.
Crash(p) ==
    /\ Failing
    /\ (\E h \in Handlers : ProcOf[h] = p /\ at[h].pc = "handed") => Duplicates
    /\ at' = [h \in Handlers |-> IF ProcOf[h] = p THEN Idle ELSE at[h]]
    /\ waiting' = waiting \ {p}
    /\ UNCHANGED <<queue, delivered, delayed, sem, lapsed, fresh, stopping, results, unwanted, dlq, unread>>

\* What a handler does without anything failing.
Step(h) ==
    \/ Read(h) \/ Acquire(h) \/ Granted(h) \/ Conflict(h) \/ Claim(h) \/ TurnAway(h) \/ Wait(h) \/ HandBack(h) \/ Handed(h)
    \/ Finish(h) \/ Ack(h) \/ Exhausted(h) \/ Bad(h) \/ Release(h) \/ Released(h)

Next ==
    \/ \E h \in Handlers, m \in Msgs : Deliver(h, m)
    \/ \E m \in Msgs : Expire(m) \/ Fire(m)
    \/ \E j \in Jobs : Obsolete(j) \/ Lapse(j)
    \/ \E h \in Handlers : Step(h) \/ Stop(h) \/ Renew(h)
    \/ \E h \in Handlers : AcquireFails(h) \/ GrantUnseen(h) \/ ReleaseFails(h) \/ HandBackFails(h)
                            \/ FinishFails(h) \/ GiveUpUnsent(h) \/ GiveUpFails(h) \/ ReadFails(h)
    \/ \E p \in Procs : Shutdown(p) \/ Crash(p)

Spec == Init /\ [][Next]_vars

\* Handlers go on, leases of dead holders run out and schedules fire; a message
\* is offered as often as it takes; a waiter that tries again and again finds,
\* sooner or later, a revision nobody changes under it; a release ends, having
\* written or given up after semCASAttempts.
Fairness ==
    /\ \A h \in Handlers : /\ WF_vars(Step(h)) /\ SF_vars(Granted(h))
                          /\ SF_vars(Acquire(h) /\ at'[h].pc = "cas")
                          /\ SF_vars(Released(h) /\ at'[h] = Idle)
    /\ \A j \in Jobs : WF_vars(Lapse(j) /\ faults' = faults)
    /\ \A m \in Msgs : WF_vars(Expire(m) /\ faults' = faults) /\ WF_vars(Fire(m))
    /\ \A m \in Msgs : SF_vars(\E h \in Handlers : Deliver(h, m))
FairSpec == Spec /\ Fairness

----------------------------------------------------------------------------
(* Properties. *)

\* Types; only holders have a lease that can have run out (semValue.Holders).
TypeOK ==
    /\ queue \in [Msgs -> {"none", "ready", "out"}]
    /\ delivered \in [Msgs -> Nat]
    /\ delayed \subseteq Jobs /\ sem \subseteq Jobs /\ lapsed \subseteq sem /\ fresh \subseteq Handlers
    /\ at \in [Handlers -> HandlerType \cup {Idle}]
    /\ waiting \subseteq Procs /\ stopping \subseteq Leaving
    /\ results \subseteq Jobs /\ unwanted \subseteq Jobs /\ dlq \cup unread \subseteq Jobs /\ faults \in Nat

Running == {h \in Handlers : at[h].pc = "run"}

\* The limit of the key: no more jobs run at once, in all processes together,
\* than Concurrency.Max.
WithinLimit == Cardinality(Running) <= Max

\* A job is never dropped: until it is answered, unwanted or a dead letter there
\* is a message or a schedule for it (handBack, ack and nak of handle). Giving it
\* up is not silent: the attempt of a dead letter has failed, unless the job
\* could not even be read (exhausted publishes before deadLetter).
NoJobDropped ==
    /\ dlq \subseteq results
    /\ \A j \in Jobs : \/ j \in results \cup unwanted \cup dlq \cup unread \cup delayed
                       \/ \E m \in Msgs : JobOf(m) = j /\ queue[m] # "none"

\* A busy key costs no delivery attempts: a message is delivered again only
\* after something failed (handBack publishes a copy rather than nak).
BusyIsFree == \A m \in Msgs : delivered[m] <= faults + 1

\* A busy key keeps one handler of each process, and those whose hand-back failed.
OneWaiter ==
    \A p \in Procs : Cardinality({h \in Handlers : ProcOf[h] = p /\ at[h].pc = "wait"}) <= 1 + faults

\* Every job is answered, unwanted, or a dead letter in the end: a crashed
\* holder does not block its key for ever, and the waiters get their turn.
EventuallyAnswered == \A j \in Jobs : <>(j \in results \cup unwanted \cup dlq \cup unread)

=============================================================================
