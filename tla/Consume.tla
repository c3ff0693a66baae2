------------------------------- MODULE Consume -------------------------------
(***************************************************************************)
(* The consumer loops of one process and its readiness: Engine.Run and the *)
(* parts it starts, each a consume.Run (strictly serial, or with a bounded *)
(* number of concurrent handlers) or a core trigger subscription, through  *)
(* successive runs.  The handlers are those of schedules and triggers: a   *)
(* message publishes a start command and is acknowledged, or is not        *)
(* delivered again when its deliveries are used up.                        *)
(***************************************************************************)
EXTENDS Integers, FiniteSets

CONSTANTS
  Parts,      \* the components of the process
  Mode,       \* part -> "serial", "fetch" or "core"
  Cap,        \* Config.Concurrency of a "fetch" part
  Msgs,       \* the messages of the streams
  Of,         \* message -> the part that consumes it
  Slow,       \* messages whose handler waits until it is cancelled
  MaxRuns,    \* bound: calls of Run
  MaxFaults   \* bound: failed publishes, lost acks, panics, failed set-ups

ASSUME ConsumeAssumption ==
  /\ Mode \in [Parts -> {"serial", "fetch", "core"}]
  /\ Cap \in Nat \ {0, 1} /\ Of \in [Msgs -> Parts] /\ Slow \subseteq Msgs
  /\ MaxRuns \in Nat /\ MaxFaults \in Nat /\ IsFiniteSet(Parts) /\ IsFiniteSet(Msgs)

VARIABLES
  running,    \* Run has been called and has not returned
  runs,       \* how many times it was called
  stop,       \* its context is done
  signal,     \* ready.Signal: the current run, parts left, channel closed
  called,     \* parts of the current run whose ready callback has counted
  flush,      \* <<run, part>>: readyWhenFlushed still to call ready
  part,       \* each part's loop
  msg,        \* "queued", "held" (in the client's buffer), "late" (in the
              \* callback of a stopped subscription), "busy" (in a handler),
              \* "done" (acknowledged) or "dead" (deliveries used up)
  faults

vars == <<running, runs, stop, signal, called, flush, part, msg, faults>>

Off == [pc |-> "off", sem |-> 0, want |-> 0, got |-> 0, leaving |-> 0,
        pulled |-> FALSE, stopping |-> FALSE, cancelled |-> FALSE]

Init ==
  /\ running = FALSE /\ runs = 0 /\ stop = FALSE
  /\ signal = [run |-> 0, left |-> 0, up |-> FALSE]
  /\ called = {} /\ flush = {}
  /\ part = [p \in Parts |-> Off]
  /\ msg = [m \in Msgs |-> "queued"] /\ faults = 0

PartAt(p, pc) == part[p].pc = pc
Go(p, pc) == part' = [part EXCEPT ![p].pc = pc]
Busy(p) == {m \in Msgs : Of[m] = p /\ msg[m] = "busy"}
Fault == faults < MaxFaults /\ faults' = faults + 1

-----------------------------------------------------------------------------
(* ready.Signal                                                            *)

Begin(n) == signal' = [run |-> signal.run + 1, left |-> n, up |-> n = 0]
End == signal' = [signal EXCEPT !.run = @ + 1, !.up = FALSE]

AnyRunCounts(p, run) ==
  IF p \in called THEN UNCHANGED <<signal, called>>
  ELSE /\ called' = called \cup {p}
       /\ signal' = [signal EXCEPT !.left = @ - 1, !.up = @ \/ signal.left = 1]

\* The callback of part p in a run: it counts once, and in that run only.
Ready(p, run) ==
  IF signal.run # run \/ p \in called THEN UNCHANGED <<signal, called>>
  ELSE /\ called' = called \cup {p}
       /\ signal' = [signal EXCEPT !.left = @ - 1, !.up = @ \/ signal.left = 1]

-----------------------------------------------------------------------------
(* Engine.Run                                                              *)

Run ==
  /\ ~running /\ runs < MaxRuns
  /\ running' = TRUE /\ runs' = runs + 1 /\ stop' = FALSE
  /\ Begin(Cardinality(Parts)) /\ called' = {}
  /\ part' = [p \in Parts |-> [Off EXCEPT !.pc = "setup"]]
  /\ UNCHANGED <<flush, msg, faults>>

Cancel ==
  /\ running /\ ~stop /\ stop' = TRUE
  /\ UNCHANGED <<running, runs, signal, called, flush, part, msg, faults>>

Return ==
  /\ running /\ \A p \in Parts : PartAt(p, "off")
  /\ running' = FALSE /\ End
  /\ UNCHANGED <<runs, stop, called, flush, part, msg, faults>>

-----------------------------------------------------------------------------
(* A part: set-up, the serial loop, the fetch loop, the core subscription. *)

loop == <<running, runs, stop, flush>>

\* ensureConsumerRetry tries until it succeeds or the context is done.
Setup(p) ==
  /\ PartAt(p, "setup")
  /\ Go(p, IF stop THEN "off"
           ELSE CASE Mode[p] = "serial" -> "subscribe"
                  [] Mode[p] = "fetch" -> "acquire"
                  [] Mode[p] = "core" -> "core")
  /\ flush' = IF Mode[p] = "core" /\ ~stop THEN flush \cup {<<signal.run, p>>} ELSE flush
  /\ UNCHANGED <<running, runs, stop, signal, called, msg, faults>>

\* The subscription itself is refused: the part ends, the others go on.
SetupFails(p) ==
  /\ PartAt(p, "setup") /\ Mode[p] # "fetch" /\ Fault /\ Go(p, "off")
  /\ UNCHANGED <<loop, signal, called, msg>>

Subscribe(p) ==
  /\ PartAt(p, "subscribe") /\ Ready(p, signal.run)
  /\ part' = [part EXCEPT ![p].pc = "serial", ![p].pulled = TRUE]
  /\ UNCHANGED <<loop, msg, faults>>

\* The client pulls one message ahead of the handler.
Receive(p, m) ==
  /\ part[p].pc \in {"subscribe", "serial", "fenced"} /\ Mode[p] = "serial"
  /\ Of[m] = p /\ msg[m] = "queued"
  /\ \A o \in Msgs : Of[o] = p => msg[o] # "held"
  /\ msg' = [msg EXCEPT ![m] = "held"]
  /\ UNCHANGED <<loop, signal, called, part, faults>>

Waiting(p, m) == Of[m] = p /\ (msg[m] = "late" \/ (msg[m] = "held" /\ Busy(p) = {}))

DeliverAnyway(p, m) ==
  /\ Waiting(p, m)
  /\ msg' = [msg EXCEPT ![m] = "busy"]
  /\ UNCHANGED <<loop, signal, called, part, faults>>

\* deliver: handled, or given back once the runner is stopping.
Deliver(p, m) ==
  /\ Waiting(p, m)
  /\ msg' = [msg EXCEPT ![m] = IF msg[m] = "late" \/ part[p].stopping
                               THEN "queued" ELSE "busy"]
  /\ UNCHANGED <<loop, signal, called, part, faults>>

\* fence, at the end of the serial loop.
Fence(p) ==
  /\ PartAt(p, "serial") /\ stop
  /\ part' = [part EXCEPT ![p].pc = "fenced", ![p].stopping = TRUE]
  /\ UNCHANGED <<loop, signal, called, msg, faults>>

\* sub.Stop: what the client still buffers is left to the ack wait, but the
\* callback may have a message it has not passed to deliver yet.
StopSubscription(p) ==
  /\ PartAt(p, "fenced") /\ Go(p, "drain")
  /\ \E to \in {"queued"} \cup (IF Busy(p) = {} THEN {"late"} ELSE {}) :
       msg' = [m \in Msgs |-> IF Of[m] = p /\ msg[m] = "held" THEN to ELSE msg[m]]
  /\ UNCHANGED <<loop, signal, called, faults>>

AcquireCap(p) ==
  /\ PartAt(p, "acquire")
  /\ part' = [part EXCEPT ![p].sem = @ + Cap, ![p].want = Cap, ![p].got = 0,
                          ![p].pc = "fetch"]
  /\ UNCHANGED <<loop, signal, called, msg, faults>>

\* fetchLoop takes the slots that are free, at least one.
Acquire(p) ==
  /\ PartAt(p, "acquire") /\ part[p].sem < Cap
  /\ part' = [part EXCEPT ![p].sem = Cap, ![p].want = Cap - part[p].sem,
                          ![p].got = 0, ![p].pc = "fetch"]
  /\ UNCHANGED <<loop, signal, called, msg, faults>>

\* The context may be found done before a slot is.
Leave(p) ==
  /\ PartAt(p, "acquire") /\ stop
  /\ part' = [part EXCEPT ![p].pc = "drain", ![p].stopping = TRUE]
  /\ UNCHANGED <<loop, signal, called, msg, faults>>

\* pulling: the callback, the first time only.
Pulling(p) ==
  IF part[p].pulled THEN UNCHANGED <<signal, called>> ELSE Ready(p, signal.run)

\* fetchBatch: the pull request is out.
Fetch(p) ==
  /\ PartAt(p, "fetch") /\ Pulling(p)
  /\ part' = [part EXCEPT ![p].pc = "batch", ![p].pulled = TRUE]
  /\ UNCHANGED <<loop, msg, faults>>

\* The request fails, nothing was got.
FetchFails(p) ==
  /\ PartAt(p, "fetch") /\ Fault /\ Go(p, "release")
  /\ UNCHANGED <<loop, signal, called, msg>>

\* A message of the batch goes to a handler of its own.
Hand(p, m) ==
  /\ PartAt(p, "batch") /\ part[p].got < part[p].want
  /\ Of[m] = p /\ msg[m] = "queued"
  /\ msg' = [msg EXCEPT ![m] = "busy"]
  /\ part' = [part EXCEPT ![p].got = @ + 1]
  /\ UNCHANGED <<loop, signal, called, faults>>

\* The batch is complete, its time is up, or the context is done.
EndBatch(p) ==
  /\ PartAt(p, "batch") /\ Go(p, "release")
  /\ UNCHANGED <<loop, signal, called, msg, faults>>

ReleaseAll(p) ==
  /\ PartAt(p, "release")
  /\ part' = [part EXCEPT ![p].sem = @ - part[p].want, ![p].want = 0, ![p].got = 0,
                          ![p].pc = "acquire"]
  /\ UNCHANGED <<loop, signal, called, msg, faults>>

\* The slots of messages that did not come are given back.
Release(p) ==
  /\ PartAt(p, "release")
  /\ part' = [part EXCEPT ![p].sem = @ - (part[p].want - part[p].got),
                          ![p].want = 0, ![p].got = 0, ![p].pc = "acquire"]
  /\ UNCHANGED <<loop, signal, called, msg, faults>>

\* readyWhenFlushed outlives the part it belongs to.
Flushed(run, p) ==
  /\ <<run, p>> \in flush /\ flush' = flush \ {<<run, p>>} /\ Ready(p, run)
  /\ UNCHANGED <<running, runs, stop, part, msg, faults>>

\* Its context is done before a round trip has completed.
FlushGivesUp(run, p) ==
  /\ <<run, p>> \in flush /\ flush' = flush \ {<<run, p>>}
  /\ stop \/ signal.run # run
  /\ UNCHANGED <<running, runs, stop, signal, called, part, msg, faults>>

Unsubscribe(p) ==
  /\ PartAt(p, "core") /\ stop /\ Go(p, "off")
  /\ UNCHANGED <<loop, signal, called, msg, faults>>

-----------------------------------------------------------------------------
(* The handlers.                                                           *)

\* handle returns: the group counts it out, and its slot is still to free.
HandlerEnds(m) ==
  part' = IF Mode[Of[m]] = "fetch"
          THEN [part EXCEPT ![Of[m]].leaving = @ + 1] ELSE part

\* A handler that only waits gives its message back when it is cancelled.
GivesBack(m) ==
  /\ msg[m] = "busy" /\ m \in Slow /\ part[Of[m]].cancelled
  /\ msg' = [msg EXCEPT ![m] = "queued"] /\ HandlerEnds(m)
  /\ UNCHANGED <<loop, signal, called, faults>>

\* The start command is published, the message acknowledged.
Starts(m) ==
  /\ msg[m] = "busy" /\ m \notin Slow
  /\ msg' = [msg EXCEPT ![m] = "done"] /\ HandlerEnds(m)
  /\ UNCHANGED <<running, runs, stop, signal, called, flush, faults>>

\* The publish fails or the handler panics: the message is delivered again,
\* or has used its deliveries up (a trigger's is dead-lettered; when that is
\* is left open).  A lost acknowledgement too brings it back.
Fails(m) ==
  /\ msg[m] = "busy" /\ m \notin Slow /\ Fault
  /\ \E then \in {"queued", "dead"} : msg' = [msg EXCEPT ![m] = then]
  /\ HandlerEnds(m)
  /\ UNCHANGED <<running, runs, stop, signal, called, flush>>

KeepsSlot(p) == part[p].leaving > 0 /\ UNCHANGED vars

\* The handler's goroutine frees its slot last.
Free(p) ==
  /\ part[p].leaving > 0
  /\ part' = [part EXCEPT ![p].leaving = @ - 1, ![p].sem = @ - 1]
  /\ UNCHANGED <<loop, signal, called, msg, faults>>

-----------------------------------------------------------------------------
(* drain                                                                   *)

WaitsOn(p) ==
  /\ PartAt(p, "drain") /\ Busy(p) # {} /\ ~part[p].cancelled
  /\ UNCHANGED vars

\* The budget is exhausted: the handlers' context is cancelled.
BudgetSpent(p) ==
  /\ PartAt(p, "drain") /\ Busy(p) # {} /\ ~part[p].cancelled
  /\ part' = [part EXCEPT ![p].cancelled = TRUE]
  /\ UNCHANGED <<loop, signal, called, msg, faults>>

\* No handler left: the pin is handed over and the part returns.  A handler's
\* goroutine may still have its slot of the old semaphore to free.
Drained(p) ==
  /\ PartAt(p, "drain") /\ Busy(p) = {}
  /\ part' = [part EXCEPT ![p] = Off]
  /\ UNCHANGED <<loop, signal, called, msg, faults>>

-----------------------------------------------------------------------------
Step(p) ==
  \/ Setup(p) \/ Subscribe(p) \/ Fence(p) \/ StopSubscription(p)
  \/ Fetch(p) \/ EndBatch(p) \/ Release(p) \/ Unsubscribe(p)
  \/ Acquire(p) \/ BudgetSpent(p) \/ Drained(p)

Next ==
  \/ Run \/ Cancel \/ Return
  \/ \E p \in Parts : Step(p) \/ Leave(p) \/ Free(p)
  \/ \E p \in Parts : SetupFails(p) \/ FetchFails(p)
  \/ \E p \in Parts, m \in Msgs : Receive(p, m) \/ Deliver(p, m) \/ Hand(p, m)
  \/ \E p \in Parts, run \in 1..(2 * MaxRuns) : Flushed(run, p) \/ FlushGivesUp(run, p)
  \/ \E m \in Msgs : GivesBack(m) \/ Starts(m) \/ Fails(m)

\* What happens by itself and comes to an end: the server and its client hand
\* a serial part its messages, a handler that works ends, one that waits ends
\* when it is cancelled.
Settling ==
  \/ Return
  \/ \E p \in Parts : Free(p)
  \/ \E p \in Parts, m \in Msgs : Receive(p, m) \/ Deliver(p, m)
  \/ \E p \in Parts, run \in 1..(2 * MaxRuns) : Flushed(run, p)
  \/ \E m \in Msgs : GivesBack(m) \/ Starts(m)

\* Loops and timers go on.  select is fair between a free slot and a done
\* context (SF on Leave), and a message that is queued is in a batch sooner or
\* later (SF on Hand).  Nothing makes Run be called or its context end.
Fairness ==
  /\ WF_vars(Settling)
  /\ \A p \in Parts : WF_vars(Step(p))
  /\ SF_vars(\E p \in Parts : Leave(p))
  /\ \A m \in Msgs \ Slow : Mode[Of[m]] = "fetch" => SF_vars(Hand(Of[m], m))

Spec == Init /\ [][Next]_vars /\ Fairness

-----------------------------------------------------------------------------
(* Properties.                                                             *)

\* Types, and the capacity of the semaphore.
TypeOK ==
  /\ running \in BOOLEAN /\ stop \in BOOLEAN /\ runs \in 0..MaxRuns
  /\ signal \in [run : 0..(2 * MaxRuns), left : 0..Cardinality(Parts), up : BOOLEAN]
  /\ called \subseteq Parts /\ flush \subseteq (1..(2 * MaxRuns)) \X Parts
  /\ \A p \in Parts : part[p].sem \in 0..Cap /\ part[p].leaving \in 0..Cap
  /\ msg \in [Msgs -> {"queued", "held", "late", "busy", "done", "dead"}]
  /\ faults \in 0..MaxFaults

\* fetchLoop's semaphore counts exactly the handlers, those that have yet to
\* free their slot, and the slots set aside for the pull request under way:
\* none is lost or freed twice when a batch comes short, a request fails or
\* a handler panics, so no more than Concurrency handlers ever run.
SlotsHeld ==
  \A p \in Parts : Mode[p] = "fetch" =>
    part[p].sem = Cardinality(Busy(p)) + part[p].leaving + part[p].want - part[p].got

\* When Run has returned no handler of its parts runs or will start, and the
\* client holds no message back from the next run (fence, drain).
QuietAfterReturn == ~running => \A m \in Msgs : msg[m] \notin {"held", "busy"}

\* Ready's channel is closed only while a run is in progress of which every
\* part pulls, or did until the run was told to stop: a callback that comes
\* from an earlier run changes nothing (ready.go Begin).
ReadyTruthful ==
  signal.up => /\ running
               /\ stop \/ \A p \in Parts :
                    IF Mode[p] = "core" THEN PartAt(p, "core") /\ <<signal.run, p>> \notin flush
                    ELSE part[p].pulled

\* Run returns after its context is done, even with a handler that would wait
\* for ever: the drain budget cancels it.
ShutsDown == stop ~> ~running

\* While a run goes on, every message is started or uses its deliveries up,
\* whatever fails on the way and although one handler never ends: it takes one slot.
Handled ==
  running ~> \/ stop
             \/ \A m \in Msgs \ Slow : msg[m] \in {"done", "dead"} \/ PartAt(Of[m], "off")

=============================================================================
