# packtrail in TLA+

A model of packtrail, the durable workflow engine of this repository, checked
with TLC and, in part, proved with TLAPS.

## The system

packtrail runs durable workflows on NATS JetStream. A *flow* is a graph of nodes
(tasks, choices, fan-outs and joins, awaits, maps, subflows). An *execution* of a
flow is a log of events, and its state is the fold of that log.

```
 client, triggers, cron --commands--> ENGINE --events--> log --> DISPATCHER
          ^                             ^                           |   |
          |                             |                   jobs,   |   +--> index
        reads                        results,              timers,  |
   (snapshot, log, archive)          timers, children      children v
                                        +------- WORKERS, scheduler, child executions
```

* The **engine** takes a command, loads the state of the execution (from its
  cache, or a snapshot and the log), lets the **fold** decide, appends the
  decision if nobody appended since, and acknowledges the command. Afterwards it
  may save a snapshot or *continue* a long log: archive it as a segment, append
  one event that carries the state, purge the rest.
* The **dispatcher** takes the decisions of the log in order and turns them into
  effects (jobs, timers, child executions, the message to the parent) and index
  entries. An execution it can never process is *quarantined* until an operator
  asks for a replay.
* **Workers** run jobs, under a limit per concurrency key, and send results.
* **Retention** archives and later deletes finished executions.
* Every part is a **consumer loop** (`internal/consume`) started by
  `Engine.Run`, whose readiness `internal/ready` reports.

## Modules

| module | models | theorems in |
|---|---|---|
| FlowDef | `flow`: the definition and what `Validate` guarantees | |
| Fold | `internal/fold`: the state of an execution and every decision on it | FoldProofs, FoldWorkProofs, FoldFamilyProofs |
| Decisions | the fold as the engine sees it: which command decides something on which history | |
| Journal | what the event log promises: one engine that decides serially | |
| Engine | `internal/engine`: deliver, load, decide, append, ack, retry, dead letter, with the cache | EngineProofs |
| Worker | `worker`: work queue, per-key limit, hand-backs, stop notices, results | WorkerProofs |
| Dispatch | `internal/dispatch`, `internal/projection`: effects, index, quarantine, replay | DispatchProofs |
| Lifecycle | snapshots, continuation, archive, delete and the reads of `internal/loader` | LifecycleProofs |
| Consume | `internal/consume`, `internal/ready`, triggers and cron: the loops of a process | ConsumeProofs |

An MC module per component holds the values that a `.cfg` gives to constants.
PROJECT.json maps every definition to the lines it models.

### Fold

State: the fields of `fold.State` that control anything (`tasks`, `fans`,
`maps`, `awaits`, `children`, `timers`, `buffered`, the ids already seen, the
counters), plus what the outside has: `jobs` published, children `started`,
`ended` and `cancelled`. A decision is a chain of calls (`enter`, `schedule`,
`evalJoin`, `mapProgress`, `fail`, ...); each is an action, `todo` says which one
comes next, and a command is only taken when the chain is over. Expressions,
outputs and reducers are data: the outcome of a choice, the length of a list and
the usage of a result are nondeterministic. Times are left out: a timer may fire
as soon as it is armed, late, or after it has become obsolete.

### Engine and Journal

One execution, several engines. `Decisions` says when a command is *not found*,
refused, unreadable, without effect or a decision; its payload does not matter.
The cached entry is the object the decision mutates in place, so it is kept apart
from the sequence it believes to be last, as in the code. An append may be
answered, conflict, fail, or time out and be stored later (`wire`, `Land`).
`Engine` refines `Journal` under the mapping `journal <- log`.

### Worker

The holders of one key are a value that is read, changed and written back if its
revision is still the latest (`fresh`). A lease runs out once nobody renews it
(`Lapse`); a busy key makes one handler per process wait and the others hand
their job back as a delayed copy. Messages come again when nobody acknowledges
them. Faults: crash, failed call, lost ack, late renewal, second delivery.

### Dispatch

The log of one execution with decisions `1..Last`; each dispatcher and the replay
have a program counter over `skip`, `apply`, `effects`, `index`, `delete`, `ack`
and the quarantine branches. `Failures` are the decisions that may be impossible
to decode or whose effects the server refuses; TLC chooses which. The state a
process caches is the number of decisions folded into it; `view` is the head state
it keeps to avoid starting work that has already ended. Broadcasts may be lost or
late. The index is its summary's status and the status keys; once two actors work
on the execution at once it counts as raced and is not followed any more.
`Risks` names where a fault may hit besides crashes and failed calls: `"again"`, a
decision in work is delivered to a second process (its heartbeats were missed);
`"confirm"`, the mark cannot be read after a failure; `"catchup"`, a replay that
has lifted the mark.

### Lifecycle

An event is its index and the live log is the interval `first..head`. Each call to
the server is a step: `Save`, `ReadSegment`, `PutSegment`, `AppendContinued`,
`SaveContinued`, `ReadFloor`, `Purge`, the five steps of `Archive`, the four of
`Delete`. A client's `Get`, `StateAt` or `History` is a chain of the loader's own
reads, interleaved with all that. The dispatcher is reduced to its ack floor;
when it reaches the terminal event it schedules the retention command.

### Consume

A process has parts: serial loops, loops with `Cap` slots, core subscriptions. A
part is set up, asks for messages, runs handlers, and at shutdown fences, stops,
drains within a budget and returns. The callback of `readyWhenFlushed` outlives
its part and its run. `signal` is `ready.Signal`.

## Runs

| run | instance | shows |
|---|---|---|
| fold_work | one flow with a retried task in a choice loop, a fan-out with a subflow and an early join, a map of tasks, a map of subflows, two awaits; one fork; lists of up to 3 items | TypeOK, NeverStuck, AttemptsBounded, BudgetHolds, FanTracksWork, NoOrphanChild, CancelsOnlyItsOwn, MapWindow, FreshJobs, CompletesClean |
| fold_loop | a cycle through every kind of node, signals of two names | NoMissedSignal, EventuallyEnds |
| engine_pinned | two engines, a start, a result, an update, a cancel, one fault; the pin moves only when an engine stops | NoLostCommand, EventuallySettled |
| engine_roaming | the pin moves at any time, reads lag, one decision is too large | TypeOK, AppliedOnce, NothingAfterEnd, ImplementsJournal (refinement) |
| engine_stale_cache | the pin leaves a running engine and comes back | **violates** NoLostCommand |
| worker_limit | three symmetric jobs, three handlers in two processes, limit 1, one fault | TypeOK, WithinLimit, BusyIsFree, OneWaiter |
| worker_answers | two jobs, two processes, shutdown, duplicates, late renewals, one fault | NoJobDropped, EventuallyAnswered |
| dispatch | two dispatchers and a replay, three decisions (start, attempt, end), one fault, second deliveries among them; the effects of the start or the end refused, or the attempt unreadable, or nothing wrong | TypeOK, NoWorkLost, ParentTold, IndexSettled, MarkIsFirst |
| dispatch_catch_up | the same, with a fault after the mark is lifted | **violates** NoWorkLost |
| lifecycle | up to six decisions, continued and snapshotted every two events, one fault, one reader | TypeOK, ReadsRight, EffectsBeforePurge, DeletedClean, EventuallyGone |
| lifecycle_archived | the same, no faults | **violates** ArchivedReadable |
| consume | a serial part, a part with two slots, a core trigger; two runs, one handler that never ends by itself, one fault | TypeOK, SlotsHeld, QuietAfterReturn, ReadyTruthful, ShutsDown, Handled |

What the properties say:

* *Fold.* **NeverStuck**: between decisions an open execution has something in
  flight, and everything that waits has what wakes it. **FanTracksWork**: the
  table of a fan-out says exactly which branches are in flight, and its join is
  still undecided. **MapWindow**: a map has `next - done` items in flight, never
  more than its limit. **NoOrphanChild**, **CancelsOnlyItsOwn**: no child is left
  running behind an execution, and a fork never cancels a child of its source.
  **FreshJobs**: no job id is published twice. **CompletesClean**: completing
  leaves nothing in flight. **AttemptsBounded**, **BudgetHolds**: retry and usage
  limits. **NoMissedSignal**: a signal that came is not left waiting beside an
  await that wants it. **EventuallyEnds**.
* *Engine.* **ImplementsJournal**: racing, crashing, lagging engines write the log
  one engine would write. **AppliedOnce**, **NothingAfterEnd**. **NoLostCommand**:
  an acknowledged command has nothing left to do. **EventuallySettled**: every
  command is acknowledged or dead-lettered.
* *Worker.* **WithinLimit**: never more jobs of a key than its limit.
  **BusyIsFree**, **OneWaiter**: a busy key costs no delivery attempt and one
  handler per process. **NoJobDropped**: a job has a message, a schedule or an
  answer, and a dead letter is also a failed attempt. **EventuallyAnswered**.
* *Dispatch.* **NoWorkLost**: an acknowledged decision that scheduled work has
  published it, or the log has ended it, or the mark or a replay covers it.
  **ParentTold**: the closing effects run, quarantined or not. **IndexSettled**:
  when all is quiet the index shows the status and no other. **MarkIsFirst**: the
  mark never moves past the first failure.
* *Lifecycle.* **ReadsRight**: whatever happens between two calls of a read, it
  gives the state it was asked for, or the execution was deleted.
  **EffectsBeforePurge**: nothing leaves the log before the dispatcher has
  processed it. **DeletedClean**: a deletion, however often interrupted, leaves
  nothing a state lists. **EventuallyGone**: retention always comes to its end.
* *Consume.* **SlotsHeld**: the semaphore counts exactly the handlers and the
  slots set aside. **QuietAfterReturn**: after `Run` returns nothing runs.
  **ReadyTruthful**: readiness belongs to the run in progress. **ShutsDown**,
  **Handled**.

Every property of a passing run is known to fail for some plausible change of
the code: PROJECT.json names a mutated form of a definition for each of them.

### Bounds

All bounds are constants named in the modules. One fault per run is the usual
bound: with it, every single crash, failed call or lost message is tried at every
point, in all interleavings; the hazards listed in PROJECT.json need one, and
none of the properties depends on faults being rare. `MaxEvents = 6` with
`Limit = 2` lets an execution continue twice, so that one segment list, one purge
with leftovers and one archive of a continued log all happen. Three decisions are
enough for a failure, a decision skipped behind it and the end. Two slots and
three messages make a batch come short while another handler waits. Two runs are
needed for a callback of the first to arrive in the second. `CHECK_DEADLOCK FALSE`
is set where an execution, a queue or a process may come to rest; only Lifecycle,
whose client can always read again, cannot.

### Fairness

* Fold: weak fairness of a decision under way and of the results, timers and
  children owed; none of signals, resumes, cancels, updates and forks, which
  nobody owes.
* Engine: an engine goes on with what it handles (weak); a pending message is
  offered again whenever the pinned engine is free infinitely often (strong), as
  the consumer redelivers up to its limit.
* Worker: handlers go on, leases run out, schedules fire (weak). Strong fairness
  of a waiter's successful compare-and-swap and of a delivery: JetStream offers a
  message again, and the waiter polls with no other claim on the key for ever.
* Lifecycle: commands are redelivered, the dispatcher goes on, time passes (weak).
* Consume: loops, timers and handlers go on (weak); Go's `select` is fair between
  a free slot and a done context, and a queued message is sooner or later in a
  batch (strong). Nothing makes `Run` be called or its context end.

Dispatch and the Roaming and Limit runs check safety only and need no fairness.

## Findings

Three runs show the code doing what a comment or document says it does not.

1. **engine_stale_cache** (`engine.go:487`). An engine that loses the pin of its
   partition, keeps running and gets it back trusts its cache. If the result of a
   job scheduled meanwhile arrives, the cached state finds it obsolete; a decision
   without events is acknowledged without an append, so nothing compares the cache
   with the log. `consume.go:144` says "correctness never depends on the pin".
2. **dispatch_catch_up** (`quarantine.go:316`). `Replay` lifts the mark before its
   catch-up pass. If that pass, or the process, fails, the redelivered command
   finds no mark and stops; a decision skipped between the end of the first pass
   and the removal of the mark never runs.
3. **lifecycle_archived** (`loader.go:299`). A continuation leaves events the
   dispatcher has not processed in front of itself. If the execution then ends,
   `Archive` stores them first and `LoadArchived` folds from them: the archived
   execution can be neither read nor deleted.

Smaller limits met on the way, which the runs avoid by a constant or a condition:

* Two copies of one work message share a holder id. When a copy is delivered under
  a running handler, the first to end releases the slot of both (`semaphore.go:208`),
  so WithinLimit is checked with `Duplicates = FALSE`.
* Fan-out branches and joins count as node entries but are not checked against
  `max_steps` (`decide.go:855`), so the total may pass it by one fan-out.
* Two engines that continue one execution at once may store a shorter segment over
  a longer one of the same name (`engine.go:620`); ReadsRight is checked and
  proved with one engine, EffectsBeforePurge for any number.
* An `Archive` by hand right after the end purges decisions the dispatcher has not
  processed; `Manual = FALSE` is the case of retention.
* A read of the quarantine mark that fails lets the mark move forward
  (`dispatch.go:134`); the `Risks` constant of Dispatch switches it on. So do two
  faults that hand a decision in work, and the next one, to a second process: both
  find no mark, and the later one writes over the first (`projection.go:206`). The
  run has one fault, the theorem leaves second deliveries out.
* The catch-up pass and a dispatcher may index one execution at once and leave an
  older status key; IndexSettled is stated for executions nobody raced on.
* The publish of a cron firing that fails on every delivery is given up without a
  dead letter (`cron.go:94`).
* Signal and update ids are remembered for a day and up to 10000 of them
  (`state.go:828`); Fold keeps every id of its short runs.

## Proofs

All theorems hold for every value of the constants that satisfies the named
ASSUMEs of the modules, which say no more than that sets and numbers have their
types and, for flows, what `Validate` guarantees.

* **Fold**, for every flow that `Validate` accepts. Every safety property of the
  runs is proved; almost none is inductive as it stands, because a property that
  holds between decisions is broken and restored in the middle of one.
  * `FoldProofs`: *TypeCorrect*; *BudgetsHold* (the decision that charges a usage
    is the one that fails the execution); *AttemptsAreBounded* (a task, its retry
    timer and the call that schedules it agree on the attempt); *JobsAreFresh* (no
    generation is ahead of the counter they are drawn from). Then one thread of
    control: `OneLocus` says that everything in flight belongs to one node of one
    kind and that the call the decider makes next fits it, `Window` gives the
    number of items of an open map, `RekickOK` says that a fork only starts again
    what is in flight. The three are inductive together with the types (`LInv`),
    one lemma per call and command.
  * `FoldWorkProofs`: relative to `LInv`, what waits has its timer (`Timed`), the
    table of a fan-out is exact up to the branches yet to start (`FanInv`), and a
    buffered signal and an open await of its name meet only while the call that
    consumes it is next (`SignalInv`).
  * `FoldFamilyProofs`: every child is awaited, answered, cancelled or abandoned,
    up to the call that is about to cancel it (`Family`). It also discharges the
    facts on cardinalities the others assume (`Counting`) and draws the
    conclusions: *CompletingIsClean*, *MapWindowIsExact*, *FanOutsTrackWork*,
    *ExecutionsAreNeverStuck*, *SignalsAreNotMissed*,
    *OnlyOwnChildrenAreCancelled*, *NoChildIsOrphaned*.
* **Engine** (`EngineProofs`). The inductive invariant `EInv` says that an append
  under way, or given up and still on the wire, was decided on exactly the prefix
  of the log its expected sequence names, and that a cached state is such a prefix
  or has ended. So every step that changes the log appends a decision the whole
  log makes (`StepIsRecorded`), which is a step of Journal:
  *EngineImplementsJournal*. *CommandsAppliedOnce* and *NothingStoredAfterEnd*
  follow from it.
* **Engine**, continued. *NoCommandIsLost*, assuming that the pin leaves an
  engine only when it stops and that reads do not lag (the finding above shows
  that the first assumption is needed). Then only the pinned engine has a handler
  or a cache, what it caches decides like the log, and an absorbed command stays
  absorbed.
* **Lifecycle** (`LifecycleProofs`). *NoPurgeOutrunsDispatcher*, assuming nobody
  archives or deletes by hand: for any number of engines, limits and faults. A
  continuation purges up to a floor it has read, which can only have risen. An
  archival or deletion purges everything; its command exists only after the
  dispatcher has processed the terminal event, and nothing is appended after that
  event, because an engine that still wants to append a continuation decided on an
  older head and conflicts. The invariant `IInv` states this of every engine's
  hand. *TypeCorrect* holds for any number of engines, and by hand too.
  *ReadsAreRight* and *DeletionLeavesNothing* are proved for one engine at a time
  (`Solo`), since two that continue at once break the first (see above). `SoloInv`
  says that the segments a continuation lists join up from the first event to it,
  that the log is cut in front of the last base only, that an archive covers the
  log from that base at the latest, and that what an engine decided on is still
  so. `ReadInv` says what a read may rely on between two calls, and `Grows` what no
  step of an engine takes back: a purged log stays purged, an archive keeps its
  first event until a deletion begins. `DelInv` says that a deletion has in hand
  every listed segment that is left, and that with log and archive gone none is
  left, because nothing could name it any more; it needs `IInv`, without which the
  dispatcher could write the summary again behind a deletion.
* **Worker** (`WorkerProofs`). *NoJobIsDropped*: besides the types, `DropInv` says
  that an unanswered job has a schedule or a *pending* message, one that nobody who
  has handed the job back is about to acknowledge; so the only messages that go are
  those of answered jobs and those whose copy is on its way. *BusyKeyIsFree*:
  by the time a message is abandoned a fault has paid for its next delivery
  (`FreeInv`). *OneWaiterPerProcess*: the claim belongs to one handler, and the
  handlers that keep a job are no more than the failed hand-backs (`WaitInv`).
  *LimitHolds*, assuming neither `Duplicates` nor `LateRenewals`: no job is in two
  hands (`UniqueInv`), and what a handler is about to write on the latest revision
  keeps every holder that works and is within the limit (`SemInv`), so the handlers
  that run map one to one into the holders.
* **Dispatch** (`DispatchProofs`), for any log, any number of processes and faults,
  and at most one thing wrong in the log. `Sound` adds to the types where the
  actors are: a process works on a decision that is at most the next to
  acknowledge, the replay is inside its scan, and its first pass runs under the
  mark. *TypeCorrect* follows from it.
  * *WorkIsKept* (NoWorkLost), assuming `Risks \subseteq {"again"}`: the finding
    dispatch_catch_up shows that a replay hit after it has lifted the mark does
    lose work. `BadInv` says who has met what is wrong: a decision that cannot be
    read is folded into nobody's state, and whatever fails for good lies in the
    part the first pass scans, so the catch-up pass, which runs beyond it, cannot
    fail (`CatchSafe`). `WorkInv` then says that what a process takes for done is
    safe (published or ended) or kept, that a process about to write the mark
    leaves no unsafe work before it, and that the replay leaves none behind it.
  * *MarkStaysFirst* (MarkIsFirst) and *ParentIsTold* (ParentTold), assuming
    `Risks \subseteq {"catchup"}`: with one process at a time (`Solo`) whoever is
    about to write the mark has found none, and it is lifted only by a first pass
    that began at it and ends behind it (`MarkInv`). So a mark at the last decision
    goes only after a replay has run the closing effects (`ToldInv`).
  * *IndexSettles* (IndexSettled), assuming `"confirm" \notin Risks`. Until two
    actors meet, `Followed` says that the index speaks of no decision before the
    mark, or the acknowledged ones if there is none (`Cur`, `Base`); that the actor
    at work is beyond these; and that it may acknowledge only once its own status
    is listed and every older one has gone. It holds after every half-finished
    write, so a retry or a replay can start from it.
* **Consume** (`ConsumeProofs`). *TypeCorrect*, *SlotsAreHeld*, *QuietOnReturn* and
  *ReadinessIsTruthful*, for any finite sets of parts and messages. One invariant:
  each point of a loop has its slots (`LoopOK`, `SlotsOK`), a message is only held
  or handled where its part is not off (`MsgOK`), and the signal counts the
  callbacks of the run that goes on, while those left of an earlier run carry its
  number (`SignalOK`, `PartSignalOK`).

Only model-checked: liveness (EventuallyEnds, EventuallySettled,
EventuallyAnswered, EventuallyGone, ShutsDown, Handled), which is out of the
prover's reach. Every safety property of a passing run has its theorem. Where a
theorem assumes more than its run (MarkIsFirst and ParentTold without second
deliveries), the rest stays with the run and its bounds.

## Not modelled

* Parsing of flows, expressions (CEL), reducers, input and output values: they
  reach control only through outcomes that Fold leaves open.
* Wire format, subjects, message ids, blobs as content. Deduplication by message
  id is in Engine and Worker as far as it changes what is delivered.
* The server: JetStream appends under an expected sequence, keeps consumers,
  redelivers and schedules. It is modelled from how the code uses it.
* Provisioning, the registry of definitions, the application store, metrics,
  command line, web interface, examples and test harnesses: calls and formatting
  without a protocol of their own.
* The client's `Wait` and `Watch`, which follow a stream of the server. A `Wait`
  whose watch is created after the execution was archived waits for its deadline
  (`client_more.go:451`).
* Several executions of one id: a deleted id may be used again, while a dispatcher
  may still keep state under it (`dispatch.go:281`).
* Time: timers, leases, windows and budgets may end at any moment after they
  began; cron expressions are not evaluated.
