-------------------------------- MODULE Fold --------------------------------
(***************************************************************************)
(* The deterministic core of packtrail: the decider of internal/fold.      *)
(*                                                                         *)
(* The state of one execution (fold.State) and the decisions the engine    *)
(* takes on it, one per command.  A decision is a chain of calls, each of  *)
(* which emits events that are applied at once (decider.emit): enter,      *)
(* schedule, evalJoin, mapProgress, ...  The chain is modelled call by     *)
(* call: todo is the call the decider makes next, and rekick what is left  *)
(* of the loop of a fork's re-dispatch.  A command is taken only when both *)
(* are empty (Idle), so a decision is never interleaved with another; the  *)
(* invariants about stored states are stated for Idle.                     *)
(*                                                                         *)
(* The environment is what the dispatcher published: jobs (a worker may    *)
(* answer any of them at any time, late or twice), the timers of the       *)
(* state, and the children started.                                        *)
(***************************************************************************)
EXTENDS FlowDef

CONSTANTS
    MaxItems,   \* bound: the longest list a map node runs over
    MaxNum,     \* bound: no resume or signal loop allocates past this number
    MaxExec,    \* bound: the execution may be forked MaxExec - 1 times
    Usages,     \* the usage one result may report
    SignalIds,  \* the command ids of the signals sent
    UpdateIds   \* the command ids of the updates sent

ASSUME FoldAssumption ==
    /\ MaxItems \in Nat /\ MaxNum \in Nat /\ MaxExec \in Nat
    /\ Usages \subseteq Nat

VARIABLES
    status,     \* "none" before the start, "open" while running or waiting
    tasks,      \* State.Tasks: the active task instances
    fans,       \* State.Fans: the open fan-outs
    branch,     \* Fan.Branches: the outcome of each fan-out branch
    maps,       \* State.Maps
    awaits,     \* State.Awaits: the timer of each open await (0: not open)
    children,   \* State.Children
    timers,     \* State.Timers
    num,        \* State.N: the last number allocated
    steps,      \* State.Steps: node entries
    counters,   \* State.Counters
    buffered,   \* State.Buffered: signals received and not consumed
    signalIDs,  \* State.SignalIDs
    updateIDs,  \* State.UpdateIDs
    todo,       \* the next call of the decision under way
    rekick,     \* the rest of a fork's re-dispatch
    inherited,  \* decider.inherited: children of the fork's source
    exec,       \* which execution this is: 1, then its fork, ...
    jobs,       \* the jobs published for this execution
    started,    \* the children this execution started
    ended,      \* the children whose result it took
    cancelled   \* the children it asked to cancel

flight == <<tasks, fans, branch, maps, awaits, children, timers>>
memory == <<buffered, signalIDs, updateIDs>>
outside == <<jobs, started, ended, cancelled>>
vars == <<status, flight, num, steps, counters, memory, todo, rekick, inherited, exec, outside>>

----------------------------------------------------------------------------
\* Instances are keyed <<node, 0>>, or <<node, i>> for the i-th item of a map.
Keys == Nodes \X (0 .. MaxItems)
Plain(n) == <<n, 0>>
NodeOf(k) == k[1]

NoTask == [status |-> "none", owner |-> None, gen |-> 0, attempt |-> 0]
NoChild == [exec |-> 0, nr |-> 0, owner |-> None]
NoMap == [open |-> FALSE, len |-> 0, next |-> 0, done |-> 0]

TaskType == [status : {"none", "scheduled", "retrying", "interrupted"}, owner : Maybe, gen : Nat, attempt : Nat]
ChildType == [exec : Nat, nr : Nat, owner : Maybe]
ChildId == [exec : Nat, nr : Nat]
StartType == [id : ChildId, node : Nodes]
MapType == [open : BOOLEAN, len : 0 .. MaxItems, next : Nat, done : Nat]
TimerType == [id : Nat \ {0}, purpose : {"retry", "timeout", "await"}, key : Keys, gen : Nat, attempt : Nat]
JobType == [key : Keys, gen : Nat, attempt : Nat]
SignalType == [name : SignalNames, id : SignalIds]
Ops == {"idle", "enter", "branch", "evalJoin", "mapProgress", "abortMap", "consume", "fail", "complete"}
TodoType == [op : Ops, node : Maybe, i : Nat]
RekickType == [phase : {"no", "tasks", "awaits", "children"}, left : SUBSET Keys]

Call(op, n) == [op |-> op, node |-> n, i |-> 0]
Done == Call("idle", None)
FailCall == Call("fail", None)
NoRekick == [phase |-> "no", left |-> {}]

Idle == todo = Done /\ rekick = NoRekick
Terminal == {"completed", "failed", "cancelled"}

Active(k) == tasks[k].status # "none"
Running(k) == children[k] # NoChild
IdOf(c) == [exec |-> c.exec, nr |-> c.nr]

\* The state fold.New returns.
Init ==
    /\ status = "none"
    /\ tasks = [k \in Keys |-> NoTask]
    /\ fans = {} /\ branch = [n \in Nodes |-> "pending"]
    /\ maps = [n \in Nodes |-> NoMap]
    /\ awaits = [n \in Nodes |-> 0]
    /\ children = [k \in Keys |-> NoChild]
    /\ timers = {} /\ num = 0 /\ steps = 0
    /\ counters = [c \in Counters |-> 0]
    /\ buffered = <<>> /\ signalIDs = {} /\ updateIDs = {}
    /\ todo = Done /\ rekick = NoRekick /\ inherited = {} /\ exec = 1
    /\ jobs = {} /\ started = {} /\ ended = {} /\ cancelled = {}
----------------------------------------------------------------------------
\* Helpers of the decider.

\* overBudgetWith: a counter with a budget exceeds it.
OverBudget(c) == \E x \in Counters : Flow.budget[x] > 0 /\ c[x] > Flow.budget[x]

AddUsage(u) == [x \in Counters |-> counters[x] + u[x]]

\* current: the active attempt job j addresses, and nothing older.
Current(j) ==
    /\ tasks[j.key].gen = j.gen
    /\ tasks[j.key].attempt = j.attempt
    /\ tasks[j.key].status = "scheduled"

\* Mutant of CancelChildren: a fork takes the children of its source for its own.
CancelChildrenOfSource ==
    {IdOf(children[k]) : k \in {x \in Keys : Running(x) /\ NodeOf(x) \notin Flow.abandon}}

\* cancelChildren: those to cancel when the execution itself ends.
CancelChildren ==
    {IdOf(children[k]) : k \in {x \in Keys : /\ Running(x) /\ NodeOf(x) \notin Flow.abandon
                                             /\ IdOf(children[x]) \notin inherited}}

\* Mutant of OwnedChildren: a settled owner lets its children run on.
OwnedChildrenForgotten(o) == {}

\* ownedChildren: those to cancel when fan-out or map o settles.
OwnedChildren(o) ==
    {IdOf(children[k]) : k \in {x \in Keys : /\ Running(x) /\ children[x].owner = o
                                             /\ NodeOf(x) \notin Flow.abandon}}

\* Mutant of DropTasks: the instances of a settled owner stay active.
DropTasksForgotten(o) == tasks

\* dropChildren and the cancellation of the tasks of owner o.
DropTasks(o) == [k \in Keys |-> IF tasks[k].owner = o THEN NoTask ELSE tasks[k]]
DropChildren(o) == [k \in Keys |-> IF children[k].owner = o THEN NoChild ELSE children[k]]

\* applyScheduled and the Child case of applyWait: the map's Next moves past item k.
MapNext(k, owner) ==
    IF owner = NodeOf(k) /\ maps[owner].open /\ maps[owner].next < k[2]
    THEN [maps EXCEPT ![owner].next = k[2]] ELSE maps

\* Mutants of Settle: the instance is kept with its outcome; the fan-out is not told.
SettleKeepsInstance(k, outcome) ==
    /\ tasks' = [tasks EXCEPT ![k].status = outcome]
    /\ branch' = IF tasks[k].owner \in fans THEN [branch EXCEPT ![NodeOf(k)] = outcome] ELSE branch
SettleTellsNobody(k, outcome) == tasks' = [tasks EXCEPT ![k] = NoTask] /\ UNCHANGED branch

\* settleTask: the instance goes, its fan-out records the outcome.
Settle(k, outcome) ==
    /\ tasks' = [tasks EXCEPT ![k] = NoTask]
    /\ branch' = IF tasks[k].owner \in fans THEN [branch EXCEPT ![NodeOf(k)] = outcome] ELSE branch

\* schedule: one attempt of instance k, with its timeout timer. gen 0 allocates
\* a fresh generation; live is the set of timers it adds to.
Schedule(k, owner, gen, attempt, live) ==
    LET g == IF gen = 0 THEN num + 1 ELSE gen
        m == IF gen = 0 THEN num + 1 ELSE num
        timeout == [id |-> m + 1, purpose |-> "timeout", key |-> k, gen |-> g, attempt |-> attempt]
    IN  /\ tasks' = [tasks EXCEPT ![k] = [status |-> "scheduled", owner |-> owner, gen |-> g, attempt |-> attempt]]
        /\ jobs' = jobs \cup {[key |-> k, gen |-> g, attempt |-> attempt]}
        /\ maps' = MapNext(k, owner)
        /\ IF NodeOf(k) \in Flow.timeout
           THEN timers' = live \cup {timeout} /\ num' = m + 1
           ELSE timers' = live /\ num' = m

\* startChild, its input valid: child number num + 1.
StartChild(k, owner) ==
    /\ children' = [children EXCEPT ![k] = [exec |-> exec, nr |-> num + 1, owner |-> owner]]
    /\ started' = started \cup {[id |-> [exec |-> exec, nr |-> num + 1], node |-> NodeOf(k)]}
    /\ maps' = MapNext(k, owner)
    /\ num' = num + 1

\* advance: towards a dynamic successor, the static next, or completion.
Advance(n, dyn) ==
    LET to == IF dyn # None THEN dyn ELSE Next_(n)
    IN  IF to = None THEN Call("complete", None) ELSE Call("enter", to)

\* Where a permanent failure of node n leads (its fan-out aside).
OnFailureOf(n) == IF OnFailure(n) = None THEN FailCall ELSE Call("enter", OnFailure(n))

\* terminate: nothing is in flight after a final status.
Terminate(s) ==
    /\ status' = s
    /\ tasks' = [k \in Keys |-> NoTask]
    /\ fans' = {}
    /\ maps' = [n \in Nodes |-> NoMap]
    /\ awaits' = [n \in Nodes |-> 0]
    /\ children' = [k \in Keys |-> NoChild]
    /\ timers' = {}
    /\ todo' = Done /\ rekick' = NoRekick /\ inherited' = {}
    /\ UNCHANGED <<branch, num, steps, counters, memory, exec, jobs, started, ended>>

\* Mutant of MayRetry: one attempt too many.
MayRetryOneMore(attempt, n) == attempt <= MaxAttempts(n)

\* taskFailed's bound on the attempts of one generation.
MayRetry(attempt, n) == attempt < MaxAttempts(n)

\* taskFailed: retry the attempt, or settle the instance and let its owner react.
TaskFailed(k, retryable, u, live) ==
    LET t == tasks[k]
        n == NodeOf(k)
        over == OverBudget(AddUsage(u))
        willRetry == retryable /\ MayRetry(t.attempt, n) /\ ~over
        retry == [id |-> num + 1, purpose |-> "retry", key |-> k, gen |-> t.gen, attempt |-> t.attempt + 1]
    IN  /\ counters' = AddUsage(u)
        /\ IF willRetry
           THEN /\ tasks' = [tasks EXCEPT ![k].status = "retrying"]
                /\ timers' = live \cup {retry} /\ num' = num + 1
                /\ todo' = Done
                /\ UNCHANGED branch
           ELSE /\ Settle(k, "failed")
                /\ timers' = live /\ num' = num
                /\ todo' = CASE over -> FailCall
                             [] ~over /\ t.owner \in fans -> Call("evalJoin", t.owner)
                             [] ~over /\ t.owner \notin fans /\ maps[n].open /\ t.owner = n /\ OnFailure(n) # None
                                  -> Call("abortMap", n)
                             [] OTHER -> OnFailureOf(n)
        /\ UNCHANGED <<status, fans, maps, awaits, children, steps, memory, rekick, inherited, exec, outside>>

----------------------------------------------------------------------------
\* The calls of a decision.

\* fail
Fail ==
    /\ todo.op = "fail"
    /\ cancelled' = cancelled \cup CancelChildren
    /\ Terminate("failed")

\* complete0: the output expression may not evaluate to an object.
CompleteExecution ==
    /\ todo.op = "complete"
    /\ \/ Terminate("completed") /\ UNCHANGED cancelled
       \/ /\ todo' = FailCall
          /\ UNCHANGED <<status, flight, num, steps, counters, memory, rekick, inherited, exec, outside>>

\* enter, up to the node's type: the recursion limit, then the entry.
Enter(n, type) ==
    /\ todo = Call("enter", n)
    /\ Type(n) = type /\ steps + 1 <= MaxSteps
    /\ steps' = steps + 1
    /\ UNCHANGED <<status, counters, signalIDs, updateIDs, rekick, inherited, exec, ended, cancelled>>

EnterTooDeep ==
    /\ todo.op = "enter"
    /\ steps + 1 > MaxSteps
    /\ todo' = FailCall
    /\ UNCHANGED <<status, flight, num, steps, counters, memory, rekick, inherited, exec, outside>>

EnterTask(n) ==
    /\ Enter(n, "task")
    /\ Schedule(Plain(n), None, 0, 1, timers)
    /\ todo' = Done
    /\ UNCHANGED <<fans, branch, awaits, children, buffered, started>>

\* choose and route: the rule that matches, or the error under on_error: fail.
EnterChoice(n) ==
    /\ Enter(n, "choice")
    /\ \/ \E to \in Flow.rules[n] : todo' = IF to = End THEN Call("complete", None) ELSE Call("enter", to)
       \/ n \in Flow.onErrorFail /\ todo' = FailCall
    /\ UNCHANGED <<flight, num, buffered, jobs, started>>

\* fanout: the branches are entered one by one, in their declared order.
EnterFanout(n) ==
    /\ Enter(n, "fanout")
    /\ fans' = fans \cup {n}
    /\ branch' = [b \in Nodes |-> IF b \in BranchesOf(n) THEN "pending" ELSE branch[b]]
    /\ todo' = [op |-> "branch", node |-> n, i |-> 1]
    /\ UNCHANGED <<tasks, maps, awaits, children, timers, num, buffered, jobs, started>>

\* Mutants of OpenAwait: a signal that came first is not looked for; the await
\* remembers another timer than its own.
OpenAwaitIgnoresBuffer(n) ==
    /\ awaits' = [awaits EXCEPT ![n] = num + 1]
    /\ timers' = timers \cup {[id |-> num + 1, purpose |-> "await", key |-> Plain(n), gen |-> 0, attempt |-> 0]}
    /\ num' = num + 1
    /\ todo' = Done
OpenAwaitWrongTimer(n) ==
    /\ awaits' = [awaits EXCEPT ![n] = num + 1]
    /\ timers' = timers \cup {[id |-> num, purpose |-> "await", key |-> Plain(n), gen |-> 0, attempt |-> 0]}
    /\ num' = num + 1
    /\ todo' = Call("consume", n)

\* await: the timer first, then a signal that arrived before (consume).
OpenAwait(n) ==
    /\ awaits' = [awaits EXCEPT ![n] = num + 1]
    /\ timers' = timers \cup {[id |-> num + 1, purpose |-> "await", key |-> Plain(n), gen |-> 0, attempt |-> 0]}
    /\ num' = num + 1
    /\ todo' = Call("consume", n)

EnterAwait(n) ==
    /\ Enter(n, "await")
    /\ OpenAwait(n)
    /\ UNCHANGED <<tasks, fans, branch, maps, children, buffered, jobs, started>>

\* mapStart: the list has some length, or over does not evaluate to a list.
EnterMap(n) ==
    /\ Enter(n, "map")
    /\ \/ \E len \in 0 .. MaxItems :
             /\ maps' = [maps EXCEPT ![n] = [open |-> TRUE, len |-> len, next |-> 0, done |-> 0]]
             /\ todo' = Call("mapProgress", n)
       \/ todo' = FailCall /\ UNCHANGED maps
    /\ UNCHANGED <<tasks, fans, branch, awaits, children, timers, num, buffered, jobs, started>>

\* subflow: the child starts, or its input is not an object.
EnterSubflow(n) ==
    /\ Enter(n, "subflow")
    /\ \/ StartChild(Plain(n), None) /\ todo' = Done
       \/ todo' = FailCall /\ UNCHANGED <<children, started, maps, num>>
    /\ UNCHANGED <<tasks, fans, branch, awaits, timers, buffered, jobs>>

\* One turn of fanout's loop. Entering a branch counts a step and checks no limit.
StartBranch(f) ==
    LET b == Flow.branches[f][todo.i]
        more == IF todo.i < Len(Flow.branches[f]) THEN [todo EXCEPT !.i = @ + 1] ELSE Done
    IN  /\ todo.op = "branch" /\ todo.node = f
        /\ steps' = steps + 1
        /\ \/ /\ Type(b) # "subflow"
              /\ Schedule(Plain(b), f, 0, 1, timers)
              /\ todo' = more
              /\ UNCHANGED <<children, started>>
           \/ /\ Type(b) = "subflow"
              /\ StartChild(Plain(b), f)
              /\ todo' = more
              /\ UNCHANGED <<tasks, timers, jobs>>
           \/ /\ Type(b) = "subflow"
              /\ todo' = FailCall
              /\ UNCHANGED <<tasks, maps, children, timers, num, jobs, started>>
        /\ UNCHANGED <<status, fans, branch, awaits, counters, memory, rekick, inherited, exec, ended, cancelled>>

\* evalJoin: the branches fan-out f waits for, by outcome.
Succeeded(f) == {b \in WaitFor(f) : branch[b] = "completed"}
Pending(f) == {b \in WaitFor(f) : branch[b] = "pending"}

JoinMet(f) == Cardinality(Succeeded(f)) >= Need(f)

\* Mutant of JoinUndecided: the join waits although too many branches failed.
JoinUndecidedForever(f) ==
    IF Flow.kind[JoinOf(f)] = "min" /\ Pending(f) # {} THEN TRUE ELSE ~JoinMet(f)

JoinUndecided(f) ==
    IF Flow.kind[JoinOf(f)] = "min" /\ Pending(f) # {}
    THEN TRUE
    ELSE ~JoinMet(f) /\ Cardinality(Succeeded(f)) + Cardinality(Pending(f)) >= Need(f)

JoinWaits(f) ==
    /\ todo = Call("evalJoin", f)
    /\ JoinUndecided(f)
    /\ todo' = Done
    /\ UNCHANGED <<status, flight, num, steps, counters, memory, rekick, inherited, exec, outside>>

\* closeJoin: what is left of the branches is cancelled, the join is entered.
CloseJoin(f) ==
    /\ todo = Call("evalJoin", f)
    /\ ~JoinUndecided(f)
    /\ cancelled' = cancelled \cup OwnedChildren(f)
    /\ tasks' = DropTasks(f)
    /\ children' = DropChildren(f)
    /\ branch' = [b \in Nodes |-> IF tasks[Plain(b)].owner = f \/ children[Plain(b)].owner = f
                                  THEN "cancelled" ELSE branch[b]]
    /\ fans' = fans \ {f}
    /\ steps' = steps + 1
    /\ todo' = IF JoinMet(f) THEN Advance(JoinOf(f), None) ELSE OnFailureOf(JoinOf(f))
    /\ UNCHANGED <<status, maps, awaits, timers, num, counters, memory, rekick, inherited, exec, jobs, started, ended>>

\* consume: the oldest buffered signal of the await's name, if any.
Matching(n) == {i \in DOMAIN buffered : buffered[i].name = Flow.signal[n]}

Consume(n) ==
    /\ todo = Call("consume", n)
    /\ \/ /\ Matching(n) = {}
          /\ todo' = Done
          /\ UNCHANGED <<awaits, timers, buffered>>
       \/ \E i \in Matching(n) :
             /\ \A j \in Matching(n) : i <= j
             /\ buffered' = SubSeq(buffered, 1, i - 1) \o SubSeq(buffered, i + 1, Len(buffered))
             /\ awaits' = [awaits EXCEPT ![n] = 0]
             /\ timers' = {t \in timers : t.id # awaits[n]}
             /\ todo' = Advance(n, None)
    /\ UNCHANGED <<status, tasks, fans, branch, maps, children, num, steps, counters, signalIDs, updateIDs,
                   rekick, inherited, exec, outside>>

\* mapProgress: the map completes, or its next item starts within the limit
\* (one turn of the loop), or the loop ends.
MapCompletes(n) ==
    /\ todo = Call("mapProgress", n)
    /\ maps[n].done = maps[n].len
    /\ maps' = [maps EXCEPT ![n] = NoMap]
    /\ todo' = Advance(n, None)
    /\ UNCHANGED <<status, tasks, fans, branch, awaits, children, timers, num, steps, counters, memory,
                   rekick, inherited, exec, outside>>

\* Mutant of HasRoom: one item too many in flight.
HasRoomForOneMore(n) == maps[n].next < maps[n].len /\ maps[n].next - maps[n].done <= MapLimit(n)

HasRoom(n) == maps[n].next < maps[n].len /\ maps[n].next - maps[n].done < MapLimit(n)

MapStartsItem(n) ==
    LET k == <<n, maps[n].next + 1>>
    IN  /\ todo = Call("mapProgress", n)
        /\ maps[n].done # maps[n].len /\ HasRoom(n)
        /\ \/ /\ n \notin Flow.subflow
              /\ Schedule(k, n, 0, 1, timers)
              /\ UNCHANGED <<todo, children, started>>
           \/ /\ n \in Flow.subflow
              /\ StartChild(k, n)
              /\ UNCHANGED <<todo, tasks, timers, jobs>>
           \/ /\ n \in Flow.subflow
              /\ todo' = FailCall
              /\ UNCHANGED <<tasks, maps, children, timers, num, jobs, started>>
        /\ UNCHANGED <<status, fans, branch, awaits, steps, counters, memory, rekick, inherited, exec, ended, cancelled>>

MapWaits(n) ==
    /\ todo = Call("mapProgress", n)
    /\ maps[n].done # maps[n].len /\ ~HasRoom(n)
    /\ todo' = Done
    /\ UNCHANGED <<status, flight, num, steps, counters, memory, rekick, inherited, exec, outside>>

\* abortMap: an item failed for good and the map has an on_failure.
AbortMap(n) ==
    /\ todo = Call("abortMap", n)
    /\ tasks' = DropTasks(n)
    /\ cancelled' = cancelled \cup OwnedChildren(n)
    /\ children' = DropChildren(n)
    /\ maps' = [maps EXCEPT ![n] = NoMap]
    /\ todo' = Call("enter", OnFailure(n))
    /\ UNCHANGED <<status, fans, branch, awaits, timers, num, steps, counters, memory,
                   rekick, inherited, exec, jobs, started, ended>>

Calls ==
    \/ Fail \/ CompleteExecution \/ EnterTooDeep
    \/ \E n \in Nodes :
          \/ EnterTask(n) \/ EnterChoice(n) \/ EnterFanout(n) \/ EnterAwait(n) \/ EnterMap(n) \/ EnterSubflow(n)
          \/ StartBranch(n) \/ JoinWaits(n) \/ CloseJoin(n) \/ Consume(n)
          \/ MapCompletes(n) \/ MapStartsItem(n) \/ MapWaits(n) \/ AbortMap(n)

----------------------------------------------------------------------------
\* The commands of Decide. Ready is the part of Decide before its switch: the
\* execution exists and is not terminal; a command for any other is a no-op
\* (or an error), and changes nothing.
Ready == Idle /\ status = "open"

\* start
Start ==
    /\ Idle /\ status = "none"
    /\ status' = "open"
    /\ todo' = Call("enter", Flow.start)
    /\ UNCHANGED <<flight, num, steps, counters, memory, rekick, inherited, exec, outside>>

\* complete, accepted by checkCompletion; dyn is the worker's choice of successor.
Complete(j, u, dyn) ==
    LET k == j.key
        n == NodeOf(k)
        t == tasks[k]
        item == t.owner = n /\ maps[n].open
    IN  /\ Ready /\ Current(j)
        /\ dyn # None => t.owner = None /\ dyn \in Flow.dynamic[n]
        /\ counters' = AddUsage(u)
        /\ maps' = IF item THEN [maps EXCEPT ![n].done = @ + 1] ELSE maps
        /\ Settle(k, "completed")
        /\ todo' = CASE OverBudget(AddUsage(u)) -> FailCall
                     [] ~OverBudget(AddUsage(u)) /\ t.owner \in fans -> Call("evalJoin", t.owner)
                     [] ~OverBudget(AddUsage(u)) /\ t.owner \notin fans /\ item -> Call("mapProgress", n)
                     [] OTHER -> Advance(n, dyn)
        /\ UNCHANGED <<status, fans, awaits, children, timers, num, steps, memory, rekick, inherited, exec, outside>>

\* failTask, and complete when checkCompletion finds a problem: retryable or not.
FailTask(j, u, retryable) ==
    /\ Ready /\ Current(j)
    /\ TaskFailed(j.key, retryable, u, timers)

\* Mutant of Interrupt: its usage is counted and not checked.
InterruptUnchecked(j, u) ==
    /\ Ready /\ Current(j)
    /\ tasks' = [tasks EXCEPT ![j.key].status = "interrupted"]
    /\ counters' = AddUsage(u)
    /\ UNCHANGED <<status, fans, branch, maps, awaits, children, timers, num, steps, memory, todo,
                   rekick, inherited, exec, outside>>

\* interrupt: the attempt asks for a resume; its usage counts.
Interrupt(j, u) ==
    /\ Ready /\ Current(j)
    /\ tasks' = [tasks EXCEPT ![j.key].status = "interrupted"]
    /\ counters' = AddUsage(u)
    /\ todo' = IF OverBudget(AddUsage(u)) THEN FailCall ELSE Done
    /\ UNCHANGED <<status, fans, branch, maps, awaits, children, timers, num, steps, memory,
                   rekick, inherited, exec, outside>>

\* Mutant of Resume: the same generation starts over.
ResumeSameGeneration(k) ==
    /\ Ready /\ num < MaxNum
    /\ tasks[k].status = "interrupted"
    /\ Schedule(k, tasks[k].owner, tasks[k].gen, 1, timers)
    /\ UNCHANGED <<status, fans, branch, awaits, children, steps, counters, memory, todo, rekick, inherited, exec,
                   started, ended, cancelled>>

\* resume: a fresh generation of an interrupted instance.
Resume(k) ==
    /\ Ready /\ num < MaxNum
    /\ tasks[k].status = "interrupted"
    /\ Schedule(k, tasks[k].owner, 0, 1, timers)
    /\ UNCHANGED <<status, fans, branch, awaits, children, steps, counters, memory, todo, rekick, inherited, exec,
                   started, ended, cancelled>>

\* Mutant of Obsolete: a retry timer is compared with the attempt it starts.
ObsoleteRetry(t) ==
    CASE t.purpose = "retry" -> ~(/\ tasks[t.key].gen = t.gen
                                  /\ tasks[t.key].status = "retrying"
                                  /\ tasks[t.key].attempt = t.attempt)
      [] t.purpose = "timeout" -> ~Current([key |-> t.key, gen |-> t.gen, attempt |-> t.attempt])
      [] t.purpose = "await" -> awaits[NodeOf(t.key)] # t.id

\* timer: a retry, a timeout or an await deadline; obsolete ones only fire.
Obsolete(t) ==
    CASE t.purpose = "retry" -> ~(/\ tasks[t.key].gen = t.gen
                                  /\ tasks[t.key].status = "retrying"
                                  /\ tasks[t.key].attempt = t.attempt - 1)
      [] t.purpose = "timeout" -> ~Current([key |-> t.key, gen |-> t.gen, attempt |-> t.attempt])
      [] t.purpose = "await" -> awaits[NodeOf(t.key)] # t.id

ObsoleteTimer(t) ==
    /\ Ready /\ Obsolete(t)
    /\ timers' = timers \ {t}
    /\ UNCHANGED <<status, tasks, fans, branch, maps, awaits, children, num, steps, counters, memory, todo, rekick,
                   inherited, exec, outside>>

RetryTimer(t) ==
    /\ Ready /\ t.purpose = "retry" /\ ~Obsolete(t)
    /\ Schedule(t.key, tasks[t.key].owner, t.gen, t.attempt, timers \ {t})
    /\ UNCHANGED <<status, fans, branch, awaits, children, steps, counters, memory, todo, rekick, inherited, exec,
                   started, ended, cancelled>>

TimeoutTimer(t) ==
    /\ Ready /\ t.purpose = "timeout" /\ ~Obsolete(t)
    /\ TaskFailed(t.key, TRUE, [x \in Counters |-> 0], timers \ {t})

AwaitTimer(t) ==
    /\ Ready /\ t.purpose = "await" /\ ~Obsolete(t)
    /\ timers' = timers \ {t}
    /\ awaits' = [awaits EXCEPT ![NodeOf(t.key)] = 0]
    /\ todo' = IF Flow.onTimeout[NodeOf(t.key)] = None THEN FailCall
               ELSE Call("enter", Flow.onTimeout[NodeOf(t.key)])
    /\ UNCHANGED <<status, tasks, fans, branch, maps, children, num, steps, counters, memory, rekick,
                   inherited, exec, outside>>

\* signal: buffered once per command id, then given to an await of its name.
Listening(name) == {n \in Nodes : awaits[n] # 0 /\ Flow.signal[n] = name}

Signal(name, id) ==
    /\ Ready /\ id \notin signalIDs
    /\ buffered' = Append(buffered, [name |-> name, id |-> id])
    /\ signalIDs' = signalIDs \cup {id}
    /\ todo' = IF Listening(name) = {} THEN Done ELSE Call("consume", CHOOSE n \in Listening(name) : TRUE)
    /\ UNCHANGED <<status, flight, num, steps, counters, updateIDs, rekick, inherited, exec, outside>>

\* childDone: the result of child c, which instance k waits for.
ChildDone(k, c, u, ok) ==
    LET n == NodeOf(k)
        o == children[k].owner
        item == o = n /\ maps[n].open
    IN  /\ Ready
        /\ Running(k) /\ IdOf(children[k]) = c
        /\ counters' = AddUsage(u)
        /\ ended' = ended \cup {c}
        /\ children' = [children EXCEPT ![k] = NoChild]
        /\ maps' = IF item /\ ok THEN [maps EXCEPT ![n].done = @ + 1] ELSE maps
        /\ branch' = IF ~item /\ o \in fans
                     THEN [branch EXCEPT ![n] = IF ok THEN "completed" ELSE "failed"] ELSE branch
        /\ todo' = CASE OverBudget(AddUsage(u)) -> FailCall
                     [] ~OverBudget(AddUsage(u)) /\ o \in fans -> Call("evalJoin", o)
                     [] ~OverBudget(AddUsage(u)) /\ o \notin fans /\ item /\ ok -> Call("mapProgress", n)
                     [] ~OverBudget(AddUsage(u)) /\ o \notin fans /\ item /\ ~ok ->
                           IF OnFailure(n) # None THEN Call("abortMap", n) ELSE FailCall
                     [] OTHER -> IF ok THEN Advance(n, None) ELSE OnFailureOf(n)
        /\ UNCHANGED <<status, tasks, fans, awaits, timers, num, steps, memory, rekick, inherited, exec,
                       jobs, started, cancelled>>

\* cancel
Cancel ==
    /\ Ready
    /\ cancelled' = cancelled \cup CancelChildren
    /\ Terminate("cancelled")

\* update: the write itself is data; it is applied once per update id.
Update(id) ==
    /\ Ready /\ id \notin updateIDs
    /\ updateIDs' = updateIDs \cup {id}
    /\ UNCHANGED <<status, flight, num, steps, counters, buffered, signalIDs, todo, rekick, inherited, exec, outside>>

\* Abort: the decision on some command was too large to append, and is replaced
\* by the failure of the execution as it was before it.
Abort ==
    /\ Idle /\ status \in {"none", "open"}
    /\ cancelled' = cancelled \cup CancelChildren
    /\ Terminate("failed")

\* Mutant of Redispatched: only what a worker runs now starts again.
RedispatchedScheduled == {k \in Keys : tasks[k].status = "scheduled"}

\* rekick's first loop: the instances that start again, all but the interrupted.
Redispatched == {k \in Keys : tasks[k].status \in {"scheduled", "retrying"}}

\* DecideFork: a new execution with the state of this one after some decision,
\* but without its timers; from here on the behaviour is the fork's.
Fork ==
    /\ Idle /\ status # "none" /\ exec < MaxExec
    /\ exec' = exec + 1
    /\ timers' = {}
    /\ jobs' = {} /\ started' = {} /\ ended' = {} /\ cancelled' = {}
    /\ rekick' = IF status \in Terminal THEN NoRekick
                 ELSE [phase |-> "tasks", left |-> Redispatched]
    /\ UNCHANGED <<status, tasks, fans, branch, maps, awaits, children, num, steps, counters, memory, todo, inherited>>

----------------------------------------------------------------------------
\* rekick: everything in flight in a forked state starts again, loop by loop.
RekickTask ==
    LET k == CHOOSE x \in rekick.left : TRUE
    IN  /\ todo = Done /\ rekick.phase = "tasks" /\ rekick.left # {}
        /\ Schedule(k, tasks[k].owner, 0, 1, timers)
        /\ rekick' = [rekick EXCEPT !.left = @ \ {k}]
        /\ UNCHANGED <<status, fans, branch, awaits, children, steps, counters, memory, todo, inherited, exec,
                       started, ended, cancelled>>

RekickAwait ==
    LET k == CHOOSE x \in rekick.left : TRUE
    IN  /\ todo = Done /\ rekick.phase = "awaits" /\ rekick.left # {}
        /\ OpenAwait(NodeOf(k))
        /\ rekick' = [rekick EXCEPT !.left = @ \ {k}]
        /\ UNCHANGED <<status, tasks, fans, branch, maps, children, steps, counters, memory, inherited, exec, outside>>

RekickChild ==
    LET k == CHOOSE x \in rekick.left : TRUE
    IN  /\ todo = Done /\ rekick.phase = "children" /\ rekick.left # {}
        /\ rekick' = [rekick EXCEPT !.left = @ \ {k}]
        /\ \/ StartChild(k, children[k].owner) /\ todo' = Done
           \/ todo' = FailCall /\ UNCHANGED <<children, started, maps, num>>
        /\ UNCHANGED <<status, tasks, fans, branch, awaits, timers, steps, counters, memory, inherited, exec,
                       jobs, ended, cancelled>>

RekickNext ==
    /\ todo = Done /\ rekick.phase # "no" /\ rekick.left = {}
    /\ rekick' = CASE rekick.phase = "tasks" -> [phase |-> "awaits", left |-> {Plain(n) : n \in {x \in Nodes : awaits[x] # 0}}]
                   [] rekick.phase = "awaits" -> [phase |-> "children", left |-> {k \in Keys : Running(k)}]
                   [] rekick.phase = "children" -> NoRekick
    /\ inherited' = IF rekick.phase = "awaits" THEN {IdOf(children[k]) : k \in {x \in Keys : Running(x)}} ELSE {}
    /\ UNCHANGED <<status, flight, num, steps, counters, memory, todo, exec, outside>>

Rekick == RekickTask \/ RekickAwait \/ RekickChild \/ RekickNext

Usage == [Counters -> Usages]

\* A worker answers a job it was given; it may answer late, or twice.
Results ==
    \E j \in jobs, u \in Usage :
        \/ \E dyn \in Flow.dynamic[NodeOf(j.key)] \cup {None} : Complete(j, u, dyn)
        \/ \E retryable \in BOOLEAN : FailTask(j, u, retryable)

Timer == \E t \in timers : ObsoleteTimer(t) \/ RetryTimer(t) \/ TimeoutTimer(t) \/ AwaitTimer(t)

ChildResults == \E k \in Keys, s \in started, u \in Usage, ok \in BOOLEAN : ChildDone(k, s.id, u, ok)

Requests ==
    \/ \E j \in jobs, u \in Usage : Interrupt(j, u)
    \/ \E k \in Keys : Resume(k)
    \/ \E name \in SignalNames, id \in SignalIds : Signal(name, id)
    \/ \E id \in UpdateIds : Update(id)
    \/ Cancel \/ Abort \/ Fork

Next == Start \/ Calls \/ Rekick \/ Results \/ Timer \/ ChildResults \/ Requests

Spec == Init /\ [][Next]_vars

\* The answers the outside owes the execution: a worker or its exhausted
\* redelivery for every job, the scheduler for every timer, a child for every
\* start. Nobody owes a signal, a resume, a cancel, an update or a fork.
Fairness ==
    /\ WF_vars(Start \/ Calls \/ Rekick)
    /\ WF_vars(Results) /\ WF_vars(Timer) /\ WF_vars(ChildResults)

FairSpec == Spec /\ Fairness

----------------------------------------------------------------------------
\* Properties.

\* Type correctness of every field of the state.
TypeOK ==
    /\ status \in {"none", "open"} \cup Terminal
    /\ tasks \in [Keys -> TaskType]
    /\ fans \subseteq Nodes
    /\ branch \in [Nodes -> {"pending", "completed", "failed", "cancelled"}]
    /\ maps \in [Nodes -> MapType]
    /\ awaits \in [Nodes -> Nat]
    /\ children \in [Keys -> ChildType]
    /\ timers \subseteq TimerType
    /\ num \in Nat /\ steps \in Nat
    /\ counters \in [Counters -> Nat]
    /\ buffered \in Seq(SignalType) /\ signalIDs \subseteq SignalIds /\ updateIDs \subseteq UpdateIds
    /\ todo \in TodoType /\ rekick \in RekickType
    /\ inherited \subseteq ChildId /\ exec \in Nat
    /\ jobs \subseteq JobType /\ started \subseteq StartType
    /\ ended \subseteq ChildId /\ cancelled \subseteq ChildId

RetryTimed(k) ==
    \E t \in timers : /\ t.purpose = "retry" /\ t.key = k
                      /\ t.gen = tasks[k].gen /\ t.attempt = tasks[k].attempt + 1
RetryHasTimer == \A k \in Keys : tasks[k].status = "retrying" => RetryTimed(k)

AwaitTimed(n) == \E t \in timers : t.purpose = "await" /\ t.key = Plain(n) /\ t.id = awaits[n]
AwaitHasTimer == \A n \in Nodes : awaits[n] # 0 => AwaitTimed(n)

FanHasBranch == \A f \in fans : \E b \in WaitFor(f) : Active(Plain(b)) \/ Running(Plain(b))

Items(n) == {i \in 1 .. MaxItems : Active(<<n, i>>) \/ Running(<<n, i>>)}
MapHasItem == \A n \in Nodes : maps[n].open => Items(n) # {}

SomethingOpen ==
    \/ \E k \in Keys : Active(k) \/ Running(k)
    \/ \E n \in Nodes : awaits[n] # 0

\* A stored state that is not final always waits for something that can come:
\* an instance in flight, and for each thing that waits what wakes it. A retry
\* or an await without its timer, a fan-out or a map with nothing left in
\* flight, would leave the execution running for ever.
NeverStuck == Ready => RetryHasTimer /\ AwaitHasTimer /\ FanHasBranch /\ MapHasItem /\ SomethingOpen

\* Between decisions the outcome table of an open fan-out says exactly which
\* branches are in flight, and its join is still undecided: no completion was
\* lost, and no join that could settle was left open (evalJoin, closeJoin).
FanTracksWork ==
    Ready => \A f \in fans :
        /\ \A b \in BranchesOf(f) : branch[b] = "pending" <=> Active(Plain(b)) \/ Running(Plain(b))
        /\ JoinUndecided(f)

\* The window of an open map: Next - Done items are in flight, never more than
\* max_parallel (mapProgress, with retries, timeouts and forks in between).
MapWindow ==
    Ready => \A n \in Nodes : maps[n].open =>
        /\ Cardinality(Items(n)) = maps[n].next - maps[n].done
        /\ Cardinality(Items(n)) <= MapLimit(n)
        /\ maps[n].next <= maps[n].len

\* An execution completes only when nothing is in flight: route's comment says
\* that completing "strands no work".
CompletesClean ==
    [][status = "open" /\ status' = "completed" =>
          /\ fans = {}
          /\ \A k \in Keys : ~Active(k) /\ ~Running(k)
          /\ \A n \in Nodes : awaits[n] = 0 /\ ~maps[n].open]_vars

\* No job id (key, generation, attempt) is published twice: the deduplication
\* of jobs and the staleness check of results (current) both rely on it.
FreshJobs ==
    [][\A k \in Keys : tasks'[k].status = "scheduled" /\ tasks'[k] # tasks[k] =>
          [key |-> k, gen |-> tasks'[k].gen, attempt |-> tasks'[k].attempt] \notin jobs \/ exec' # exec]_vars

\* Every child the execution started is still awaited, has answered, was asked
\* to cancel, or is of a node that abandons its children.
NoOrphanChild ==
    Idle => \A s \in started :
        \/ \E k \in Keys : IdOf(children[k]) = s.id
        \/ s.id \in ended \cup cancelled
        \/ s.node \in Flow.abandon

\* A fork never cancels the children of its source (decider.inherited), and no
\* execution cancels a child that already answered.
CancelsOnlyItsOwn == cancelled \subseteq {s.id : s \in started} \ ended

\* A signal is never left buffered while an await of its name is open: not when
\* it arrives first (I-09), not when it arrives later, not in a fork.
NoMissedSignal == Ready => \A n \in Nodes : awaits[n] # 0 => Matching(n) = {}

\* No attempt runs over the node's retry budget, in any generation.
AttemptsBounded == \A j \in jobs : j.attempt <= MaxAttempts(NodeOf(j.key))

\* Budgets: an execution whose counters exceed a budget does not go on.
BudgetHolds == Ready => ~OverBudget(counters)

----------------------------------------------------------------------------
\* Why these hold: an execution has one thread of control. Everything in flight
\* belongs to one thing, of some kind, at some node; or nothing is in flight and
\* the decision under way is about to enter a node, complete or fail.
Kinds == {"nothing", "task", "child", "await", "fan", "map"}
Entry == Nodes \ (Branch \cup Joins)
KindOf(n) == CASE Type(n) = "task" -> "task" [] Type(n) = "subflow" -> "child" [] Type(n) = "await" -> "await"
               [] Type(n) = "fanout" -> "fan" [] Type(n) = "map" -> "map" [] OTHER -> "nothing"

Owned(k, owner, kind, n) ==
    \/ kind \in {"task", "child"} /\ k = Plain(n) /\ owner = None
    \/ kind = "fan" /\ owner = n /\ NodeOf(k) \in BranchesOf(n) /\ k = Plain(NodeOf(k))
    \/ kind = "map" /\ owner = n /\ NodeOf(k) = n /\ k[2] \in 1 .. maps[n].next

At(kind, n) ==
    /\ kind # "nothing" => kind = KindOf(n)
    /\ fans = IF kind = "fan" THEN {n} ELSE {}
    /\ \A m \in Nodes : maps[m].open <=> kind = "map" /\ m = n
    /\ \A m \in Nodes : awaits[m] # 0 <=> kind = "await" /\ m = n
    /\ \A k \in Keys : Active(k) => Owned(k, tasks[k].owner, kind, n) /\ kind # "child" /\ (kind = "map" => n \notin Flow.subflow)
    /\ \A k \in Keys : Running(k) => Owned(k, children[k].owner, kind, n) /\ kind # "task" /\ (kind = "map" => n \in Flow.subflow)
    /\ kind = "task" => Active(Plain(n))
    /\ kind = "child" => Running(Plain(n))

TodoFits(kind, n) ==
    /\ todo.op \in {"enter", "complete"} => kind = "nothing"
    /\ todo.op = "enter" => todo.node \in Entry
    /\ todo.op \in {"branch", "evalJoin"} => kind = "fan" /\ todo.node = n
    /\ todo.op \in {"mapProgress", "abortMap"} => kind = "map" /\ todo.node = n
    /\ todo.op = "abortMap" => OnFailure(n) # None
    /\ todo.op = "consume" => kind = "await" /\ todo.node = n
    /\ todo.op = "idle" => kind # "nothing"

\* One thread of control: fan-out and map are the only nodes with several
\* instances in flight, and while they have any, no other node is open.
OneLocus ==
    IF status = "open" THEN \E kind \in Kinds, n \in Nodes : At(kind, n) /\ TodoFits(kind, n)
    ELSE At("nothing", Flow.start) /\ Idle

\* What is left of a fork's re-dispatch is in flight.
RekickOK ==
    rekick.left # {} =>
        \/ todo = FailCall
        \/ /\ todo = Done
           /\ \A k \in rekick.left :
                 \/ rekick.phase = "tasks" /\ Active(k)
                 \/ rekick.phase = "awaits" /\ k = Plain(NodeOf(k)) /\ awaits[NodeOf(k)] # 0
                 \/ rekick.phase = "children" /\ Running(k)

\* The window of a map, also in the middle of a decision.
Window ==
    \A n \in Nodes : maps[n].open =>
        /\ maps[n].next <= maps[n].len
        /\ todo.op \notin {"abortMap", "fail"} => Cardinality(Items(n)) = maps[n].next - maps[n].done
        /\ todo.op = "idle" => maps[n].done < maps[n].next
        /\ Cardinality(Items(n)) <= MapLimit(n)

\* The outcome table of a fan-out, also in the middle of a decision.
Unstarted(f) ==
    IF todo.op = "branch" /\ todo.node = f THEN {Flow.branches[f][i] : i \in todo.i .. Len(Flow.branches[f])} ELSE {}
Tracks ==
    todo.op # "fail" => \A f \in fans :
        /\ \A b \in BranchesOf(f) :
              branch[b] = "pending" <=> Active(Plain(b)) \/ Running(Plain(b)) \/ b \in Unstarted(f)
        /\ todo.op = "branch" => \A b \in BranchesOf(f) : branch[b] = "pending"
        /\ todo.op = "idle" => JoinUndecided(f)

\* Retries and awaits have their timers, but for those a fork is yet to renew.
Timed ==
    /\ \A k \in Keys : tasks[k].status = "retrying" =>
          RetryTimed(k) \/ (rekick.phase = "tasks" /\ k \in rekick.left)
    /\ \A n \in Nodes : awaits[n] # 0 =>
          AwaitTimed(n) \/ rekick.phase = "tasks" \/ (rekick.phase = "awaits" /\ Plain(n) \in rekick.left)

Inductive == OneLocus /\ RekickOK /\ Window /\ Tracks /\ Timed

\* What the outside owes, and nothing else, brings the execution to an end,
\* unless an instance waits for a resume.
EventuallyEnds == <>(status \in Terminal \/ \E k \in Keys : tasks[k].status = "interrupted")
=============================================================================
