----------------------------- MODULE FoldProofs -----------------------------
(***************************************************************************)
(* What the decider guarantees for every valid flow, proved with TLAPS:    *)
(* the types of its state, its budgets, the attempts of an instance, the   *)
(* generations of its jobs, and that it has one thread of control.         *)
(*                                                                         *)
(* OneLocus is inductive together with Window, which says that a map that  *)
(* completes has no item left, and RekickOK, which says that a fork only   *)
(* starts again what is in flight.  What has to be counted (the items of a *)
(* map, the outcomes of a fan-out) rests on the facts of Counting, which   *)
(* FoldFamilyProofs discharges.                                            *)
(***************************************************************************)
EXTENDS Fold, TLAPS

\* The call a decision makes next is one that makes sense: fan-out branches are
\* started in range, joins are evaluated for an open fan-out.
TodoOK ==
    /\ fans \subseteq Fanouts
    /\ todo.op \in {"branch", "evalJoin"} => todo.node \in fans
    /\ todo.op = "branch" => todo.i \in DOMAIN Flow.branches[todo.node]

TypeInv == TypeOK /\ TodoOK

\* The fields of a valid flow have their types.
LEMMA FlowFields ==
    /\ Flow.start \in Nodes
    /\ Flow.type \in [Nodes -> Types]
    /\ Flow.next \in [Nodes -> Maybe] /\ Flow.onFailure \in [Nodes -> Maybe] /\ Flow.onTimeout \in [Nodes -> Maybe]
    /\ Flow.dynamic \in [Nodes -> SUBSET Nodes] /\ Flow.rules \in [Nodes -> SUBSET (Nodes \cup {End})]
    /\ Flow.branches \in [Nodes -> Seq(Nodes)] /\ Flow.waitFor \in [Nodes -> SUBSET Nodes]
    /\ Flow.kind \in [Nodes -> JoinKinds] /\ Flow.count \in [Nodes -> Nat]
    /\ Flow.signal \in [Nodes -> SignalNames]
    /\ Flow.retry \in [Nodes -> Nat] /\ Flow.maxParallel \in [Nodes -> Nat]
    /\ Flow.maxSteps \in Nat /\ Flow.budget \in [Counters -> Nat]
  BY Zenon, FlowAssumption DEF FlowType

\* A fan-out has branches, and its next is a join.
LEMMA FanFields ==
    ASSUME NEW f \in Fanouts
    PROVE  /\ f \in Nodes /\ JoinOf(f) \in Joins /\ JoinOf(f) \in Nodes
           /\ Flow.branches[f] # <<>> /\ Flow.branches[f] \in Seq(Nodes)
           /\ BranchesOf(f) \subseteq Nodes
           /\ \A b \in BranchesOf(f) : Type(b) \in {"task", "subflow"}
  <1>1. f \in Nodes /\ Type(f) = "fanout" /\ ValidNode(f) /\ ValidFan(f)
    BY Zenon, FlowAssumption DEF Fanouts, ValidFlow
  <1>2. Flow.branches[f] # <<>> /\ Flow.branches[f] \in Seq(Nodes)
    BY Zenon, <1>1, FlowFields DEF ValidNode
  <1>3. BranchesOf(f) \subseteq Nodes
    BY <1>2 DEF BranchesOf
  <1> QED
    BY Zenon, <1>1, <1>2, <1>3 DEF ValidFan, JoinOf, Joins

LEMMA KeyFacts ==
    /\ \A k \in Keys : NodeOf(k) \in Nodes /\ k[2] \in 0 .. MaxItems /\ k = <<NodeOf(k), k[2]>>
    /\ \A n \in Nodes : Plain(n) \in Keys /\ NodeOf(Plain(n)) = n
    /\ \A n \in Nodes, i \in 0 .. MaxItems : <<n, i>> \in Keys /\ NodeOf(<<n, i>>) = n
  BY FoldAssumption DEF Keys, NodeOf, Plain

LEMMA TypeInit == Init => TypeInv
  BY KeyFacts, FoldAssumption, NodesAssumption DEF Init, TypeInv, TypeOK, TodoOK, TaskType, NoTask, Maybe, MapType, NoMap,
     ChildType, NoChild, TodoType, Done, Call, Ops, RekickType, NoRekick, Terminal, SignalType

----------------------------------------------------------------------------
\* Type correctness of the helpers.

LEMMA CallType ==
    ASSUME NEW op \in Ops, NEW n \in Maybe
    PROVE  Call(op, n) \in TodoType
  BY Zenon DEF Call, TodoType

LEMMA SomeCalls ==
    /\ Done \in TodoType /\ Done.op = "idle"
    /\ FailCall \in TodoType /\ FailCall.op = "fail"
    /\ NoRekick \in RekickType
  BY Zenon DEF Done, FailCall, Call, TodoType, Ops, Maybe, NoRekick, RekickType

LEMMA AdvanceType ==
    ASSUME NEW n \in Nodes, NEW dyn \in Maybe
    PROVE  Advance(n, dyn) \in TodoType /\ Advance(n, dyn).op \in {"enter", "complete"}
  BY Zenon, FlowFields DEF Advance, Next_, Call, TodoType, Ops, Maybe

LEMMA OnFailureType ==
    ASSUME NEW n \in Nodes
    PROVE  OnFailureOf(n) \in TodoType /\ OnFailureOf(n).op \in {"enter", "fail"}
  BY Zenon, FlowFields DEF OnFailureOf, OnFailure, FailCall, Call, TodoType, Ops, Maybe

LEMMA MapNextType ==
    ASSUME maps \in [Nodes -> MapType], NEW k \in Keys, NEW owner \in Maybe
    PROVE  MapNext(k, owner) \in [Nodes -> MapType]
  BY KeyFacts DEF MapNext, MapType

LEMMA ScheduleType ==
    ASSUME TypeOK, NEW k \in Keys, NEW owner \in Maybe, NEW gen \in Nat, NEW attempt \in Nat,
           NEW live \in SUBSET TimerType, Schedule(k, owner, gen, attempt, live)
    PROVE  /\ tasks' \in [Keys -> TaskType] /\ jobs' \subseteq JobType
           /\ maps' \in [Nodes -> MapType] /\ timers' \subseteq TimerType /\ num' \in Nat
  <1>1. maps' \in [Nodes -> MapType]
    BY Zenon, MapNextType DEF Schedule, TypeOK
  <1>2. tasks' \in [Keys -> TaskType] /\ jobs' \subseteq JobType
    BY DEF Schedule, TypeOK, TaskType, JobType
  <1>3. timers' \subseteq TimerType /\ num' \in Nat
    BY DEF Schedule, TypeOK, TimerType
  <1> QED
    BY Zenon, <1>1, <1>2, <1>3

LEMMA StartChildType ==
    ASSUME TypeOK, NEW k \in Keys, NEW owner \in Maybe, StartChild(k, owner)
    PROVE  /\ children' \in [Keys -> ChildType] /\ started' \subseteq StartType
           /\ maps' \in [Nodes -> MapType] /\ num' \in Nat
  <1>1. maps' \in [Nodes -> MapType]
    BY Zenon, MapNextType DEF StartChild, TypeOK
  <1>2. exec \in Nat /\ num \in Nat /\ children \in [Keys -> ChildType] /\ started \subseteq StartType /\ NodeOf(k) \in Nodes
    BY Zenon, KeyFacts DEF TypeOK
  <1>3. num + 1 \in Nat
    BY <1>2
  <1>4. [exec |-> exec, nr |-> num + 1, owner |-> owner] \in ChildType
    BY Zenon, <1>2, <1>3 DEF ChildType
  <1>5. [id |-> [exec |-> exec, nr |-> num + 1], node |-> NodeOf(k)] \in StartType
    BY Zenon, <1>2, <1>3 DEF StartType, ChildId
  <1>6. children' \in [Keys -> ChildType]
    BY Zenon, <1>2, <1>4 DEF StartChild
  <1>7. started' \subseteq StartType /\ num' \in Nat
    BY Zenon, <1>2, <1>3, <1>5 DEF StartChild
  <1> QED
    BY Zenon, <1>1, <1>6, <1>7

LEMMA UsageType ==
    ASSUME TypeOK, NEW u \in [Counters -> Nat]
    PROVE  AddUsage(u) \in [Counters -> Nat]
  BY DEF TypeOK, AddUsage

LEMMA SettleType ==
    ASSUME TypeOK, NEW k \in Keys, NEW outcome \in {"pending", "completed", "failed", "cancelled"}, Settle(k, outcome)
    PROVE  /\ tasks' \in [Keys -> TaskType]
           /\ branch' \in [Nodes -> {"pending", "completed", "failed", "cancelled"}]
  BY Zenon, KeyFacts DEF TypeOK, Settle, TaskType, NoTask, Maybe

LEMMA TerminateType ==
    ASSUME TypeInv, NEW s \in Terminal, Terminate(s), cancelled' \subseteq ChildId
    PROVE  TypeInv'
  <1>1. todo' \in TodoType /\ rekick' \in RekickType /\ todo'.op = "idle"
    BY Zenon, SomeCalls DEF Terminate
  <1>2. /\ tasks' \in [Keys -> TaskType] /\ children' \in [Keys -> ChildType]
        /\ maps' \in [Nodes -> MapType] /\ awaits' \in [Nodes -> Nat] /\ fans' = {} /\ timers' = {} /\ inherited' = {}
    BY FoldAssumption DEF Terminate, TaskType, NoTask, Maybe, MapType, NoMap, ChildType, NoChild
  <1>3. /\ status' \in {"none", "open"} \cup Terminal
        /\ UNCHANGED <<branch, num, steps, counters, buffered, signalIDs, updateIDs, exec, jobs, started, ended>>
    BY Zenon DEF Terminate, memory
  <1> QED
    BY Zenon, <1>1, <1>2, <1>3 DEF TypeInv, TypeOK, TodoOK

LEMMA ChildIdType ==
    ASSUME TypeOK
    PROVE  /\ CancelChildren \subseteq ChildId
           /\ \A o : OwnedChildren(o) \subseteq ChildId
           /\ \A k \in Keys : IdOf(children[k]) \in ChildId
  <1>1. \A k \in Keys : IdOf(children[k]) \in ChildId
    BY Zenon DEF TypeOK, IdOf, ChildId, ChildType
  <1> QED
    BY Zenon, <1>1 DEF CancelChildren, OwnedChildren

LEMMA TaskFailedType ==
    ASSUME TypeInv, NEW k \in Keys, NEW retryable \in BOOLEAN, NEW u \in [Counters -> Nat],
           NEW live \in SUBSET TimerType, TaskFailed(k, retryable, u, live)
    PROVE  TypeInv'
  <1> DEFINE t == tasks[k]
             n == NodeOf(k)
             over == OverBudget(AddUsage(u))
             willRetry == retryable /\ MayRetry(t.attempt, n) /\ ~over
             retry == [id |-> num + 1, purpose |-> "retry", key |-> k, gen |-> t.gen, attempt |-> t.attempt + 1]
  <1>1. t \in TaskType /\ n \in Nodes /\ counters' \in [Counters -> Nat]
    BY Zenon, KeyFacts, UsageType DEF TypeInv, TypeOK, TaskFailed
  <1>2. CASE willRetry
    <2>1. /\ tasks' = [tasks EXCEPT ![k].status = "retrying"]
          /\ timers' = live \cup {retry} /\ num' = num + 1
          /\ todo' = Done /\ UNCHANGED branch
      BY Zenon, <1>2 DEF TaskFailed
    <2>2. retry \in TimerType /\ num' \in Nat
      BY <1>1, <2>1 DEF TypeInv, TypeOK, TimerType, TaskType
    <2>3. tasks' \in [Keys -> TaskType]
      BY ZenonT(60), <2>1 DEF TypeInv, TypeOK, TaskType
    <2> HIDE DEF retry
    <2> QED
      BY Zenon, <1>1, <2>1, <2>2, <2>3, SomeCalls DEF TypeInv, TypeOK, TodoOK, TaskFailed, memory, outside
  <1>3. CASE ~willRetry
    <2>1. Settle(k, "failed") /\ timers' = live /\ num' = num
      BY Zenon, <1>3 DEF TaskFailed
    <2>2. /\ tasks' \in [Keys -> TaskType]
          /\ branch' \in [Nodes -> {"pending", "completed", "failed", "cancelled"}]
      BY Zenon, <2>1, SettleType DEF TypeInv
    <2>3. todo' = CASE over -> FailCall
                    [] ~over /\ t.owner \in fans -> Call("evalJoin", t.owner)
                    [] ~over /\ t.owner \notin fans /\ maps[n].open /\ t.owner = n /\ OnFailure(n) # None
                         -> Call("abortMap", n)
                    [] OTHER -> OnFailureOf(n)
      BY Zenon, <1>3 DEF TaskFailed
    <2>4. /\ todo' \in TodoType
          /\ todo'.op \in {"branch", "evalJoin"} => todo'.node \in fans
          /\ todo'.op # "branch"
      <3> HIDE DEF over, t, n
      <3>1. CASE over
        BY Zenon, <2>3, <3>1, SomeCalls
      <3>2. CASE ~over /\ t.owner \in fans
        <4>1. todo' = Call("evalJoin", t.owner)
          BY Zenon, <2>3, <3>2
        <4> QED
          BY Zenon, <4>1, <3>2, <1>1 DEF Call, TodoType, Ops, TaskType
      <3>3. CASE ~over /\ t.owner \notin fans /\ maps[n].open /\ t.owner = n /\ OnFailure(n) # None
        <4>1. todo' = Call("abortMap", n)
          BY Zenon, <2>3, <3>3
        <4> QED
          BY Zenon, <4>1, <1>1 DEF Call, TodoType, Ops, Maybe
      <3>4. CASE ~over /\ t.owner \notin fans /\ ~(maps[n].open /\ t.owner = n /\ OnFailure(n) # None)
        <4>1. todo' = OnFailureOf(n)
          BY Zenon, <2>3, <3>4
        <4> QED
          BY Zenon, <4>1, <1>1, OnFailureType
      <3> QED
        BY Zenon, <3>1, <3>2, <3>3, <3>4
    <2> QED
      BY Zenon, <1>1, <2>1, <2>2, <2>4 DEF TypeInv, TypeOK, TodoOK, TaskFailed, memory, outside
  <1> QED
    BY Zenon, <1>2, <1>3

----------------------------------------------------------------------------
\* Type correctness, action by action.

LEMMA OpenAwaitType ==
    ASSUME TypeOK, NEW n \in Nodes, OpenAwait(n)
    PROVE  /\ awaits' \in [Nodes -> Nat] /\ timers' \subseteq TimerType /\ num' \in Nat
           /\ todo' = Call("consume", n) /\ todo' \in TodoType /\ todo'.op = "consume"
  BY KeyFacts DEF OpenAwait, TypeOK, TimerType, Call, TodoType, Ops, Maybe

LEMMA TypeEnds == TypeInv /\ (Fail \/ CompleteExecution \/ EnterTooDeep \/ Cancel \/ Abort) => TypeInv'
  <1> SUFFICES ASSUME TypeInv, Fail \/ CompleteExecution \/ EnterTooDeep \/ Cancel \/ Abort
               PROVE  TypeInv'
    BY Zenon
  <1> USE SomeCalls, ChildIdType
  <1>1. CASE Fail
    BY Zenon, <1>1, TerminateType DEF Fail, TypeInv, TypeOK, Terminal
  <1>2. CASE CompleteExecution
    <2>1. CASE Terminate("completed") /\ UNCHANGED cancelled
      BY Zenon, <2>1, TerminateType DEF TypeInv, TypeOK, Terminal
    <2>2. CASE todo' = FailCall /\ UNCHANGED <<status, flight, num, steps, counters, memory, rekick, inherited, exec, outside>>
      BY Zenon, <2>2 DEF TypeInv, TypeOK, TodoOK, flight, memory, outside
    <2> QED
      BY Zenon, <1>2, <2>1, <2>2 DEF CompleteExecution
  <1>3. CASE EnterTooDeep
    BY Zenon, <1>3 DEF EnterTooDeep, TypeInv, TypeOK, TodoOK, flight, memory, outside
  <1>4. CASE Cancel
    BY Zenon, <1>4, TerminateType DEF Cancel, TypeInv, TypeOK, Terminal
  <1>5. CASE Abort
    BY Zenon, <1>5, TerminateType DEF Abort, TypeInv, TypeOK, Terminal
  <1> QED
    BY Zenon, <1>1, <1>2, <1>3, <1>4, <1>5

LEMMA TypeEnter ==
    ASSUME TypeInv, NEW n \in Nodes,
           \/ EnterTask(n) \/ EnterChoice(n) \/ EnterFanout(n) \/ EnterAwait(n) \/ EnterMap(n) \/ EnterSubflow(n)
    PROVE  TypeInv'
  <1> USE SomeCalls
  <1>0. steps' \in Nat /\ n \in Maybe /\ None \in Maybe
    BY SMTT(150) DEF TypeInv, TypeOK, EnterTask, EnterChoice, EnterFanout, EnterAwait, EnterMap, EnterSubflow, Enter, Maybe
  <1>1. CASE EnterTask(n)
    <2>1. Schedule(Plain(n), None, 0, 1, timers) /\ Plain(n) \in Keys
      BY Zenon, <1>1, KeyFacts DEF EnterTask
    <2>2. /\ tasks' \in [Keys -> TaskType] /\ jobs' \subseteq JobType
          /\ maps' \in [Nodes -> MapType] /\ timers' \subseteq TimerType /\ num' \in Nat
      BY Zenon, <1>0, <2>1, ScheduleType DEF TypeInv, TypeOK
    <2> QED
      BY Zenon, <1>0, <1>1, <2>2 DEF EnterTask, Enter, TypeInv, TypeOK, TodoOK
  <1>2. CASE EnterChoice(n)
    <2>1. todo' \in TodoType /\ todo'.op \in {"enter", "complete", "fail"}
      <3>1. CASE \E to \in Flow.rules[n] : todo' = IF to = End THEN Call("complete", None) ELSE Call("enter", to)
        <4>1. PICK to \in Flow.rules[n] : todo' = IF to = End THEN Call("complete", None) ELSE Call("enter", to)
          BY Zenon, <3>1
        <4>2. to = End \/ to \in Nodes
          BY Zenon, FlowFields
        <4> QED
          BY Zenon, <1>0, <4>1, <4>2 DEF Call, TodoType, Ops, Maybe
      <3> QED
        BY Zenon, <1>2, <3>1 DEF EnterChoice
    <2> QED
      BY Zenon, <1>0, <1>2, <2>1 DEF EnterChoice, Enter, TypeInv, TypeOK, TodoOK, flight
  <1>3. CASE EnterFanout(n)
    <2>1. n \in Fanouts
      BY Zenon, <1>3 DEF EnterFanout, Enter, Fanouts
    <2>2. todo' = [op |-> "branch", node |-> n, i |-> 1] /\ todo' \in TodoType
      BY Zenon, <1>0, <1>3 DEF EnterFanout, TodoType, Ops
    <2>3. 1 \in DOMAIN Flow.branches[n]
      <3>1. Flow.branches[n] \in Seq(Nodes) /\ Flow.branches[n] # <<>>
        BY Zenon, <2>1, FanFields
      <3> QED
        BY <3>1
    <2>4. branch' \in [Nodes -> {"pending", "completed", "failed", "cancelled"}]
      BY Zenon, <1>3 DEF EnterFanout, TypeInv, TypeOK
    <2>5. fans' = fans \cup {n} /\ fans' \subseteq Fanouts /\ fans' \subseteq Nodes
      BY Zenon, <1>3, <2>1 DEF EnterFanout, TypeInv, TypeOK, TodoOK
    <2>6. TodoOK'
      BY Zenon, <2>2, <2>3, <2>5 DEF TodoOK
    <2>7. TypeOK'
      BY Zenon, <1>0, <1>3, <2>2, <2>4, <2>5 DEF EnterFanout, Enter, TypeInv, TypeOK
    <2> QED
      BY Zenon, <2>6, <2>7 DEF TypeInv
  <1>4. CASE EnterAwait(n)
    <2>1. /\ awaits' \in [Nodes -> Nat] /\ timers' \subseteq TimerType /\ num' \in Nat
          /\ todo' \in TodoType /\ todo'.op = "consume"
      BY Zenon, <1>4, OpenAwaitType DEF EnterAwait, TypeInv
    <2> QED
      BY Zenon, <1>0, <1>4, <2>1 DEF EnterAwait, Enter, TypeInv, TypeOK, TodoOK
  <1>5. CASE EnterMap(n)
    <2>1. maps' \in [Nodes -> MapType] /\ todo' \in TodoType /\ todo'.op \in {"mapProgress", "fail"}
      <3>1. CASE todo' = FailCall /\ UNCHANGED maps
        BY Zenon, <3>1 DEF TypeInv, TypeOK
      <3>2. ASSUME NEW len \in 0 .. MaxItems,
                   maps' = [maps EXCEPT ![n] = [open |-> TRUE, len |-> len, next |-> 0, done |-> 0]],
                   todo' = Call("mapProgress", n)
            PROVE  maps' \in [Nodes -> MapType] /\ todo' \in TodoType /\ todo'.op \in {"mapProgress", "fail"}
        <4>1. [open |-> TRUE, len |-> len, next |-> 0, done |-> 0] \in MapType
          BY Zenon DEF MapType
        <4> QED
          BY Zenon, <1>0, <3>2, <4>1 DEF TypeInv, TypeOK, Call, TodoType, Ops
      <3> QED
        BY Zenon, <1>5, <3>1, <3>2 DEF EnterMap
    <2> QED
      BY Zenon, <1>0, <1>5, <2>1 DEF EnterMap, Enter, TypeInv, TypeOK, TodoOK
  <1>6. CASE EnterSubflow(n)
    <2>1. /\ children' \in [Keys -> ChildType] /\ started' \subseteq StartType
          /\ maps' \in [Nodes -> MapType] /\ num' \in Nat
          /\ todo' \in TodoType /\ todo'.op \in {"idle", "fail"}
      BY Zenon, <1>0, <1>6, KeyFacts, StartChildType DEF EnterSubflow, TypeInv, TypeOK
    <2> QED
      BY Zenon, <1>0, <1>6, <2>1 DEF EnterSubflow, Enter, TypeInv, TypeOK, TodoOK
  <1> QED
    BY Zenon, <1>1, <1>2, <1>3, <1>4, <1>5, <1>6

LEMMA TypeStartBranch ==
    ASSUME TypeInv, NEW f \in Nodes, StartBranch(f)
    PROVE  TypeInv'
  <1> USE SomeCalls
  <1> DEFINE b == Flow.branches[f][todo.i]
             more == IF todo.i < Len(Flow.branches[f]) THEN [todo EXCEPT !.i = @ + 1] ELSE Done
  <1>1. /\ f \in Fanouts /\ f \in fans /\ todo.op = "branch" /\ todo.node = f
        /\ todo.i \in DOMAIN Flow.branches[f] /\ Flow.branches[f] \in Seq(Nodes)
    BY Zenon, FanFields DEF TypeInv, TodoOK, StartBranch
  <1>2. b \in Nodes /\ f \in Maybe /\ Plain(b) \in Keys
    BY <1>1, KeyFacts DEF Maybe
  <1>3. /\ more \in TodoType
        /\ more.op \in {"branch", "evalJoin"} => more.node \in fans
        /\ more.op = "branch" => more.i \in DOMAIN Flow.branches[more.node]
    <2>1. CASE todo.i < Len(Flow.branches[f])
      <3>1. more = [todo EXCEPT !.i = todo.i + 1] /\ todo \in TodoType
        BY Zenon, <2>1 DEF TypeInv, TypeOK
      <3> QED
        BY <2>1, <3>1, <1>1 DEF TodoType
    <2>2. CASE ~(todo.i < Len(Flow.branches[f]))
      BY Zenon, <2>2
    <2> QED
      BY Zenon, <2>1, <2>2
  <1>4. steps' \in Nat
    BY DEF StartBranch, TypeInv, TypeOK
  <1> HIDE DEF b, more
  <1>5. \/ /\ Schedule(Plain(b), f, 0, 1, timers) /\ todo' = more /\ UNCHANGED <<children, started>>
        \/ /\ StartChild(Plain(b), f) /\ todo' = more /\ UNCHANGED <<tasks, timers, jobs>>
        \/ /\ todo' = FailCall /\ UNCHANGED <<tasks, maps, children, timers, num, jobs, started>>
    BY Zenon DEF StartBranch, b, more
  <1>6. /\ tasks' \in [Keys -> TaskType] /\ jobs' \subseteq JobType
        /\ maps' \in [Nodes -> MapType] /\ timers' \subseteq TimerType /\ num' \in Nat
        /\ children' \in [Keys -> ChildType] /\ started' \subseteq StartType
        /\ todo' = more \/ todo' = FailCall
    <2>1. CASE Schedule(Plain(b), f, 0, 1, timers) /\ todo' = more /\ UNCHANGED <<children, started>>
      BY Zenon, <2>1, <1>2, ScheduleType DEF TypeInv, TypeOK
    <2>2. CASE StartChild(Plain(b), f) /\ todo' = more /\ UNCHANGED <<tasks, timers, jobs>>
      BY Zenon, <2>2, <1>2, StartChildType DEF TypeInv, TypeOK
    <2>3. CASE todo' = FailCall /\ UNCHANGED <<tasks, maps, children, timers, num, jobs, started>>
      BY Zenon, <2>3 DEF TypeInv, TypeOK
    <2> QED
      BY Zenon, <1>5, <2>1, <2>2, <2>3
  <1> QED
    BY Zenon, <1>3, <1>4, <1>6 DEF StartBranch, TypeInv, TypeOK, TodoOK, memory

LEMMA TypeJoin ==
    ASSUME TypeInv, NEW f \in Nodes, JoinWaits(f) \/ CloseJoin(f)
    PROVE  TypeInv'
  <1> USE SomeCalls, ChildIdType
  <1>1. CASE JoinWaits(f)
    BY Zenon, <1>1 DEF JoinWaits, TypeInv, TypeOK, TodoOK, flight, memory, outside
  <1>2. CASE CloseJoin(f)
    <2>1. f \in fans /\ f \in Fanouts /\ JoinOf(f) \in Nodes
      BY Zenon, <1>2, FanFields DEF CloseJoin, TypeInv, TodoOK, Call
    <2>2. todo' \in TodoType /\ todo'.op \in {"enter", "complete", "fail"}
      BY Zenon, <1>2, <2>1, AdvanceType, OnFailureType DEF CloseJoin, Maybe
    <2>3. /\ tasks' \in [Keys -> TaskType] /\ children' \in [Keys -> ChildType]
          /\ branch' \in [Nodes -> {"pending", "completed", "failed", "cancelled"}]
      <3>1. NoTask \in TaskType /\ NoChild \in ChildType
        BY Zenon DEF TaskType, NoTask, ChildType, NoChild, Maybe
      <3>2. tasks \in [Keys -> TaskType] /\ children \in [Keys -> ChildType]
        BY Zenon DEF TypeInv, TypeOK
      <3>3. branch \in [Nodes -> {"pending", "completed", "failed", "cancelled"}]
        BY Zenon DEF TypeInv, TypeOK
      <3>4. tasks' = DropTasks(f) /\ children' = DropChildren(f)
        BY Zenon, <1>2 DEF CloseJoin
      <3>5. branch' = [b \in Nodes |-> IF tasks[Plain(b)].owner = f \/ children[Plain(b)].owner = f
                                       THEN "cancelled" ELSE branch[b]]
        BY Zenon, <1>2 DEF CloseJoin
      <3>6. tasks' \in [Keys -> TaskType] /\ children' \in [Keys -> ChildType]
        BY Zenon, <3>1, <3>2, <3>4 DEF DropTasks, DropChildren
      <3> QED
        BY Zenon, <3>3, <3>5, <3>6
    <2>4. steps' \in Nat /\ fans' \subseteq fans /\ cancelled' \subseteq ChildId
      <3>1. steps \in Nat /\ cancelled \subseteq ChildId /\ OwnedChildren(f) \subseteq ChildId
        BY Zenon DEF TypeInv, TypeOK
      <3>2. steps' = steps + 1 /\ fans' = fans \ {f} /\ cancelled' = cancelled \cup OwnedChildren(f)
        BY Zenon, <1>2 DEF CloseJoin
      <3> QED
        BY <3>1, <3>2
    <2> QED
      BY Zenon, <1>2, <2>2, <2>3, <2>4 DEF CloseJoin, TypeInv, TypeOK, TodoOK, memory
  <1> QED
    BY Zenon, <1>1, <1>2

LEMMA TypeConsume ==
    ASSUME TypeInv, NEW n \in Nodes, Consume(n)
    PROVE  TypeInv'
  <1> USE SomeCalls
  <1>1. /\ awaits' \in [Nodes -> Nat] /\ timers' \subseteq timers /\ buffered' \in Seq(SignalType)
        /\ todo' \in TodoType /\ todo'.op \in {"idle", "enter", "complete"}
    <2>1. CASE Matching(n) = {} /\ todo' = Done /\ UNCHANGED <<awaits, timers, buffered>>
      BY Zenon, <2>1 DEF TypeInv, TypeOK
    <2>2. ASSUME NEW i \in Matching(n),
                 buffered' = SubSeq(buffered, 1, i - 1) \o SubSeq(buffered, i + 1, Len(buffered)),
                 awaits' = [awaits EXCEPT ![n] = 0], timers' = {t \in timers : t.id # awaits[n]},
                 todo' = Advance(n, None)
          PROVE  /\ awaits' \in [Nodes -> Nat] /\ timers' \subseteq timers /\ buffered' \in Seq(SignalType)
                 /\ todo' \in TodoType /\ todo'.op \in {"idle", "enter", "complete"}
      <3>1. i \in 1 .. Len(buffered) /\ buffered \in Seq(SignalType)
        BY DEF Matching, TypeInv, TypeOK
      <3>2. buffered' \in Seq(SignalType)
        BY <2>2, <3>1
      <3>3. todo' \in TodoType /\ todo'.op \in {"enter", "complete"}
        BY Zenon, <2>2, AdvanceType DEF Maybe
      <3> QED
        BY Zenon, <2>2, <3>2, <3>3 DEF TypeInv, TypeOK
    <2> QED
      BY Zenon, <2>1, <2>2 DEF Consume
  <1> QED
    BY Zenon, <1>1 DEF Consume, TypeInv, TypeOK, TodoOK, outside

LEMMA TypeMap ==
    ASSUME TypeInv, NEW n \in Nodes, MapCompletes(n) \/ MapStartsItem(n) \/ MapWaits(n) \/ AbortMap(n)
    PROVE  TypeInv'
  <1> USE SomeCalls, ChildIdType
  <1>0. maps \in [Nodes -> MapType] /\ n \in Maybe
    BY Zenon DEF TypeInv, TypeOK, Maybe
  <1>1. CASE MapCompletes(n)
    <2>1. todo' \in TodoType /\ todo'.op \in {"enter", "complete"}
      BY Zenon, <1>1, AdvanceType DEF MapCompletes, Maybe
    <2>2. maps' \in [Nodes -> MapType]
      BY <1>0, <1>1, FoldAssumption DEF MapCompletes, MapType, NoMap
    <2> QED
      BY Zenon, <1>1, <2>1, <2>2 DEF MapCompletes, TypeInv, TypeOK, TodoOK, memory, outside
  <1>2. CASE MapStartsItem(n)
    <2> DEFINE k == <<n, maps[n].next + 1>>
    <2>1. k \in Keys
      <3>1. maps[n].next \in Nat /\ maps[n].len \in 0 .. MaxItems /\ maps[n].next < maps[n].len
        BY Zenon, <1>0, <1>2 DEF MapStartsItem, HasRoom, MapType
      <3> QED
        BY SMTT(40), <3>1, KeyFacts, FoldAssumption
    <2>2. todo.op = "mapProgress" /\ todo \in TodoType
      BY Zenon, <1>2 DEF MapStartsItem, Call, TypeInv, TypeOK
    <2> HIDE DEF k
    <2>3. \/ Schedule(k, n, 0, 1, timers) /\ UNCHANGED <<todo, children, started>>
          \/ StartChild(k, n) /\ UNCHANGED <<todo, tasks, timers, jobs>>
          \/ todo' = FailCall /\ UNCHANGED <<tasks, maps, children, timers, num, jobs, started>>
      BY Zenon, <1>2 DEF MapStartsItem, k
    <2>4. /\ tasks' \in [Keys -> TaskType] /\ jobs' \subseteq JobType
          /\ maps' \in [Nodes -> MapType] /\ timers' \subseteq TimerType /\ num' \in Nat
          /\ children' \in [Keys -> ChildType] /\ started' \subseteq StartType
          /\ todo' = todo \/ todo' = FailCall
      <3>1. CASE Schedule(k, n, 0, 1, timers) /\ UNCHANGED <<todo, children, started>>
        BY Zenon, <3>1, <1>0, <2>1, ScheduleType DEF TypeInv, TypeOK
      <3>2. CASE StartChild(k, n) /\ UNCHANGED <<todo, tasks, timers, jobs>>
        BY Zenon, <3>2, <1>0, <2>1, StartChildType DEF TypeInv, TypeOK
      <3>3. CASE todo' = FailCall /\ UNCHANGED <<tasks, maps, children, timers, num, jobs, started>>
        BY Zenon, <3>3 DEF TypeInv, TypeOK
      <3> QED
        BY Zenon, <2>3, <3>1, <3>2, <3>3
    <2> QED
      BY Zenon, <1>2, <2>2, <2>4 DEF MapStartsItem, TypeInv, TypeOK, TodoOK, memory
  <1>3. CASE MapWaits(n)
    BY Zenon, <1>3 DEF MapWaits, TypeInv, TypeOK, TodoOK, flight, memory, outside
  <1>4. CASE AbortMap(n)
    <2>1. todo' \in TodoType /\ todo'.op = "enter"
      BY Zenon, <1>4, FlowFields DEF AbortMap, Call, OnFailure, TodoType, Ops
    <2>2. tasks' \in [Keys -> TaskType] /\ children' \in [Keys -> ChildType] /\ cancelled' \subseteq ChildId
      BY Zenon, <1>4 DEF AbortMap, TypeInv, TypeOK, DropTasks, DropChildren, TaskType, NoTask, ChildType, NoChild, Maybe
    <2>3. maps' \in [Nodes -> MapType]
      BY <1>0, <1>4, FoldAssumption DEF AbortMap, MapType, NoMap
    <2> QED
      BY Zenon, <1>4, <2>1, <2>2, <2>3 DEF AbortMap, TypeInv, TypeOK, TodoOK, memory
  <1> QED
    BY Zenon, <1>1, <1>2, <1>3, <1>4

LEMMA MapDoneType ==
    ASSUME maps \in [Nodes -> MapType], NEW n \in Nodes
    PROVE  [maps EXCEPT ![n].done = @ + 1] \in [Nodes -> MapType]
  BY DEF MapType

LEMMA UsageIsNat == Usage \subseteq [Counters -> Nat]
  BY Zenon, FoldAssumption DEF Usage

LEMMA TypeComplete ==
    ASSUME TypeInv, NEW j \in jobs, NEW u \in Usage, NEW dyn \in Maybe, Complete(j, u, dyn)
    PROVE  TypeInv'
  <1> DEFINE k == j.key
             n == NodeOf(k)
             t == tasks[k]
             item == t.owner = n /\ maps[n].open
             over == OverBudget(AddUsage(u))
  <1>1. k \in Keys /\ n \in Nodes /\ t \in TaskType /\ n \in Maybe
    BY Zenon, KeyFacts DEF TypeInv, TypeOK, JobType, Maybe
  <1>2. counters' \in [Counters -> Nat]
    BY Zenon, UsageIsNat, UsageType DEF TypeInv, Complete
  <1>3. maps' \in [Nodes -> MapType]
    <2>1. maps' = IF item THEN [maps EXCEPT ![n].done = @ + 1] ELSE maps
      BY Zenon DEF Complete
    <2> QED
      BY Zenon, <1>1, <2>1, MapDoneType DEF TypeInv, TypeOK
  <1>4. /\ tasks' \in [Keys -> TaskType]
        /\ branch' \in [Nodes -> {"pending", "completed", "failed", "cancelled"}]
    BY Zenon, <1>1, SettleType DEF TypeInv, Complete
  <1>5. todo' = CASE over -> FailCall
                  [] ~over /\ t.owner \in fans -> Call("evalJoin", t.owner)
                  [] ~over /\ t.owner \notin fans /\ item -> Call("mapProgress", n)
                  [] OTHER -> Advance(n, dyn)
    BY Zenon DEF Complete
  <1>6. /\ todo' \in TodoType
        /\ todo'.op \in {"branch", "evalJoin"} => todo'.node \in fans
        /\ todo'.op # "branch"
    <2> HIDE DEF over, t, n, item
    <2>1. CASE over
      BY Zenon, <1>5, <2>1, SomeCalls
    <2>2. CASE ~over /\ t.owner \in fans
      <3>1. todo' = Call("evalJoin", t.owner)
        BY Zenon, <1>5, <2>2
      <3> QED
        BY Zenon, <3>1, <2>2, <1>1 DEF Call, TodoType, Ops, TaskType
    <2>3. CASE ~over /\ t.owner \notin fans /\ item
      <3>1. todo' = Call("mapProgress", n)
        BY Zenon, <1>5, <2>3
      <3> QED
        BY Zenon, <3>1, <1>1 DEF Call, TodoType, Ops
    <2>4. CASE ~over /\ t.owner \notin fans /\ ~item
      <3>1. todo' = Advance(n, dyn)
        BY Zenon, <1>5, <2>4
      <3> QED
        BY Zenon, <3>1, <1>1, AdvanceType
    <2> QED
      BY Zenon, <2>1, <2>2, <2>3, <2>4
  <1> HIDE DEF k, n, t, item, over
  <1> QED
    BY Zenon, <1>2, <1>3, <1>4, <1>6 DEF Complete, TypeInv, TypeOK, TodoOK, memory, outside

LEMMA TypeInterrupt ==
    ASSUME TypeInv, NEW j \in jobs, NEW u \in Usage, Interrupt(j, u)
    PROVE  TypeInv'
  <1>1. j.key \in Keys /\ counters' \in [Counters -> Nat]
    BY Zenon, UsageIsNat, UsageType DEF TypeInv, TypeOK, JobType, Interrupt
  <1>2. tasks' \in [Keys -> TaskType]
    BY ZenonT(30), <1>1 DEF Interrupt, TypeInv, TypeOK, TaskType
  <1>3. todo' \in TodoType /\ todo'.op \in {"idle", "fail"}
    BY Zenon, SomeCalls DEF Interrupt
  <1> QED
    BY Zenon, <1>1, <1>2, <1>3 DEF Interrupt, TypeInv, TypeOK, TodoOK, memory, outside

LEMMA TypeResume ==
    ASSUME TypeInv, NEW k \in Keys, Resume(k)
    PROVE  TypeInv'
  <1>1. tasks[k].owner \in Maybe
    BY Zenon DEF TypeInv, TypeOK, TaskType
  <1>2. /\ tasks' \in [Keys -> TaskType] /\ jobs' \subseteq JobType
        /\ maps' \in [Nodes -> MapType] /\ timers' \subseteq TimerType /\ num' \in Nat
    BY Zenon, <1>1, ScheduleType DEF Resume, TypeInv, TypeOK
  <1> QED
    BY Zenon, <1>2 DEF Resume, TypeInv, TypeOK, TodoOK, memory

LEMMA TypeTimer ==
    ASSUME TypeInv, NEW t \in timers, ObsoleteTimer(t) \/ RetryTimer(t) \/ TimeoutTimer(t) \/ AwaitTimer(t)
    PROVE  TypeInv'
  <1> USE SomeCalls
  <1>0. t \in TimerType /\ timers \ {t} \subseteq TimerType /\ NodeOf(t.key) \in Nodes
    BY Zenon, KeyFacts DEF TypeInv, TypeOK, TimerType
  <1>1. CASE ObsoleteTimer(t)
    BY Zenon, <1>1 DEF ObsoleteTimer, TypeInv, TypeOK, TodoOK, memory, outside
  <1>2. CASE RetryTimer(t)
    <2>1. t.key \in Keys /\ t.gen \in Nat /\ t.attempt \in Nat /\ tasks[t.key].owner \in Maybe
      BY Zenon, <1>0 DEF TypeInv, TypeOK, TaskType, TimerType
    <2>2. Schedule(t.key, tasks[t.key].owner, t.gen, t.attempt, timers \ {t})
      BY Zenon, <1>2 DEF RetryTimer
    <2>3. /\ tasks' \in [Keys -> TaskType] /\ jobs' \subseteq JobType
          /\ maps' \in [Nodes -> MapType] /\ timers' \subseteq TimerType /\ num' \in Nat
      BY Zenon, <1>0, <2>1, <2>2, ScheduleType DEF TypeInv
    <2> QED
      BY Zenon, <1>2, <2>3 DEF RetryTimer, TypeInv, TypeOK, TodoOK, memory
  <1>3. CASE TimeoutTimer(t)
    <2>1. [x \in Counters |-> 0] \in [Counters -> Nat] /\ t.key \in Keys
      BY Zenon, <1>0 DEF TimerType
    <2> QED
      BY Zenon, <1>0, <1>3, <2>1, TaskFailedType DEF TimeoutTimer
  <1>4. CASE AwaitTimer(t)
    <2>1. awaits' \in [Nodes -> Nat] /\ timers' \subseteq TimerType
      BY Zenon, <1>0, <1>4 DEF AwaitTimer, TypeInv, TypeOK
    <2>2. todo' \in TodoType /\ todo'.op \in {"enter", "fail"}
      BY Zenon, <1>0, <1>4, FlowFields DEF AwaitTimer, Call, TodoType, Ops
    <2> QED
      BY Zenon, <1>4, <2>1, <2>2 DEF AwaitTimer, TypeInv, TypeOK, TodoOK, memory, outside
  <1> QED
    BY Zenon, <1>1, <1>2, <1>3, <1>4

LEMMA TypeSignal ==
    ASSUME TypeInv, NEW name \in SignalNames, NEW id \in SignalIds, Signal(name, id)
    PROVE  TypeInv'
  <1>1. buffered' \in Seq(SignalType) /\ signalIDs' \subseteq SignalIds
    BY DEF Signal, TypeInv, TypeOK, SignalType
  <1>2. todo' \in TodoType /\ todo'.op \in {"idle", "consume"}
    <2>1. CASE Listening(name) = {}
      BY Zenon, <2>1, SomeCalls DEF Signal
    <2>2. CASE Listening(name) # {}
      <3>1. (CHOOSE n \in Listening(name) : TRUE) \in Listening(name)
        BY Zenon, <2>2
      <3> QED
        BY Zenon, <2>2, <3>1 DEF Signal, Listening, Call, TodoType, Ops, Maybe
    <2> QED
      BY Zenon, <2>1, <2>2
  <1> QED
    BY Zenon, <1>1, <1>2 DEF Signal, TypeInv, TypeOK, TodoOK, flight, outside

LEMMA TypeChildDone ==
    ASSUME TypeInv, NEW k \in Keys, NEW c \in ChildId, NEW u \in Usage, NEW ok \in BOOLEAN, ChildDone(k, c, u, ok)
    PROVE  TypeInv'
  <1> DEFINE n == NodeOf(k)
             o == children[k].owner
             item == o = n /\ maps[n].open
             over == OverBudget(AddUsage(u))
  <1>1. n \in Nodes /\ o \in Maybe /\ n \in Maybe
    BY Zenon, KeyFacts DEF TypeInv, TypeOK, ChildType, Maybe
  <1>2. counters' \in [Counters -> Nat]
    BY Zenon, UsageIsNat, UsageType DEF TypeInv, ChildDone
  <1>3. maps' \in [Nodes -> MapType]
    <2>1. maps' = IF item /\ ok THEN [maps EXCEPT ![n].done = @ + 1] ELSE maps
      BY Zenon DEF ChildDone
    <2> QED
      BY Zenon, <1>1, <2>1, MapDoneType DEF TypeInv, TypeOK
  <1>4. children' \in [Keys -> ChildType] /\ ended' \subseteq ChildId
    BY Zenon DEF ChildDone, TypeInv, TypeOK, ChildType, NoChild, Maybe
  <1>5. branch' \in [Nodes -> {"pending", "completed", "failed", "cancelled"}]
    BY Zenon, <1>1 DEF ChildDone, TypeInv, TypeOK
  <1>6. todo' = CASE over -> FailCall
                  [] ~over /\ o \in fans -> Call("evalJoin", o)
                  [] ~over /\ o \notin fans /\ item /\ ok -> Call("mapProgress", n)
                  [] ~over /\ o \notin fans /\ item /\ ~ok ->
                        IF OnFailure(n) # None THEN Call("abortMap", n) ELSE FailCall
                  [] OTHER -> IF ok THEN Advance(n, None) ELSE OnFailureOf(n)
    BY Zenon DEF ChildDone
  <1>7. /\ todo' \in TodoType
        /\ todo'.op \in {"branch", "evalJoin"} => todo'.node \in fans
        /\ todo'.op # "branch"
    <2> HIDE DEF over, o, n, item
    <2>1. CASE over
      BY Zenon, <1>6, <2>1, SomeCalls
    <2>2. CASE ~over /\ o \in fans
      <3>1. todo' = Call("evalJoin", o)
        BY Zenon, <1>6, <2>2
      <3> QED
        BY Zenon, <3>1, <2>2, <1>1 DEF Call, TodoType, Ops
    <2>3. CASE ~over /\ o \notin fans /\ item /\ ok
      <3>1. todo' = Call("mapProgress", n)
        BY Zenon, <1>6, <2>3
      <3> QED
        BY Zenon, <3>1, <1>1 DEF Call, TodoType, Ops
    <2>4. CASE ~over /\ o \notin fans /\ item /\ ~ok
      <3>1. todo' = Call("abortMap", n) \/ todo' = FailCall
        BY Zenon, <1>6, <2>4
      <3> QED
        BY <3>1, <1>1, SomeCalls DEF Call, TodoType, Ops
    <2>5. CASE ~over /\ o \notin fans /\ ~item
      <3>1. todo' = IF ok THEN Advance(n, None) ELSE OnFailureOf(n)
        BY Zenon, <1>6, <2>5
      <3> QED
        BY Zenon, <3>1, <1>1, AdvanceType, OnFailureType DEF Maybe
    <2> QED
      BY Zenon, <2>1, <2>2, <2>3, <2>4, <2>5
  <1> HIDE DEF n, o, item, over
  <1> QED
    BY Zenon, <1>2, <1>3, <1>4, <1>5, <1>7 DEF ChildDone, TypeInv, TypeOK, TodoOK, memory

LEMMA TypeFork == TypeInv /\ Fork => TypeInv'
  <1> SUFFICES ASSUME TypeInv, Fork PROVE TypeInv'
    BY Zenon
  <1>1. rekick' \in RekickType
    BY Zenon, SomeCalls DEF Fork, RekickType, Redispatched
  <1> QED
    BY SMTT(150), <1>1 DEF Fork, TypeInv, TypeOK, TodoOK, memory

LEMMA TypeRekick == TypeInv /\ Rekick => TypeInv'
  <1> SUFFICES ASSUME TypeInv, Rekick PROVE TypeInv'
    BY Zenon
  <1> USE SomeCalls
  <1> DEFINE k == CHOOSE x \in rekick.left : TRUE
  <1>0. rekick \in RekickType
    BY Zenon DEF TypeInv, TypeOK
  <1>1. rekick.left # {} => k \in Keys /\ NodeOf(k) \in Nodes /\ [rekick EXCEPT !.left = @ \ {k}] \in RekickType
    BY Zenon, <1>0, KeyFacts DEF RekickType
  <1> HIDE DEF k
  <1>2. CASE RekickTask
    <2>1. /\ rekick.left # {} /\ rekick' = [rekick EXCEPT !.left = @ \ {k}]
          /\ Schedule(k, tasks[k].owner, 0, 1, timers)
      BY Zenon, <1>2 DEF RekickTask, k
    <2>2. tasks[k].owner \in Maybe
      BY Zenon, <1>1, <2>1 DEF TypeInv, TypeOK, TaskType
    <2>3. /\ tasks' \in [Keys -> TaskType] /\ jobs' \subseteq JobType
          /\ maps' \in [Nodes -> MapType] /\ timers' \subseteq TimerType /\ num' \in Nat
      BY Zenon, <1>1, <2>1, <2>2, ScheduleType DEF TypeInv, TypeOK
    <2> QED
      BY Zenon, <1>1, <1>2, <2>1, <2>3 DEF RekickTask, TypeInv, TypeOK, TodoOK, memory
  <1>3. CASE RekickAwait
    <2>1. /\ rekick.left # {} /\ rekick' = [rekick EXCEPT !.left = @ \ {k}]
          /\ OpenAwait(NodeOf(k))
      BY Zenon, <1>3 DEF RekickAwait, k
    <2>2. /\ awaits' \in [Nodes -> Nat] /\ timers' \subseteq TimerType /\ num' \in Nat
          /\ todo' \in TodoType /\ todo'.op = "consume"
      BY Zenon, <1>1, <2>1, OpenAwaitType DEF TypeInv
    <2> QED
      BY Zenon, <1>1, <1>3, <2>1, <2>2 DEF RekickAwait, TypeInv, TypeOK, TodoOK, memory, outside
  <1>4. CASE RekickChild
    <2>1. /\ rekick.left # {} /\ rekick' = [rekick EXCEPT !.left = @ \ {k}]
          /\ \/ StartChild(k, children[k].owner) /\ todo' = Done
             \/ todo' = FailCall /\ UNCHANGED <<children, started, maps, num>>
      BY Zenon, <1>4 DEF RekickChild, k
    <2>2. children[k].owner \in Maybe
      BY Zenon, <1>1, <2>1 DEF TypeInv, TypeOK, ChildType
    <2>3. /\ children' \in [Keys -> ChildType] /\ started' \subseteq StartType
          /\ maps' \in [Nodes -> MapType] /\ num' \in Nat
          /\ todo' \in TodoType /\ todo'.op \in {"idle", "fail"}
      BY Zenon, <1>1, <2>1, <2>2, StartChildType DEF TypeInv, TypeOK
    <2> QED
      BY Zenon, <1>1, <1>4, <2>1, <2>3 DEF RekickChild, TypeInv, TypeOK, TodoOK, memory
  <1>5. CASE RekickNext
    <2>1. rekick' \in RekickType
      <3>1. {Plain(n) : n \in {x \in Nodes : awaits[x] # 0}} \subseteq Keys
        BY Zenon, KeyFacts
      <3> QED
        BY Zenon, <1>0, <1>5, <3>1 DEF RekickNext, RekickType
    <2>2. inherited' \subseteq ChildId
      BY Zenon, <1>5, ChildIdType DEF RekickNext, TypeInv
    <2> QED
      BY Zenon, <1>5, <2>1, <2>2 DEF RekickNext, TypeInv, TypeOK, TodoOK, flight, memory, outside
  <1> QED
    BY Zenon, <1>2, <1>3, <1>4, <1>5 DEF Rekick

LEMMA TypeStep == TypeInv /\ [Next]_vars => TypeInv'
  <1> SUFFICES ASSUME TypeInv, [Next]_vars PROVE TypeInv'
    BY Zenon
  <1> USE SomeCalls
  <1>1. CASE Start
    <2>1. todo' \in TodoType /\ todo'.op = "enter"
      BY Zenon, <1>1, FlowFields DEF Start, Call, TodoType, Ops, Maybe
    <2> QED
      BY Zenon, <1>1, <2>1 DEF Start, TypeInv, TypeOK, TodoOK, flight, memory, outside
  <1>2. CASE Calls
    BY Zenon, <1>2, TypeEnds, TypeEnter, TypeStartBranch, TypeJoin, TypeConsume, TypeMap DEF Calls
  <1>3. CASE Rekick
    BY Zenon, <1>3, TypeRekick
  <1>4. CASE Results
    <2>1. ASSUME NEW j \in jobs, NEW u \in Usage, NEW dyn \in Flow.dynamic[NodeOf(j.key)] \cup {None}, Complete(j, u, dyn)
          PROVE  TypeInv'
      <3>1. dyn \in Maybe
        BY Zenon, KeyFacts, FlowFields DEF TypeInv, TypeOK, JobType, Maybe
      <3> QED
        BY Zenon, <2>1, <3>1, TypeComplete
    <2>2. ASSUME NEW j \in jobs, NEW u \in Usage, NEW retryable \in BOOLEAN, FailTask(j, u, retryable)
          PROVE  TypeInv'
      <3>1. j.key \in Keys /\ timers \in SUBSET TimerType /\ u \in [Counters -> Nat]
        BY Zenon, UsageIsNat DEF TypeInv, TypeOK, JobType
      <3> QED
        BY Zenon, <2>2, <3>1, TaskFailedType DEF FailTask
    <2> QED
      BY Zenon, <1>4, <2>1, <2>2 DEF Results
  <1>5. CASE Timer
    BY Zenon, <1>5, TypeTimer DEF Timer
  <1>6. CASE ChildResults
    <2>1. PICK k \in Keys, s \in started, u \in Usage, ok \in BOOLEAN : ChildDone(k, s.id, u, ok)
      BY Zenon, <1>6 DEF ChildResults
    <2>2. s.id \in ChildId
      BY Zenon DEF TypeInv, TypeOK, StartType
    <2> QED
      BY Zenon, <2>1, <2>2, TypeChildDone
  <1>7. CASE Requests
    <2>1. ASSUME NEW id \in UpdateIds, Update(id) PROVE TypeInv'
      BY Zenon, <2>1 DEF Update, TypeInv, TypeOK, TodoOK, flight, outside
    <2> QED
      BY Zenon, <1>7, <2>1, TypeInterrupt, TypeResume, TypeSignal, TypeEnds, TypeFork DEF Requests
  <1>8. CASE UNCHANGED vars
    BY Zenon, <1>8 DEF vars, flight, memory, outside, TypeInv, TypeOK, TodoOK
  <1> QED
    BY Zenon, <1>1, <1>2, <1>3, <1>4, <1>5, <1>6, <1>7, <1>8 DEF Next

\* Every reachable state of the decider is well typed, for every valid flow:
\* in particular a branch is always started in range, a join is only evaluated
\* for a fan-out that is open, and a map never runs past its list.
THEOREM TypeCorrect == Spec => []TypeOK
  <1>1. TypeInv => TypeOK
    BY Zenon DEF TypeInv
  <1> QED
    BY <1>1, TypeInit, TypeStep, PTL DEF Spec

----------------------------------------------------------------------------
\* Budgets.

NoneOver == status \in Terminal \/ todo = FailCall \/ ~OverBudget(counters)

\* A step leaves the counters alone, and the failure a decision came to stands;
\* or it charges them, and comes to a failure when they are over.
Charged ==
    /\ status' = status
    /\ OverBudget(counters') => todo' = FailCall

Uncharged ==
    /\ counters' = counters
    /\ status' \in Terminal \/ (status' = status /\ status # "none") \/ status = "none"
    /\ todo = FailCall => status' \in Terminal \/ todo' = FailCall

LEMMA FailIsNotOther ==
    /\ FailCall # Done /\ Done.op = "idle" /\ FailCall.op = "fail"
    /\ \A op, n : Call(op, n).op = op /\ Call(op, n).node = n
  BY Zenon DEF FailCall, Done, Call

LEMMA Charges == [Next]_vars => Charged \/ Uncharged
  <1> SUFFICES ASSUME [Next]_vars PROVE Charged \/ Uncharged
    BY Zenon
  <1> USE FailIsNotOther
  <1>1. CASE Start
    BY Zenon, <1>1 DEF Start, Uncharged, Idle
  <1>2. ASSUME NEW s \in Terminal, Terminate(s)
        PROVE  Uncharged
    BY Zenon, <1>2 DEF Terminate, Uncharged
  <1>3. ASSUME counters' = counters, status' = status, todo # FailCall
        PROVE  Uncharged
    BY Zenon, <1>3 DEF Uncharged
  <1>4. CASE Calls
    <2>1. CASE Fail \/ CompleteExecution \/ EnterTooDeep
      BY Zenon, <1>2, <1>3, <2>1 DEF Fail, CompleteExecution, EnterTooDeep, Terminal
    <2>2. ASSUME NEW n \in Nodes,
                 \/ EnterTask(n) \/ EnterChoice(n) \/ EnterFanout(n) \/ EnterAwait(n) \/ EnterMap(n) \/ EnterSubflow(n)
          PROVE  Uncharged
      <3>1. Enter(n, Type(n))
        BY Zenon, <2>2 DEF EnterTask, EnterChoice, EnterFanout, EnterAwait, EnterMap, EnterSubflow, Enter
      <3>2. todo = Call("enter", n) /\ counters' = counters /\ status' = status
        BY Zenon, <3>1 DEF Enter
      <3>3. todo.op = "enter"
        BY Zenon, <3>2
      <3> QED
        BY <1>3, <3>2, <3>3
    <2>3. ASSUME NEW n \in Nodes,
                 \/ StartBranch(n) \/ JoinWaits(n) \/ CloseJoin(n) \/ Consume(n)
                 \/ MapCompletes(n) \/ MapStartsItem(n) \/ MapWaits(n) \/ AbortMap(n)
          PROVE  Uncharged
      <3>1. counters' = counters /\ status' = status
        BY Zenon, <2>3 DEF StartBranch, JoinWaits, CloseJoin, Consume, MapCompletes, MapStartsItem, MapWaits, AbortMap
      <3>2. \/ todo.op = "branch" \/ todo = Call("evalJoin", n) \/ todo = Call("consume", n)
            \/ todo = Call("mapProgress", n) \/ todo = Call("abortMap", n)
        BY Zenon, <2>3 DEF StartBranch, JoinWaits, CloseJoin, Consume, MapCompletes, MapStartsItem, MapWaits, AbortMap
      <3>3. todo.op # "fail"
        BY <3>2
      <3> QED
        BY Zenon, <1>3, <3>1, <3>3
    <2> QED
      BY Zenon, <1>4, <2>1, <2>2, <2>3 DEF Calls
  <1>5. CASE Rekick
    BY Zenon, <1>3, <1>5 DEF Rekick, RekickTask, RekickAwait, RekickChild, RekickNext
  <1>6. ASSUME NEW k, NEW retryable, NEW u, NEW live, TaskFailed(k, retryable, u, live)
        PROVE  Charged
    <2>1. counters' = AddUsage(u) /\ status' = status
      BY Zenon, <1>6 DEF TaskFailed
    <2>2. OverBudget(AddUsage(u)) => todo' = FailCall
      BY Zenon, <1>6 DEF TaskFailed
    <2> QED
      BY Zenon, <2>1, <2>2 DEF Charged
  <1>7. ASSUME NEW j, NEW u, NEW dyn, Complete(j, u, dyn)
        PROVE  Charged
    BY Zenon, <1>7 DEF Complete, Charged
  <1>8. ASSUME NEW k, NEW c, NEW u, NEW ok, ChildDone(k, c, u, ok)
        PROVE  Charged
    BY Zenon, <1>8 DEF ChildDone, Charged
  <1>9. CASE Results \/ ChildResults
    BY Zenon, <1>6, <1>7, <1>8, <1>9 DEF Results, ChildResults, FailTask
  <1>10. CASE Timer
    <2>1. PICK t \in timers : ObsoleteTimer(t) \/ RetryTimer(t) \/ TimeoutTimer(t) \/ AwaitTimer(t)
      BY Zenon, <1>10 DEF Timer
    <2> QED
      BY Zenon, <1>3, <1>6, <2>1 DEF ObsoleteTimer, RetryTimer, TimeoutTimer, AwaitTimer, Ready, Idle
  <1>11. CASE Requests
    <2>1. ASSUME NEW j, NEW u, Interrupt(j, u)
          PROVE  Charged
      BY Zenon, <2>1 DEF Interrupt, Charged
    <2>2. ASSUME NEW k, NEW name, NEW id, Resume(k) \/ Signal(name, id) \/ Update(id) \/ Fork
          PROVE  Uncharged
      BY Zenon, <1>3, <2>2 DEF Resume, Signal, Update, Fork, Ready, Idle
    <2>3. CASE Cancel \/ Abort
      BY Zenon, <1>2, <2>3 DEF Cancel, Abort, Terminal
    <2> QED
      BY Zenon, <1>11, <2>1, <2>2, <2>3 DEF Requests
  <1>12. CASE UNCHANGED vars
    BY Zenon, <1>12 DEF vars, Uncharged
  <1> QED
    BY Zenon, <1>1, <1>4, <1>5, <1>9, <1>10, <1>11, <1>12 DEF Next

\* An execution whose usage is over a budget takes no further command: the
\* decision that charges it fails it, whoever reported the usage (overBudget in
\* complete, taskFailed, interrupt and childDone).
THEOREM BudgetsHold == Spec => []BudgetHolds
  <1>1. Init => NoneOver
    <2> SUFFICES ASSUME Init, NEW x \in Counters, Flow.budget[x] > 0 PROVE ~(counters[x] > Flow.budget[x])
      BY Zenon DEF NoneOver, OverBudget
    <2>1. counters[x] = 0 /\ Flow.budget[x] \in Nat
      BY Zenon, FlowFields DEF Init
    <2> QED
      BY <2>1
  <1>2. NoneOver /\ [Next]_vars => NoneOver'
    <2> SUFFICES ASSUME NoneOver, [Next]_vars PROVE NoneOver'
      BY Zenon
    <2>1. OverBudget(counters)' <=> OverBudget(counters')
      BY Zenon DEF OverBudget
    <2>2. CASE Charged
      BY Zenon, <2>1, <2>2 DEF Charged, NoneOver
    <2>3. CASE Uncharged
      <3>1. counters' = counters => (OverBudget(counters') <=> OverBudget(counters))
        BY Zenon
      <3> QED
        BY Zenon, <2>1, <2>3, <3>1 DEF Uncharged, NoneOver, Terminal
    <2> QED
      BY Zenon, <2>2, <2>3, Charges
  <1>3. NoneOver => BudgetHolds
    BY Zenon, FailIsNotOther DEF NoneOver, BudgetHolds, Ready, Idle, Terminal
  <1> QED
    BY <1>1, <1>2, <1>3, PTL DEF Spec

----------------------------------------------------------------------------
\* Attempts and generations: what a step does to the instances and their jobs.

\* No instance is scheduled; what changes is settled, or keeps its attempt.
Rests(k) ==
    \/ tasks'[k] = tasks[k]
    \/ /\ tasks'[k].status # "scheduled"
       /\ tasks'[k].gen = 0 \/ (tasks'[k].gen = tasks[k].gen /\ tasks'[k].attempt = tasks[k].attempt)

Bounded(t) == t.purpose = "retry" => t.attempt <= MaxAttempts(NodeOf(t.key))

NothingScheduled ==
    /\ jobs' = jobs /\ exec' = exec /\ num' \in {num, num + 1}
    /\ \A k \in Keys : Rests(k)
    /\ \A t \in timers' : t \in timers \/ Bounded(t)

FreshlyScheduled ==
    /\ exec' = exec
    /\ \E k \in Keys, owner \in Maybe : Schedule(k, owner, 0, 1, timers)

LEMMA NothingSettled ==
    ASSUME tasks' = tasks, jobs' = jobs, exec' = exec, num' \in {num, num + 1},
           \A t \in timers' : t \in timers \/ t.purpose = "await"
    PROVE  NothingScheduled
  BY DEF NothingScheduled, Rests, Bounded

\* An await that opens adds one timer, its own.
LEMMA AwaitAdds ==
    ASSUME NEW n, OpenAwait(n)
    PROVE  \E t : /\ timers' = timers \cup {t}
                  /\ t.id = num + 1 /\ t.purpose = "await" /\ t.key = Plain(n)
                  /\ awaits' = [awaits EXCEPT ![n] = num + 1] /\ num' = num + 1
                  /\ todo' = Call("consume", n)
  <1> DEFINE t == [id |-> num + 1, purpose |-> "await", key |-> Plain(n), gen |-> 0, attempt |-> 0]
  <1>1. t.id = num + 1 /\ t.purpose = "await" /\ t.key = Plain(n)
    BY Zenon
  <1>2. timers' = timers \cup {t}
    BY Zenon DEF OpenAwait
  <1> HIDE DEF t
  <1> QED
    BY Zenon, <1>1, <1>2 DEF OpenAwait

LEMMA SettledRests ==
    ASSUME TypeOK, NEW k \in Keys, NEW outcome, Settle(k, outcome)
    PROVE  \A x \in Keys : Rests(x)
  <1>1. \A x \in Keys : x # k => tasks'[x] = tasks[x]
    BY Zenon DEF TypeOK, Settle
  <1>2. tasks'[k] = NoTask
    BY Zenon DEF TypeOK, Settle
  <1>3. NoTask.status = "none" /\ NoTask.gen = 0
    BY Zenon DEF NoTask
  <1> QED
    BY <1>1, <1>2, <1>3 DEF Rests

LEMMA DroppedRests ==
    ASSUME NEW o, tasks' = DropTasks(o)
    PROVE  \A x \in Keys : Rests(x)
  <1>1. NoTask.status = "none" /\ NoTask.gen = 0
    BY Zenon DEF NoTask
  <1>2. \A x \in Keys : tasks'[x] = NoTask \/ tasks'[x] = tasks[x]
    BY Zenon DEF DropTasks
  <1> QED
    BY <1>1, <1>2 DEF Rests

LEMMA TerminateSchedulesNothing ==
    ASSUME NEW s, Terminate(s)
    PROVE  NothingScheduled
  <1>1. NoTask.status = "none" /\ NoTask.gen = 0
    BY Zenon DEF NoTask
  <1>2. \A x \in Keys : tasks'[x] = NoTask
    BY Zenon DEF Terminate
  <1>3. jobs' = jobs /\ exec' = exec /\ num' = num /\ timers' = {}
    BY Zenon DEF Terminate
  <1>4. \A x \in Keys : Rests(x)
    BY <1>1, <1>2 DEF Rests
  <1> QED
    BY Zenon, <1>3, <1>4 DEF NothingScheduled

LEMMA FailureSchedulesNothing ==
    ASSUME TypeInv, NEW k \in Keys, NEW retryable, NEW u, NEW live \in SUBSET timers, TaskFailed(k, retryable, u, live)
    PROVE  NothingScheduled
  <1> DEFINE willRetry == retryable /\ MayRetry(tasks[k].attempt, NodeOf(k)) /\ ~OverBudget(AddUsage(u))
             retry == [id |-> num + 1, purpose |-> "retry", key |-> k, gen |-> tasks[k].gen, attempt |-> tasks[k].attempt + 1]
  <1>0. TypeOK /\ tasks[k] \in TaskType /\ NodeOf(k) \in Nodes
    BY Zenon, KeyFacts DEF TypeInv, TypeOK
  <1>1. jobs' = jobs /\ exec' = exec
    BY Zenon DEF TaskFailed, outside
  <1>2. CASE willRetry
    <2>1. tasks' = [tasks EXCEPT ![k].status = "retrying"] /\ timers' = live \cup {retry} /\ num' = num + 1
      BY Zenon, <1>2 DEF TaskFailed
    <2>2. Bounded(retry)
      <3>1. tasks[k].attempt \in Nat /\ MaxAttempts(NodeOf(k)) \in Nat /\ tasks[k].attempt < MaxAttempts(NodeOf(k))
        BY Zenon, <1>0, <1>2, FlowFields DEF TaskType, MaxAttempts, MayRetry
      <3>2. retry.key = k /\ retry.attempt = tasks[k].attempt + 1
        BY Zenon
      <3> QED
        BY <3>1, <3>2 DEF Bounded
    <2>3. /\ tasks'[k].status = "retrying" /\ tasks'[k].gen = tasks[k].gen /\ tasks'[k].attempt = tasks[k].attempt
          /\ \A x \in Keys : x # k => tasks'[x] = tasks[x]
      BY Zenon, <1>0, <2>1 DEF TypeOK, TaskType
    <2>4. \A x \in Keys : Rests(x)
      BY <2>3 DEF Rests
    <2> HIDE DEF retry
    <2> QED
      BY Zenon, <1>1, <2>1, <2>2, <2>4 DEF NothingScheduled
  <1>3. CASE ~willRetry
    <2>1. Settle(k, "failed") /\ timers' = live /\ num' = num
      BY Zenon, <1>3 DEF TaskFailed
    <2> QED
      BY Zenon, <1>0, <1>1, <2>1, SettledRests DEF NothingScheduled
  <1> QED
    BY Zenon, <1>2, <1>3

LEMMA CallsSchedule ==
    ASSUME TypeInv, Calls
    PROVE  NothingScheduled \/ FreshlyScheduled
  <1>0. TypeOK /\ None \in Maybe /\ Nodes \subseteq Maybe
    BY Zenon DEF TypeInv, Maybe
  <1>1. CASE Fail \/ CompleteExecution \/ EnterTooDeep
    BY Zenon, <1>1, TerminateSchedulesNothing, NothingSettled DEF Fail, CompleteExecution, EnterTooDeep, flight, outside
  <1>2. ASSUME NEW n \in Nodes, EnterTask(n)
        PROVE  FreshlyScheduled
    BY Zenon, <1>0, <1>2, KeyFacts DEF EnterTask, Enter, FreshlyScheduled
  <1>3. ASSUME NEW n \in Nodes, EnterChoice(n) \/ EnterFanout(n) \/ EnterMap(n)
        PROVE  NothingScheduled
    BY Zenon, <1>3, NothingSettled DEF EnterChoice, EnterFanout, EnterMap, Enter, flight
  <1>4. ASSUME NEW n \in Nodes, EnterAwait(n)
        PROVE  NothingScheduled
    <2>1. \A t \in timers' : t \in timers \/ t.purpose = "await"
      BY Zenon, <1>4, AwaitAdds DEF EnterAwait
    <2>2. tasks' = tasks /\ jobs' = jobs /\ exec' = exec /\ num' = num + 1
      BY Zenon, <1>4 DEF EnterAwait, Enter, OpenAwait
    <2> QED
      BY Zenon, <2>1, <2>2, NothingSettled
  <1>5. ASSUME NEW n \in Nodes, EnterSubflow(n)
        PROVE  NothingScheduled
    BY Zenon, <1>5, NothingSettled DEF EnterSubflow, Enter, StartChild
  <1>6. ASSUME NEW f \in Nodes, StartBranch(f)
        PROVE  NothingScheduled \/ FreshlyScheduled
    <2>1. Plain(Flow.branches[f][todo.i]) \in Keys /\ f \in Maybe
      <3>1. /\ f \in Fanouts /\ todo.i \in DOMAIN Flow.branches[f] /\ Flow.branches[f] \in Seq(Nodes)
        BY Zenon, <1>6, FanFields DEF TypeInv, TodoOK, StartBranch
      <3>2. Flow.branches[f][todo.i] \in Nodes
        BY <3>1
      <3> QED
        BY Zenon, <1>0, <3>2, KeyFacts
    <2> QED
      BY Zenon, <1>6, <2>1, NothingSettled DEF StartBranch, StartChild, FreshlyScheduled
  <1>7. ASSUME NEW n \in Nodes, JoinWaits(n) \/ Consume(n) \/ MapCompletes(n) \/ MapWaits(n)
        PROVE  NothingScheduled
    BY Zenon, <1>7, NothingSettled DEF JoinWaits, Consume, MapCompletes, MapWaits, flight, outside
  <1>8. ASSUME NEW n \in Nodes, CloseJoin(n) \/ AbortMap(n)
        PROVE  NothingScheduled
    BY Zenon, <1>8, DroppedRests DEF CloseJoin, AbortMap, NothingScheduled
  <1>9. ASSUME NEW n \in Nodes, MapStartsItem(n)
        PROVE  NothingScheduled \/ FreshlyScheduled
    <2>1. <<n, maps[n].next + 1>> \in Keys
      <3>1. maps[n].next < maps[n].len /\ maps[n] \in MapType
        BY Zenon, <1>0, <1>9 DEF MapStartsItem, HasRoom, TypeOK
      <3>2. maps[n].next + 1 \in 0 .. MaxItems
        BY <3>1, FoldAssumption DEF MapType
      <3> QED
        BY Zenon, <3>2, KeyFacts
    <2> QED
      BY Zenon, <1>0, <1>9, <2>1, NothingSettled DEF MapStartsItem, StartChild, FreshlyScheduled
  <1> QED
    BY Zenon, <1>1, <1>2, <1>3, <1>4, <1>5, <1>6, <1>7, <1>8, <1>9 DEF Calls

Retried == \E t \in timers : RetryTimer(t)

LEMMA WorkStep ==
    ASSUME TypeInv, [Next]_vars
    PROVE  NothingScheduled \/ FreshlyScheduled \/ Retried \/ Fork
  <1>0. TypeOK
    BY Zenon DEF TypeInv
  <1>1. CASE Start \/ (\E id \in UpdateIds : Update(id)) \/ (\E name \in SignalNames, id \in SignalIds : Signal(name, id))
    BY Zenon, <1>1, NothingSettled DEF Start, Update, Signal, flight, outside
  <1>2. CASE Calls
    BY Zenon, <1>2, CallsSchedule
  <1>3. CASE Rekick
    <2> DEFINE k == CHOOSE x \in rekick.left : TRUE
    <2>1. rekick.left # {} => k \in Keys
      BY Zenon DEF TypeInv, TypeOK, RekickType
    <2> HIDE DEF k
    <2>2. CASE RekickTask
      <3>1. Schedule(k, tasks[k].owner, 0, 1, timers) /\ exec' = exec /\ rekick.left # {}
        BY Zenon, <2>2 DEF RekickTask, k
      <3>2. k \in Keys /\ tasks[k].owner \in Maybe
        BY Zenon, <1>0, <2>1, <3>1 DEF TypeOK, TaskType
      <3> QED
        BY Zenon, <3>1, <3>2 DEF FreshlyScheduled
    <2>3. CASE RekickAwait
      <3>1. \A t \in timers' : t \in timers \/ t.purpose = "await"
        BY Zenon, <2>3, AwaitAdds DEF RekickAwait
      <3> QED
        BY Zenon, <2>3, <3>1, NothingSettled DEF RekickAwait, OpenAwait, outside
    <2>4. CASE RekickChild
      BY Zenon, <2>4, NothingSettled DEF RekickChild, StartChild
    <2>5. CASE RekickNext
      BY Zenon, <2>5, NothingSettled DEF RekickNext, flight, outside
    <2> QED
      BY Zenon, <1>3, <2>2, <2>3, <2>4, <2>5 DEF Rekick
  <1>4. CASE Results
    <2>1. ASSUME NEW j \in jobs, NEW u, NEW dyn, Complete(j, u, dyn)
          PROVE  NothingScheduled
      <3>1. j.key \in Keys /\ Settle(j.key, "completed")
        BY Zenon, <1>0, <2>1 DEF Complete, TypeOK, JobType
      <3> QED
        BY Zenon, <1>0, <2>1, <3>1, SettledRests DEF Complete, NothingScheduled, outside
    <2>2. ASSUME NEW j \in jobs, NEW u, NEW retryable, FailTask(j, u, retryable)
          PROVE  NothingScheduled
      <3>1. j.key \in Keys
        BY Zenon, <1>0 DEF TypeOK, JobType
      <3> QED
        BY Zenon, <2>2, <3>1, FailureSchedulesNothing DEF FailTask
    <2> QED
      BY Zenon, <1>4, <2>1, <2>2 DEF Results
  <1>5. CASE Timer
    <2>1. PICK t \in timers : ObsoleteTimer(t) \/ RetryTimer(t) \/ TimeoutTimer(t) \/ AwaitTimer(t)
      BY Zenon, <1>5 DEF Timer
    <2>2. t.key \in Keys
      BY Zenon, <1>0 DEF TypeOK, TimerType
    <2>3. CASE TimeoutTimer(t)
      BY Zenon, <2>2, <2>3, FailureSchedulesNothing DEF TimeoutTimer
    <2>4. CASE ObsoleteTimer(t) \/ AwaitTimer(t)
      BY Zenon, <2>4, NothingSettled DEF ObsoleteTimer, AwaitTimer, outside
    <2> QED
      BY Zenon, <2>1, <2>3, <2>4 DEF Retried
  <1>6. CASE ChildResults
    <2>1. ASSUME NEW k, NEW c, NEW u, NEW ok, ChildDone(k, c, u, ok)
          PROVE  NothingScheduled
      <3>1. tasks' = tasks /\ jobs' = jobs /\ exec' = exec /\ num' = num /\ timers' = timers
        BY Zenon, <2>1 DEF ChildDone
      <3> QED
        BY Zenon, <3>1, NothingSettled
    <2> QED
      BY Zenon, <1>6, <2>1 DEF ChildResults
  <1>7. ASSUME NEW j \in jobs, NEW u, Interrupt(j, u)
        PROVE  NothingScheduled
    <2>1. j.key \in Keys /\ tasks' = [tasks EXCEPT ![j.key].status = "interrupted"]
      BY Zenon, <1>0, <1>7 DEF Interrupt, TypeOK, JobType
    <2>2. /\ tasks'[j.key].status = "interrupted" /\ tasks'[j.key].gen = tasks[j.key].gen
          /\ tasks'[j.key].attempt = tasks[j.key].attempt
          /\ \A x \in Keys : x # j.key => tasks'[x] = tasks[x]
      BY ZenonT(30), <1>0, <2>1 DEF TypeOK, TaskType
    <2>3. \A x \in Keys : Rests(x)
      BY <2>2 DEF Rests
    <2> QED
      BY Zenon, <1>7, <2>3 DEF Interrupt, NothingScheduled, outside
  <1>8. ASSUME NEW k \in Keys, Resume(k)
        PROVE  FreshlyScheduled
    <2>1. tasks[k].owner \in Maybe
      BY Zenon, <1>0 DEF TypeOK, TaskType
    <2> QED
      BY Zenon, <1>8, <2>1 DEF Resume, FreshlyScheduled
  <1>9. CASE Requests
    BY Zenon, <1>1, <1>7, <1>8, <1>9, TerminateSchedulesNothing DEF Requests, Cancel, Abort
  <1>10. CASE UNCHANGED vars
    BY Zenon, <1>10, NothingSettled DEF vars, flight, outside
  <1> QED
    BY Zenon, <1>1, <1>2, <1>3, <1>4, <1>5, <1>6, <1>9, <1>10 DEF Next

\* What a schedule adds: a job, and a timer that is no retry.
Added(k, owner, gen, attempt, live, g) ==
    /\ g = (IF gen = 0 THEN num + 1 ELSE gen)
    /\ tasks'[k].status = "scheduled" /\ tasks'[k].gen = g /\ tasks'[k].attempt = attempt /\ tasks'[k].owner = owner
    /\ \A x \in Keys : x # k => tasks'[x] = tasks[x]
    /\ \A j \in jobs' : j \in jobs \/ (j.key = k /\ j.gen = g /\ j.attempt = attempt)
    /\ \A t \in timers' : t \in live \/ t.purpose = "timeout"
    /\ live \subseteq timers'
    /\ num' \in Nat /\ num' >= num /\ (gen = 0 => num' >= g)

LEMMA ScheduleAdds ==
    ASSUME TypeOK, NEW k \in Keys, NEW owner, NEW gen \in Nat, NEW attempt \in Nat, NEW live \in SUBSET timers,
           Schedule(k, owner, gen, attempt, live)
    PROVE  \E g \in Nat : Added(k, owner, gen, attempt, live, g)
  <1> DEFINE g == IF gen = 0 THEN num + 1 ELSE gen
             task == [status |-> "scheduled", owner |-> owner, gen |-> g, attempt |-> attempt]
             job == [key |-> k, gen |-> g, attempt |-> attempt]
  <1>1. tasks' = [tasks EXCEPT ![k] = task] /\ jobs' = jobs \cup {job}
    BY Zenon DEF Schedule
  <1>2. g \in Nat /\ num \in Nat
    BY DEF TypeOK
  <1>3. \/ num' = (IF gen = 0 THEN num + 1 ELSE num)
        \/ num' = (IF gen = 0 THEN num + 1 ELSE num) + 1
    BY Zenon DEF Schedule
  <1>4. (\A t \in timers' : t \in live \/ t.purpose = "timeout") /\ live \subseteq timers'
    <2> DEFINE m == IF gen = 0 THEN num + 1 ELSE num
               timeout == [id |-> m + 1, purpose |-> "timeout", key |-> k, gen |-> g, attempt |-> attempt]
    <2>1. timers' = live \cup {timeout} \/ timers' = live
      BY Zenon DEF Schedule
    <2>2. timeout.purpose = "timeout"
      BY Zenon
    <2> HIDE DEF timeout
    <2> QED
      BY Zenon, <2>1, <2>2
  <1>5. num' \in Nat /\ num' >= num /\ (gen = 0 => num' >= g)
    BY <1>2, <1>3
  <1>6. task.status = "scheduled" /\ task.gen = g /\ task.attempt = attempt /\ task.owner = owner
    BY Zenon
  <1>7. job.key = k /\ job.gen = g /\ job.attempt = attempt
    BY Zenon
  <1> HIDE DEF task, job
  <1>8. tasks'[k] = task /\ \A x \in Keys : x # k => tasks'[x] = tasks[x]
    BY Zenon, <1>1 DEF TypeOK
  <1> QED
    BY Zenon, <1>1, <1>2, <1>4, <1>5, <1>6, <1>7, <1>8 DEF Added

LEMMA RetryFacts ==
    ASSUME TypeOK, NEW t \in timers, RetryTimer(t)
    PROVE  /\ t.key \in Keys /\ t.gen \in Nat /\ t.attempt \in Nat /\ tasks[t.key].owner \in Maybe
           /\ t.purpose = "retry" /\ tasks[t.key].status = "retrying"
           /\ tasks[t.key].gen = t.gen /\ t.attempt = tasks[t.key].attempt + 1
           /\ Schedule(t.key, tasks[t.key].owner, t.gen, t.attempt, timers \ {t})
           /\ exec' = exec /\ Ready /\ timers \ {t} \in SUBSET timers
  <1>1. t \in TimerType /\ t.key \in Keys /\ t.gen \in Nat /\ t.attempt \in Nat
    BY Zenon DEF TypeOK, TimerType
  <1>2. tasks[t.key].owner \in Maybe /\ tasks[t.key].attempt \in Nat
    BY Zenon, <1>1 DEF TypeOK, TaskType
  <1>3. t.purpose = "retry" /\ ~Obsolete(t)
    BY Zenon DEF RetryTimer
  <1>4. tasks[t.key].gen = t.gen /\ tasks[t.key].status = "retrying" /\ tasks[t.key].attempt = t.attempt - 1
    BY Zenon, <1>3 DEF Obsolete
  <1>5. t.attempt = tasks[t.key].attempt + 1
    BY <1>1, <1>2, <1>4
  <1> QED
    BY Zenon, <1>1, <1>2, <1>3, <1>4, <1>5 DEF RetryTimer

LEMMA ZeroAndOne == 0 \in Nat /\ 1 \in Nat /\ ~(0 # 0)
  OBVIOUS

AttemptsInv == AttemptsBounded /\ \A t \in timers : Bounded(t)

LEMMA AttemptsStep == TypeInv /\ AttemptsInv /\ [Next]_vars => AttemptsInv'
  <1> SUFFICES ASSUME TypeInv, AttemptsInv, [Next]_vars PROVE AttemptsInv'
    BY Zenon
  <1>0. TypeOK /\ timers \in SUBSET timers
    BY Zenon DEF TypeInv
  <1>1. \A n \in Nodes : MaxAttempts(n) \in Nat /\ 1 <= MaxAttempts(n)
    BY FlowFields DEF MaxAttempts
  <1>2. CASE NothingScheduled
    BY Zenon, <1>2 DEF NothingScheduled, AttemptsInv, AttemptsBounded, Bounded
  <1>3. CASE Fork
    BY Zenon, <1>3 DEF Fork, AttemptsInv, AttemptsBounded, Bounded
  <1>4. ASSUME NEW k \in Keys, NEW owner, NEW gen \in Nat, NEW attempt \in Nat, NEW live \in SUBSET timers,
               Schedule(k, owner, gen, attempt, live), attempt <= MaxAttempts(NodeOf(k))
        PROVE  AttemptsInv'
    <2>0. PICK g \in Nat : Added(k, owner, gen, attempt, live, g)
      BY Zenon, <1>0, <1>4, ScheduleAdds
    <2>1. /\ \A j \in jobs' : j \in jobs \/ (j.key = k /\ j.gen = g /\ j.attempt = attempt)
          /\ \A t \in timers' : t \in live \/ t.purpose = "timeout"
      BY Zenon, <2>0 DEF Added
    <2>2. AttemptsBounded'
      BY Zenon, <1>4, <2>1 DEF AttemptsInv, AttemptsBounded
    <2>3. \A t \in timers' : Bounded(t)
      BY <2>1 DEF AttemptsInv, Bounded
    <2>4. (\A t \in timers : Bounded(t))'
      BY Zenon, <2>3 DEF Bounded
    <2> QED
      BY Zenon, <2>2, <2>4 DEF AttemptsInv
  <1>5. CASE FreshlyScheduled
    BY Zenon, <1>0, <1>1, <1>4, <1>5, KeyFacts, ZeroAndOne DEF FreshlyScheduled
  <1>6. CASE Retried
    <2>1. PICK t \in timers : RetryTimer(t)
      BY Zenon, <1>6 DEF Retried
    <2>2. t.attempt <= MaxAttempts(NodeOf(t.key))
      BY Zenon, <1>0, <2>1, RetryFacts DEF AttemptsInv, Bounded
    <2> QED
      BY Zenon, <1>0, <1>4, <2>1, <2>2, RetryFacts
  <1> QED
    BY Zenon, <1>2, <1>3, <1>5, <1>6, WorkStep

\* No attempt is started past the node's retry budget, in any generation and
\* whatever the order of failures, timeouts, retries and forks (taskFailed).
THEOREM AttemptsAreBounded == Spec => []AttemptsBounded
  <1>1. Init => AttemptsInv
    BY Zenon DEF Init, AttemptsInv, AttemptsBounded, Bounded
  <1>2. AttemptsInv => AttemptsBounded
    BY Zenon DEF AttemptsInv
  <1> QED
    BY <1>1, <1>2, TypeInit, TypeStep, AttemptsStep, PTL DEF Spec

\* The jobs published so far are of generations allocated so far, and of the
\* generation an instance is in, no attempt is past its own.
Generations ==
    /\ \A j \in jobs : j.gen \in Nat /\ 1 <= j.gen /\ j.gen <= num
                       /\ (j.gen = tasks[j.key].gen => j.attempt <= tasks[j.key].attempt)
    /\ \A k \in Keys : tasks[k].gen <= num

\* A step schedules at most one instance, as an attempt nobody was given yet.
Fresh ==
    \A k \in Keys : tasks'[k].status = "scheduled" /\ tasks'[k] # tasks[k] =>
          [key |-> k, gen |-> tasks'[k].gen, attempt |-> tasks'[k].attempt] \notin jobs \/ exec' # exec

LEMMA GenerationsStep == TypeInv /\ Generations /\ [Next]_vars => Generations' /\ Fresh
  <1> SUFFICES ASSUME TypeInv, Generations, [Next]_vars PROVE Generations' /\ Fresh
    BY Zenon
  <1>0. TypeOK /\ timers \in SUBSET timers /\ num \in Nat
    BY Zenon DEF TypeInv, TypeOK
  <1>1. /\ \A j \in jobs : j.key \in Keys /\ j.attempt \in Nat /\ j.gen \in Nat
        /\ \A k \in Keys : tasks[k].gen \in Nat /\ tasks[k].attempt \in Nat
    BY Zenon, <1>0 DEF TypeOK, JobType, TaskType
  <1>2. CASE NothingScheduled
    <2>1. \A k \in Keys : tasks'[k] = tasks[k] \/ tasks'[k].status # "scheduled"
      BY Zenon, <1>2 DEF NothingScheduled, Rests
    <2>2. \A k \in Keys : \/ tasks'[k].gen = 0
                          \/ tasks'[k].gen = tasks[k].gen /\ tasks'[k].attempt = tasks[k].attempt
      BY Zenon, <1>2 DEF NothingScheduled, Rests
    <2>3. num' \in {num, num + 1} /\ jobs' = jobs
      BY Zenon, <1>2 DEF NothingScheduled
    <2>4. Generations'
      BY <1>0, <1>1, <2>2, <2>3 DEF Generations
    <2> QED
      BY Zenon, <2>1, <2>4 DEF Fresh
  <1>3. CASE Fork
    BY <1>3 DEF Fork, Generations, Fresh
  <1>4. ASSUME NEW k \in Keys, NEW owner, NEW gen \in Nat, NEW attempt \in Nat, NEW live \in SUBSET timers,
               Schedule(k, owner, gen, attempt, live),
               gen # 0 => gen = tasks[k].gen /\ attempt = tasks[k].attempt + 1
        PROVE  Generations' /\ Fresh
    <2>0. PICK g \in Nat : Added(k, owner, gen, attempt, live, g)
      BY Zenon, <1>0, <1>4, ScheduleAdds
    <2>1. /\ g = (IF gen = 0 THEN num + 1 ELSE gen)
          /\ tasks'[k].gen = g /\ tasks'[k].attempt = attempt
          /\ \A x \in Keys : x # k => tasks'[x] = tasks[x]
          /\ \A j \in jobs' : j \in jobs \/ (j.key = k /\ j.gen = g /\ j.attempt = attempt)
          /\ num' \in Nat /\ num' >= num /\ (gen = 0 => num' >= g)
      BY Zenon, <2>0 DEF Added
    <2>2. g >= 1 /\ g <= num'
      BY <1>0, <1>1, <1>4, <2>1 DEF Generations
    <2>3. \A j \in jobs : j.key = k /\ j.gen = g => j.attempt < attempt
      BY <1>0, <1>1, <1>4, <2>1 DEF Generations
    <2>4. Fresh
      <3> SUFFICES ASSUME [key |-> k, gen |-> tasks'[k].gen, attempt |-> tasks'[k].attempt] \in jobs PROVE FALSE
        BY Zenon, <2>1 DEF Fresh
      <3> DEFINE j == [key |-> k, gen |-> tasks'[k].gen, attempt |-> tasks'[k].attempt]
      <3>1. j.key = k /\ j.gen = g /\ j.attempt = attempt
        BY Zenon, <2>1
      <3>2. j \in jobs
        BY Zenon
      <3> HIDE DEF j
      <3> QED
        BY <2>3, <3>1, <3>2
    <2>5. \A x \in Keys : tasks'[x].gen <= num'
      BY <1>0, <1>1, <2>1, <2>2 DEF Generations
    <2>6. ASSUME NEW j \in jobs'
          PROVE  j.gen \in Nat /\ 1 <= j.gen /\ j.gen <= num' /\ (j.gen = tasks'[j.key].gen => j.attempt <= tasks'[j.key].attempt)
      <3>1. CASE j \in jobs
        BY <1>0, <1>1, <1>4, <2>1, <2>3, <3>1 DEF Generations
      <3>2. CASE j.key = k /\ j.gen = g /\ j.attempt = attempt
        BY <2>1, <2>2, <3>2
      <3> QED
        BY Zenon, <2>1, <3>1, <3>2
    <2> QED
      BY Zenon, <2>4, <2>5, <2>6 DEF Generations
  <1>5. CASE FreshlyScheduled
    BY Zenon, <1>0, <1>4, <1>5, ZeroAndOne DEF FreshlyScheduled
  <1>6. CASE Retried
    <2>1. PICK t \in timers : RetryTimer(t)
      BY Zenon, <1>6 DEF Retried
    <2> QED
      BY Zenon, <1>0, <1>4, <2>1, RetryFacts
  <1> QED
    BY Zenon, <1>2, <1>3, <1>5, <1>6, WorkStep

\* No job id is published twice by an execution, whatever the retries, resumes,
\* loops and re-dispatches: the deduplication of jobs and the staleness check of
\* results (current) may rely on it.
THEOREM JobsAreFresh == Spec => FreshJobs
  <1>1. Init => Generations
    <2> SUFFICES ASSUME Init PROVE \A k \in Keys : tasks[k].gen <= num
      BY Zenon DEF Generations, Init
    <2>1. NoTask.gen = 0
      BY Zenon DEF NoTask
    <2>2. num = 0 /\ \A k \in Keys : tasks[k] = NoTask
      BY Zenon DEF Init
    <2> QED
      BY <2>1, <2>2
  <1>2. TypeInv /\ Generations /\ [Next]_vars => Generations' /\ [Fresh]_vars
    BY Zenon, GenerationsStep
  <1>3. FreshJobs <=> [][Fresh]_vars
    BY Zenon DEF FreshJobs, Fresh
  <1> QED
    BY <1>1, <1>2, <1>3, TypeInit, TypeStep, PTL DEF Spec

----------------------------------------------------------------------------
\* One thread of control.

LInv == TypeInv /\ OneLocus /\ RekickOK /\ Window

\* The facts of counting that the lemmas below need, about the items of a map
\* and about nodes.  FoldFamilyProofs shows that they hold.
Counting ==
    /\ \A S \in SUBSET (1 .. MaxItems) :
          /\ IsFiniteSet(S) /\ Cardinality(S) \in Nat /\ (Cardinality(S) = 0 => S = {})
          /\ \A x : x \notin S => Cardinality(S \cup {x}) = Cardinality(S) + 1
          /\ \A x \in S : Cardinality(S \ {x}) = Cardinality(S) - 1
          /\ \A T \in SUBSET S : Cardinality(T) <= Cardinality(S)
    /\ \A S \in SUBSET Nodes : Cardinality(S) \in Nat /\ (Cardinality(S) = 0 <=> S = {})
    /\ Cardinality({}) = 0

Empty ==
    /\ fans = {}
    /\ \A m \in Nodes : ~maps[m].open /\ awaits[m] = 0
    /\ \A k \in Keys : ~Active(k) /\ ~Running(k)

LEMMA NothingIsEmpty == \A n : At("nothing", n) <=> Empty
  BY Zenon DEF At, Empty, Owned

LEMMA ToNothing ==
    ASSUME Empty', status' = "open", todo'.op \in {"enter", "complete", "fail"},
           todo'.op = "enter" => todo'.node \in Entry
    PROVE  OneLocus'
  <1>1. At("nothing", Flow.start)'
    BY Zenon DEF At, Empty, Owned
  <1>2. TodoFits("nothing", Flow.start)'
    BY Zenon DEF TodoFits
  <1> QED
    BY Zenon, <1>1, <1>2, FlowFields DEF OneLocus, Kinds

LEMMA ToKind ==
    ASSUME NEW kind \in Kinds, NEW n \in Nodes, status' = "open", At(kind, n)', TodoFits(kind, n)'
    PROVE  OneLocus'
  BY Zenon DEF OneLocus

\* A decision is under way only in an execution that is open.
LEMMA BusyIsOpen ==
    ASSUME OneLocus, todo # Done \/ rekick # NoRekick
    PROVE  status = "open"
  BY Zenon DEF OneLocus, Idle

----------------------------------------------------------------------------
\* Routes lead to nodes that are neither branches nor joins.

LEMMA RouteEntry ==
    ASSUME NEW n \in Nodes, n \notin Fanouts, NEW r \in Routes(n)
    PROVE  r \in Entry
  BY Zenon, FlowAssumption DEF ValidFlow, NoBranchEntry, Entry, Routes

LEMMA StartEntry == Flow.start \in Entry
  BY Zenon, FlowFields, FlowAssumption DEF ValidFlow, Entry

LEMMA AdvanceEntry ==
    ASSUME NEW n \in Nodes, n \notin Fanouts, NEW dyn \in Flow.dynamic[n] \cup {None}
    PROVE  /\ Advance(n, dyn).op \in {"enter", "complete"}
           /\ Advance(n, dyn).op = "enter" => Advance(n, dyn).node \in Entry
  <1> DEFINE to == IF dyn # None THEN dyn ELSE Next_(n)
  <1>1. to # None => to \in Routes(n)
    BY Zenon, FlowFields, NodesAssumption DEF Routes, Next_, Maybe
  <1>2. to # None => to \in Entry
    BY Zenon, <1>1, RouteEntry
  <1>3. Advance(n, dyn) = IF to = None THEN Call("complete", None) ELSE Call("enter", to)
    BY Zenon DEF Advance
  <1> HIDE DEF to
  <1> QED
    BY <1>2, <1>3 DEF Call

LEMMA OnFailureEntry ==
    ASSUME NEW n \in Nodes, n \notin Fanouts
    PROVE  /\ OnFailure(n) # None => OnFailure(n) \in Entry
           /\ OnFailureOf(n).op \in {"enter", "fail"}
           /\ OnFailureOf(n).op = "enter" => OnFailureOf(n).node \in Entry
  <1>1. OnFailure(n) # None => OnFailure(n) \in Routes(n)
    BY Zenon, FlowFields DEF Routes, OnFailure, Maybe
  <1>2. OnFailure(n) # None => OnFailure(n) \in Entry
    BY Zenon, <1>1, RouteEntry
  <1> QED
    BY Zenon, <1>2 DEF OnFailureOf, FailCall, Call

LEMMA KindTypes ==
    ASSUME NEW n \in Nodes
    PROVE  /\ KindOf(n) = "task" <=> Type(n) = "task"
           /\ KindOf(n) = "child" <=> Type(n) = "subflow"
           /\ KindOf(n) = "await" <=> Type(n) = "await"
           /\ KindOf(n) = "fan" <=> n \in Fanouts
           /\ KindOf(n) = "map" <=> Type(n) = "map"
  BY Zenon, FlowFields DEF KindOf, Types, Type, Fanouts

----------------------------------------------------------------------------
\* OneLocus, action by action.

LEMMA LocusTerminate ==
    ASSUME NEW s \in Terminal, Terminate(s)
    PROVE  OneLocus' /\ RekickOK' /\ Window'
  <1>1. Empty'
    BY Zenon DEF Terminate, Empty, Active, NoTask, Running, NoMap
  <1>2. At("nothing", Flow.start)'
    BY Zenon, <1>1 DEF At, Empty, Owned
  <1>3. Idle' /\ rekick'.left = {}
    BY Zenon DEF Terminate, Idle, NoRekick
  <1>4. status' # "open"
    BY Zenon DEF Terminate, Terminal
  <1> QED
    BY Zenon, <1>1, <1>2, <1>3, <1>4 DEF OneLocus, RekickOK, Window, Empty

\* Nothing in flight moves.
Still == UNCHANGED <<tasks, fans, maps, awaits, children>>

LEMMA StillAt ==
    ASSUME NEW kind, NEW n, At(kind, n), Still
    PROVE  At(kind, n)'
  BY Zenon DEF At, Still, Owned, Active, Running

LEMMA StillEmpty == Empty /\ Still => Empty'
  BY Zenon DEF Empty, Still, Active, Running

\* A decision that is about to enter a node or to complete has nothing in flight.
LEMMA EnterIsEmpty ==
    ASSUME OneLocus, TypeInv, todo.op \in {"enter", "complete"}
    PROVE  Empty /\ status = "open" /\ (todo.op = "enter" => todo.node \in Entry)
  <1>1. todo # Done
    BY DEF Done, Call
  <1>2. status = "open"
    BY Zenon, <1>1, BusyIsOpen
  <1>3. PICK kind \in Kinds, n \in Nodes : At(kind, n) /\ TodoFits(kind, n)
    BY Zenon, <1>2 DEF OneLocus
  <1>4. kind = "nothing"
    BY Zenon, <1>3 DEF TodoFits
  <1> QED
    BY Zenon, <1>2, <1>3, <1>4, NothingIsEmpty DEF TodoFits

LEMMA LocusEnds ==
    ASSUME TypeInv, OneLocus, Fail \/ CompleteExecution \/ EnterTooDeep \/ Cancel \/ Abort
    PROVE  OneLocus'
  <1>1. CASE Fail \/ Cancel \/ Abort
    BY Zenon, <1>1, LocusTerminate DEF Fail, Cancel, Abort, Terminal
  <1>2. CASE CompleteExecution
    <2>1. CASE Terminate("completed")
      BY Zenon, <2>1, LocusTerminate DEF Terminal
    <2>2. CASE todo' = FailCall /\ UNCHANGED <<status, flight, num, steps, counters, memory, rekick, inherited, exec, outside>>
      <3>1. Empty /\ status = "open" /\ Still
        BY Zenon, <1>2, <2>2, EnterIsEmpty DEF CompleteExecution, Still, flight
      <3> QED
        BY Zenon, <2>2, <3>1, StillEmpty, ToNothing, SomeCalls
    <2> QED
      BY Zenon, <1>2, <2>1, <2>2 DEF CompleteExecution
  <1>3. CASE EnterTooDeep
    <2>1. Empty /\ status = "open" /\ Still
      BY Zenon, <1>3, EnterIsEmpty DEF EnterTooDeep, Still, flight
    <2> QED
      BY Zenon, <1>3, <2>1, StillEmpty, ToNothing, SomeCalls DEF EnterTooDeep
  <1> QED
    BY Zenon, <1>1, <1>2, <1>3

\* schedule in an execution with nothing open of the owner's map.
LEMMA ScheduleKeepsMaps ==
    ASSUME TypeOK, NEW k \in Keys, NEW owner \in Maybe, NEW gen, NEW attempt, NEW live,
           Schedule(k, owner, gen, attempt, live),
           owner = NodeOf(k) => ~maps[owner].open \/ k[2] <= maps[owner].next
    PROVE  maps' = maps
  <1>1. owner = NodeOf(k) => owner \in Nodes /\ maps[owner].next \in Nat /\ k[2] \in Nat
    BY KeyFacts, FoldAssumption DEF TypeOK, MapType
  <1> QED
    BY <1>1 DEF Schedule, MapNext

LEMMA LocusEnter ==
    ASSUME TypeInv, OneLocus, NEW n \in Nodes,
           \/ EnterTask(n) \/ EnterChoice(n) \/ EnterFanout(n) \/ EnterAwait(n) \/ EnterMap(n) \/ EnterSubflow(n)
    PROVE  OneLocus'
  <1> USE SomeCalls
  <1>0. Empty /\ status' = "open" /\ n \in Entry /\ TypeOK /\ Plain(n) \in Keys /\ n # None
    <2>1. todo.op = "enter" /\ todo.node = n /\ status' = status
      <3>1. todo = Call("enter", n) /\ status' = status
        BY Zenon DEF EnterTask, EnterChoice, EnterFanout, EnterAwait, EnterMap, EnterSubflow, Enter
      <3> QED
        BY Zenon, <3>1 DEF Call
    <2> QED
      BY Zenon, <2>1, EnterIsEmpty, KeyFacts, NodesAssumption DEF TypeInv
  <1>1. CASE EnterTask(n)
    <2>1. Schedule(Plain(n), None, 0, 1, timers) /\ Type(n) = "task" /\ todo' = Done /\ UNCHANGED <<fans, awaits, children>>
      BY Zenon, <1>1 DEF EnterTask, Enter
    <2>2. maps' = maps
      BY SMTT(150), <1>0, <2>1, KeyFacts, ScheduleKeepsMaps DEF Maybe
    <2>3. \A k \in Keys : IF k = Plain(n) THEN tasks'[k].status = "scheduled" /\ tasks'[k].owner = None
                          ELSE tasks'[k] = tasks[k]
      BY Zenon, <1>0, <2>1 DEF Schedule, TypeOK
    <2>4. At("task", n)'
      BY Zenon, <1>0, <2>1, <2>2, <2>3, KindTypes DEF At, Empty, Owned, Active, Running
    <2>5. TodoFits("task", n)'
      BY Zenon, <2>1 DEF TodoFits
    <2> QED
      BY Zenon, <1>0, <2>4, <2>5, ToKind DEF Kinds
  <1>2. CASE EnterChoice(n)
    <2>1. Still /\ Type(n) = "choice"
      BY Zenon, <1>2 DEF EnterChoice, Enter, Still, flight
    <2>2. n \notin Fanouts
      BY Zenon, <2>1 DEF Fanouts
    <2>3. todo'.op \in {"enter", "complete", "fail"} /\ (todo'.op = "enter" => todo'.node \in Entry)
      <3>1. CASE todo' = FailCall
        BY Zenon, <3>1
      <3>2. ASSUME NEW to \in Flow.rules[n], todo' = IF to = End THEN Call("complete", None) ELSE Call("enter", to)
            PROVE  todo'.op \in {"enter", "complete", "fail"} /\ (todo'.op = "enter" => todo'.node \in Entry)
        <4>1. to # End => to \in Routes(n)
          BY Zenon, FlowFields DEF Routes
        <4> QED
          BY Zenon, <3>2, <4>1, <2>2, RouteEntry DEF Call
      <3> QED
        BY Zenon, <1>2, <3>1, <3>2 DEF EnterChoice
    <2> QED
      BY Zenon, <1>0, <2>1, <2>3, StillEmpty, ToNothing
  <1>3. CASE EnterFanout(n)
    <2>1. /\ Type(n) = "fanout" /\ fans' = {n} /\ UNCHANGED <<tasks, maps, awaits, children>>
          /\ todo' = [op |-> "branch", node |-> n, i |-> 1]
      BY Zenon, <1>0, <1>3 DEF EnterFanout, Enter, Empty
    <2>2. At("fan", n)'
      BY Zenon, <1>0, <2>1, KindTypes DEF At, Empty, Owned, Active, Running, Fanouts
    <2>3. TodoFits("fan", n)'
      BY Zenon, <2>1 DEF TodoFits
    <2> QED
      BY Zenon, <1>0, <2>2, <2>3, ToKind DEF Kinds
  <1>4. CASE EnterAwait(n)
    <2>1. /\ Type(n) = "await" /\ OpenAwait(n) /\ UNCHANGED <<tasks, fans, maps, children>>
      BY Zenon, <1>4 DEF EnterAwait, Enter
    <2>2. todo' = Call("consume", n)
      BY Zenon, <2>1 DEF OpenAwait
    <2>3. \A m \in Nodes : awaits'[m] # 0 <=> m = n
      BY <1>0, <2>1 DEF OpenAwait, TypeOK, Empty
    <2>4. At("await", n)'
      BY Zenon, <1>0, <2>1, <2>3, KindTypes DEF At, Empty, Owned, Active, Running
    <2>5. TodoFits("await", n)'
      BY Zenon, <2>2 DEF TodoFits, Call
    <2> QED
      BY Zenon, <1>0, <2>4, <2>5, ToKind DEF Kinds
  <1>5. CASE EnterMap(n)
    <2>1. Type(n) = "map" /\ UNCHANGED <<tasks, fans, awaits, children>>
      BY Zenon, <1>5 DEF EnterMap, Enter
    <2>2. CASE todo' = FailCall /\ UNCHANGED maps
      BY Zenon, <1>0, <2>1, <2>2, StillEmpty, ToNothing DEF Still
    <2>3. ASSUME NEW len \in 0 .. MaxItems,
                 maps' = [maps EXCEPT ![n] = [open |-> TRUE, len |-> len, next |-> 0, done |-> 0]],
                 todo' = Call("mapProgress", n)
          PROVE  OneLocus'
      <3>1. \A m \in Nodes : maps'[m].open <=> m = n
        BY Zenon, <1>0, <2>3 DEF TypeOK, Empty
      <3>2. At("map", n)'
        BY Zenon, <1>0, <2>1, <3>1, KindTypes DEF At, Empty, Owned, Active, Running
      <3>3. TodoFits("map", n)'
        BY Zenon, <2>3 DEF TodoFits, Call
      <3> QED
        BY Zenon, <1>0, <3>2, <3>3, ToKind DEF Kinds
    <2> QED
      BY Zenon, <1>5, <2>2, <2>3 DEF EnterMap
  <1>6. CASE EnterSubflow(n)
    <2>1. Type(n) = "subflow" /\ UNCHANGED <<tasks, fans, awaits>>
      BY Zenon, <1>6 DEF EnterSubflow, Enter
    <2>2. CASE todo' = FailCall /\ UNCHANGED <<children, maps>>
      BY Zenon, <1>0, <2>1, <2>2, StillEmpty, ToNothing DEF Still
    <2>3. CASE StartChild(Plain(n), None) /\ todo' = Done
      <3>1. maps' = maps
        BY Zenon, <1>0, <2>3, KeyFacts DEF StartChild, MapNext
      <3>2. \A k \in Keys : IF k = Plain(n) THEN children'[k] # NoChild /\ children'[k].owner = None
                            ELSE children'[k] = children[k]
        BY <1>0, <2>3 DEF StartChild, TypeOK, NoChild
      <3>3. At("child", n)'
        BY Zenon, <1>0, <2>1, <3>1, <3>2, KindTypes DEF At, Empty, Owned, Active, Running
      <3>4. TodoFits("child", n)'
        BY Zenon, <2>3 DEF TodoFits
      <3> QED
        BY Zenon, <1>0, <3>3, <3>4, ToKind DEF Kinds
    <2> QED
      BY Zenon, <1>6, <2>2, <2>3 DEF EnterSubflow
  <1> QED
    BY Zenon, <1>1, <1>2, <1>3, <1>4, <1>5, <1>6

----------------------------------------------------------------------------
\* What moves keeps to the one thing that is open.

LEMMA TheLocus ==
    ASSUME OneLocus, status = "open"
    PROVE  \E kind \in Kinds, n \in Nodes : At(kind, n) /\ TodoFits(kind, n)
  BY Zenon DEF OneLocus

\* The effect of schedule and startChild on the instances.
LEMMA Scheduled ==
    ASSUME TypeOK, NEW k \in Keys, NEW owner, NEW gen, NEW attempt, NEW live, Schedule(k, owner, gen, attempt, live)
    PROVE  /\ tasks'[k].status = "scheduled" /\ tasks'[k].owner = owner
           /\ \A x \in Keys : x # k => tasks'[x] = tasks[x]
  BY Zenon DEF Schedule, TypeOK

LEMMA ChildStarted ==
    ASSUME TypeOK, NEW k \in Keys, NEW owner, StartChild(k, owner)
    PROVE  /\ children'[k] # NoChild /\ children'[k].owner = owner
           /\ \A x \in Keys : x # k => children'[x] = children[x]
  <1>1. children \in [Keys -> ChildType] /\ num \in Nat
    BY Zenon DEF TypeOK
  <1>2. /\ children'[k] = [exec |-> exec, nr |-> num + 1, owner |-> owner]
        /\ \A x \in Keys : x # k => children'[x] = children[x]
    BY Zenon, <1>1 DEF StartChild
  <1>3. num + 1 # 0
    BY <1>1
  <1>4. children'[k].nr # NoChild.nr /\ children'[k].owner = owner
    <2> DEFINE c == [exec |-> exec, nr |-> num + 1, owner |-> owner]
    <2>0. c.nr = num + 1 /\ c.owner = owner /\ children'[k] = c
      BY Zenon, <1>2
    <2> HIDE DEF c
    <2>1. children'[k].nr = num + 1 /\ children'[k].owner = owner
      BY Zenon, <2>0
    <2>2. NoChild.nr = 0
      BY DEF NoChild
    <2> QED
      BY Zenon, <1>3, <2>1, <2>2
  <1> QED
    BY Zenon, <1>2, <1>4

LEMMA StartChildKeepsMaps ==
    ASSUME TypeOK, NEW k \in Keys, NEW owner \in Maybe, StartChild(k, owner),
           owner = NodeOf(k) => ~maps[owner].open \/ k[2] <= maps[owner].next
    PROVE  maps' = maps
  <1>1. owner = NodeOf(k) => owner \in Nodes /\ maps[owner].next \in Nat /\ k[2] \in Nat
    BY KeyFacts, FoldAssumption DEF TypeOK, MapType
  <1> QED
    BY <1>1 DEF StartChild, MapNext

\* Instances of a fan-out or a map may go.
LEMMA ShrinkAt ==
    ASSUME TypeOK, NEW kind \in {"fan", "map"}, NEW n \in Nodes, At(kind, n),
           UNCHANGED <<fans, awaits>>,
           \A m \in Nodes : maps'[m].open = maps[m].open /\ maps'[m].next = maps[m].next,
           \A k \in Keys : Active(k)' => Active(k) /\ tasks'[k].owner = tasks[k].owner,
           \A k \in Keys : Running(k)' => Running(k) /\ children'[k].owner = children[k].owner
    PROVE  At(kind, n)'
  <1>1. \A k, o : Owned(k, o, kind, n) => Owned(k, o, kind, n)'
    BY Zenon DEF Owned
  <1>2. /\ (fans = IF kind = "fan" THEN {n} ELSE {})'
        /\ \A m \in Nodes : maps'[m].open <=> kind = "map" /\ m = n
        /\ \A m \in Nodes : awaits'[m] # 0 <=> kind = "await" /\ m = n
    BY Zenon DEF At
  <1>3. ASSUME NEW k \in Keys, Active(k)'
        PROVE  Owned(k, tasks[k].owner, kind, n)' /\ (kind = "map" => n \notin Flow.subflow)
    <2>1. Active(k) /\ tasks'[k].owner = tasks[k].owner
      BY Zenon, <1>3
    <2>2. Owned(k, tasks[k].owner, kind, n) /\ (kind = "map" => n \notin Flow.subflow)
      BY Zenon, <2>1 DEF At
    <2>3. Owned(k, tasks[k].owner, kind, n)'
      BY Zenon, <2>1, <2>2 DEF Owned
    <2> QED
      BY Zenon, <2>2, <2>3
  <1>4. ASSUME NEW k \in Keys, Running(k)'
        PROVE  Owned(k, children[k].owner, kind, n)' /\ (kind = "map" => n \in Flow.subflow)
    <2>1. Running(k) /\ children'[k].owner = children[k].owner
      BY Zenon, <1>4
    <2>2. Owned(k, children[k].owner, kind, n) /\ (kind = "map" => n \in Flow.subflow)
      BY Zenon, <2>1 DEF At
    <2>3. Owned(k, children[k].owner, kind, n)'
      BY Zenon, <2>1, <2>2 DEF Owned
    <2> QED
      BY Zenon, <2>2, <2>3
  <1>5. kind = KindOf(n)
    BY Zenon DEF At
  <1> QED
    BY Zenon, <1>2, <1>3, <1>4, <1>5 DEF At

\* An instance in flight starts again.
LEMMA RescheduleAt ==
    ASSUME TypeOK, NEW kind \in Kinds, NEW n \in Nodes, At(kind, n), NEW k \in Keys, Active(k), NEW gen, NEW attempt, NEW live,
           Schedule(k, tasks[k].owner, gen, attempt, live), UNCHANGED <<fans, awaits, children>>
    PROVE  At(kind, n)' /\ maps' = maps
  <1>1. Owned(k, tasks[k].owner, kind, n) /\ kind # "child" /\ (kind = "map" => n \notin Flow.subflow)
    BY Zenon DEF At
  <1>2. tasks[k].owner \in Maybe
    BY Zenon DEF TypeOK, TaskType
  <1>3. tasks[k].owner = NodeOf(k) => ~maps[NodeOf(k)].open \/ k[2] <= maps[NodeOf(k)].next
    <2>1. \A m \in Nodes : maps[m].open <=> kind = "map" /\ m = n
      BY Zenon DEF At
    <2>2. NodeOf(k) \in Nodes /\ NodeOf(k) # None /\ maps[NodeOf(k)].next \in Nat
      BY Zenon, KeyFacts, NodesAssumption DEF TypeOK, MapType
    <2> QED
      BY SMTT(40), <1>1, <2>1, <2>2 DEF Owned
  <1>4. maps' = maps
    BY Zenon, <1>2, <1>3, ScheduleKeepsMaps
  <1>5. /\ tasks'[k].status = "scheduled" /\ tasks'[k].owner = tasks[k].owner
        /\ \A x \in Keys : x # k => tasks'[x] = tasks[x]
    BY Zenon, Scheduled
  <1>6. \A x \in Keys : (Active(x)' <=> Active(x)) /\ tasks'[x].owner = tasks[x].owner
    BY Zenon, <1>5 DEF Active
  <1>7. \A x, o : Owned(x, o, kind, n)' <=> Owned(x, o, kind, n)
    BY Zenon, <1>4 DEF Owned
  <1>8. \A x \in Keys : Active(x)' => Owned(x, tasks[x].owner, kind, n)' /\ kind # "child" /\ (kind = "map" => n \notin Flow.subflow)
    BY Zenon, <1>6, <1>4 DEF At, Owned
  <1>9. \A x \in Keys : Running(x)' => Owned(x, children[x].owner, kind, n)' /\ kind # "task" /\ (kind = "map" => n \in Flow.subflow)
    BY Zenon, <1>4 DEF At, Owned, Running
  <1>10. (kind = "task" => Active(Plain(n))') /\ (kind = "child" => Running(Plain(n))')
    BY Zenon, <1>6, KeyFacts DEF At, Running
  <1>11. /\ kind # "nothing" => kind = KindOf(n)
         /\ fans' = IF kind = "fan" THEN {n} ELSE {}
         /\ \A m \in Nodes : maps'[m].open <=> kind = "map" /\ m = n
         /\ \A m \in Nodes : awaits'[m] # 0 <=> kind = "await" /\ m = n
    BY Zenon, <1>4 DEF At
  <1> QED
    BY Zenon, <1>4, <1>8, <1>9, <1>10, <1>11 DEF At

LEMMA LocusStartBranch ==
    ASSUME TypeInv, OneLocus, NEW f \in Nodes, StartBranch(f)
    PROVE  OneLocus'
  <1> DEFINE b == Flow.branches[f][todo.i]
             more == IF todo.i < Len(Flow.branches[f]) THEN [todo EXCEPT !.i = @ + 1] ELSE Done
  <1>1. todo.op = "branch" /\ todo.node = f /\ todo # Done /\ status' = status /\ UNCHANGED <<fans, awaits>>
    BY Zenon, SomeCalls DEF StartBranch
  <1>2. status = "open" /\ status' = "open"
    BY Zenon, <1>1, BusyIsOpen
  <1>3. At("fan", f)
    BY Zenon, <1>1, <1>2, TheLocus DEF TodoFits
  <1>4. f \in Fanouts /\ b \in BranchesOf(f) /\ b \in Nodes /\ b # f
    BY Zenon, <1>1, FanFields DEF TypeInv, TodoOK, BranchesOf, Fanouts
  <1>5. Plain(b) \in Keys /\ NodeOf(Plain(b)) = b /\ f \in Maybe /\ TypeOK
    BY Zenon, <1>4, KeyFacts DEF Maybe, TypeInv
  <1>6. more.op \in {"branch", "idle"} /\ (more.op = "branch" => more.node = f)
    BY Zenon, <1>1, SomeCalls DEF TypeInv, TypeOK, TodoType
  <1>7. ASSUME todo' = more \/ todo' = FailCall
        PROVE  TodoFits("fan", f)'
    BY Zenon, <1>6, <1>7, SomeCalls DEF TodoFits
  <1> HIDE DEF b, more
  <1>8. CASE Schedule(Plain(b), f, 0, 1, timers) /\ todo' = more /\ UNCHANGED children
    <2>1. maps' = maps
      BY Zenon, <1>4, <1>5, <1>8, ScheduleKeepsMaps
    <2>2. \A k \in Keys : Active(k)' => Owned(k, tasks[k].owner, "fan", f)'
      <3>1. tasks'[Plain(b)].owner = f /\ \A x \in Keys : x # Plain(b) => tasks'[x] = tasks[x]
        BY Zenon, <1>5, <1>8, Scheduled
      <3> QED
        BY SMTT(150), <1>3, <1>4, <1>5, <2>1, <3>1 DEF At, Owned, Active
    <2>3. At("fan", f)'
      BY Zenon, <1>1, <1>3, <1>8, <2>1, <2>2 DEF At, Owned, Running
    <2> QED
      BY Zenon, <1>2, <1>7, <1>8, <2>3, ToKind DEF Kinds
  <1>9. CASE StartChild(Plain(b), f) /\ todo' = more /\ UNCHANGED tasks
    <2>1. maps' = maps
      BY Zenon, <1>4, <1>5, <1>9, StartChildKeepsMaps
    <2>2. \A k \in Keys : Running(k)' => Owned(k, children[k].owner, "fan", f)'
      <3>1. children'[Plain(b)].owner = f /\ \A x \in Keys : x # Plain(b) => children'[x] = children[x]
        BY Zenon, <1>5, <1>9, ChildStarted
      <3> QED
        BY Zenon, <1>3, <1>4, <1>5, <2>1, <3>1 DEF At, Owned, Running
    <2>3. At("fan", f)'
      BY Zenon, <1>1, <1>3, <1>9, <2>1, <2>2 DEF At, Owned, Active
    <2> QED
      BY Zenon, <1>2, <1>7, <1>9, <2>3, ToKind DEF Kinds
  <1>10. CASE todo' = FailCall /\ UNCHANGED <<tasks, maps, children>>
    <2>1. At("fan", f)'
      BY Zenon, <1>1, <1>3, <1>10, StillAt DEF Still
    <2> QED
      BY Zenon, <1>2, <1>7, <1>10, <2>1, ToKind DEF Kinds
  <1> QED
    BY Zenon, <1>8, <1>9, <1>10 DEF StartBranch, b, more

LEMMA LocusJoin ==
    ASSUME TypeInv, OneLocus, NEW f \in Nodes, JoinWaits(f) \/ CloseJoin(f)
    PROVE  OneLocus'
  <1>1. todo.op = "evalJoin" /\ todo.node = f /\ todo # Done /\ status' = status
    BY SMTT(150), SomeCalls DEF JoinWaits, CloseJoin, Call
  <1>2. status = "open" /\ status' = "open"
    BY Zenon, <1>1, BusyIsOpen
  <1>3. At("fan", f)
    BY Zenon, <1>1, <1>2, TheLocus DEF TodoFits
  <1>4. CASE JoinWaits(f)
    <2>1. Still /\ todo' = Done
      BY Zenon, <1>4 DEF JoinWaits, Still, flight
    <2>2. At("fan", f)' /\ TodoFits("fan", f)'
      BY Zenon, <1>3, <2>1, StillAt, SomeCalls DEF TodoFits
    <2> QED
      BY Zenon, <1>2, <2>2, ToKind DEF Kinds
  <1>5. CASE CloseJoin(f)
    <2>1. JoinOf(f) \in Nodes /\ JoinOf(f) \notin Fanouts /\ f # None
      BY Zenon, <1>1, FanFields, NodesAssumption DEF TypeInv, TodoOK, Joins, Fanouts
    <2>2. \A k \in Keys : ~Active(k)' /\ ~Running(k)'
      <3>1. \A k \in Keys : tasks'[k] = IF tasks[k].owner = f THEN NoTask ELSE tasks[k]
        BY Zenon, <1>5 DEF CloseJoin, DropTasks
      <3>2. \A k \in Keys : children'[k] = IF children[k].owner = f THEN NoChild ELSE children[k]
        BY Zenon, <1>5 DEF CloseJoin, DropChildren
      <3>3. \A k \in Keys : (Active(k) => tasks[k].owner = f) /\ (Running(k) => children[k].owner = f)
        BY Zenon, <1>3 DEF At, Owned
      <3>4. NoTask.status = "none"
        BY Zenon DEF NoTask
      <3> QED
        BY Zenon, <3>1, <3>2, <3>3, <3>4 DEF Active, Running
    <2>3. Empty'
      BY Zenon, <1>3, <1>5, <2>2 DEF Empty, CloseJoin, At
    <2>4. todo' = Advance(JoinOf(f), None) \/ todo' = OnFailureOf(JoinOf(f))
      BY Zenon, <1>5 DEF CloseJoin
    <2> QED
      BY Zenon, <1>2, <2>1, <2>3, <2>4, ToNothing, AdvanceEntry, OnFailureEntry
  <1> QED
    BY Zenon, <1>4, <1>5

LEMMA LocusConsume ==
    ASSUME TypeInv, OneLocus, NEW n \in Nodes, Consume(n)
    PROVE  OneLocus'
  <1>1. todo.op = "consume" /\ todo.node = n /\ todo # Done /\ status' = status /\ UNCHANGED <<tasks, fans, maps, children>>
    BY SomeCalls DEF Consume, Call
  <1>2. status = "open" /\ status' = "open"
    BY Zenon, <1>1, BusyIsOpen
  <1>3. At("await", n)
    BY Zenon, <1>1, <1>2, TheLocus DEF TodoFits
  <1>4. CASE todo' = Done /\ UNCHANGED awaits
    <2>1. At("await", n)' /\ TodoFits("await", n)'
      BY Zenon, <1>1, <1>3, <1>4, StillAt, SomeCalls DEF TodoFits, Still
    <2> QED
      BY Zenon, <1>2, <2>1, ToKind DEF Kinds
  <1>5. CASE awaits' = [awaits EXCEPT ![n] = 0] /\ todo' = Advance(n, None)
    <2>1. n \notin Fanouts
      BY Zenon, <1>3, KindTypes DEF At
    <2>2. \A m \in Nodes : awaits'[m] = 0
      BY Zenon, <1>3, <1>5 DEF At, TypeInv, TypeOK
    <2>3. Empty'
      BY Zenon, <1>1, <1>3, <2>2 DEF Empty, At, Owned, Active, Running
    <2> QED
      BY Zenon, <1>2, <1>5, <2>1, <2>3, ToNothing, AdvanceEntry
  <1> QED
    BY Zenon, <1>4, <1>5 DEF Consume

----------------------------------------------------------------------------
\* Maps.

LEMMA ItemSet ==
    ASSUME Counting, NEW S \in SUBSET (1 .. MaxItems)
    PROVE  /\ IsFiniteSet(S) /\ Cardinality(S) \in Nat /\ (Cardinality(S) = 0 => S = {})
           /\ \A x : x \notin S => Cardinality(S \cup {x}) = Cardinality(S) + 1
           /\ \A x \in S : Cardinality(S \ {x}) = Cardinality(S) - 1
           /\ \A T \in SUBSET S : Cardinality(T) <= Cardinality(S)
  BY Zenon DEF Counting

LEMMA EmptyCount ==
    ASSUME Counting
    PROVE  Cardinality({}) = 0
  BY Zenon DEF Counting

LEMMA NoMapNoWindow == (\A m \in Nodes : ~maps[m].open) => Window
  BY Zenon DEF Window

LEMMA EmptyWindow == Empty => Window
  BY Zenon DEF Window, Empty

LEMMA MapLimitIsPositive == \A n \in Nodes : MapLimit(n) \in Nat /\ MapLimit(n) > 0
  BY FlowFields DEF MapLimit, DefaultMapParallel

\* A map in progress is the one thing open.
LEMMA MapLocus ==
    ASSUME TypeInv, OneLocus, Window, NEW n \in Nodes, todo.op \in {"mapProgress", "abortMap"}, todo.node = n
    PROVE  /\ status = "open" /\ At("map", n) /\ maps[n].open /\ n \notin Fanouts
           /\ maps[n].next \in Nat /\ maps[n].done \in Nat /\ maps[n].len \in 0 .. MaxItems /\ maps[n].next <= maps[n].len
           /\ todo.op = "mapProgress" => Cardinality(Items(n)) = maps[n].next - maps[n].done
           /\ todo.op = "abortMap" => OnFailure(n) # None
           /\ Cardinality(Items(n)) <= MapLimit(n)
           /\ Items(n) \in SUBSET (1 .. maps[n].next)
  <1>1. todo # Done
    BY Zenon, SomeCalls
  <1>2. status = "open"
    BY Zenon, <1>1, BusyIsOpen
  <1>3. At("map", n) /\ (todo.op = "abortMap" => OnFailure(n) # None)
    BY Zenon, <1>2, TheLocus DEF TodoFits
  <1>4. maps[n].open /\ n \notin Fanouts
    BY Zenon, <1>3, KindTypes DEF At
  <1>5. maps[n].next \in Nat /\ maps[n].done \in Nat /\ maps[n].len \in 0 .. MaxItems
    BY Zenon DEF TypeInv, TypeOK, MapType
  <1>6. Items(n) \in SUBSET (1 .. maps[n].next)
    BY SMTT(40), <1>3, KeyFacts DEF Items, At, Owned
  <1> QED
    BY <1>2, <1>3, <1>4, <1>5, <1>6 DEF Window

LEMMA NoItemsLeft ==
    ASSUME TypeInv, NEW n \in Nodes, At("map", n), Items(n) = {}
    PROVE  \A k \in Keys : ~Active(k) /\ ~Running(k)
  <1> SUFFICES ASSUME NEW k \in Keys, Active(k) \/ Running(k) PROVE FALSE
    BY Zenon
  <1>1. NodeOf(k) = n /\ k[2] \in 1 .. maps[n].next /\ maps[n].next \in Nat
    BY Zenon DEF At, Owned, TypeInv, TypeOK, MapType
  <1>2. k[2] \in 0 .. MaxItems /\ k = <<n, k[2]>>
    BY Zenon, <1>1, KeyFacts
  <1>3. k[2] \in 1 .. MaxItems
    BY SMTT(40), <1>1, <1>2, FoldAssumption
  <1> QED
    BY Zenon, <1>2, <1>3 DEF Items

LEMMA LocusMapEnds ==
    ASSUME Counting, TypeInv, OneLocus, Window, NEW n \in Nodes, MapCompletes(n) \/ AbortMap(n)
    PROVE  OneLocus' /\ Window'
  <1>0. todo.op \in {"mapProgress", "abortMap"} /\ todo.node = n /\ status' = status /\ UNCHANGED <<fans, awaits>>
    <2>1. /\ todo = Call("mapProgress", n) \/ todo = Call("abortMap", n)
          /\ status' = status /\ UNCHANGED <<fans, awaits>>
      BY Zenon DEF MapCompletes, AbortMap
    <2> QED
      BY SMT, <2>1 DEF Call
  <1>1. /\ status' = "open" /\ At("map", n) /\ maps[n].open /\ n \notin Fanouts
        /\ maps[n].next \in Nat /\ maps[n].done \in Nat /\ maps[n].len \in 0 .. MaxItems /\ maps[n].next <= maps[n].len
        /\ todo.op = "mapProgress" => Cardinality(Items(n)) = maps[n].next - maps[n].done
        /\ todo.op = "abortMap" => OnFailure(n) # None
        /\ Items(n) \in SUBSET (1 .. maps[n].next)
    BY Zenon, <1>0, MapLocus
  <1>2. \A m \in Nodes : ~maps'[m].open /\ awaits'[m] = 0
    <2>1. maps' = [maps EXCEPT ![n] = NoMap]
      BY Zenon DEF MapCompletes, AbortMap
    <2> QED
      BY Zenon, <1>0, <1>1, <2>1 DEF At, TypeInv, TypeOK, NoMap
  <1>3. CASE MapCompletes(n)
    <2>1. todo.op = "mapProgress" /\ maps[n].done = maps[n].len /\ UNCHANGED <<tasks, children>> /\ todo' = Advance(n, None)
      BY Zenon, <1>3 DEF MapCompletes, Call
    <2>2. Items(n) = {}
      <3>1. Cardinality(Items(n)) <= 0
        BY <1>1, <2>1
      <3>2. Items(n) \in SUBSET (1 .. MaxItems)
        BY Zenon DEF Items
      <3> QED
        BY <3>1, <3>2, ItemSet
    <2>3. Empty'
      BY Zenon, <1>0, <1>1, <1>2, <2>1, <2>2, NoItemsLeft DEF Empty, At, Active, Running
    <2> QED
      BY Zenon, <1>1, <1>2, <2>1, <2>3, ToNothing, AdvanceEntry DEF Window
  <1>4. CASE AbortMap(n)
    <2>1. \A k \in Keys : ~Active(k)' /\ ~Running(k)'
      <3>1. \A k \in Keys : tasks'[k] = IF tasks[k].owner = n THEN NoTask ELSE tasks[k]
        BY Zenon, <1>4 DEF AbortMap, DropTasks
      <3>2. \A k \in Keys : children'[k] = IF children[k].owner = n THEN NoChild ELSE children[k]
        BY Zenon, <1>4 DEF AbortMap, DropChildren
      <3>3. \A k \in Keys : (Active(k) => tasks[k].owner = n) /\ (Running(k) => children[k].owner = n)
        BY Zenon, <1>1 DEF At, Owned
      <3>4. NoTask.status = "none"
        BY Zenon DEF NoTask
      <3> QED
        BY <3>1, <3>2, <3>3, <3>4 DEF Active, Running
    <2>2. Empty'
      BY Zenon, <1>0, <1>1, <1>2, <2>1 DEF Empty, At
    <2>3. todo' = Call("enter", OnFailure(n)) /\ OnFailure(n) \in Entry
      <3>1. todo.op = "abortMap"
        BY Zenon, <1>4 DEF AbortMap, Call
      <3> QED
        BY <1>1, <1>4, <3>1, OnFailureEntry DEF AbortMap
    <2> QED
      BY <1>1, <1>2, <2>2, <2>3, ToNothing DEF Window, Call
  <1> QED
    BY Zenon, <1>3, <1>4

LEMMA LocusMapGoesOn ==
    ASSUME Counting, TypeInv, OneLocus, Window, NEW n \in Nodes, MapStartsItem(n) \/ MapWaits(n)
    PROVE  OneLocus' /\ Window'
  <1>i. PICK i \in Nat : i = maps[n].next + 1
    BY DEF TypeInv, TypeOK, MapType
  <1> DEFINE k == <<n, i>>
  <1>0. todo.op = "mapProgress" /\ todo.node = n /\ status' = status /\ UNCHANGED <<fans, awaits>> /\ maps[n].done # maps[n].len
    BY SMTT(150) DEF MapStartsItem, MapWaits, Call, flight
  <1>1. /\ status' = "open" /\ At("map", n) /\ maps[n].open
        /\ maps[n].next \in Nat /\ maps[n].done \in Nat /\ maps[n].len \in 0 .. MaxItems /\ maps[n].next <= maps[n].len
        /\ Cardinality(Items(n)) = maps[n].next - maps[n].done
        /\ Cardinality(Items(n)) <= MapLimit(n)
        /\ Items(n) \in SUBSET (1 .. maps[n].next)
    BY Zenon, <1>0, MapLocus
  <1>2. /\ Items(n) \in SUBSET (1 .. MaxItems) /\ MapLimit(n) \in Nat /\ MapLimit(n) > 0 /\ Cardinality(Items(n)) \in Nat
        /\ \A m \in Nodes : m # n => ~maps[m].open
        /\ i \notin Items(n) /\ TypeOK
    <2>1. Items(n) \in SUBSET (1 .. MaxItems)
      BY Zenon DEF Items
    <2>2. i \notin Items(n)
      BY <1>1, <1>i
    <2>3. \A m \in Nodes : m # n => ~maps[m].open
      BY Zenon, <1>1 DEF At
    <2> QED
      BY <2>1, <2>2, <2>3, MapLimitIsPositive, ItemSet DEF TypeInv
  <1>3. CASE MapWaits(n)
    <2>1. Still /\ todo' = Done /\ Items(n)' = Items(n)
      BY Zenon, <1>3 DEF MapWaits, Still, flight, Items, Active, Running
    <2>2. At("map", n)' /\ TodoFits("map", n)'
      BY <1>1, <2>1, StillAt, SomeCalls DEF TodoFits
    <2>3. maps[n].done < maps[n].next
      <3>1. /\ maps[n].done # maps[n].len
            /\ ~(maps[n].next < maps[n].len /\ maps[n].next - maps[n].done < MapLimit(n))
        BY Zenon, <1>3 DEF MapWaits, HasRoom
      <3>2. PICK a \in Nat, b \in Nat, l \in Nat : a = maps[n].done /\ b = maps[n].next /\ l = maps[n].len
        BY SMT, <1>1, FoldAssumption
      <3>3. b <= l /\ b - a \in Nat /\ a # l /\ ~(b < l /\ b - a < MapLimit(n))
        BY Zenon, <1>1, <1>2, <3>1, <3>2
      <3>4. a < b
        BY SMT, <1>2, <3>3
      <3> QED
        BY Zenon, <3>2, <3>4
    <2>4. Window'
      BY Zenon, <1>1, <1>2, <2>1, <2>3, SomeCalls DEF Window, Still
    <2> QED
      BY <1>1, <2>2, <2>4, ToKind DEF Kinds
  <1>4. CASE MapStartsItem(n) /\ todo' = FailCall /\ UNCHANGED <<tasks, maps, children>>
    <2>1. Still /\ Items(n)' = Items(n)
      BY Zenon, <1>0, <1>4 DEF Still, Items, Active, Running
    <2>2. At("map", n)' /\ TodoFits("map", n)'
      BY <1>1, <1>4, <2>1, StillAt, SomeCalls DEF TodoFits
    <2>3. Window'
      BY Zenon, <1>1, <1>2, <1>4, <2>1, SomeCalls DEF Window, Still
    <2> QED
      BY <1>1, <2>2, <2>3, ToKind DEF Kinds
  <1>5. ASSUME MapStartsItem(n), todo' = todo, maps' = MapNext(k, n),
               \/ n \notin Flow.subflow /\ Schedule(k, n, 0, 1, timers) /\ UNCHANGED children
               \/ n \in Flow.subflow /\ StartChild(k, n) /\ UNCHANGED tasks
        PROVE  OneLocus' /\ Window'
    <2>1. maps[n].next < maps[n].len /\ maps[n].next - maps[n].done < MapLimit(n)
      BY Zenon, <1>5 DEF MapStartsItem, HasRoom
    <2>2. i \in 1 .. MaxItems /\ k \in Keys /\ NodeOf(k) = n /\ k[2] = i
      BY SMTT(150), <1>1, <1>i, <2>1, KeyFacts, FoldAssumption
    <2>3. /\ maps'[n].open /\ maps'[n].next = i /\ maps'[n].done = maps[n].done /\ maps'[n].len = maps[n].len
          /\ \A m \in Nodes : m # n => maps'[m] = maps[m]
      <3>1. maps' = [maps EXCEPT ![n].next = i]
        BY <1>1, <1>i, <1>5, <2>2 DEF MapNext
      <3> QED
        BY <1>1, <1>2, <3>1 DEF TypeOK, MapType
    <2> HIDE DEF k
    <2>4. /\ n \notin Flow.subflow => /\ Active(k)' /\ tasks'[k].owner = n
                                      /\ \A x \in Keys : x # k => tasks'[x] = tasks[x]
                                      /\ UNCHANGED children
          /\ n \in Flow.subflow => /\ Running(k)' /\ children'[k].owner = n
                                   /\ \A x \in Keys : x # k => children'[x] = children[x]
                                   /\ UNCHANGED tasks
      <3>1. CASE n \notin Flow.subflow
        BY Zenon, <1>2, <1>5, <2>2, <3>1, Scheduled DEF Active
      <3>2. CASE n \in Flow.subflow
        BY Zenon, <1>2, <1>5, <2>2, <3>2, ChildStarted DEF Running
      <3> QED
        BY <3>1, <3>2
    <2>5. \A x \in Keys : x # k => (Active(x)' <=> Active(x)) /\ (Running(x)' <=> Running(x))
      BY Zenon, <2>4 DEF Active, Running
    <2>6. Items(n)' = Items(n) \cup {i}
      <3>1. \A x \in 1 .. MaxItems : <<n, x>> \in Keys /\ (<<n, x>> = k <=> x = i)
        BY KeyFacts, FoldAssumption DEF k
      <3> QED
        BY <2>2, <2>4, <2>5, <3>1 DEF Items
    <2>7. Cardinality(Items(n)') = Cardinality(Items(n)) + 1
      BY <1>2, <2>6, ItemSet
    <2>8. Window'
      <3>1. maps'[n].next <= maps'[n].len /\ Cardinality(Items(n)') = maps'[n].next - maps'[n].done
        BY SMTT(150), <1>1, <1>i, <2>1, <2>3, <2>7
      <3>2. Cardinality(Items(n)') <= MapLimit(n)
        BY SMTT(150), <1>1, <1>2, <2>1, <2>7
      <3>3. todo'.op # "idle" /\ \A m \in Nodes : m # n => ~maps'[m].open
        BY <1>0, <1>2, <1>5, <2>3
      <3> QED
        BY <3>1, <3>2, <3>3 DEF Window
    <2>9. At("map", n)'
      <3>1. \A x \in Keys : Active(x)' => Owned(x, tasks[x].owner, "map", n)' /\ n \notin Flow.subflow
        <4>1. \A x \in Keys : Active(x) => tasks[x].owner = n /\ NodeOf(x) = n /\ x[2] \in 1 .. maps[n].next /\ n \notin Flow.subflow
          BY Zenon, <1>1 DEF At, Owned
        <4>2. ASSUME NEW x \in Keys, Active(x)'
              PROVE  tasks'[x].owner = n /\ NodeOf(x) = n /\ x[2] \in 1 .. i /\ n \notin Flow.subflow
          <5>1. CASE x = k /\ n \notin Flow.subflow
            BY SMTT(90), <1>1, <1>i, <2>2, <2>4, <5>1
          <5>2. CASE Active(x) /\ tasks'[x] = tasks[x]
            BY SMTT(150), <1>1, <1>i, <4>1, <5>2
          <5> QED
            BY <2>4, <4>2, <5>1, <5>2 DEF Active
        <4> QED
          BY Zenon, <2>3, <4>2 DEF Owned
      <3>2. \A x \in Keys : Running(x)' => Owned(x, children[x].owner, "map", n)' /\ n \in Flow.subflow
        <4>1. \A x \in Keys : Running(x) => children[x].owner = n /\ NodeOf(x) = n /\ x[2] \in 1 .. maps[n].next /\ n \in Flow.subflow
          BY Zenon, <1>1 DEF At, Owned
        <4>2. ASSUME NEW x \in Keys, Running(x)'
              PROVE  children'[x].owner = n /\ NodeOf(x) = n /\ x[2] \in 1 .. i /\ n \in Flow.subflow
          <5>1. CASE x = k /\ n \in Flow.subflow
            BY SMTT(150), <1>1, <1>i, <2>2, <2>4, <5>1
          <5>2. CASE Running(x) /\ children'[x] = children[x]
            BY SMTT(150), <1>1, <1>i, <4>1, <5>2
          <5> QED
            BY <2>4, <4>2, <5>1, <5>2 DEF Running
        <4> QED
          BY <2>3, <4>2 DEF Owned
      <3>3. \A m \in Nodes : maps'[m].open <=> m = n
        BY <1>2, <2>3
      <3>4. \A m \in Nodes : awaits'[m] # 0 <=> FALSE
        BY <1>0, <1>1 DEF At
      <3> QED
        BY Zenon, <1>0, <1>1, <3>1, <3>2, <3>3, <3>4 DEF At
    <2>10. TodoFits("map", n)'
      BY Zenon, <1>0, <1>5 DEF TodoFits
    <2> QED
      BY <1>1, <2>8, <2>9, <2>10, ToKind DEF Kinds
  <1>6. MapStartsItem(n) =>
          \/ todo' = FailCall /\ UNCHANGED <<tasks, maps, children>>
          \/ todo' = todo /\ maps' = MapNext(k, n) /\ n \notin Flow.subflow /\ Schedule(k, n, 0, 1, timers) /\ UNCHANGED children
          \/ todo' = todo /\ maps' = MapNext(k, n) /\ n \in Flow.subflow /\ StartChild(k, n) /\ UNCHANGED tasks
    BY Zenon, <1>i DEF MapStartsItem, Schedule, StartChild
  <1> HIDE DEF k
  <1> QED
    BY <1>3, <1>4, <1>5, <1>6

----------------------------------------------------------------------------
\* The answer of an instance: what it leaves behind, by owner.

LEMMA ReadyLocus ==
    ASSUME TypeInv, OneLocus, Ready
    PROVE  /\ status = "open" /\ todo = Done /\ todo.op = "idle" /\ rekick = NoRekick /\ rekick.left = {}
           /\ \E kind \in Kinds \ {"nothing"}, n \in Nodes : At(kind, n)
  <1>1. status = "open" /\ todo = Done /\ rekick = NoRekick
    BY Zenon DEF Ready, Idle
  <1> QED
    BY Zenon, <1>1, TheLocus, SomeCalls DEF TodoFits, NoRekick

\* The same instances stay in flight, of the same owners.
LEMMA KeepAt ==
    ASSUME NEW kind \in Kinds, NEW n \in Nodes, At(kind, n), UNCHANGED <<fans, maps, awaits>>,
           \A k \in Keys : (Active(k)' <=> Active(k)) /\ tasks'[k].owner = tasks[k].owner,
           \A k \in Keys : (Running(k)' <=> Running(k)) /\ children'[k].owner = children[k].owner
    PROVE  At(kind, n)' /\ \A m \in Nodes : Items(m)' = Items(m)
  <1>1. \A k \in Keys : Active(k)' => Owned(k, tasks[k].owner, kind, n)' /\ kind # "child" /\ (kind = "map" => n \notin Flow.subflow)
    BY Zenon DEF At, Owned
  <1>2. \A k \in Keys : Running(k)' => Owned(k, children[k].owner, kind, n)' /\ kind # "task" /\ (kind = "map" => n \in Flow.subflow)
    BY Zenon DEF At, Owned
  <1>3. (kind = "task" => Active(Plain(n))') /\ (kind = "child" => Running(Plain(n))')
    BY Zenon, KeyFacts DEF At
  <1>4. /\ kind # "nothing" => kind = KindOf(n)
        /\ fans' = IF kind = "fan" THEN {n} ELSE {}
        /\ \A m \in Nodes : maps'[m].open <=> kind = "map" /\ m = n
        /\ \A m \in Nodes : awaits'[m] # 0 <=> kind = "await" /\ m = n
    BY Zenon DEF At
  <1>5. At(kind, n)'
    BY Zenon, <1>1, <1>2, <1>3, <1>4 DEF At
  <1>6. 1 .. MaxItems \subseteq 0 .. MaxItems
    BY FoldAssumption
  <1>7. \A m \in Nodes, i \in 1 .. MaxItems : <<m, i>> \in Keys
    BY Zenon, <1>6, KeyFacts
  <1> QED
    BY Zenon, <1>5, <1>7 DEF Items

LEMMA KeepWindow ==
    ASSUME Window, UNCHANGED maps, \A m \in Nodes : Items(m)' = Items(m), todo' = todo \/ todo' = FailCall
    PROVE  Window'
  BY Zenon, SomeCalls DEF Window

\* Instance k of owner o is gone; a map counts it when inc.
Answer(k, o, inc) ==
    /\ \/ Active(k) /\ o = tasks[k].owner /\ tasks' = [tasks EXCEPT ![k] = NoTask] /\ children' = children
       \/ Running(k) /\ o = children[k].owner /\ children' = [children EXCEPT ![k] = NoChild] /\ tasks' = tasks
    /\ maps' = IF inc THEN [maps EXCEPT ![NodeOf(k)].done = @ + 1] ELSE maps
    /\ status' = status /\ UNCHANGED <<fans, awaits>>

Item(k, o) == o = NodeOf(k) /\ maps[NodeOf(k)].open

Reaction(k, o, inc) ==
    \/ todo' = FailCall
    \/ o \in fans /\ todo' = Call("evalJoin", o)
    \/ o \notin fans /\ Item(k, o) /\ inc /\ todo' = Call("mapProgress", NodeOf(k))
    \/ o \notin fans /\ Item(k, o) /\ ~inc /\ OnFailure(NodeOf(k)) # None /\ todo' = Call("abortMap", NodeOf(k))
    \/ o \notin fans /\ ~Item(k, o) /\ todo'.op \in {"enter", "complete", "fail"} /\ (todo'.op = "enter" => todo'.node \in Entry)

LEMMA LocusAnswer ==
    ASSUME Counting, TypeInv, OneLocus, Window, Ready, NEW k \in Keys, NEW o, NEW inc \in BOOLEAN,
           inc => Item(k, o), Answer(k, o, inc), Reaction(k, o, inc)
    PROVE  OneLocus' /\ Window'
  <1>0. /\ status' = "open" /\ todo.op = "idle" /\ TypeOK /\ NodeOf(k) \in Nodes /\ NodeOf(k) # None
        /\ UNCHANGED <<fans, awaits>>
    BY ReadyLocus, KeyFacts, NodesAssumption DEF TypeInv, Answer
  <1>1. PICK kind \in Kinds \ {"nothing"}, n \in Nodes : At(kind, n)
    BY Zenon, ReadyLocus
  <1>2. /\ \A x \in Keys : Active(x)' => Active(x) /\ tasks'[x].owner = tasks[x].owner
        /\ \A x \in Keys : Running(x)' => Running(x) /\ children'[x].owner = children[x].owner
        /\ \A x \in Keys : x # k => (Active(x)' <=> Active(x)) /\ (Running(x)' <=> Running(x))
    <2>1. NoTask.status = "none" /\ tasks \in [Keys -> TaskType] /\ children \in [Keys -> ChildType]
      BY Zenon, <1>0 DEF TypeOK, NoTask
    <2>2. CASE tasks' = [tasks EXCEPT ![k] = NoTask] /\ children' = children
      BY <2>1, <2>2 DEF Active, Running
    <2>3. CASE children' = [children EXCEPT ![k] = NoChild] /\ tasks' = tasks
      BY Zenon, <2>1, <2>3 DEF Active, Running
    <2> QED
      BY Zenon, <2>2, <2>3 DEF Answer
  <1>3. /\ Owned(k, o, kind, n)
        /\ ~(Active(k) /\ Running(k) /\ kind # "fan")
    <2>1. Owned(k, o, kind, n)
      BY Zenon, <1>1 DEF At, Answer
    <2>2. ~(Active(k) /\ Running(k) /\ kind # "fan")
      BY Zenon, <1>1 DEF At, Owned
    <2> QED
      BY Zenon, <2>1, <2>2
  <1>4. \A m \in Nodes : maps'[m].open = maps[m].open /\ maps'[m].next = maps[m].next /\ maps'[m].len = maps[m].len
    <2>1. maps \in [Nodes -> MapType]
      BY Zenon, <1>0 DEF TypeOK
    <2> QED
      BY <2>1 DEF Answer, MapType
  <1>5. CASE kind \in {"task", "child"}
    <2>1. o = None /\ k = Plain(n)
      BY <1>3, <1>5 DEF Owned
    <2>2. ~Item(k, o) /\ o \notin fans
      BY Zenon, <1>0, <1>1, <1>5, <2>1 DEF Item, At
    <2>3. \A x \in Keys : ~Active(x)' /\ ~Running(x)'
      <3>1. \A x \in Keys : x # k => ~Active(x) /\ ~Running(x)
        BY Zenon, <1>1, <1>5, <2>1 DEF At, Owned
      <3>2. ~Active(k)' /\ ~Running(k)'
        BY <1>0, <1>1, <1>3, <1>5 DEF Answer, Active, Running, TypeOK, NoTask
      <3> QED
        BY <1>2, <3>1, <3>2
    <2>4. Empty'
      BY Zenon, <1>0, <1>1, <1>4, <1>5, <2>3 DEF Empty, At
    <2> QED
      BY Zenon, <1>0, <2>2, <2>4, ToNothing, SomeCalls DEF Reaction, Window, Empty
  <1>6. CASE kind = "fan"
    <2>1. o = n /\ o \in fans
      BY Zenon, <1>1, <1>3, <1>6 DEF Owned, At
    <2>2. At("fan", n)'
      BY Zenon, <1>0, <1>1, <1>2, <1>4, <1>6, ShrinkAt
    <2>3. TodoFits("fan", n)'
      BY <2>1, SomeCalls DEF Reaction, TodoFits, Call
    <2>4. \A m \in Nodes : ~maps'[m].open
      BY Zenon, <1>1, <1>4, <1>6 DEF At
    <2> QED
      BY Zenon, <1>0, <2>2, <2>3, <2>4, ToKind DEF Kinds, Window
  <1>7. CASE kind = "map"
    <2>1. o = n /\ NodeOf(k) = n /\ Item(k, o) /\ o \notin fans /\ k[2] \in 1 .. maps[n].next
      BY Zenon, <1>1, <1>3, <1>7 DEF Owned, At, Item
    <2>2. At("map", n)'
      BY Zenon, <1>0, <1>1, <1>2, <1>4, <1>7, ShrinkAt
    <2>3. TodoFits("map", n)'
      BY <2>1, SomeCalls DEF Reaction, TodoFits, Call
    <2>4. maps[n].open /\ maps[n].next \in Nat /\ maps[n].done \in Nat /\ MapLimit(n) \in Nat
      BY <1>0, <2>1, MapLimitIsPositive DEF Item, TypeOK, MapType
    <2>5. k[2] \in 1 .. MaxItems /\ k = <<n, k[2]>> /\ k[2] \in Items(n)
      <3>1. k[2] \in 0 .. MaxItems /\ k = <<n, k[2]>>
        BY <2>1, KeyFacts
      <3>2. k[2] \in 1 .. MaxItems
        BY SMTT(40), <2>1, <2>4, <3>1, FoldAssumption
      <3>3. Active(k) \/ Running(k)
        BY Zenon DEF Answer
      <3> QED
        BY <3>1, <3>2, <3>3 DEF Items
    <2>6. Items(n)' = Items(n) \ {k[2]}
      <3>1. \A x \in 1 .. MaxItems : <<n, x>> \in Keys /\ (<<n, x>> = k <=> x = k[2])
        BY <2>5, KeyFacts, FoldAssumption
      <3>2. ~Active(k)' /\ ~Running(k)'
        BY <1>0, <1>1, <1>3, <1>7 DEF Answer, Active, Running, TypeOK, NoTask
      <3> QED
        BY Zenon, <1>2, <3>1, <3>2 DEF Items
    <2>7. Items(n) \in SUBSET (1 .. MaxItems)
      BY Zenon DEF Items
    <2>8. Cardinality(Items(n)') = Cardinality(Items(n)) - 1 /\ Cardinality(Items(n)) \in Nat
      BY <2>5, <2>6, <2>7, ItemSet
    <2>9. inc => maps'[n].done = maps[n].done + 1
      BY <1>0, <2>1, <2>4 DEF Answer, TypeOK, MapType
    <2>10. \A m \in Nodes : m # n => ~maps'[m].open
      BY Zenon, <1>1, <1>4, <1>7 DEF At
    <2>11. /\ maps[n].next <= maps[n].len /\ Cardinality(Items(n)) = maps[n].next - maps[n].done
           /\ Cardinality(Items(n)) <= MapLimit(n)
      BY <1>0, <2>4 DEF Window
    <2>12. todo'.op # "idle" /\ (todo'.op \notin {"abortMap", "fail"} => inc)
      BY <2>1, SomeCalls DEF Reaction, Call
    <2>13. Window'
      <3>1. maps'[n].next <= maps'[n].len /\ Cardinality(Items(n)') <= MapLimit(n)
        BY SMTT(150), <1>4, <2>4, <2>8, <2>11
      <3>2. inc => Cardinality(Items(n)') = maps'[n].next - maps'[n].done
        BY SMTT(150), <1>4, <2>4, <2>8, <2>9, <2>11
      <3> QED
        BY <2>10, <2>12, <3>1, <3>2 DEF Window
    <2> QED
      BY <1>0, <2>2, <2>3, <2>13, ToKind DEF Kinds
  <1>8. kind # "await"
    BY Zenon, <1>3 DEF Owned
  <1> QED
    BY <1>5, <1>6, <1>7, <1>8 DEF Kinds

LEMMA InstanceNode ==
    ASSUME TypeInv, OneLocus, status = "open", NEW k \in Keys, Active(k) \/ Running(k)
    PROVE  NodeOf(k) \in Nodes /\ NodeOf(k) \notin Fanouts
  <1>1. PICK kind \in Kinds, n \in Nodes : At(kind, n)
    BY Zenon, TheLocus
  <1>2. PICK o : Owned(k, o, kind, n)
    BY Zenon, <1>1 DEF At
  <1>3. kind # "nothing" => kind = KindOf(n)
    BY Zenon, <1>1 DEF At
  <1>4. NodeOf(k) \in Nodes
    BY Zenon, KeyFacts
  <1>5. CASE kind \in {"task", "child"}
    BY <1>2, <1>3, <1>5, KindTypes, KeyFacts DEF Owned
  <1>6. CASE kind = "fan"
    <2>1. n \in Fanouts /\ NodeOf(k) \in BranchesOf(n)
      BY <1>2, <1>3, <1>6, KindTypes DEF Owned
    <2> QED
      BY Zenon, <1>4, <2>1, FanFields DEF Fanouts
  <1>7. CASE kind = "map"
    BY <1>2, <1>3, <1>7, KindTypes DEF Owned
  <1> QED
    BY <1>2, <1>4, <1>5, <1>6, <1>7 DEF Owned

\* The three commands that take an answer, in terms of Answer and Reaction.
LEMMA CompleteAnswers ==
    ASSUME TypeInv, OneLocus, NEW j \in jobs, NEW u, NEW dyn \in Flow.dynamic[NodeOf(j.key)] \cup {None}, Complete(j, u, dyn)
    PROVE  \E inc \in BOOLEAN : /\ inc = Item(j.key, tasks[j.key].owner)
                                /\ Answer(j.key, tasks[j.key].owner, inc) /\ Reaction(j.key, tasks[j.key].owner, inc)
  <1>0. j.key \in Keys
    BY Zenon DEF TypeInv, TypeOK, JobType
  <1>1. PICK k \in Keys, o \in Maybe, n \in Nodes : k = j.key /\ o = tasks[k].owner /\ n = NodeOf(k)
    BY Zenon, <1>0, KeyFacts DEF TypeInv, TypeOK, TaskType
  <1>2. PICK item \in BOOLEAN : item = Item(k, o)
    BY Zenon DEF Item
  <1>3. Active(k) /\ status = "open"
    BY Zenon, <1>1 DEF Complete, Current, Active, Ready
  <1>4. n \notin Fanouts
    BY Zenon, <1>1, <1>3, InstanceNode
  <1>5. Answer(k, o, item)
    <2>1. maps' = IF item THEN [maps EXCEPT ![n].done = @ + 1] ELSE maps
      BY Zenon, <1>1, <1>2 DEF Complete, Item
    <2> QED
      BY <1>1, <1>3, <2>1 DEF Answer, Complete, Settle
  <1>6. Reaction(k, o, item)
    <2>1. PICK over \in BOOLEAN : over = OverBudget(AddUsage(u))
      BY Zenon DEF OverBudget
    <2>2. todo' = CASE over -> FailCall
                    [] ~over /\ o \in fans -> Call("evalJoin", o)
                    [] ~over /\ o \notin fans /\ item -> Call("mapProgress", n)
                    [] OTHER -> Advance(n, dyn)
      BY Zenon, <1>1, <1>2, <2>1 DEF Complete, Item
    <2>3. CASE over
      BY Zenon, <2>2, <2>3 DEF Reaction
    <2>4. CASE ~over /\ o \in fans
      BY Zenon, <2>2, <2>4 DEF Reaction
    <2>5. CASE ~over /\ o \notin fans /\ item
      BY <1>1, <1>2, <2>2, <2>5 DEF Reaction
    <2>6. CASE ~over /\ o \notin fans /\ ~item
      <3>1. todo' = Advance(n, dyn)
        BY <2>2, <2>6
      <3> QED
        BY Zenon, <1>1, <1>2, <1>4, <2>6, <3>1, AdvanceEntry DEF Reaction
    <2> QED
      BY <2>3, <2>4, <2>5, <2>6
  <1> QED
    BY <1>1, <1>2, <1>5, <1>6

LEMMA FailureAnswers ==
    ASSUME TypeInv, OneLocus, Ready, NEW k \in Keys, Active(k), NEW retryable, NEW u, NEW live, TaskFailed(k, retryable, u, live)
    PROVE  \/ /\ Answer(k, tasks[k].owner, FALSE) /\ Reaction(k, tasks[k].owner, FALSE)
              /\ timers' = live /\ num' = num
           \/ /\ tasks' = [tasks EXCEPT ![k].status = "retrying"] /\ todo' = Done /\ UNCHANGED branch
              /\ timers' = live \cup {[id |-> num + 1, purpose |-> "retry", key |-> k,
                                       gen |-> tasks[k].gen, attempt |-> tasks[k].attempt + 1]}
  <1>1. PICK o \in Maybe, n \in Nodes : o = tasks[k].owner /\ n = NodeOf(k)
    BY Zenon, KeyFacts DEF TypeInv, TypeOK, TaskType
  <1>2. n \notin Fanouts
    BY <1>1, InstanceNode DEF Ready
  <1>3. CASE retryable /\ MayRetry(tasks[k].attempt, n) /\ ~OverBudget(AddUsage(u))
    BY Zenon, <1>1, <1>3 DEF TaskFailed
  <1>4. CASE ~(retryable /\ MayRetry(tasks[k].attempt, n) /\ ~OverBudget(AddUsage(u)))
    <2>1. Settle(k, "failed") /\ timers' = live /\ num' = num
      BY <1>1, <1>4 DEF TaskFailed
    <2>2. Answer(k, o, FALSE)
      BY Zenon, <1>1, <2>1 DEF Answer, TaskFailed, Settle, outside
    <2>3. PICK over \in BOOLEAN : over = OverBudget(AddUsage(u))
      BY Zenon DEF OverBudget
    <2>4. todo' = CASE over -> FailCall
                    [] ~over /\ o \in fans -> Call("evalJoin", o)
                    [] ~over /\ o \notin fans /\ maps[n].open /\ o = n /\ OnFailure(n) # None -> Call("abortMap", n)
                    [] OTHER -> OnFailureOf(n)
      BY <1>1, <1>4, <2>3 DEF TaskFailed
    <2>5. Reaction(k, o, FALSE)
      <3>1. CASE over
        BY Zenon, <2>4, <3>1 DEF Reaction
      <3>2. CASE ~over /\ o \in fans
        BY Zenon, <2>4, <3>2 DEF Reaction
      <3>3. CASE ~over /\ o \notin fans /\ maps[n].open /\ o = n /\ OnFailure(n) # None
        BY <1>1, <2>4, <3>3 DEF Reaction, Item
      <3>4. CASE ~over /\ o \notin fans /\ ~(maps[n].open /\ o = n /\ OnFailure(n) # None)
        <4>1. todo' = OnFailureOf(n)
          BY Zenon, <2>4, <3>4
        <4>2. CASE OnFailure(n) = None
          BY Zenon, <4>1, <4>2 DEF OnFailureOf, Reaction
        <4>3. CASE OnFailure(n) # None
          BY Zenon, <1>1, <1>2, <3>4, <4>1, <4>3, OnFailureEntry DEF Reaction, Item
        <4> QED
          BY Zenon, <4>2, <4>3
      <3> QED
        BY Zenon, <3>1, <3>2, <3>3, <3>4
    <2> QED
      BY Zenon, <1>1, <2>1, <2>2, <2>5
  <1> QED
    BY Zenon, <1>3, <1>4

LEMMA ChildAnswers ==
    ASSUME TypeInv, OneLocus, NEW k \in Keys, NEW c, NEW u, NEW ok \in BOOLEAN, ChildDone(k, c, u, ok)
    PROVE  \E inc \in BOOLEAN : /\ inc => Item(k, children[k].owner)
                                /\ Answer(k, children[k].owner, inc) /\ Reaction(k, children[k].owner, inc)
  <1>1. PICK o \in Maybe, n \in Nodes : o = children[k].owner /\ n = NodeOf(k)
    BY Zenon, KeyFacts DEF TypeInv, TypeOK, ChildType
  <1>2. PICK item \in BOOLEAN : item = Item(k, o)
    BY Zenon DEF Item
  <1>3. Running(k) /\ status = "open"
    BY Zenon DEF ChildDone, Ready
  <1>4. n \notin Fanouts
    BY <1>1, <1>3, InstanceNode
  <1>5. Answer(k, o, item /\ ok)
    <2>1. maps' = IF item /\ ok THEN [maps EXCEPT ![n].done = @ + 1] ELSE maps
      BY Zenon, <1>1, <1>2 DEF ChildDone, Item
    <2> QED
      BY <1>1, <1>3, <2>1 DEF Answer, ChildDone
  <1>6. Reaction(k, o, item /\ ok)
    <2>1. PICK over \in BOOLEAN : over = OverBudget(AddUsage(u))
      BY Zenon DEF OverBudget
    <2>2. todo' = CASE over -> FailCall
                    [] ~over /\ o \in fans -> Call("evalJoin", o)
                    [] ~over /\ o \notin fans /\ item /\ ok -> Call("mapProgress", n)
                    [] ~over /\ o \notin fans /\ item /\ ~ok ->
                          IF OnFailure(n) # None THEN Call("abortMap", n) ELSE FailCall
                    [] OTHER -> IF ok THEN Advance(n, None) ELSE OnFailureOf(n)
      BY <1>1, <1>2, <2>1 DEF ChildDone, Item
    <2>3. CASE over
      BY Zenon, <2>2, <2>3 DEF Reaction
    <2>4. CASE ~over /\ o \in fans
      BY Zenon, <2>2, <2>4 DEF Reaction
    <2>5. CASE ~over /\ o \notin fans /\ item /\ ok
      BY <1>1, <1>2, <2>2, <2>5 DEF Reaction
    <2>6. CASE ~over /\ o \notin fans /\ item /\ ~ok
      <3>1. todo' = IF OnFailure(n) # None THEN Call("abortMap", n) ELSE FailCall
        BY Zenon, <2>2, <2>6
      <3> QED
        BY Zenon, <1>1, <1>2, <2>6, <3>1 DEF Reaction
    <2>7. CASE ~over /\ o \notin fans /\ ~item
      <3>1. todo' = IF ok THEN Advance(n, None) ELSE OnFailureOf(n)
        BY <2>2, <2>7
      <3> QED
        BY Zenon, <1>1, <1>2, <1>4, <2>7, <3>1, AdvanceEntry, OnFailureEntry DEF Reaction
    <2> QED
      BY <2>3, <2>4, <2>5, <2>6, <2>7
  <1>7. (item /\ ok) \in BOOLEAN
    BY Zenon
  <1> QED
    BY <1>1, <1>2, <1>5, <1>6, <1>7

----------------------------------------------------------------------------
\* The commands.

LEMMA LocusKept ==
    ASSUME TypeInv, OneLocus, Window, todo = Done, status = "open", status' = status, todo' \in {Done, FailCall},
           UNCHANGED <<fans, maps, awaits>>,
           \A k \in Keys : (Active(k)' <=> Active(k)) /\ tasks'[k].owner = tasks[k].owner,
           \A k \in Keys : (Running(k)' <=> Running(k)) /\ children'[k].owner = children[k].owner
    PROVE  OneLocus' /\ Window'
  <1>1. PICK kind \in Kinds, n \in Nodes : At(kind, n) /\ TodoFits(kind, n)
    BY Zenon, TheLocus
  <1>2. At(kind, n)' /\ \A m \in Nodes : Items(m)' = Items(m)
    BY Zenon, <1>1, KeepAt
  <1>3. TodoFits(kind, n)'
    BY Zenon, <1>1, SomeCalls DEF TodoFits
  <1>4. Window'
    BY Zenon, <1>2, KeepWindow
  <1> QED
    BY Zenon, <1>2, <1>3, <1>4, ToKind

LEMMA LocusRescheduled ==
    ASSUME TypeInv, OneLocus, Window, todo = Done, status = "open", status' = status, todo' = Done,
           NEW k \in Keys, Active(k), NEW gen, NEW attempt, NEW live,
           Schedule(k, tasks[k].owner, gen, attempt, live), UNCHANGED <<fans, awaits, children>>
    PROVE  OneLocus' /\ Window'
  <1>1. PICK kind \in Kinds, n \in Nodes : At(kind, n) /\ TodoFits(kind, n)
    BY TheLocus
  <1>2. TypeOK
    BY Zenon DEF TypeInv
  <1>3. maps' = maps
    BY <1>1, <1>2, RescheduleAt
  <1>4. \A x \in Keys : (Active(x)' <=> Active(x)) /\ tasks'[x].owner = tasks[x].owner
    BY Zenon, <1>2, Scheduled DEF Active
  <1> QED
    BY Zenon, <1>3, <1>4, LocusKept DEF Running

LEMMA LocusFailed ==
    ASSUME Counting, TypeInv, OneLocus, Window, Ready, NEW k \in Keys, tasks[k].status = "scheduled",
           NEW retryable, NEW u, NEW live, TaskFailed(k, retryable, u, live)
    PROVE  OneLocus' /\ Window'
  <1>1. Active(k)
    BY Zenon DEF Active
  <1>2. CASE Answer(k, tasks[k].owner, FALSE) /\ Reaction(k, tasks[k].owner, FALSE)
    BY Zenon, <1>2, LocusAnswer
  <1>3. CASE tasks' = [tasks EXCEPT ![k].status = "retrying"] /\ todo' = Done
    <2>1. \A x \in Keys : (Active(x)' <=> Active(x)) /\ tasks'[x].owner = tasks[x].owner
      BY <1>1, <1>3 DEF TypeInv, TypeOK, TaskType, Active
    <2>2. UNCHANGED <<status, fans, maps, awaits, children>>
      BY Zenon DEF TaskFailed
    <2> QED
      BY <1>3, <2>1, <2>2, ReadyLocus, LocusKept DEF Running
  <1> QED
    BY Zenon, <1>1, <1>2, <1>3, FailureAnswers

LEMMA LocusResults ==
    ASSUME Counting, TypeInv, OneLocus, Window, Results \/ ChildResults
    PROVE  OneLocus' /\ Window'
  <1>1. ASSUME NEW j \in jobs, NEW u, NEW dyn \in Flow.dynamic[NodeOf(j.key)] \cup {None}, Complete(j, u, dyn)
        PROVE  OneLocus' /\ Window'
    <2>1. j.key \in Keys /\ Ready
      BY Zenon, <1>1 DEF TypeInv, TypeOK, JobType, Complete
    <2> QED
      BY Zenon, <1>1, <2>1, CompleteAnswers, LocusAnswer
  <1>2. ASSUME NEW j \in jobs, NEW u, NEW retryable, FailTask(j, u, retryable)
        PROVE  OneLocus' /\ Window'
    BY Zenon, <1>2, LocusFailed DEF FailTask, Current, TypeInv, TypeOK, JobType
  <1>3. ASSUME NEW k \in Keys, NEW c, NEW u, NEW ok \in BOOLEAN, ChildDone(k, c, u, ok)
        PROVE  OneLocus' /\ Window'
    <2>1. Ready
      BY Zenon, <1>3 DEF ChildDone
    <2> QED
      BY Zenon, <1>3, <2>1, ChildAnswers, LocusAnswer
  <1> QED
    BY Zenon, <1>1, <1>2, <1>3 DEF Results, ChildResults

LEMMA LocusRequests ==
    ASSUME TypeInv, OneLocus, Window, NEW j, NEW u, NEW k, NEW name, NEW id,
           (j \in jobs /\ Interrupt(j, u)) \/ (k \in Keys /\ Resume(k)) \/ Signal(name, id) \/ Update(id)
    PROVE  OneLocus' /\ Window'
  <1>0. TypeOK /\ (j \in jobs => j.key \in Keys)
    BY Zenon DEF TypeInv, TypeOK, JobType
  <1>1. CASE j \in jobs /\ Interrupt(j, u)
    <2>1. /\ todo = Done /\ status = "open" /\ status' = status /\ todo' \in {Done, FailCall}
          /\ UNCHANGED <<fans, maps, awaits, children>> /\ Active(j.key)
          /\ tasks' = [tasks EXCEPT ![j.key].status = "interrupted"]
      BY Zenon, <1>1, ReadyLocus DEF Interrupt, Current, Active
    <2>2. \A x \in Keys : (Active(x)' <=> Active(x)) /\ tasks'[x].owner = tasks[x].owner
      BY <1>0, <2>1 DEF TypeOK, TaskType, Active
    <2> QED
      BY <2>1, <2>2, LocusKept DEF Running
  <1>2. CASE k \in Keys /\ Resume(k)
    <2>1. /\ todo = Done /\ status = "open" /\ status' = status /\ todo' = Done /\ k \in Keys /\ Active(k)
          /\ UNCHANGED <<fans, awaits, children>> /\ Schedule(k, tasks[k].owner, 0, 1, timers)
      BY Zenon, <1>2, ReadyLocus DEF Resume, Active
    <2> QED
      BY Zenon, <2>1, LocusRescheduled
  <1>3. CASE Signal(name, id)
    <2>1. /\ Ready /\ status' = status /\ Still
          /\ todo' = IF Listening(name) = {} THEN Done ELSE Call("consume", CHOOSE n \in Listening(name) : TRUE)
      BY Zenon, <1>3 DEF Signal, flight, Still
    <2>2. PICK kind \in Kinds \ {"nothing"}, n \in Nodes : At(kind, n)
      BY Zenon, <2>1, ReadyLocus
    <2>3. At(kind, n)' /\ \A m \in Nodes : Items(m)' = Items(m)
      BY Zenon, <2>1, <2>2, StillAt DEF Still, Items, Active, Running
    <2>4. Listening(name) # {} => kind = "await" /\ (CHOOSE m \in Listening(name) : TRUE) = n
      BY Zenon, <2>2 DEF Listening, At
    <2>5. TodoFits(kind, n)'
      <3>1. CASE Listening(name) = {}
        BY Zenon, <2>1, <3>1, SomeCalls DEF TodoFits
      <3>2. CASE Listening(name) # {}
        BY Zenon, <2>1, <2>4, <3>2 DEF TodoFits, Call
      <3> QED
        BY <3>1, <3>2
    <2>6. Window'
      <3>1. CASE Listening(name) = {}
        BY Zenon, <2>1, <2>3, <3>1, KeepWindow, ReadyLocus DEF Still
      <3>2. CASE Listening(name) # {}
        BY Zenon, <2>1, <2>2, <2>4, <3>2 DEF Window, At, Still
      <3> QED
        BY <3>1, <3>2
    <2> QED
      BY Zenon, <2>1, <2>3, <2>5, <2>6, ReadyLocus, ToKind
  <1>4. CASE Update(id)
    <2>1. todo = Done /\ status = "open" /\ status' = status /\ todo' = Done /\ Still
      BY Zenon, <1>4, ReadyLocus DEF Update, Still, flight
    <2> QED
      BY Zenon, <2>1, LocusKept DEF Still, Active, Running
  <1> QED
    BY Zenon, <1>1, <1>2, <1>3, <1>4

LEMMA LocusTimer ==
    ASSUME Counting, TypeInv, OneLocus, Window, NEW t \in timers,
           ObsoleteTimer(t) \/ RetryTimer(t) \/ TimeoutTimer(t) \/ AwaitTimer(t)
    PROVE  OneLocus' /\ Window'
  <1>0. TypeOK /\ t.key \in Keys /\ NodeOf(t.key) \in Nodes /\ t.id # 0
    BY Zenon, KeyFacts DEF TypeInv, TypeOK, TimerType
  <1>1. CASE ObsoleteTimer(t)
    <2>1. todo = Done /\ status = "open" /\ status' = status /\ todo' = Done /\ Still
      BY Zenon, <1>1, ReadyLocus DEF ObsoleteTimer, Still
    <2> QED
      BY Zenon, <2>1, LocusKept DEF Still, Active, Running
  <1>2. CASE RetryTimer(t)
    <2>1. /\ todo = Done /\ status = "open" /\ status' = status /\ todo' = Done /\ Active(t.key)
          /\ UNCHANGED <<fans, awaits, children>> /\ Schedule(t.key, tasks[t.key].owner, t.gen, t.attempt, timers \ {t})
      BY Zenon, <1>2, ReadyLocus DEF RetryTimer, Obsolete, Active
    <2> QED
      BY Zenon, <1>0, <2>1, LocusRescheduled
  <1>3. CASE TimeoutTimer(t)
    <2>1. Ready /\ tasks[t.key].status = "scheduled" /\ TaskFailed(t.key, TRUE, [x \in Counters |-> 0], timers \ {t})
      BY Zenon, <1>3 DEF TimeoutTimer, Obsolete, Current
    <2> QED
      BY Zenon, <1>0, <2>1, LocusFailed
  <1>4. CASE AwaitTimer(t)
    <2>1. PICK m \in Nodes : m = NodeOf(t.key)
      BY Zenon, <1>0
    <2>2. /\ Ready /\ status' = status /\ UNCHANGED <<tasks, fans, maps, children>>
          /\ awaits' = [awaits EXCEPT ![m] = 0] /\ awaits[m] # 0
          /\ todo' = IF Flow.onTimeout[m] = None THEN FailCall ELSE Call("enter", Flow.onTimeout[m])
      BY <1>0, <1>4, <2>1 DEF AwaitTimer, Obsolete
    <2>3. At("await", m)
      BY Zenon, <2>2, ReadyLocus DEF At
    <2>4. m \notin Fanouts
      BY Zenon, <2>3, KindTypes DEF At
    <2>5. Empty'
      BY Zenon, <1>0, <2>2, <2>3 DEF Empty, At, Owned, Active, Running, TypeOK
    <2>6. Flow.onTimeout[m] # None => Flow.onTimeout[m] \in Entry
      <3>1. Flow.onTimeout[m] # None => Flow.onTimeout[m] \in Routes(m)
        BY Zenon, FlowFields DEF Routes, Maybe
      <3> QED
        BY <2>4, <3>1, RouteEntry
    <2>7. todo'.op \in {"enter", "fail"} /\ (todo'.op = "enter" => todo'.node \in Entry)
      BY Zenon, <2>2, <2>6, SomeCalls DEF Call
    <2> QED
      BY Zenon, <2>2, <2>5, <2>7, ReadyLocus, ToNothing DEF Window, Empty
  <1> QED
    BY <1>1, <1>2, <1>3, <1>4

LEMMA LocusStart ==
    ASSUME TypeInv, OneLocus, Start
    PROVE  OneLocus' /\ Window' /\ RekickOK'
  <1>1. Empty /\ Still /\ status' = "open" /\ todo' = Call("enter", Flow.start) /\ rekick' = NoRekick
    BY Zenon, NothingIsEmpty DEF Start, OneLocus, Still, flight, Idle
  <1>2. Empty'
    BY Zenon, <1>1, StillEmpty
  <1> QED
    BY Zenon, <1>1, <1>2, ToNothing, StartEntry DEF Call, Window, Empty, RekickOK, NoRekick

LEMMA LocusFork ==
    ASSUME TypeInv, OneLocus, Window, Fork
    PROVE  OneLocus' /\ Window' /\ RekickOK'
  <1>1. todo = Done /\ todo' = Done /\ status' = status /\ Still /\ status # "none"
    BY Zenon DEF Fork, Idle, Still
  <1>2. CASE status = "open"
    <2>1. rekick' = [phase |-> "tasks", left |-> Redispatched]
      BY Zenon, <1>2 DEF Fork, Terminal
    <2>2. RekickOK'
      BY Zenon, <1>1, <2>1 DEF RekickOK, Redispatched, Active, Still
    <2> QED
      BY Zenon, <1>1, <1>2, <2>2, LocusKept DEF Still, Active, Running
  <1>3. CASE status # "open"
    <2>1. At("nothing", Flow.start)' /\ status \in Terminal
      BY Zenon, <1>1, <1>3, StillAt DEF OneLocus, TypeInv, TypeOK
    <2>2. rekick' = NoRekick
      BY Zenon, <2>1 DEF Fork
    <2>3. \A m \in Nodes : ~maps'[m].open
      BY Zenon, <2>1 DEF At
    <2> QED
      BY Zenon, <1>1, <1>3, <2>1, <2>2, <2>3 DEF OneLocus, Idle, Window, RekickOK, NoRekick
  <1> QED
    BY Zenon, <1>2, <1>3

LEMMA LocusRekick ==
    ASSUME TypeInv, OneLocus, Window, RekickOK, Rekick
    PROVE  OneLocus' /\ Window' /\ RekickOK'
  <1>0. todo = Done /\ rekick.phase # "no" /\ status' = status /\ TypeOK /\ rekick \in RekickType
    BY Zenon DEF Rekick, RekickTask, RekickAwait, RekickChild, RekickNext, TypeInv, TypeOK
  <1>1. status = "open" /\ todo # FailCall
    BY <1>0, BusyIsOpen, SomeCalls DEF NoRekick
  <1>2. PICK kind \in Kinds, n \in Nodes : At(kind, n) /\ TodoFits(kind, n)
    BY Zenon, <1>1, TheLocus
  <1>3. CASE RekickNext
    <2>1. Still /\ todo' = Done
      BY <1>0, <1>3 DEF RekickNext, Still, flight
    <2>2. RekickOK'
      <3>1. CASE rekick.phase = "tasks"
        <4>1. rekick' = [phase |-> "awaits", left |-> {Plain(m) : m \in {x \in Nodes : awaits[x] # 0}}]
          BY Zenon, <1>3, <3>1 DEF RekickNext
        <4> QED
          BY Zenon, <2>1, <4>1, KeyFacts DEF RekickOK, Still
      <3>2. CASE rekick.phase = "awaits"
        <4>1. rekick' = [phase |-> "children", left |-> {k \in Keys : Running(k)}]
          BY Zenon, <1>3, <3>2 DEF RekickNext
        <4> QED
          BY Zenon, <2>1, <4>1 DEF RekickOK, Still, Running
      <3>3. CASE rekick.phase = "children"
        <4>1. rekick' = NoRekick
          BY <1>3, <3>3 DEF RekickNext
        <4> QED
          BY Zenon, <4>1 DEF RekickOK, NoRekick
      <3> QED
        BY Zenon, <1>0, <3>1, <3>2, <3>3 DEF RekickType
    <2> QED
      BY Zenon, <1>0, <1>1, <2>1, <2>2, LocusKept DEF Still, Active, Running
  <1>4. CASE RekickTask \/ RekickAwait \/ RekickChild
    <2>1. PICK k \in Keys : k \in rekick.left /\ k = CHOOSE x \in rekick.left : TRUE
      BY <1>0, <1>4 DEF RekickTask, RekickAwait, RekickChild, RekickType
    <2>2. rekick' = [rekick EXCEPT !.left = @ \ {k}]
      BY <1>4, <2>1 DEF RekickTask, RekickAwait, RekickChild
    <2>3. rekick'.phase = rekick.phase /\ rekick'.left = rekick.left \ {k}
      BY <1>0, <2>2 DEF RekickType
    <2>4. CASE RekickTask
      <3>1. /\ Schedule(k, tasks[k].owner, 0, 1, timers) /\ UNCHANGED <<fans, awaits, children>> /\ todo' = Done
            /\ rekick.phase = "tasks"
        BY <1>0, <2>1, <2>4 DEF RekickTask
      <3>2. \A x \in rekick.left : Active(x)
        BY Zenon, <1>1, <2>1, <3>1 DEF RekickOK
      <3>3. OneLocus' /\ Window'
        BY Zenon, <1>0, <1>1, <2>1, <3>1, <3>2, LocusRescheduled
      <3>4. \A x \in Keys : Active(x) => Active(x)'
        BY Zenon, <1>0, <3>1, Scheduled DEF Active
      <3> QED
        BY Zenon, <1>0, <2>3, <3>1, <3>2, <3>3, <3>4 DEF RekickOK, RekickType
    <2>5. CASE RekickAwait
      <3>1. PICK m \in Nodes : m = NodeOf(k)
        BY Zenon, KeyFacts
      <3>2. OpenAwait(m) /\ rekick.phase = "awaits" /\ UNCHANGED <<tasks, fans, maps, children>>
        BY <2>1, <2>5, <3>1 DEF RekickAwait
      <3>3. \A x \in rekick.left : x = Plain(NodeOf(x)) /\ awaits[NodeOf(x)] # 0
        BY Zenon, <1>1, <2>1, <3>2 DEF RekickOK
      <3>4. kind = "await" /\ m = n /\ \A x \in rekick.left : x = Plain(n)
        <4>1. \A x \in Nodes : awaits[x] # 0 => kind = "await" /\ x = n
          BY Zenon, <1>2 DEF At
        <4>2. rekick.left \subseteq Keys
          BY Zenon, <1>0 DEF RekickType
        <4>3. \A x \in rekick.left : kind = "await" /\ NodeOf(x) = n /\ x = Plain(NodeOf(x))
          BY Zenon, <3>3, <4>1, <4>2, KeyFacts
        <4> QED
          BY Zenon, <2>1, <3>1, <4>3
      <3>5. rekick'.left = {}
        BY Zenon, <2>1, <2>3, <3>4
      <3>6. todo' = Call("consume", n) /\ \A x \in Nodes : awaits'[x] # 0 <=> awaits[x] # 0
        <4>1. todo' = Call("consume", n) /\ awaits' = [awaits EXCEPT ![n] = num + 1]
          BY Zenon, <3>2, <3>4 DEF OpenAwait
        <4>2. num + 1 # 0
          BY <1>0 DEF TypeOK
        <4>3. awaits[n] # 0 /\ DOMAIN awaits = Nodes
          BY Zenon, <1>0, <1>2, <3>4 DEF At, TypeOK
        <4> QED
          BY Zenon, <4>1, <4>2, <4>3
      <3>7. At("await", n)'
        BY Zenon, <1>2, <3>2, <3>4, <3>6 DEF At, Owned, Active, Running
      <3>8. TodoFits("await", n)'
        BY Zenon, <3>6 DEF TodoFits, Call
      <3>9. \A x \in Nodes : ~maps'[x].open
        BY Zenon, <1>2, <3>2, <3>4 DEF At
      <3> QED
        BY Zenon, <1>0, <1>1, <3>5, <3>7, <3>8, <3>9, ToKind DEF Kinds, RekickOK, Window
    <2>6. CASE RekickChild
      <3>1. /\ rekick.phase = "children" /\ UNCHANGED <<tasks, fans, awaits>>
            /\ \/ StartChild(k, children[k].owner) /\ todo' = Done
               \/ todo' = FailCall /\ UNCHANGED <<children, maps>>
        BY <2>1, <2>6 DEF RekickChild
      <3>2. \A x \in rekick.left : Running(x)
        BY Zenon, <1>1, <2>1, <3>1 DEF RekickOK
      <3>3. CASE StartChild(k, children[k].owner) /\ todo' = Done
        <4>1. Owned(k, children[k].owner, kind, n) /\ children[k].owner \in Maybe
          BY Zenon, <1>0, <1>2, <2>1, <3>2 DEF At, TypeOK, ChildType
        <4>2. children[k].owner = NodeOf(k) => ~maps[NodeOf(k)].open \/ k[2] <= maps[NodeOf(k)].next
          <5>1. \A x \in Nodes : maps[x].open <=> kind = "map" /\ x = n
            BY Zenon, <1>2 DEF At
          <5>2. NodeOf(k) \in Nodes /\ NodeOf(k) # None /\ maps[NodeOf(k)].next \in Nat
            BY Zenon, <1>0, KeyFacts, NodesAssumption DEF TypeOK, MapType
          <5> QED
            BY SMTT(150), <4>1, <5>1, <5>2 DEF Owned
        <4>3. maps' = maps
          BY Zenon, <1>0, <3>3, <4>1, <4>2, StartChildKeepsMaps
        <4>4. \A x \in Keys : (Running(x)' <=> Running(x)) /\ children'[x].owner = children[x].owner
          BY Zenon, <1>0, <2>1, <3>2, <3>3, ChildStarted DEF Running
        <4>5. OneLocus' /\ Window'
          BY Zenon, <1>0, <1>1, <3>1, <3>3, <4>3, <4>4, LocusKept DEF Active
        <4> QED
          BY Zenon, <1>0, <2>3, <3>1, <3>2, <3>3, <4>4, <4>5 DEF RekickOK, RekickType
      <3>4. CASE todo' = FailCall /\ UNCHANGED <<children, maps>>
        BY Zenon, <1>0, <1>1, <3>1, <3>4, LocusKept DEF Active, Running, RekickOK
      <3> QED
        BY Zenon, <3>1, <3>3, <3>4
    <2> QED
      BY Zenon, <1>4, <2>4, <2>5, <2>6
  <1> QED
    BY <1>3, <1>4 DEF Rekick

----------------------------------------------------------------------------
\* The initial state.

LEMMA LocusInit == Init => OneLocus /\ RekickOK /\ Window
  <1> SUFFICES ASSUME Init PROVE OneLocus /\ RekickOK /\ Window
    BY Zenon
  <1>1. Empty
    BY Zenon DEF Init, Empty, NoMap, Active, NoTask, Running
  <1>2. Idle /\ status # "open" /\ rekick.left = {}
    BY Zenon DEF Init, Idle, NoRekick
  <1> QED
    BY Zenon, <1>1, <1>2, NothingIsEmpty, EmptyWindow DEF OneLocus, RekickOK

\* The calls that leave the re-dispatch of a fork alone.
LEMMA RekickUntouched ==
    ASSUME RekickOK, rekick' = rekick, todo # FailCall, todo # Done \/ rekick = NoRekick
    PROVE  RekickOK'
  BY SMTT(150) DEF RekickOK, NoRekick

LEMMA EntersWindow ==
    ASSUME Counting, TypeInv, OneLocus, Window, NEW n \in Nodes,
           \/ EnterTask(n) \/ EnterChoice(n) \/ EnterFanout(n) \/ EnterAwait(n) \/ EnterMap(n) \/ EnterSubflow(n)
    PROVE  Window'
  <1>0. Empty /\ TypeOK /\ Plain(n) \in Keys /\ NodeOf(Plain(n)) = n /\ n # None
    <2>1. todo.op = "enter"
      <3>1. todo = Call("enter", n)
        BY Zenon DEF EnterTask, EnterChoice, EnterFanout, EnterAwait, EnterMap, EnterSubflow, Enter
      <3> QED
        BY Zenon, <3>1 DEF Call
    <2> QED
      BY Zenon, <2>1, EnterIsEmpty, KeyFacts, NodesAssumption DEF TypeInv
  <1>1. ASSUME UNCHANGED maps
        PROVE  Window'
    BY Zenon, <1>0, <1>1 DEF Empty, Window
  <1>2. CASE EnterTask(n)
    BY Zenon, <1>0, <1>1, <1>2, ScheduleKeepsMaps DEF EnterTask, Maybe
  <1>3. CASE EnterChoice(n) \/ EnterFanout(n) \/ EnterAwait(n)
    BY Zenon, <1>1, <1>3 DEF EnterChoice, EnterFanout, EnterAwait, flight
  <1>4. CASE EnterSubflow(n)
    BY Zenon, <1>0, <1>1, <1>4, StartChildKeepsMaps DEF EnterSubflow, Maybe
  <1>5. CASE EnterMap(n)
    <2>1. ASSUME NEW len \in 0 .. MaxItems,
                 maps' = [maps EXCEPT ![n] = [open |-> TRUE, len |-> len, next |-> 0, done |-> 0]],
                 todo' = Call("mapProgress", n), UNCHANGED <<tasks, children>>
          PROVE  Window'
      <3>1. maps'[n] = [open |-> TRUE, len |-> len, next |-> 0, done |-> 0] /\ \A m \in Nodes : m # n => ~maps'[m].open
        BY Zenon, <1>0, <2>1 DEF TypeOK, Empty
      <3>2. Items(n)' = {}
        <4>1. \A i \in 1 .. MaxItems : <<n, i>> \in Keys
          <5>1. \A i \in 1 .. MaxItems : i \in 0 .. MaxItems
            BY SMT, FoldAssumption
          <5> QED
            BY Zenon, <5>1, KeyFacts
        <4> QED
          BY Zenon, <1>0, <2>1, <4>1 DEF Items, Empty, Active, Running
      <3>3. Cardinality(Items(n)') = 0 /\ MapLimit(n) > 0 /\ MapLimit(n) \in Nat
        BY Zenon, <3>2, EmptyCount, MapLimitIsPositive
      <3>4. todo'.op = "mapProgress"
        BY Zenon, <2>1 DEF Call
      <3>5. maps'[n].len = len /\ maps'[n].next = 0 /\ maps'[n].done = 0
        BY SMTT(60), <3>1
      <3>6. todo'.op # "idle" /\ 0 <= len /\ 0 = 0 - 0 /\ 0 <= MapLimit(n)
        BY SMT, <3>3, <3>4, FoldAssumption
      <3>7. ASSUME NEW m \in Nodes, maps'[m].open PROVE m = n
        BY Zenon, <3>1, <3>7
      <3> QED
        BY Zenon, <3>3, <3>5, <3>6, <3>7 DEF Window
    <2> QED
      BY Zenon, <1>1, <1>5, <2>1 DEF EnterMap
  <1> QED
    BY <1>2, <1>3, <1>4, <1>5

LEMMA LocusCalls ==
    ASSUME Counting, LInv, Calls
    PROVE  OneLocus' /\ RekickOK' /\ Window'
  <1>0. TypeInv /\ OneLocus /\ RekickOK /\ Window
    BY DEF LInv
  <1>1. CASE Fail
    BY <1>1, LocusTerminate DEF Fail, Terminal
  <1>2. CASE CompleteExecution /\ Terminate("completed")
    BY <1>2, LocusTerminate DEF Terminal
  <1>3. CASE /\ CompleteExecution \/ EnterTooDeep
             /\ todo' = FailCall /\ UNCHANGED <<status, flight, num, steps, counters, memory, rekick, inherited, exec, outside>>
    <2>1. OneLocus' /\ todo.op \in {"complete", "enter"}
      BY Zenon, <1>0, <1>3, LocusEnds DEF CompleteExecution, EnterTooDeep
    <2>2. Empty /\ maps' = maps /\ rekick' = rekick
      BY Zenon, <1>0, <1>3, <2>1, EnterIsEmpty DEF flight
    <2>3. Window'
      BY Zenon, <2>2 DEF Empty, Window
    <2> QED
      BY Zenon, <1>0, <2>1, <2>2, <2>3, RekickUntouched, SomeCalls
  <1>4. ASSUME NEW n \in Nodes,
               \/ EnterTask(n) \/ EnterChoice(n) \/ EnterFanout(n) \/ EnterAwait(n) \/ EnterMap(n) \/ EnterSubflow(n)
        PROVE  OneLocus' /\ RekickOK' /\ Window'
    <2>1. todo.op = "enter" /\ rekick' = rekick
      <3>1. rekick' = rekick /\ todo = Call("enter", n)
        BY Zenon, <1>4 DEF EnterTask, EnterChoice, EnterFanout, EnterAwait, EnterMap, EnterSubflow, Enter
      <3> QED
        BY Zenon, <3>1 DEF Call
    <2> QED
      BY Zenon, <1>0, <1>4, <2>1, LocusEnter, EntersWindow, RekickUntouched, SomeCalls
  <1>5. ASSUME NEW n \in Nodes, StartBranch(n) \/ JoinWaits(n) \/ CloseJoin(n) \/ Consume(n)
        PROVE  OneLocus' /\ RekickOK' /\ Window'
    <2>1. todo.op \in {"branch", "evalJoin", "consume"} /\ rekick' = rekick
      BY SMTT(40), <1>5 DEF StartBranch, JoinWaits, CloseJoin, Consume, Call
    <2>2. OneLocus'
      BY Zenon, <1>0, <1>5, LocusStartBranch, LocusJoin, LocusConsume
    <2>3. \A m \in Nodes : ~maps[m].open
      <3>1. status = "open"
        BY <1>0, <2>1, BusyIsOpen, SomeCalls
      <3> QED
        BY <1>0, <2>1, <3>1, TheLocus DEF TodoFits, At
    <2>4. maps' = maps
      <3>1. ASSUME NEW k, NEW o \in Nodes, maps' = MapNext(k, o)
            PROVE  maps' = maps
        BY <2>3, <3>1 DEF MapNext
      <3> QED
        BY Zenon, <1>5, <3>1 DEF StartBranch, JoinWaits, CloseJoin, Consume, flight, Schedule, StartChild
    <2>5. Window'
      BY Zenon, <2>3, <2>4 DEF Window
    <2> QED
      BY <1>0, <2>1, <2>2, <2>5, RekickUntouched, SomeCalls
  <1>6. ASSUME NEW n \in Nodes, MapCompletes(n) \/ MapStartsItem(n) \/ MapWaits(n) \/ AbortMap(n)
        PROVE  OneLocus' /\ RekickOK' /\ Window'
    <2>1. todo.op \in {"mapProgress", "abortMap"} /\ rekick' = rekick
      <3>1. rekick' = rekick /\ (todo = Call("mapProgress", n) \/ todo = Call("abortMap", n))
        BY Zenon, <1>6 DEF MapCompletes, MapStartsItem, MapWaits, AbortMap
      <3> QED
        BY SMT, <3>1 DEF Call
    <2> QED
      BY Zenon, <1>0, <1>6, <2>1, LocusMapEnds, LocusMapGoesOn, RekickUntouched, SomeCalls
  <1>7. CompleteExecution => \/ Terminate("completed")
                             \/ /\ todo' = FailCall
                                /\ UNCHANGED <<status, flight, num, steps, counters, memory, rekick, inherited, exec, outside>>
    BY Zenon DEF CompleteExecution
  <1>8. EnterTooDeep => todo' = FailCall /\ UNCHANGED <<status, flight, num, steps, counters, memory, rekick, inherited, exec, outside>>
    BY Zenon DEF EnterTooDeep
  <1> QED
    BY Zenon, <1>1, <1>2, <1>3, <1>4, <1>5, <1>6, <1>7, <1>8 DEF Calls

LEMMA LocusStep ==
    ASSUME Counting
    PROVE  LInv /\ [Next]_vars => LInv'
  <1> SUFFICES ASSUME LInv, [Next]_vars PROVE LInv'
    OBVIOUS
  <1>0. TypeInv /\ OneLocus /\ RekickOK /\ Window /\ TypeInv'
    BY TypeStep DEF LInv
  <1>1. CASE Start
    BY <1>0, <1>1, LocusStart DEF LInv
  <1>2. CASE Calls
    BY <1>0, <1>2, LocusCalls DEF LInv
  <1>3. CASE Rekick
    BY <1>0, <1>3, LocusRekick DEF LInv
  <1>4. ASSUME Ready, rekick' = rekick, OneLocus', Window'
        PROVE  LInv'
    BY Zenon, <1>0, <1>4, ReadyLocus, RekickUntouched, SomeCalls DEF LInv
  <1>5. CASE Results \/ ChildResults
    <2>1. Results => Ready /\ rekick' = rekick
      <3>1. \A j, u, dyn : Complete(j, u, dyn) => Ready /\ rekick' = rekick
        BY Zenon DEF Complete
      <3>2. \A j, u, retryable : FailTask(j, u, retryable) => Ready /\ rekick' = rekick
        BY Zenon DEF FailTask, TaskFailed
      <3> QED
        BY Zenon, <3>1, <3>2 DEF Results
    <2>2. ChildResults => Ready /\ rekick' = rekick
      BY DEF ChildResults, ChildDone
    <2> QED
      BY <1>0, <1>4, <1>5, <2>1, <2>2, LocusResults
  <1>6. CASE Timer
    <2>1. PICK t \in timers : ObsoleteTimer(t) \/ RetryTimer(t) \/ TimeoutTimer(t) \/ AwaitTimer(t)
      BY <1>6 DEF Timer
    <2>2. Ready /\ rekick' = rekick
      BY Zenon, <2>1 DEF ObsoleteTimer, RetryTimer, TimeoutTimer, AwaitTimer, TaskFailed
    <2> QED
      BY Zenon, <1>0, <1>4, <2>1, <2>2, LocusTimer
  <1>7. CASE Requests
    <2>1. ASSUME NEW j, NEW u, NEW k, NEW name, NEW id,
                 (j \in jobs /\ Interrupt(j, u)) \/ (k \in Keys /\ Resume(k)) \/ Signal(name, id) \/ Update(id)
          PROVE  LInv'
      <3>1. Ready /\ rekick' = rekick
        BY Zenon, <2>1 DEF Interrupt, Resume, Signal, Update
      <3> QED
        BY Zenon, <1>0, <1>4, <2>1, <3>1, LocusRequests
    <2>2. CASE Cancel \/ Abort
      BY Zenon, <1>0, <2>2, LocusTerminate DEF Cancel, Abort, Terminal, LInv
    <2>3. CASE Fork
      BY <1>0, <2>3, LocusFork DEF LInv
    <2> QED
      BY Zenon, <1>7, <2>1, <2>2, <2>3 DEF Requests
  <1>8. CASE UNCHANGED vars
    <2>1. OneLocus'
      <3>1. UNCHANGED <<status, todo, rekick, tasks, fans, maps, awaits, children>>
        BY Zenon, <1>8 DEF vars, flight
      <3>2. ASSUME NEW kind, NEW n PROVE At(kind, n)' <=> At(kind, n)
        <4>1. \A k : (Active(k)' <=> Active(k)) /\ (Running(k)' <=> Running(k))
          BY Zenon, <3>1 DEF Active, Running
        <4> QED
          BY ZenonT(60), <3>1, <4>1 DEF At, Owned
      <3>3. \A kind, n : TodoFits(kind, n)' <=> TodoFits(kind, n)
        BY Zenon, <3>1 DEF TodoFits
      <3> QED
        BY Zenon, <1>0, <3>1, <3>2, <3>3 DEF OneLocus, Idle
    <2>2. RekickOK'
      BY Zenon, <1>0, <1>8 DEF vars, flight, RekickOK, Active, Running
    <2>3. Window'
      BY Zenon, <1>0, <1>8 DEF vars, flight, Window, Items, Active, Running
    <2> QED
      BY <1>0, <2>1, <2>2, <2>3 DEF LInv
  <1> QED
    BY <1>1, <1>2, <1>3, <1>5, <1>6, <1>7, <1>8 DEF Next

=============================================================================
