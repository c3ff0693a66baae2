--------------------------- MODULE FoldWorkProofs ---------------------------
(***************************************************************************)
(* What is in flight: the timers of what waits (Timed), the branches of a  *)
(* fan-out (Tracks), and the signals an await is waiting for (NoneMissed). *)
(*                                                                         *)
(* Each section states the strengthening its property needs (about states  *)
(* in the middle of a decision too) and proves that steps preserve it,     *)
(* relative to LInv, the invariant of one thread of control.               *)
(***************************************************************************)
EXTENDS FoldProofs

\* Timers: what waits for a retry or a deadline has the timer that ends it.

KeepsTimers ==
    /\ rekick' = rekick /\ timers \subseteq timers'
    /\ \A k \in Keys : tasks'[k].status = "retrying" => tasks'[k] = tasks[k]
    /\ \A n \in Nodes : awaits'[n] # 0 => awaits'[n] = awaits[n]

LEMMA TimedKept ==
    ASSUME Timed, KeepsTimers
    PROVE  Timed'
  <1>1. \A k \in Keys : tasks'[k].status = "retrying" /\ RetryTimed(k) => RetryTimed(k)'
    BY Zenon DEF KeepsTimers, RetryTimed
  <1>2. \A n \in Nodes : awaits'[n] # 0 /\ AwaitTimed(n) => AwaitTimed(n)'
    BY Zenon DEF KeepsTimers, AwaitTimed
  <1> QED
    BY Zenon, <1>1, <1>2 DEF KeepsTimers, Timed

LEMMA NoneWaits ==
    ASSUME \A k \in Keys : tasks'[k].status # "retrying", \A n \in Nodes : awaits'[n] = 0
    PROVE  Timed'
  BY Zenon DEF Timed

\* Nothing in flight needs no timer.
LEMMA EmptyIsTimed == Empty' => Timed'
  <1> SUFFICES ASSUME Empty' PROVE Timed'
    BY Zenon
  <1>1. \A k \in Keys : tasks'[k].status = "none"
    BY Zenon DEF Empty, Active
  <1>2. \A n \in Nodes : awaits'[n] = 0
    BY Zenon DEF Empty
  <1> QED
    BY <1>1, <1>2, NoneWaits

LEMMA NoTaskStatus == NoTask.status = "none" /\ NoTask.owner = None
  BY Zenon DEF NoTask

LEMMA TerminateIsTimed ==
    ASSUME NEW s, Terminate(s)
    PROVE  Timed'
  <1>1. \A k \in Keys : tasks'[k].status = "none"
    BY Zenon, NoTaskStatus DEF Terminate
  <1>2. \A n \in Nodes : awaits'[n] = 0
    BY Zenon DEF Terminate
  <1> QED
    BY <1>1, <1>2, NoneWaits

\* A schedule that keeps the timers of the others.
LEMMA ScheduleTimed ==
    ASSUME TypeOK, Timed, NEW k \in Keys, NEW owner, NEW gen \in Nat, NEW attempt \in Nat,
           Schedule(k, owner, gen, attempt, timers), rekick' = rekick, awaits' = awaits
    PROVE  KeepsTimers
  <1>1. PICK g \in Nat : Added(k, owner, gen, attempt, timers, g)
    BY Zenon, ScheduleAdds
  <1>2. tasks'[k].status = "scheduled" /\ (\A x \in Keys : x # k => tasks'[x] = tasks[x]) /\ timers \subseteq timers'
    BY Zenon, <1>1 DEF Added
  <1> QED
    BY <1>2 DEF KeepsTimers

LEMMA SettleKeeps ==
    ASSUME TypeOK, NEW k \in Keys, NEW outcome, Settle(k, outcome)
    PROVE  \A x \in Keys : tasks'[x].status = "retrying" => tasks'[x] = tasks[x]
  <1>1. tasks'[k] = NoTask /\ \A x \in Keys : x # k => tasks'[x] = tasks[x]
    BY Zenon DEF TypeOK, Settle
  <1> QED
    BY <1>1, NoTaskStatus

LEMMA OpenAwaitTimed ==
    ASSUME TypeOK, NEW n \in Nodes, OpenAwait(n)
    PROVE  AwaitTimed(n)' /\ timers \subseteq timers' /\ \A m \in Nodes : m # n => awaits'[m] = awaits[m]
  <1>1. PICK t : /\ timers' = timers \cup {t} /\ t.id = num + 1 /\ t.purpose = "await" /\ t.key = Plain(n)
                 /\ awaits' = [awaits EXCEPT ![n] = num + 1] /\ num' = num + 1
                 /\ todo' = Call("consume", n)
    BY Zenon, AwaitAdds
  <1>2. awaits'[n] = num + 1 /\ \A m \in Nodes : m # n => awaits'[m] = awaits[m]
    BY Zenon, <1>1 DEF TypeOK
  <1> QED
    BY Zenon, <1>1, <1>2 DEF AwaitTimed

LEMMA TimedCalls ==
    ASSUME LInv, Timed, Calls
    PROVE  Timed'
  <1>0. TypeInv /\ TypeOK /\ OneLocus /\ 0 \in Nat /\ 1 \in Nat
    BY Zenon, ZeroAndOne DEF LInv, TypeInv
  <1>1. CASE Fail \/ CompleteExecution \/ EnterTooDeep
    BY Zenon, <1>1, TerminateIsTimed, TimedKept DEF Fail, CompleteExecution, EnterTooDeep, KeepsTimers, flight
  <1>2. ASSUME NEW n \in Nodes, EnterTask(n)
        PROVE  Timed'
    BY Zenon, <1>0, <1>2, KeyFacts, ScheduleTimed, TimedKept DEF EnterTask, Enter
  <1>3. ASSUME NEW n \in Nodes, EnterChoice(n) \/ EnterFanout(n) \/ EnterMap(n) \/ EnterSubflow(n)
        PROVE  Timed'
    <2>1. KeepsTimers
      BY Zenon, <1>3 DEF EnterChoice, EnterFanout, EnterMap, EnterSubflow, Enter, KeepsTimers, flight
    <2> QED
      BY Zenon, <2>1, TimedKept
  <1>4. ASSUME NEW n \in Nodes, EnterAwait(n)
        PROVE  Timed'
    <2>1. Empty
      <3>1. todo.op = "enter"
        BY Zenon, <1>4, FailIsNotOther DEF EnterAwait, Enter
      <3> QED
        BY Zenon, <1>0, <3>1, EnterIsEmpty
    <2>2. OpenAwait(n) /\ tasks' = tasks
      BY Zenon, <1>4 DEF EnterAwait
    <2>3. AwaitTimed(n)' /\ \A m \in Nodes : m # n => awaits'[m] = 0
      BY Zenon, <1>0, <2>1, <2>2, OpenAwaitTimed DEF Empty
    <2>4. \A k \in Keys : tasks'[k].status = "none"
      BY Zenon, <2>1, <2>2 DEF Empty, Active
    <2> QED
      BY <2>3, <2>4 DEF Timed
  <1>5. ASSUME NEW f \in Nodes, StartBranch(f)
        PROVE  Timed'
    <2>1. Plain(Flow.branches[f][todo.i]) \in Keys
      <3>1. /\ f \in Fanouts /\ todo.i \in DOMAIN Flow.branches[f] /\ Flow.branches[f] \in Seq(Nodes)
        BY Zenon, <1>0, <1>5, FanFields DEF TypeInv, TodoOK, StartBranch
      <3>2. Flow.branches[f][todo.i] \in Nodes
        BY <3>1
      <3> QED
        BY Zenon, <3>2, KeyFacts
    <2>2. rekick' = rekick /\ awaits' = awaits
      BY Zenon, <1>5 DEF StartBranch
    <2>3. CASE Schedule(Plain(Flow.branches[f][todo.i]), f, 0, 1, timers)
      BY Zenon, <1>0, <2>1, <2>2, <2>3, ScheduleTimed, TimedKept
    <2>4. CASE tasks' = tasks /\ timers' = timers
      BY Zenon, <2>2, <2>4, TimedKept DEF KeepsTimers
    <2> QED
      BY Zenon, <1>5, <2>3, <2>4 DEF StartBranch
  <1>6. ASSUME NEW n \in Nodes, JoinWaits(n) \/ MapCompletes(n) \/ MapWaits(n)
        PROVE  Timed'
    BY Zenon, <1>6, TimedKept DEF JoinWaits, MapCompletes, MapWaits, KeepsTimers, flight
  <1>7. ASSUME NEW n \in Nodes, CloseJoin(n) \/ AbortMap(n)
        PROVE  Timed'
    <2>1. tasks' = DropTasks(n) /\ timers' = timers /\ rekick' = rekick /\ awaits' = awaits
      BY Zenon, <1>7 DEF CloseJoin, AbortMap
    <2>2. \A x \in Keys : tasks'[x] = NoTask \/ tasks'[x] = tasks[x]
      BY Zenon, <2>1 DEF DropTasks
    <2>3. \A x \in Keys : tasks'[x].status = "retrying" => tasks'[x] = tasks[x]
      BY <2>2, NoTaskStatus
    <2> QED
      BY Zenon, <2>1, <2>3, TimedKept DEF KeepsTimers
  <1>8. ASSUME NEW n \in Nodes, Consume(n)
        PROVE  Timed'
    <2>1. CASE UNCHANGED <<awaits, timers>>
      BY Zenon, <1>8, <2>1, TimedKept DEF Consume, KeepsTimers
    <2>2. CASE awaits' = [awaits EXCEPT ![n] = 0]
      <3>1. todo.op = "consume" /\ todo.node = n
        BY Zenon, <1>8, FailIsNotOther DEF Consume
      <3>2. status = "open"
        BY <1>0, <3>1, BusyIsOpen, SomeCalls
      <3>3. At("await", n)
        BY Zenon, <1>0, <3>1, <3>2, TheLocus DEF TodoFits
      <3>4. \A k \in Keys : ~Active(k)
        BY Zenon, <3>3 DEF At, Owned
      <3>5. tasks' = tasks
        BY Zenon, <1>8 DEF Consume
      <3>6. \A m \in Nodes : awaits'[m] = 0
        BY Zenon, <1>0, <2>2, <3>3 DEF At, TypeOK
      <3>7. \A k \in Keys : tasks'[k].status = "none"
        BY Zenon, <3>4, <3>5 DEF Active
      <3> QED
        BY <3>6, <3>7, NoneWaits
    <2> QED
      BY Zenon, <1>8, <2>1, <2>2 DEF Consume
  <1>9. ASSUME NEW n \in Nodes, MapStartsItem(n)
        PROVE  Timed'
    <2>1. <<n, maps[n].next + 1>> \in Keys
      <3>1. maps[n].next < maps[n].len /\ maps[n] \in MapType
        BY Zenon, <1>0, <1>9 DEF MapStartsItem, HasRoom, TypeOK
      <3>2. maps[n].next + 1 \in 0 .. MaxItems
        BY <3>1, FoldAssumption DEF MapType
      <3> QED
        BY Zenon, <3>2, KeyFacts
    <2>2. rekick' = rekick /\ awaits' = awaits
      BY Zenon, <1>9 DEF MapStartsItem
    <2>3. CASE Schedule(<<n, maps[n].next + 1>>, n, 0, 1, timers)
      BY Zenon, <1>0, <2>1, <2>2, <2>3, ScheduleTimed, TimedKept
    <2>4. CASE tasks' = tasks /\ timers' = timers
      BY Zenon, <2>2, <2>4, TimedKept DEF KeepsTimers
    <2> QED
      BY Zenon, <1>9, <2>3, <2>4 DEF MapStartsItem
  <1> QED
    BY Zenon, <1>1, <1>2, <1>3, <1>4, <1>5, <1>6, <1>7, <1>8, <1>9 DEF Calls

LEMMA FailureIsTimed ==
    ASSUME TypeInv, Timed, NEW k \in Keys, NEW retryable, NEW u, NEW live, TaskFailed(k, retryable, u, live),
           live \subseteq timers, \A t \in timers : t.purpose # "timeout" => t \in live
    PROVE  Timed'
  <1> DEFINE willRetry == retryable /\ MayRetry(tasks[k].attempt, NodeOf(k)) /\ ~OverBudget(AddUsage(u))
             retry == [id |-> num + 1, purpose |-> "retry", key |-> k, gen |-> tasks[k].gen, attempt |-> tasks[k].attempt + 1]
  <1>0. TypeOK /\ tasks[k] \in TaskType
    BY Zenon DEF TypeInv, TypeOK
  <1>1. rekick' = rekick /\ awaits' = awaits
    BY Zenon DEF TaskFailed
  <1>2. \A t \in timers : t.purpose # "timeout" => t \in timers'
    BY Zenon DEF TaskFailed
  <1>3. \A x \in Keys : tasks'[x].status = "retrying" => RetryTimed(x)' \/ tasks'[x] = tasks[x]
    <2>1. CASE willRetry
      <3>1. tasks' = [tasks EXCEPT ![k].status = "retrying"] /\ timers' = live \cup {retry}
        BY Zenon, <2>1 DEF TaskFailed
      <3>2. /\ tasks'[k].gen = tasks[k].gen /\ tasks'[k].attempt = tasks[k].attempt
            /\ \A x \in Keys : x # k => tasks'[x] = tasks[x]
        BY Zenon, <1>0, <3>1 DEF TypeOK, TaskType
      <3>3. retry.purpose = "retry" /\ retry.key = k /\ retry.gen = tasks[k].gen /\ retry.attempt = tasks[k].attempt + 1
        BY Zenon
      <3> HIDE DEF retry
      <3>4. RetryTimed(k)'
        BY Zenon, <3>1, <3>2, <3>3 DEF RetryTimed
      <3> QED
        BY Zenon, <3>2, <3>4
    <2>2. CASE ~willRetry
      BY Zenon, <1>0, <2>2, SettleKeeps DEF TaskFailed
    <2> QED
      BY Zenon, <2>1, <2>2
  <1>4. \A x \in Keys : tasks'[x] = tasks[x] /\ RetryTimed(x) => RetryTimed(x)'
    <2> SUFFICES ASSUME NEW x \in Keys, tasks'[x] = tasks[x], RetryTimed(x) PROVE RetryTimed(x)'
      BY Zenon
    <2>1. PICK t \in timers : t.purpose = "retry" /\ t.key = x /\ t.gen = tasks[x].gen /\ t.attempt = tasks[x].attempt + 1
      BY Zenon DEF RetryTimed
    <2>2. t \in timers'
      BY <1>2, <2>1
    <2> QED
      BY Zenon, <2>1, <2>2 DEF RetryTimed
  <1>5. \A n \in Nodes : AwaitTimed(n) => AwaitTimed(n)'
    <2> SUFFICES ASSUME NEW n \in Nodes, AwaitTimed(n) PROVE AwaitTimed(n)'
      BY Zenon
    <2>1. PICK t \in timers : t.purpose = "await" /\ t.key = Plain(n) /\ t.id = awaits[n]
      BY Zenon DEF AwaitTimed
    <2>2. t \in timers'
      BY <1>2, <2>1
    <2> QED
      BY Zenon, <1>1, <2>1, <2>2 DEF AwaitTimed
  <1> QED
    BY Zenon, <1>1, <1>3, <1>4, <1>5 DEF Timed

\* Between decisions nothing is left to renew.
LEMMA ReadyTimed ==
    ASSUME Timed, Ready
    PROVE  RetryHasTimer /\ AwaitHasTimer
  <1>1. rekick.phase = "no"
    BY Zenon DEF Ready, Idle, NoRekick
  <1> QED
    BY <1>1 DEF Timed, RetryHasTimer, AwaitHasTimer

LEMMA TimedTimer ==
    ASSUME TypeInv, Timed, NEW t \in timers, ObsoleteTimer(t) \/ RetryTimer(t) \/ TimeoutTimer(t) \/ AwaitTimer(t)
    PROVE  Timed'
  <1>0. TypeOK /\ t.key \in Keys /\ t.attempt \in Nat /\ tasks[t.key].attempt \in Nat
    BY Zenon DEF TypeInv, TypeOK, TimerType, TaskType
  <1>1. RetryHasTimer /\ AwaitHasTimer
    BY Zenon, ReadyTimed DEF ObsoleteTimer, RetryTimer, TimeoutTimer, AwaitTimer
  <1>2. CASE TimeoutTimer(t)
    <2>1. t.purpose = "timeout" /\ TaskFailed(t.key, TRUE, [x \in Counters |-> 0], timers \ {t})
      BY Zenon, <1>2 DEF TimeoutTimer
    <2> QED
      <3>1. timers \ {t} \subseteq timers /\ \A x \in timers : x.purpose # "timeout" => x \in timers \ {t}
        BY Zenon, <2>1
      <3> QED
        BY Zenon, <1>0, <2>1, <3>1, FailureIsTimed
  <1>3. \A n : NodeOf(Plain(n)) = n
    BY DEF NodeOf, Plain
  <1>4. ASSUME \A x \in timers : x = t \/ x \in timers',
               \A k \in Keys : tasks'[k].status = "retrying" => tasks'[k] = tasks[k],
               \A n \in Nodes : awaits'[n] # 0 => awaits'[n] = awaits[n],
               t.purpose = "retry" /\ tasks[t.key].gen = t.gen /\ t.attempt = tasks[t.key].attempt + 1
                  => tasks'[t.key].status # "retrying",
               t.purpose = "await" => awaits'[NodeOf(t.key)] # t.id
        PROVE  Timed'
    <2>1. ASSUME NEW k \in Keys, tasks'[k].status = "retrying" PROVE RetryTimed(k)'
      <3>1. PICK x \in timers : x.purpose = "retry" /\ x.key = k /\ x.gen = tasks[k].gen /\ x.attempt = tasks[k].attempt + 1
        BY Zenon, <1>1, <1>4, <2>1 DEF RetryHasTimer, RetryTimed
      <3>2. x # t
        BY Zenon, <1>4, <2>1, <3>1
      <3> QED
        BY Zenon, <1>4, <2>1, <3>1, <3>2 DEF RetryTimed
    <2>2. ASSUME NEW n \in Nodes, awaits'[n] # 0 PROVE AwaitTimed(n)'
      <3>1. PICK x \in timers : x.purpose = "await" /\ x.key = Plain(n) /\ x.id = awaits[n]
        BY Zenon, <1>1, <1>4, <2>2 DEF AwaitHasTimer, AwaitTimed
      <3>2. x # t
        BY Zenon, <1>3, <1>4, <2>2, <3>1
      <3> QED
        BY Zenon, <1>4, <2>2, <3>1, <3>2 DEF AwaitTimed
    <2> QED
      BY Zenon, <2>1, <2>2 DEF Timed
  <1>5. CASE ObsoleteTimer(t)
    <2>1. timers' = timers \ {t} /\ tasks' = tasks /\ awaits' = awaits /\ Obsolete(t)
      BY Zenon, <1>5 DEF ObsoleteTimer
    <2>2. t.purpose = "await" => awaits[NodeOf(t.key)] # t.id
      BY <2>1 DEF Obsolete
    <2>3. t.purpose = "retry" => ~(/\ tasks[t.key].gen = t.gen /\ tasks[t.key].status = "retrying"
                                   /\ tasks[t.key].attempt = t.attempt - 1)
      BY <2>1 DEF Obsolete
    <2>4. t.attempt = tasks[t.key].attempt + 1 => tasks[t.key].attempt = t.attempt - 1
      BY <1>0
    <2> QED
      BY Zenon, <1>4, <2>1, <2>2, <2>3, <2>4
  <1>6. CASE RetryTimer(t)
    <2>1. PICK g \in Nat : Added(t.key, tasks[t.key].owner, t.gen, t.attempt, timers \ {t}, g)
      BY Zenon, <1>0, <1>6, RetryFacts, ScheduleAdds
    <2>2. /\ tasks'[t.key].status = "scheduled" /\ \A x \in Keys : x # t.key => tasks'[x] = tasks[x]
          /\ timers \ {t} \subseteq timers'
      BY Zenon, <2>1 DEF Added
    <2>3. awaits' = awaits /\ t.purpose = "retry"
      BY Zenon, <1>6 DEF RetryTimer
    <2>4. \A k \in Keys : tasks'[k].status = "retrying" => tasks'[k] = tasks[k]
      BY <2>2
    <2>5. t.purpose # "await" /\ tasks'[t.key].status # "retrying"
      BY <2>2, <2>3
    <2> QED
      BY Zenon, <1>4, <2>2, <2>3, <2>4, <2>5
  <1>7. CASE AwaitTimer(t)
    <2>1. PICK m \in Nodes : m = NodeOf(t.key)
      BY Zenon, <1>0, KeyFacts
    <2>2. /\ timers' = timers \ {t} /\ tasks' = tasks /\ awaits' = [awaits EXCEPT ![m] = 0]
          /\ t.purpose = "await"
      BY Zenon, <1>7, <2>1 DEF AwaitTimer
    <2>3. awaits'[m] = 0 /\ \A n \in Nodes : awaits'[n] # 0 => awaits'[n] = awaits[n]
      BY Zenon, <1>0, <2>2 DEF TypeOK
    <2>4. t.id # 0
      BY <1>0 DEF TypeOK, TimerType
    <2>5. t.purpose # "retry"
      BY <2>2
    <2> QED
      BY Zenon, <1>4, <2>1, <2>2, <2>3, <2>4, <2>5
  <1> QED
    BY Zenon, <1>2, <1>5, <1>6, <1>7

LEMMA TimedRekick ==
    ASSUME LInv, Timed, Rekick
    PROVE  Timed'
  <1>0. todo = Done /\ rekick.phase # "no" /\ TypeOK /\ rekick \in RekickType /\ RekickOK
    BY Zenon DEF Rekick, RekickTask, RekickAwait, RekickChild, RekickNext, LInv, TypeInv, TypeOK
  <1>1. todo # FailCall
    BY Zenon, <1>0, FailIsNotOther
  <1>2. CASE RekickNext
    <2>1. UNCHANGED <<tasks, awaits, timers>> /\ rekick.left = {}
      BY Zenon, <1>2 DEF RekickNext, flight
    <2>2. \A k \in Keys : RetryTimed(k) => RetryTimed(k)'
      BY Zenon, <2>1 DEF RetryTimed
    <2>3. \A n \in Nodes : AwaitTimed(n) => AwaitTimed(n)'
      BY Zenon, <2>1 DEF AwaitTimed
    <2>4. \A k \in Keys : tasks'[k].status = "retrying" => RetryTimed(k)'
      BY Zenon, <2>1, <2>2 DEF Timed
    <2>5. \A n \in Nodes : awaits'[n] # 0 => AwaitTimed(n)' \/ (rekick'.phase = "awaits" /\ Plain(n) \in rekick'.left)
      <3>1. CASE rekick.phase = "tasks"
        <4>1. rekick' = [phase |-> "awaits", left |-> {Plain(m) : m \in {x \in Nodes : awaits[x] # 0}}]
          BY Zenon, <1>2, <3>1 DEF RekickNext
        <4> QED
          BY Zenon, <2>1, <4>1
      <3>2. CASE rekick.phase # "tasks"
        BY Zenon, <2>1, <2>3, <3>2 DEF Timed
      <3> QED
        BY Zenon, <3>1, <3>2
    <2> QED
      BY Zenon, <2>4, <2>5 DEF Timed
  <1>3. CASE RekickTask \/ RekickAwait \/ RekickChild
    <2>1. PICK k \in Keys : k \in rekick.left /\ k = CHOOSE x \in rekick.left : TRUE
      BY <1>0, <1>3 DEF RekickTask, RekickAwait, RekickChild, RekickType
    <2>2. rekick' = [rekick EXCEPT !.left = @ \ {k}]
      BY <1>3, <2>1 DEF RekickTask, RekickAwait, RekickChild
    <2>3. rekick'.phase = rekick.phase /\ rekick'.left = rekick.left \ {k}
      BY <1>0, <2>2 DEF RekickType
    <2>4. CASE RekickTask
      <3>1. Schedule(k, tasks[k].owner, 0, 1, timers) /\ awaits' = awaits /\ rekick.phase = "tasks"
        BY Zenon, <2>1, <2>4 DEF RekickTask
      <3>2. PICK g \in Nat : Added(k, tasks[k].owner, 0, 1, timers, g)
        BY Zenon, <1>0, <3>1, ScheduleAdds, ZeroAndOne
      <3>3. tasks'[k].status = "scheduled" /\ (\A x \in Keys : x # k => tasks'[x] = tasks[x]) /\ timers \subseteq timers'
        BY Zenon, <3>2 DEF Added
      <3>4. \A x \in Keys : x # k /\ RetryTimed(x) => RetryTimed(x)'
        BY Zenon, <3>3 DEF RetryTimed
      <3>5. \A x \in Keys : tasks'[x].status = "retrying" => x # k
        BY <3>3
      <3> QED
        BY Zenon, <2>3, <3>1, <3>3, <3>4, <3>5 DEF Timed
    <2>5. CASE RekickAwait
      <3>1. PICK m \in Nodes : m = NodeOf(k)
        BY Zenon, KeyFacts
      <3>2. OpenAwait(m) /\ rekick.phase = "awaits" /\ tasks' = tasks
        BY <2>1, <2>5, <3>1 DEF RekickAwait
      <3>3. k = Plain(m)
        BY <1>0, <1>1, <2>1, <3>1, <3>2 DEF RekickOK
      <3>4. AwaitTimed(m)' /\ timers \subseteq timers' /\ \A x \in Nodes : x # m => awaits'[x] = awaits[x]
        BY Zenon, <1>0, <3>2, OpenAwaitTimed
      <3>5. \A x \in Nodes : x # m /\ AwaitTimed(x) => AwaitTimed(x)'
        BY Zenon, <3>4 DEF AwaitTimed
      <3>6. \A x \in Keys : RetryTimed(x) => RetryTimed(x)'
        BY Zenon, <3>2, <3>4 DEF RetryTimed
      <3>7. \A x \in Nodes : x # m => Plain(x) # k
        BY <3>3 DEF Plain
      <3> QED
        BY Zenon, <2>3, <3>2, <3>4, <3>5, <3>6, <3>7 DEF Timed
    <2>6. CASE RekickChild
      <3>1. rekick.phase = "children" /\ UNCHANGED <<tasks, awaits, timers>>
        BY Zenon, <2>6 DEF RekickChild
      <3>2. \A x \in Keys : RetryTimed(x) => RetryTimed(x)'
        BY Zenon, <3>1 DEF RetryTimed
      <3>3. \A x \in Nodes : AwaitTimed(x) => AwaitTimed(x)'
        BY Zenon, <3>1 DEF AwaitTimed
      <3> QED
        BY <2>3, <3>1, <3>2, <3>3 DEF Timed
    <2> QED
      BY Zenon, <1>3, <2>4, <2>5, <2>6
  <1> QED
    BY Zenon, <1>2, <1>3 DEF Rekick

LEMMA TimedStep == LInv /\ Timed /\ [Next]_vars => Timed'
  <1> SUFFICES ASSUME LInv, Timed, [Next]_vars PROVE Timed'
    BY Zenon
  <1>0. TypeInv /\ TypeOK /\ OneLocus
    BY Zenon DEF LInv, TypeInv
  <1>1. CASE Start \/ (\E id \in UpdateIds : Update(id)) \/ (\E name \in SignalNames, id \in SignalIds : Signal(name, id))
    BY Zenon, <1>1, TimedKept DEF Start, Update, Signal, flight, KeepsTimers
  <1>2. CASE Results
    <2>1. ASSUME NEW j \in jobs, NEW u, NEW dyn, Complete(j, u, dyn)
          PROVE  Timed'
      <3>1. j.key \in Keys /\ Settle(j.key, "completed") /\ rekick' = rekick /\ timers' = timers /\ awaits' = awaits
        BY Zenon, <1>0, <2>1 DEF Complete, TypeOK, JobType
      <3> QED
        BY Zenon, <1>0, <3>1, SettleKeeps, TimedKept DEF KeepsTimers
    <2>2. ASSUME NEW j \in jobs, NEW u, NEW retryable, FailTask(j, u, retryable)
          PROVE  Timed'
      <3>1. j.key \in Keys
        BY Zenon, <1>0 DEF TypeOK, JobType
      <3> QED
        BY Zenon, <1>0, <2>2, <3>1, FailureIsTimed DEF FailTask
    <2> QED
      BY Zenon, <1>2, <2>1, <2>2 DEF Results
  <1>3. ASSUME NEW k, NEW c, NEW u, NEW ok, ChildDone(k, c, u, ok)
        PROVE  Timed'
    <2>1. UNCHANGED <<tasks, awaits, timers, rekick>>
      BY Zenon, <1>3 DEF ChildDone
    <2> QED
      BY Zenon, <2>1, TimedKept DEF KeepsTimers
  <1>4. ASSUME NEW j \in jobs, NEW u, Interrupt(j, u)
        PROVE  Timed'
    <2>1. j.key \in Keys /\ tasks' = [tasks EXCEPT ![j.key].status = "interrupted"] /\ UNCHANGED <<awaits, timers, rekick>>
      BY Zenon, <1>0, <1>4 DEF Interrupt, TypeOK, JobType
    <2>2. tasks'[j.key].status = "interrupted" /\ \A x \in Keys : x # j.key => tasks'[x] = tasks[x]
      BY Zenon, <1>0, <2>1 DEF TypeOK, TaskType
    <2>3. \A x \in Keys : tasks'[x].status = "retrying" => tasks'[x] = tasks[x]
      BY <2>2
    <2> QED
      BY Zenon, <2>1, <2>3, TimedKept DEF KeepsTimers
  <1>5. ASSUME NEW k \in Keys, Resume(k)
        PROVE  Timed'
    BY Zenon, <1>0, <1>5, ScheduleTimed, TimedKept, ZeroAndOne DEF Resume
  <1>6. CASE Fork
    <2>1. CASE status = "open"
      <3>1. rekick' = [phase |-> "tasks", left |-> Redispatched] /\ UNCHANGED <<tasks, awaits>>
        BY Zenon, <1>6, <2>1 DEF Fork, Terminal
      <3> QED
        BY Zenon, <3>1 DEF Timed, Redispatched
    <2>2. CASE status # "open"
      <3>1. Empty /\ UNCHANGED <<tasks, fans, maps, awaits, children>>
        BY Zenon, <1>0, <1>6, <2>2, NothingIsEmpty DEF OneLocus, Fork
      <3>2. Empty'
        BY Zenon, <3>1, StillEmpty DEF Still
      <3> QED
        BY Zenon, <3>2, EmptyIsTimed
    <2> QED
      BY Zenon, <2>1, <2>2
  <1>7. CASE Requests
    BY Zenon, <1>1, <1>4, <1>5, <1>6, <1>7, TerminateIsTimed DEF Requests, Cancel, Abort
  <1>8. CASE UNCHANGED vars
    BY Zenon, <1>8, TimedKept DEF vars, flight, KeepsTimers
  <1>9. CASE Calls \/ Rekick
    BY Zenon, <1>9, TimedCalls, TimedRekick
  <1>10. CASE Timer \/ ChildResults
    BY Zenon, <1>0, <1>3, <1>10, TimedTimer DEF Timer, ChildResults
  <1> QED
    BY Zenon, <1>1, <1>2, <1>7, <1>8, <1>9, <1>10 DEF Next

----------------------------------------------------------------------------
\* Fan-outs: the outcome table says what is in flight.

LEMMA WaitForFacts ==
    ASSUME NEW f \in Fanouts
    PROVE  WaitFor(f) \subseteq BranchesOf(f) /\ WaitFor(f) # {} /\ WaitFor(f) \subseteq Nodes
  <1>1. ValidFan(f) /\ BranchesOf(f) \subseteq Nodes /\ Flow.branches[f] # <<>> /\ Flow.branches[f] \in Seq(Nodes)
    BY Zenon, FanFields, FlowAssumption DEF ValidFlow
  <1>2. WaitFor(f) \subseteq BranchesOf(f)
    BY Zenon, <1>1 DEF WaitFor, ValidFan
  <1>3. BranchesOf(f) # {}
    <2>1. 1 \in DOMAIN Flow.branches[f]
      BY <1>1
    <2> QED
      BY Zenon, <2>1 DEF BranchesOf
  <1>4. WaitFor(f) \subseteq Nodes
    BY Zenon, <1>1, <1>2
  <1> QED
    BY Zenon, <1>2, <1>3, <1>4 DEF WaitFor

LEMMA OutcomeCounts ==
    ASSUME Counting, NEW f \in Fanouts
    PROVE  /\ Cardinality(Succeeded(f)) \in Nat /\ Cardinality(Pending(f)) \in Nat
           /\ Pending(f) = {} => Cardinality(Pending(f)) = 0
           /\ Succeeded(f) = {} => Cardinality(Succeeded(f)) = 0
           /\ Cardinality(WaitFor(f)) \in Nat /\ Cardinality(WaitFor(f)) # 0
  <1>1. Succeeded(f) \subseteq WaitFor(f) /\ Pending(f) \subseteq WaitFor(f)
    BY Zenon DEF Succeeded, Pending
  <1>2. Succeeded(f) \in SUBSET Nodes /\ Pending(f) \in SUBSET Nodes /\ WaitFor(f) \in SUBSET Nodes
    BY Zenon, <1>1, WaitForFacts
  <1> QED
    BY Zenon, <1>2, WaitForFacts DEF Counting

\* A join that is undecided waits for a branch.
LEMMA UndecidedWaits ==
    ASSUME Counting, NEW f \in Fanouts, JoinUndecided(f)
    PROVE  \E b \in WaitFor(f) : branch[b] = "pending"
  <1>1. Pending(f) # {}
    <2> SUFFICES ASSUME Pending(f) = {} PROVE FALSE
      BY Zenon
    <2>1. ~JoinMet(f) /\ Cardinality(Succeeded(f)) + Cardinality(Pending(f)) >= Need(f)
      BY Zenon DEF JoinUndecided
    <2>2. Cardinality(Succeeded(f)) \in Nat /\ Cardinality(Pending(f)) = 0
      BY Zenon, OutcomeCounts
    <2>3. Cardinality(Succeeded(f)) + Cardinality(Pending(f)) = Cardinality(Succeeded(f))
      BY <2>2
    <2> QED
      BY Zenon, <2>1, <2>3 DEF JoinMet
  <1> QED
    BY Zenon, <1>1 DEF Pending

\* While no branch has an outcome the join is undecided: it needs one success
\* at least, and no more than it waits for.
LEMMA FreshIsUndecided ==
    ASSUME Counting, NEW f \in Fanouts, \A b \in BranchesOf(f) : branch[b] = "pending"
    PROVE  JoinUndecided(f)
  <1>1. Succeeded(f) = {} /\ Pending(f) = WaitFor(f) /\ Pending(f) # {}
    <2>1. \A b \in WaitFor(f) : branch[b] = "pending"
      BY Zenon, WaitForFacts
    <2>2. Pending(f) = WaitFor(f)
      BY Zenon, <2>1 DEF Pending
    <2>3. Succeeded(f) = {}
      BY <2>1 DEF Succeeded
    <2> QED
      BY Zenon, <2>2, <2>3, WaitForFacts
  <1>2. CASE Flow.kind[JoinOf(f)] = "min"
    BY Zenon, <1>1, <1>2 DEF JoinUndecided
  <1>3. CASE Flow.kind[JoinOf(f)] # "min"
    <2>1. JoinOf(f) \in Joins /\ JoinOf(f) \in Nodes /\ Flow.kind[JoinOf(f)] \in JoinKinds /\ Flow.count[JoinOf(f)] \in Nat
      BY Zenon, FanFields, FlowFields
    <2>2. ValidFan(f) /\ ValidNode(JoinOf(f)) /\ Type(JoinOf(f)) = "join"
      BY Zenon, <2>1, FlowAssumption DEF ValidFlow, Joins
    <2>3. Cardinality(WaitFor(f)) \in Nat /\ Cardinality(WaitFor(f)) # 0 /\ Cardinality(Succeeded(f)) = 0
      BY Zenon, <1>1, OutcomeCounts
    <2>4. Need(f) \in Nat /\ 0 < Need(f) /\ Need(f) <= Cardinality(WaitFor(f))
      <3>1. CASE Flow.kind[JoinOf(f)] = "all"
        <4>1. Need(f) = Cardinality(WaitFor(f))
          BY Zenon, <3>1 DEF Need
        <4> QED
          BY <2>3, <4>1
      <3>2. CASE Flow.kind[JoinOf(f)] = "any"
        <4>1. Need(f) = 1
          BY <3>2 DEF Need
        <4> QED
          BY <2>3, <4>1
      <3>3. CASE Flow.kind[JoinOf(f)] = "quorum"
        <4>1. Need(f) = Flow.count[JoinOf(f)]
          BY <3>3 DEF Need
        <4>2. Flow.count[JoinOf(f)] > 0 /\ Flow.count[JoinOf(f)] <= Cardinality(WaitFor(f))
          BY Zenon, <2>2, <3>3 DEF ValidNode, ValidFan
        <4> QED
          BY <2>1, <2>3, <4>1, <4>2
      <3> QED
        BY Zenon, <1>3, <2>1, <3>1, <3>2, <3>3 DEF JoinKinds
    <2>5. ~JoinMet(f) /\ Cardinality(Succeeded(f)) + Cardinality(WaitFor(f)) >= Need(f)
      BY <2>3, <2>4 DEF JoinMet
    <2> QED
      BY Zenon, <1>1, <1>3, <2>5 DEF JoinUndecided
  <1> QED
    BY Zenon, <1>2, <1>3

\* A branch is a task or a child, as its node says.
BranchKinds ==
    \A f \in fans : \A b \in BranchesOf(f) :
        /\ Active(Plain(b)) => Type(b) # "subflow"
        /\ Running(Plain(b)) => Type(b) = "subflow"

\* A branch that is yet to start has no child.
NotYet == \A f \in fans : \A b \in Unstarted(f) : ~Running(Plain(b))

FanInv == Tracks /\ BranchKinds /\ NotYet

LEMMA NoFans == fans' = {} => FanInv'
  BY Zenon DEF FanInv, Tracks, BranchKinds, NotYet

LEMMA UndecidedKept == branch' = branch => \A f : JoinUndecided(f)' <=> JoinUndecided(f)
  <1> SUFFICES ASSUME branch' = branch, NEW f PROVE JoinUndecided(f)' <=> JoinUndecided(f)
    BY Zenon
  <1>1. Succeeded(f)' = Succeeded(f) /\ Pending(f)' = Pending(f)
    BY Zenon DEF Succeeded, Pending
  <1>2. JoinMet(f)' <=> JoinMet(f)
    BY Zenon, <1>1 DEF JoinMet
  <1> QED
    BY Zenon, <1>1, <1>2 DEF JoinUndecided

LEMMA NoneUnstarted == todo.op # "branch" => \A f : Unstarted(f) = {}
  BY Zenon DEF Unstarted

LEMMA NoneUnstartedNext == todo'.op # "branch" => \A f : Unstarted(f)' = {}
  BY Zenon DEF Unstarted

LEMMA FansKept ==
    ASSUME TypeInv, FanInv, UNCHANGED <<fans, branch>>, todo.op = "idle", todo'.op \in {"idle", "fail"},
           \A k \in Keys : Active(k)' <=> Active(k), \A k \in Keys : Running(k)' <=> Running(k)
    PROVE  FanInv'
  <1>1. \A f \in fans : f \in Fanouts /\ \A b \in BranchesOf(f) : Plain(b) \in Keys
    BY Zenon, FanFields, KeyFacts DEF TypeInv, TodoOK
  <1>2. BranchKinds'
    BY Zenon, <1>1 DEF FanInv, BranchKinds
  <1>3. todo.op # "branch" /\ todo.op # "fail" /\ todo'.op # "branch"
    BY SMT
  <1>4. ASSUME NEW f \in fans
        PROVE  /\ \A b \in BranchesOf(f) :
                    branch'[b] = "pending" <=> Active(Plain(b))' \/ Running(Plain(b))' \/ b \in Unstarted(f)'
               /\ JoinUndecided(f)'
    BY Zenon, <1>1, <1>3, <1>4, UndecidedKept, NoneUnstarted, NoneUnstartedNext DEF FanInv, Tracks
  <1>5. NotYet'
    BY Zenon, <1>3, NoneUnstartedNext DEF NotYet
  <1> QED
    BY Zenon, <1>2, <1>3, <1>4, <1>5 DEF FanInv, Tracks

\* One branch has its outcome, the others go on.
LEMMA FanAnswered ==
    ASSUME TypeInv, FanInv, NEW f, fans = {f}, fans' = {f}, todo.op = "idle", todo'.op \in {"evalJoin", "fail"},
           NEW b \in BranchesOf(f), branch'[b] # "pending", \A x \in BranchesOf(f) : x # b => branch'[x] = branch[x],
           ~Active(Plain(b))', ~Running(Plain(b))',
           \A x \in BranchesOf(f) : x # b => (Active(Plain(x))' <=> Active(Plain(x))) /\ (Running(Plain(x))' <=> Running(Plain(x)))
    PROVE  FanInv'
  <1>1. todo.op # "branch" /\ todo.op # "fail" /\ todo'.op # "branch" /\ todo'.op # "idle"
    BY SMT
  <1>2. \A x \in BranchesOf(f) : branch[x] = "pending" <=> Active(Plain(x)) \/ Running(Plain(x))
    BY Zenon, <1>1, NoneUnstarted DEF FanInv, Tracks
  <1>3. \A x \in BranchesOf(f) : branch'[x] = "pending" <=> Active(Plain(x))' \/ Running(Plain(x))'
    BY Zenon, <1>2
  <1>4. BranchKinds'
    BY Zenon DEF FanInv, BranchKinds
  <1> QED
    BY Zenon, <1>1, <1>3, <1>4, NoneUnstartedNext DEF FanInv, Tracks, NotYet

\* Between decisions there is one fan-out, or none.
LEMMA ReadyFan ==
    ASSUME TypeInv, OneLocus, Ready
    PROVE  fans = {} \/ \E f \in Nodes : At("fan", f) /\ fans = {f} /\ f \in Fanouts
  <1>1. PICK kind \in Kinds \ {"nothing"}, n \in Nodes : At(kind, n)
    BY Zenon, ReadyLocus
  <1>2. CASE kind = "fan"
    <2>1. fans = {n}
      BY Zenon, <1>1, <1>2 DEF At
    <2> QED
      BY Zenon, <1>1, <1>2, <2>1 DEF TypeInv, TodoOK
  <1> QED
    BY Zenon, <1>1, <1>2 DEF At

LEMMA FanAnswer ==
    ASSUME LInv, FanInv, Ready, NEW k \in Keys, NEW o, NEW inc, NEW outcome,
           Answer(k, o, inc), Reaction(k, o, inc), outcome # "pending",
           o \in fans => branch' = [branch EXCEPT ![NodeOf(k)] = outcome]
    PROVE  FanInv'
  <1>0. TypeInv /\ TypeOK /\ OneLocus /\ fans' = fans /\ todo.op = "idle" /\ (Active(k) \/ Running(k))
    BY Zenon, ReadyLocus DEF LInv, TypeInv, Answer
  <1>1. CASE fans = {}
    BY Zenon, <1>0, <1>1, NoFans
  <1>2. ASSUME NEW f \in Nodes, At("fan", f), fans = {f}, f \in Fanouts
        PROVE  FanInv'
    <2>1. PICK b \in BranchesOf(f) : k = Plain(b) /\ NodeOf(k) = b
      BY <1>0, <1>2 DEF At, Owned
    <2>2. o = f
      BY <1>2 DEF Answer, At, Owned
    <2>3. \A x \in BranchesOf(f) : x \in Nodes /\ Plain(x) \in Keys /\ NodeOf(Plain(x)) = x
      BY Zenon, <1>2, FanFields, KeyFacts
    <2>4. branch'[b] # "pending" /\ \A x \in BranchesOf(f) : x # b => branch'[x] = branch[x]
      BY Zenon, <1>0, <1>2, <2>1, <2>2, <2>3 DEF TypeOK
    <2>5. todo'.op \in {"evalJoin", "fail"}
      <3>1. todo' = FailCall \/ todo' = Call("evalJoin", o)
        BY Zenon, <1>2, <2>2 DEF Reaction
      <3> QED
        BY Zenon, <3>1, FailIsNotOther
    <2>6. /\ ~Active(Plain(b))' /\ ~Running(Plain(b))'
          /\ \A x \in BranchesOf(f) : x # b => (Active(Plain(x))' <=> Active(Plain(x))) /\ (Running(Plain(x))' <=> Running(Plain(x)))
      <3>1. \A x \in BranchesOf(f) : x # b => Plain(x) # k
        BY Zenon, <2>1, <2>3
      <3>2. (Active(k) => Type(b) # "subflow") /\ (Running(k) => Type(b) = "subflow")
        BY Zenon, <1>2, <2>1 DEF FanInv, BranchKinds
      <3>3. CASE Active(k) /\ tasks' = [tasks EXCEPT ![k] = NoTask] /\ children' = children
        <4>1. tasks'[k] = NoTask /\ \A x \in Keys : x # k => tasks'[x] = tasks[x]
          BY Zenon, <1>0, <3>3 DEF TypeOK
        <4> QED
          BY Zenon, <2>1, <2>3, <3>1, <3>2, <3>3, <4>1, NoTaskStatus DEF Active, Running
      <3>4. CASE Running(k) /\ children' = [children EXCEPT ![k] = NoChild] /\ tasks' = tasks
        <4>1. children'[k] = NoChild /\ \A x \in Keys : x # k => children'[x] = children[x]
          BY Zenon, <1>0, <3>4 DEF TypeOK
        <4> QED
          BY Zenon, <2>1, <2>3, <3>1, <3>2, <3>4, <4>1 DEF Active, Running
      <3> QED
        BY Zenon, <3>3, <3>4 DEF Answer
    <2> QED
      BY Zenon, <1>0, <1>2, <2>4, <2>5, <2>6, FanAnswered
  <1> QED
    BY Zenon, <1>0, <1>1, <1>2, ReadyFan

\* The fan-out a call is about, and the calls that are about none.
LEMMA TheFan ==
    ASSUME TypeInv, OneLocus, todo.op \in {"branch", "evalJoin"}
    PROVE  /\ fans = {todo.node} /\ todo.node \in Fanouts
           /\ \A x \in Keys : Active(x) \/ Running(x) => NodeOf(x) \in BranchesOf(todo.node) /\ x = Plain(NodeOf(x))
  <1>1. status = "open"
    <2>1. todo # Done
      BY FailIsNotOther
    <2> QED
      BY Zenon, <2>1, BusyIsOpen
  <1>2. At("fan", todo.node)
    BY Zenon, <1>1, TheLocus DEF TodoFits
  <1>3. fans = {todo.node}
    BY Zenon, <1>2 DEF At
  <1>4. ASSUME NEW x \in Keys, NEW o, Owned(x, o, "fan", todo.node)
        PROVE  NodeOf(x) \in BranchesOf(todo.node) /\ x = Plain(NodeOf(x))
    BY <1>4 DEF Owned
  <1> QED
    BY Zenon, <1>2, <1>3, <1>4 DEF TypeInv, TodoOK, At

LEMMA OtherCalls ==
    ASSUME TypeInv, OneLocus, todo.op \in {"enter", "complete", "mapProgress", "abortMap", "consume"}
    PROVE  fans = {}
  <1>1. status = "open"
    <2>1. todo # Done
      BY FailIsNotOther
    <2> QED
      BY Zenon, <2>1, BusyIsOpen
  <1>2. PICK kind \in Kinds, n \in Nodes : At(kind, n) /\ TodoFits(kind, n)
    BY Zenon, <1>1, TheLocus
  <1>3. kind # "fan"
    BY <1>2 DEF TodoFits
  <1> QED
    BY Zenon, <1>2, <1>3 DEF At

\* While an await is open there is no fan-out.
LEMMA AwaitIsAlone ==
    ASSUME OneLocus, NEW n \in Nodes, awaits[n] # 0
    PROVE  fans = {}
  <1>1. PICK kind, m : At(kind, m)
    BY Zenon DEF OneLocus
  <1>2. kind = "await"
    BY Zenon, <1>1 DEF At
  <1>3. kind # "fan"
    BY <1>2
  <1> QED
    BY Zenon, <1>1, <1>3 DEF At

LEMMA FanOpens ==
    ASSUME TypeInv, OneLocus, NEW n \in Nodes, EnterFanout(n)
    PROVE  FanInv'
  <1>1. todo = Call("enter", n) /\ Type(n) = "fanout" /\ n \in Fanouts
    BY Zenon DEF EnterFanout, Enter, Fanouts
  <1>2. Empty
    BY Zenon, <1>1, EnterIsEmpty, FailIsNotOther
  <1>3. /\ fans' = {n} /\ UNCHANGED <<tasks, children>>
        /\ branch' = [b \in Nodes |-> IF b \in BranchesOf(n) THEN "pending" ELSE branch[b]]
        /\ todo' = [op |-> "branch", node |-> n, i |-> 1]
    BY Zenon, <1>2 DEF EnterFanout, Empty
  <1>4. todo'.op = "branch" /\ todo'.node = n /\ todo'.i = 1
    BY Zenon, <1>3
  <1>5. BranchesOf(n) \subseteq Nodes /\ Flow.branches[n] \in Seq(Nodes)
    BY Zenon, <1>1, FanFields
  <1>6. \A b \in BranchesOf(n) : branch'[b] = "pending"
    BY Zenon, <1>3, <1>5
  <1>7. BranchesOf(n) = Unstarted(n)'
    <2>1. DOMAIN Flow.branches[n] = 1 .. Len(Flow.branches[n])
      BY <1>5
    <2> QED
      BY Zenon, <1>4, <2>1 DEF Unstarted, BranchesOf
  <1>8. \A x \in Keys : ~Active(x)' /\ ~Running(x)'
    BY Zenon, <1>2, <1>3 DEF Empty, Active, Running
  <1>9. BranchKinds'
    BY Zenon, <1>3, <1>5, <1>8, KeyFacts DEF BranchKinds
  <1>10. todo'.op # "idle"
    BY <1>4
  <1>11. NotYet'
    BY Zenon, <1>3, <1>5, <1>7, <1>8, KeyFacts DEF NotYet
  <1> QED
    BY Zenon, <1>3, <1>6, <1>7, <1>9, <1>10, <1>11 DEF FanInv, Tracks

LEMMA FanGrows ==
    ASSUME Counting, TypeInv, OneLocus, FanInv, NEW f \in Nodes, StartBranch(f)
    PROVE  FanInv'
  <1>1. PICK b, more :
          /\ b = Flow.branches[f][todo.i]
          /\ more = IF todo.i < Len(Flow.branches[f]) THEN [todo EXCEPT !.i = @ + 1] ELSE Done
          /\ todo.op = "branch" /\ todo.node = f /\ UNCHANGED <<fans, branch>>
          /\ \/ /\ Type(b) # "subflow" /\ Schedule(Plain(b), f, 0, 1, timers)
                /\ todo' = more /\ UNCHANGED children
             \/ /\ Type(b) = "subflow" /\ StartChild(Plain(b), f)
                /\ todo' = more /\ UNCHANGED tasks
             \/ todo' = FailCall /\ UNCHANGED <<tasks, children>>
    BY Zenon DEF StartBranch
  <1>2. fans = {f} /\ f \in Fanouts
    BY Zenon, <1>1, TheFan
  <1>3. /\ Flow.branches[f] \in Seq(Nodes) /\ BranchesOf(f) \subseteq Nodes
        /\ todo.i \in DOMAIN Flow.branches[f] /\ todo \in TodoType /\ TypeOK
    BY Zenon, <1>1, <1>2, FanFields DEF TypeInv, TodoOK, TypeOK
  <1>4. b \in BranchesOf(f) /\ b \in Nodes /\ Plain(b) \in Keys
    BY Zenon, <1>1, <1>3, KeyFacts DEF BranchesOf
  <1>a. todo.i \in Nat /\ Len(Flow.branches[f]) \in Nat
    BY <1>3
  <1>5. /\ more.op \in {"branch", "idle"}
        /\ more.op = "branch" => more.node = f
        /\ todo.i < Len(Flow.branches[f]) => more.op = "branch" /\ more.i = todo.i + 1
    <2>1. CASE todo.i < Len(Flow.branches[f])
      <3>1. more = [todo EXCEPT !.i = @ + 1]
        BY Zenon, <1>1, <2>1
      <3>2. more.op = todo.op /\ more.node = todo.node /\ more.i = todo.i + 1
        BY Zenon, <1>3, <3>1 DEF TodoType
      <3> QED
        BY Zenon, <1>1, <3>2
    <2>2. CASE ~(todo.i < Len(Flow.branches[f]))
      <3>1. more.op = "idle"
        BY Zenon, <1>1, <2>2, FailIsNotOther
      <3> QED
        BY <2>2, <3>1
    <2> QED
      BY Zenon, <2>1, <2>2
  <1>6. \A x \in Unstarted(f) : x = b \/ (more.op = "branch" /\ x \in {Flow.branches[f][i] : i \in more.i .. Len(Flow.branches[f])})
    <2>1. ASSUME NEW i \in todo.i .. Len(Flow.branches[f]), i # todo.i
          PROVE  more.op = "branch" /\ i \in more.i .. Len(Flow.branches[f])
      <3>1. todo.i < Len(Flow.branches[f]) /\ i \in todo.i + 1 .. Len(Flow.branches[f])
        BY <1>a, <2>1
      <3> QED
        BY Zenon, <1>5, <3>1
    <2> QED
      BY Zenon, <1>1, <2>1 DEF Unstarted
  <1>b. more.op = "branch" =>
          \A x \in {Flow.branches[f][i] : i \in more.i .. Len(Flow.branches[f])} :
              x \in Unstarted(f) /\ x \in BranchesOf(f) /\ x # b
    <2> SUFFICES ASSUME more.op = "branch", NEW i \in more.i .. Len(Flow.branches[f])
                 PROVE  /\ Flow.branches[f][i] \in Unstarted(f) /\ Flow.branches[f][i] \in BranchesOf(f)
                        /\ Flow.branches[f][i] # b
      BY Zenon
    <2>1. more.i = todo.i + 1 /\ todo.i >= 1
      <3>1. CASE todo.i < Len(Flow.branches[f])
        BY <1>3, <1>5, <3>1
      <3>2. CASE ~(todo.i < Len(Flow.branches[f]))
        <4>1. more.op = "idle"
          BY Zenon, <1>1, <3>2, FailIsNotOther
        <4> QED
          BY <4>1
      <3> QED
        BY Zenon, <3>1, <3>2
    <2>2. i \in todo.i .. Len(Flow.branches[f]) /\ i \in DOMAIN Flow.branches[f] /\ i # todo.i
      BY <1>3, <1>a, <2>1
    <2>3. \A x, y \in DOMAIN Flow.branches[f] : x # y => Flow.branches[f][x] # Flow.branches[f][y]
      BY Zenon, <1>2, FlowAssumption DEF ValidFlow, ValidFan
    <2> QED
      BY Zenon, <1>1, <1>3, <2>2, <2>3 DEF Unstarted, BranchesOf
  <1>7. todo.op # "fail" /\ todo.op # "idle"
    BY <1>1
  <1>8. \A x \in BranchesOf(f) : /\ branch[x] = "pending" /\ branch'[x] = "pending" /\ Plain(x) \in Keys
                                 /\ Active(Plain(x)) \/ Running(Plain(x)) \/ x \in Unstarted(f)
    BY Zenon, <1>1, <1>2, <1>3, <1>7, KeyFacts DEF FanInv, Tracks
  <1>9. JoinUndecided(f)'
    BY Zenon, <1>1, <1>2, <1>8, FreshIsUndecided, UndecidedKept
  <1>10. \A x : x # b => Plain(x) # Plain(b)
    BY DEF Plain
  <1>11. CASE todo' = FailCall /\ UNCHANGED <<tasks, children>>
    <2>1. BranchKinds'
      BY Zenon, <1>1, <1>11 DEF FanInv, BranchKinds, Active, Running
    <2>2. todo'.op = "fail" /\ todo'.op # "branch"
      BY <1>11, FailIsNotOther
    <2> QED
      BY Zenon, <2>1, <2>2, NoneUnstartedNext DEF FanInv, Tracks, NotYet
  <1>12. ASSUME todo' = more, Active(Plain(b))' \/ Running(Plain(b))',
                \A x \in Keys : Active(x) => Active(x)', \A x \in Keys : Running(x) => Running(x)',
                \A x \in Keys : Running(x)' => Running(x) \/ x = Plain(b),
                BranchKinds'
         PROVE  FanInv'
    <2>1. \A x \in Unstarted(f) : x = b \/ x \in Unstarted(f)'
      BY Zenon, <1>5, <1>6, <1>12 DEF Unstarted
    <2>2. \A x \in BranchesOf(f) : Active(Plain(x))' \/ Running(Plain(x))' \/ x \in Unstarted(f)'
      BY Zenon, <1>8, <1>12, <2>1
    <2>3. \A x \in Unstarted(f)' : x \in Unstarted(f) /\ x \in BranchesOf(f) /\ x # b
      BY Zenon, <1>b, <1>12 DEF Unstarted
    <2>4. NotYet'
      BY Zenon, <1>1, <1>2, <1>8, <1>10, <1>12, <2>3 DEF FanInv, NotYet
    <2> QED
      BY Zenon, <1>1, <1>2, <1>8, <1>9, <1>12, <2>2, <2>4 DEF FanInv, Tracks
  <1>13. CASE Type(b) # "subflow" /\ Schedule(Plain(b), f, 0, 1, timers) /\ todo' = more /\ UNCHANGED children
    <2>1. tasks'[Plain(b)].status = "scheduled" /\ \A x \in Keys : x # Plain(b) => tasks'[x] = tasks[x]
      BY Zenon, <1>3, <1>4, <1>13, Scheduled
    <2>2. Active(Plain(b))'
      BY <2>1 DEF Active
    <2>3. \A x \in Keys : x # Plain(b) => (Active(x)' <=> Active(x))
      BY Zenon, <2>1 DEF Active
    <2>4. \A x \in Keys : Running(x)' <=> Running(x)
      BY Zenon, <1>13 DEF Running
    <2>5. BranchKinds'
      BY Zenon, <1>1, <1>2, <1>8, <1>10, <1>13, <2>3, <2>4 DEF FanInv, BranchKinds
    <2> QED
      BY Zenon, <1>12, <1>13, <2>2, <2>3, <2>4, <2>5
  <1>14. CASE Type(b) = "subflow" /\ StartChild(Plain(b), f) /\ todo' = more /\ UNCHANGED tasks
    <2>1. children'[Plain(b)] # NoChild /\ \A x \in Keys : x # Plain(b) => children'[x] = children[x]
      BY Zenon, <1>3, <1>4, <1>14, ChildStarted
    <2>2. Running(Plain(b))' /\ \A x \in Keys : x # Plain(b) => (Running(x)' <=> Running(x))
      BY Zenon, <2>1 DEF Running
    <2>3. \A x \in Keys : Active(x)' <=> Active(x)
      BY Zenon, <1>14 DEF Active
    <2>4. BranchKinds'
      BY Zenon, <1>1, <1>2, <1>8, <1>10, <1>14, <2>2, <2>3 DEF FanInv, BranchKinds
    <2> QED
      BY Zenon, <1>12, <1>14, <2>2, <2>3, <2>4
  <1> QED
    BY Zenon, <1>1, <1>11, <1>13, <1>14

LEMMA FanCalls ==
    ASSUME Counting, TypeInv, OneLocus, FanInv, Calls
    PROVE  FanInv'
  <1> USE FailIsNotOther
  <1>1. CASE Fail \/ CompleteExecution \/ EnterTooDeep
    <2>1. ASSUME NEW s, Terminate(s) PROVE FanInv'
      BY Zenon, <2>1, NoFans DEF Terminate
    <2>2. todo.op \in {"enter", "complete"} /\ fans' = fans => FanInv'
      BY Zenon, OtherCalls, NoFans
    <2> QED
      BY Zenon, <1>1, <2>1, <2>2 DEF Fail, CompleteExecution, EnterTooDeep, flight
  <1>2. ASSUME NEW n \in Nodes,
               EnterTask(n) \/ EnterChoice(n) \/ EnterAwait(n) \/ EnterMap(n) \/ EnterSubflow(n) \/ Consume(n)
                 \/ MapCompletes(n) \/ MapStartsItem(n) \/ MapWaits(n) \/ AbortMap(n)
        PROVE  FanInv'
    <2>1. fans' = fans
      BY Zenon, <1>2 DEF EnterTask, EnterChoice, EnterAwait, EnterMap, EnterSubflow, Consume, MapCompletes, MapStartsItem,
             MapWaits, AbortMap, flight
    <2>2. todo = Call("enter", n) \/ todo = Call("consume", n) \/ todo = Call("mapProgress", n) \/ todo = Call("abortMap", n)
      BY Zenon, <1>2 DEF EnterTask, EnterChoice, EnterAwait, EnterMap, EnterSubflow, Enter, Consume, MapCompletes,
             MapStartsItem, MapWaits, AbortMap
    <2>3. todo.op \in {"enter", "complete", "mapProgress", "abortMap", "consume"}
      BY SMT, <2>2
    <2> QED
      BY Zenon, <2>1, <2>3, OtherCalls, NoFans
  <1>3. ASSUME NEW n \in Nodes, EnterFanout(n) \/ StartBranch(n)
        PROVE  FanInv'
    BY Zenon, <1>3, FanOpens, FanGrows
  <1>4. ASSUME NEW f \in Nodes, JoinWaits(f)
        PROVE  FanInv'
    <2>1. todo = Call("evalJoin", f) /\ JoinUndecided(f) /\ todo' = Done /\ UNCHANGED <<tasks, fans, branch, children>>
      BY Zenon, <1>4 DEF JoinWaits, flight
    <2>2. fans = {f} /\ todo.op = "evalJoin" /\ todo'.op = "idle"
      BY Zenon, <2>1, TheFan
    <2>3. todo.op # "branch" /\ todo'.op # "branch" /\ todo.op # "fail"
      BY <2>2
    <2>4. BranchKinds'
      BY Zenon, <2>1 DEF FanInv, BranchKinds, Active, Running
    <2>5. \A b \in BranchesOf(f) : branch'[b] = "pending" <=> Active(Plain(b))' \/ Running(Plain(b))'
      BY Zenon, <2>1, <2>2, <2>3, NoneUnstarted DEF FanInv, Tracks, Active, Running
    <2>6. JoinUndecided(f)'
      BY Zenon, <2>1, UndecidedKept
    <2> QED
      BY Zenon, <2>1, <2>2, <2>3, <2>4, <2>5, <2>6, NoneUnstartedNext DEF FanInv, Tracks, NotYet
  <1>5. ASSUME NEW f \in Nodes, CloseJoin(f)
        PROVE  FanInv'
    <2>1. todo = Call("evalJoin", f) /\ fans' = fans \ {f}
      BY Zenon, <1>5 DEF CloseJoin
    <2>2. fans = {f}
      BY Zenon, <2>1, TheFan
    <2>3. fans' = {}
      BY Zenon, <2>1, <2>2
    <2> QED
      BY Zenon, <2>3, NoFans
  <1> QED
    BY Zenon, <1>1, <1>2, <1>3, <1>4, <1>5 DEF Calls

\* An instance in flight is tried again.
LEMMA FanRescheduled ==
    ASSUME TypeInv, FanInv, todo.op = "idle", todo' = todo, UNCHANGED <<fans, branch, children>>,
           NEW k \in Keys, Active(k), NEW owner, NEW gen, NEW attempt, NEW live, Schedule(k, owner, gen, attempt, live)
    PROVE  FanInv'
  <1>1. tasks'[k].status = "scheduled" /\ \A x \in Keys : x # k => tasks'[x] = tasks[x]
    BY Zenon, Scheduled DEF TypeInv
  <1>2. Active(k)'
    BY <1>1 DEF Active
  <1>3. \A x \in Keys : Active(x)' <=> Active(x)
    BY Zenon, <1>1, <1>2 DEF Active
  <1>4. \A x \in Keys : Running(x)' <=> Running(x)
    BY Zenon DEF Running
  <1> QED
    BY Zenon, <1>3, <1>4, FansKept

LEMMA FanFailure ==
    ASSUME LInv, FanInv, Ready, NEW k \in Keys, Active(k), NEW retryable, NEW u, NEW live, TaskFailed(k, retryable, u, live)
    PROVE  FanInv'
  <1>0. TypeInv /\ TypeOK /\ OneLocus /\ todo.op = "idle" /\ Done.op = "idle"
    BY Zenon, ReadyLocus, FailIsNotOther DEF LInv, TypeInv
  <1>1. CASE Answer(k, tasks[k].owner, FALSE) /\ Reaction(k, tasks[k].owner, FALSE) /\ timers' = live /\ num' = num
    <2>1. tasks[k].owner \in fans => branch' = [branch EXCEPT ![NodeOf(k)] = "failed"]
      <3>1. (UNCHANGED branch /\ todo' = Done /\ tasks' = [tasks EXCEPT ![k].status = "retrying"]) \/ Settle(k, "failed")
        BY Zenon DEF TaskFailed
      <3>2. CASE UNCHANGED branch /\ todo' = Done /\ tasks' = [tasks EXCEPT ![k].status = "retrying"]
        <4>1. tasks[k].owner \in fans => todo' = FailCall \/ todo' = Call("evalJoin", tasks[k].owner)
          BY Zenon, <1>1 DEF Reaction
        <4>2. Done.op = "idle" /\ FailCall.op = "fail" /\ Call("evalJoin", tasks[k].owner).op = "evalJoin"
          BY Zenon, FailIsNotOther
        <4> QED
          BY <3>2, <4>1, <4>2
      <3> QED
        BY Zenon, <3>1, <3>2 DEF Settle
    <2>2. "failed" # "pending"
      OBVIOUS
    <2> QED
      BY Zenon, <1>1, <2>1, <2>2, FanAnswer
  <1>2. CASE tasks' = [tasks EXCEPT ![k].status = "retrying"] /\ todo' = Done /\ UNCHANGED branch
    <2>1. tasks'[k].status = "retrying" /\ \A x \in Keys : x # k => tasks'[x] = tasks[x]
      BY Zenon, <1>0, <1>2 DEF TypeOK, TaskType
    <2>2. Active(k)'
      BY <2>1 DEF Active
    <2>3. \A x \in Keys : Active(x)' <=> Active(x)
      BY Zenon, <2>1, <2>2 DEF Active
    <2>4. UNCHANGED <<fans, children>>
      BY Zenon DEF TaskFailed
    <2>5. \A x \in Keys : Running(x)' <=> Running(x)
      BY Zenon, <2>4 DEF Running
    <2> QED
      BY Zenon, <1>0, <1>2, <2>3, <2>4, <2>5, FansKept
  <1> QED
    BY Zenon, <1>0, <1>1, <1>2, FailureAnswers

\* Nothing in flight moves and no decision starts.
LEMMA FansStill ==
    ASSUME TypeInv, FanInv, todo.op = "idle", todo'.op \in {"idle", "fail"}, UNCHANGED <<tasks, fans, branch, children>>
    PROVE  FanInv'
  <1>1. \A x \in Keys : (Active(x)' <=> Active(x)) /\ (Running(x)' <=> Running(x))
    BY Zenon DEF Active, Running
  <1> QED
    BY Zenon, <1>1, FansKept

LEMMA FanTimer ==
    ASSUME LInv, FanInv, NEW t \in timers, ObsoleteTimer(t) \/ RetryTimer(t) \/ TimeoutTimer(t) \/ AwaitTimer(t)
    PROVE  FanInv'
  <1>0. TypeInv /\ TypeOK /\ OneLocus /\ Ready /\ t.key \in Keys
    BY Zenon DEF LInv, TypeInv, TypeOK, TimerType, ObsoleteTimer, RetryTimer, TimeoutTimer, AwaitTimer
  <1>1. todo.op = "idle"
    BY Zenon, <1>0, ReadyLocus
  <1>2. CASE ObsoleteTimer(t)
    BY Zenon, <1>0, <1>1, <1>2, FansStill DEF ObsoleteTimer
  <1>3. CASE RetryTimer(t)
    <2>1. Schedule(t.key, tasks[t.key].owner, t.gen, t.attempt, timers \ {t}) /\ tasks[t.key].status = "retrying"
      BY Zenon, <1>0, <1>3, RetryFacts
    <2>2. Active(t.key)
      BY <2>1 DEF Active
    <2> QED
      BY Zenon, <1>0, <1>1, <1>3, <2>1, <2>2, FanRescheduled DEF RetryTimer
  <1>4. CASE TimeoutTimer(t)
    <2>1. t.purpose = "timeout" /\ ~Obsolete(t) /\ TaskFailed(t.key, TRUE, [x \in Counters |-> 0], timers \ {t})
      BY Zenon, <1>4 DEF TimeoutTimer
    <2>2. Current([key |-> t.key, gen |-> t.gen, attempt |-> t.attempt])
      BY <2>1 DEF Obsolete
    <2>3. Active(t.key)
      BY <2>2 DEF Current, Active
    <2> QED
      BY Zenon, <1>0, <2>1, <2>3, FanFailure
  <1>5. CASE AwaitTimer(t)
    <2>1. t.purpose = "await" /\ ~Obsolete(t) /\ fans' = fans
      BY Zenon, <1>5 DEF AwaitTimer
    <2>2. awaits[NodeOf(t.key)] = t.id
      BY <2>1 DEF Obsolete
    <2>3. t.id # 0 /\ NodeOf(t.key) \in Nodes
      BY <1>0, KeyFacts DEF TypeOK, TimerType
    <2> QED
      BY Zenon, <1>0, <2>1, <2>2, <2>3, AwaitIsAlone, NoFans
  <1> QED
    BY Zenon, <1>2, <1>3, <1>4, <1>5

LEMMA FanRekick ==
    ASSUME LInv, FanInv, Rekick
    PROVE  FanInv'
  <1>0. todo = Done /\ todo.op = "idle" /\ TypeInv /\ TypeOK /\ OneLocus /\ rekick \in RekickType /\ RekickOK /\ todo # FailCall
    BY Zenon, FailIsNotOther DEF Rekick, RekickTask, RekickAwait, RekickChild, RekickNext, LInv, TypeInv, TypeOK
  <1>1. CASE RekickNext
    BY Zenon, <1>0, <1>1, FansStill DEF RekickNext, flight
  <1>2. ASSUME RekickTask \/ RekickAwait \/ RekickChild
        PROVE  FanInv'
    <2>1. PICK k \in Keys : k \in rekick.left /\ k = CHOOSE x \in rekick.left : TRUE
      BY <1>0, <1>2 DEF RekickTask, RekickAwait, RekickChild, RekickType
    <2>2. CASE RekickTask
      <3>1. /\ Schedule(k, tasks[k].owner, 0, 1, timers) /\ rekick.phase = "tasks"
            /\ UNCHANGED <<fans, branch, children, todo>>
        BY Zenon, <2>1, <2>2 DEF RekickTask
      <3>2. Active(k)
        BY <1>0, <2>1, <3>1 DEF RekickOK
      <3> QED
        BY Zenon, <1>0, <3>1, <3>2, FanRescheduled
    <2>3. CASE RekickAwait
      <3>1. rekick.phase = "awaits" /\ fans' = fans
        BY Zenon, <2>3 DEF RekickAwait
      <3>2. awaits[NodeOf(k)] # 0 /\ NodeOf(k) \in Nodes
        BY <1>0, <2>1, <3>1, KeyFacts DEF RekickOK
      <3> QED
        BY Zenon, <1>0, <3>1, <3>2, AwaitIsAlone, NoFans
    <2>4. CASE RekickChild
      <3>1. /\ rekick.phase = "children" /\ UNCHANGED <<tasks, fans, branch>>
            /\ \/ StartChild(k, children[k].owner) /\ todo' = Done
               \/ todo' = FailCall /\ UNCHANGED children
        BY Zenon, <2>1, <2>4 DEF RekickChild
      <3>2. Running(k)
        BY <1>0, <2>1, <3>1 DEF RekickOK
      <3>3. CASE todo' = FailCall /\ UNCHANGED children
        BY Zenon, <1>0, <3>1, <3>3, FansStill, FailIsNotOther
      <3>4. CASE StartChild(k, children[k].owner) /\ todo' = Done
        <4>1. \A x \in Keys : Running(x)' <=> Running(x)
          BY Zenon, <1>0, <3>2, <3>4, ChildStarted DEF Running
        <4>2. \A x \in Keys : Active(x)' <=> Active(x)
          BY Zenon, <3>1 DEF Active
        <4> QED
          BY Zenon, <1>0, <3>1, <3>4, <4>1, <4>2, FansKept, FailIsNotOther
      <3> QED
        BY Zenon, <3>1, <3>3, <3>4
    <2> QED
      BY Zenon, <1>2, <2>2, <2>3, <2>4
  <1> QED
    BY Zenon, <1>1, <1>2 DEF Rekick

LEMMA FanResults ==
    ASSUME LInv, FanInv, Results \/ ChildResults
    PROVE  FanInv'
  <1>0. TypeInv /\ TypeOK /\ OneLocus /\ \A j \in jobs : j.key \in Keys
    BY Zenon DEF LInv, TypeInv, TypeOK, JobType
  <1>1. ASSUME NEW j \in jobs, NEW u, NEW dyn \in Flow.dynamic[NodeOf(j.key)] \cup {None}, Complete(j, u, dyn)
        PROVE  FanInv'
    <2>1. Ready /\ Settle(j.key, "completed")
      BY Zenon, <1>1 DEF Complete
    <2>2. tasks[j.key].owner \in fans => branch' = [branch EXCEPT ![NodeOf(j.key)] = "completed"]
      BY Zenon, <2>1 DEF Settle
    <2>3. "completed" # "pending"
      OBVIOUS
    <2> QED
      BY Zenon, <1>0, <1>1, <2>1, <2>2, <2>3, CompleteAnswers, FanAnswer
  <1>2. ASSUME NEW j \in jobs, NEW u, NEW retryable, FailTask(j, u, retryable)
        PROVE  FanInv'
    <2>1. Ready /\ Current(j) /\ TaskFailed(j.key, retryable, u, timers)
      BY Zenon, <1>2 DEF FailTask
    <2>2. Active(j.key)
      BY <2>1 DEF Current, Active
    <2> QED
      BY Zenon, <1>0, <2>1, <2>2, FanFailure
  <1>3. ASSUME NEW k \in Keys, NEW c, NEW u, NEW ok \in BOOLEAN, ChildDone(k, c, u, ok)
        PROVE  FanInv'
    <2>1. PICK o, n, outcome : o = children[k].owner /\ n = NodeOf(k) /\ outcome = IF ok THEN "completed" ELSE "failed"
      BY Zenon
    <2>2. Ready /\ branch' = IF ~(o = n /\ maps[n].open) /\ o \in fans THEN [branch EXCEPT ![n] = outcome] ELSE branch
      BY Zenon, <1>3, <2>1 DEF ChildDone
    <2>3. o \in fans => ~maps[n].open
      <3>1. PICK kind \in Kinds \ {"nothing"}, m \in Nodes : At(kind, m)
        BY Zenon, <1>0, <2>2, ReadyLocus
      <3>2. n \in Nodes
        BY Zenon, <2>1, KeyFacts
      <3> QED
        BY <3>1, <3>2 DEF At
    <2>4. o \in fans => branch' = [branch EXCEPT ![NodeOf(k)] = outcome]
      BY Zenon, <2>1, <2>2, <2>3
    <2>5. outcome # "pending"
      BY <2>1
    <2>6. PICK inc \in BOOLEAN : Answer(k, o, inc) /\ Reaction(k, o, inc)
      BY Zenon, <1>0, <1>3, <2>1, ChildAnswers
    <2> QED
      BY Zenon, <2>2, <2>4, <2>5, <2>6, FanAnswer
  <1> QED
    BY Zenon, <1>1, <1>2, <1>3 DEF Results, ChildResults

LEMMA FanRequests ==
    ASSUME LInv, FanInv, Requests
    PROVE  FanInv'
  <1>0. TypeInv /\ TypeOK /\ OneLocus /\ (Ready => todo.op = "idle") /\ (Idle => todo.op = "idle")
    BY Zenon, FailIsNotOther DEF LInv, TypeInv, Ready, Idle
  <1>1. ASSUME NEW j \in jobs, NEW u, Interrupt(j, u)
        PROVE  FanInv'
    <2>1. /\ Current(j) /\ tasks' = [tasks EXCEPT ![j.key].status = "interrupted"] /\ j.key \in Keys
          /\ todo' = FailCall \/ todo' = Done
          /\ UNCHANGED <<fans, branch, children>> /\ Ready
      BY Zenon, <1>0, <1>1 DEF Interrupt, TypeOK, JobType
    <2>2. tasks'[j.key].status = "interrupted" /\ \A x \in Keys : x # j.key => tasks'[x] = tasks[x]
      BY Zenon, <1>0, <2>1 DEF TypeOK, TaskType
    <2>3. Active(j.key)' /\ Active(j.key)
      BY <2>1, <2>2 DEF Active, Current
    <2>4. \A x \in Keys : Active(x)' <=> Active(x)
      BY Zenon, <2>2, <2>3 DEF Active
    <2>5. \A x \in Keys : Running(x)' <=> Running(x)
      BY Zenon, <2>1 DEF Running
    <2> QED
      BY Zenon, <1>0, <2>1, <2>4, <2>5, FansKept, FailIsNotOther
  <1>2. ASSUME NEW k \in Keys, Resume(k)
        PROVE  FanInv'
    <2>1. Active(k)
      BY <1>2 DEF Resume, Active
    <2> QED
      BY Zenon, <1>0, <1>2, <2>1, FanRescheduled DEF Resume
  <1>3. ASSUME NEW name, NEW id, Signal(name, id)
        PROVE  FanInv'
    <2>1. Ready /\ UNCHANGED <<tasks, fans, branch, children>>
      BY Zenon, <1>3 DEF Signal, flight
    <2>2. CASE Listening(name) = {}
      <3>1. todo' = Done
        BY Zenon, <1>3, <2>2 DEF Signal
      <3> QED
        BY Zenon, <1>0, <2>1, <3>1, FansStill, FailIsNotOther
    <2>3. CASE Listening(name) # {}
      <3>1. \E n \in Nodes : awaits[n] # 0
        BY Zenon, <2>3 DEF Listening
      <3> QED
        BY Zenon, <1>0, <2>1, <3>1, AwaitIsAlone, NoFans
    <2> QED
      BY Zenon, <2>2, <2>3
  <1>4. ASSUME NEW id, Update(id)
        PROVE  FanInv'
    BY Zenon, <1>0, <1>4, FansStill DEF Update, flight
  <1>5. CASE Cancel \/ Abort
    BY Zenon, <1>5, NoFans DEF Cancel, Abort, Terminate
  <1>6. CASE Fork
    BY Zenon, <1>0, <1>6, FansStill DEF Fork
  <1> QED
    BY Zenon, <1>1, <1>2, <1>3, <1>4, <1>5, <1>6 DEF Requests

LEMMA FanStep ==
    ASSUME Counting
    PROVE  LInv /\ FanInv /\ [Next]_vars => FanInv'
  <1> SUFFICES ASSUME LInv, FanInv, [Next]_vars PROVE FanInv'
    BY Zenon
  <1>0. TypeInv /\ OneLocus
    BY Zenon DEF LInv
  <1>1. CASE Start
    <2>1. status # "open" /\ fans' = fans
      BY <1>1 DEF Start, flight
    <2>2. fans = {}
      BY Zenon, <1>0, <2>1, NothingIsEmpty DEF OneLocus, Empty
    <2> QED
      BY Zenon, <2>1, <2>2, NoFans
  <1>2. CASE UNCHANGED vars
    <2>1. UNCHANGED <<todo, tasks, fans, branch, children>>
      BY Zenon, <1>2 DEF vars, flight
    <2>2. \A f : (JoinUndecided(f)' <=> JoinUndecided(f)) /\ Unstarted(f)' = Unstarted(f)
      BY Zenon, <2>1 DEF JoinUndecided, JoinMet, Succeeded, Pending, Unstarted
    <2>3. \A k : (Active(k)' <=> Active(k)) /\ (Running(k)' <=> Running(k))
      BY Zenon, <2>1 DEF Active, Running
    <2>4. Tracks' /\ BranchKinds' /\ NotYet'
      BY Zenon, <2>1, <2>2, <2>3 DEF FanInv, Tracks, BranchKinds, NotYet
    <2> QED
      BY Zenon, <2>4 DEF FanInv
  <1> QED
    BY Zenon, <1>0, <1>1, <1>2, FanCalls, FanRekick, FanResults, FanTimer, FanRequests DEF Next, Timer

\* What FanInv and Timed say is an invariant, with the one locus they need.
WorkInv == LInv /\ FanInv /\ Timed

LEMMA ReadyTracks ==
    ASSUME WorkInv, Ready, NEW f \in fans
    PROVE  /\ f \in Fanouts /\ JoinUndecided(f)
           /\ \A b \in BranchesOf(f) : branch[b] = "pending" <=> Active(Plain(b)) \/ Running(Plain(b))
  <1>1. f \in Fanouts /\ todo.op = "idle"
    BY Zenon, FailIsNotOther DEF WorkInv, LInv, TypeInv, TodoOK, Ready, Idle
  <1>2. todo.op # "fail" /\ todo.op # "branch"
    BY <1>1
  <1> QED
    BY Zenon, <1>1, <1>2, NoneUnstarted DEF WorkInv, FanInv, Tracks

----------------------------------------------------------------------------
\* Signals: what is buffered and what waits.

\* A fork's re-dispatch takes no signal and goes from loop to loop; only the
\* input of a child may fail it.
Calm ==
    rekick # NoRekick => \/ todo = Done
                         \/ todo = FailCall /\ rekick.phase = "children"
                         \/ \E n \in Nodes : todo = Call("consume", n) /\ Matching(n) = {}

\* NoMissedSignal, also in the middle of a decision.
NoneMissed == \A n \in Nodes : awaits[n] # 0 => Matching(n) = {} \/ todo = Call("consume", n) \/ todo = FailCall

SignalInv == Calm /\ NoneMissed

\* At most one await is open.
LEMMA OneAwait ==
    ASSUME OneLocus, NEW n \in Nodes, awaits[n] # 0, NEW m \in Nodes, awaits[m] # 0
    PROVE  m = n
  <1>1. PICK kind, x : At(kind, x)
    BY Zenon DEF OneLocus
  <1> QED
    BY Zenon, <1>1 DEF At

LEMMA CallsWithoutAwait ==
    ASSUME OneLocus, todo.op \in {"enter", "complete", "branch", "evalJoin", "mapProgress", "abortMap"}
    PROVE  \A m \in Nodes : awaits[m] = 0
  <1>1. status = "open"
    <2>1. todo # Done
      BY FailIsNotOther
    <2> QED
      BY Zenon, <2>1, BusyIsOpen
  <1>2. PICK kind \in Kinds, n \in Nodes : At(kind, n) /\ TodoFits(kind, n)
    BY Zenon, <1>1, TheLocus
  <1>3. kind # "await"
    BY <1>2 DEF TodoFits
  <1> QED
    BY Zenon, <1>2, <1>3 DEF At

LEMMA IdleIsNoCall ==
    ASSUME todo = Done
    PROVE  todo.op = "idle" /\ todo # FailCall /\ \A n : todo # Call("consume", n)
  <1>1. todo.op = "idle"
    BY Zenon, FailIsNotOther
  <1>2. \A n : Call("consume", n).op # "idle"
    BY FailIsNotOther
  <1> QED
    BY Zenon, <1>1, <1>2, FailIsNotOther

LEMMA MissesNone ==
    ASSUME NoneMissed, todo = Done, buffered' = buffered, \A n \in Nodes : awaits'[n] # 0 => awaits[n] # 0
    PROVE  NoneMissed'
  BY Zenon, IdleIsNoCall DEF NoneMissed, Matching

\* A command that is not a fork leaves the re-dispatch as it is: done.
LEMMA StaysCalm ==
    ASSUME rekick = NoRekick, rekick' = rekick
    PROVE  Calm'
  BY Zenon DEF Calm

LEMMA SignalTerminates ==
    ASSUME NEW s, Terminate(s)
    PROVE  SignalInv'
  BY Zenon DEF Terminate, SignalInv, Calm, NoneMissed

LEMMA CallsAreCalm ==
    ASSUME Calm, Calls
    PROVE  Calm'
  <1>1. ASSUME NEW s, Terminate(s) PROVE Calm'
    BY Zenon, <1>1, SignalTerminates DEF SignalInv
  <1>2. CASE rekick = NoRekick
    <2>1. rekick' = rekick \/ \E s : Terminate(s)
      BY ZenonT(60) DEF Calls, Fail, CompleteExecution, EnterTooDeep, Enter, EnterTask, EnterChoice, EnterFanout, EnterAwait,
         EnterMap, EnterSubflow, StartBranch, JoinWaits, CloseJoin, Consume, MapCompletes, MapStartsItem, MapWaits, AbortMap
    <2> QED
      BY Zenon, <1>1, <1>2, <2>1, StaysCalm
  <1>3. CASE rekick # NoRekick
    <2>1. todo.op \in {"idle", "fail", "consume"}
      <3>1. todo = Done \/ todo = FailCall \/ \E n \in Nodes : todo = Call("consume", n)
        BY Zenon, <1>3 DEF Calm
      <3> QED
        BY SMT, <3>1, FailIsNotOther
    <2>2. Fail \/ \E n \in Nodes : Consume(n)
      <3>1. todo.op \notin {"complete", "enter", "branch", "evalJoin", "mapProgress", "abortMap"}
        BY <2>1
      <3>2. ~CompleteExecution /\ ~EnterTooDeep
        BY Zenon, <3>1 DEF CompleteExecution, EnterTooDeep
      <3>3. ASSUME NEW n,
                   \/ EnterTask(n) \/ EnterChoice(n) \/ EnterFanout(n) \/ EnterAwait(n) \/ EnterMap(n) \/ EnterSubflow(n)
                   \/ StartBranch(n) \/ JoinWaits(n) \/ CloseJoin(n)
                   \/ MapCompletes(n) \/ MapStartsItem(n) \/ MapWaits(n) \/ AbortMap(n)
            PROVE  FALSE
        <4>1. \/ todo = Call("enter", n) \/ todo.op = "branch" \/ todo = Call("evalJoin", n)
              \/ todo = Call("mapProgress", n) \/ todo = Call("abortMap", n)
          BY Zenon, <3>3 DEF Enter, EnterTask, EnterChoice, EnterFanout, EnterAwait, EnterMap, EnterSubflow,
             StartBranch, JoinWaits, CloseJoin, MapCompletes, MapStartsItem, MapWaits, AbortMap
        <4> QED
          BY SMT, <3>1, <4>1, FailIsNotOther
      <3> QED
        BY Zenon, <3>2, <3>3 DEF Calls
    <2>3. CASE Fail
      BY Zenon, <1>1, <2>3 DEF Fail
    <2>4. ASSUME NEW n \in Nodes, Consume(n)
          PROVE  Calm'
      <3>1. todo = Call("consume", n) /\ todo.op = "consume" /\ todo.node = n
        BY Zenon, <2>4, FailIsNotOther DEF Consume
      <3>2. todo # Done /\ todo # FailCall
        BY <3>1, FailIsNotOther
      <3>3. PICK m \in Nodes : todo = Call("consume", m) /\ Matching(m) = {}
        BY Zenon, <1>3, <3>2 DEF Calm
      <3>4. Matching(n) = {}
        <4>1. todo.node = m
          BY Zenon, <3>3, FailIsNotOther
        <4> QED
          BY Zenon, <3>1, <3>3, <4>1
      <3>5. todo' = Done
        BY Zenon, <2>4, <3>4 DEF Consume
      <3> QED
        BY Zenon, <3>5 DEF Calm
    <2> QED
      BY Zenon, <2>2, <2>3, <2>4
  <1> QED
    BY Zenon, <1>2, <1>3

LEMMA CallsMissNone ==
    ASSUME TypeInv, OneLocus, NoneMissed, Calls
    PROVE  NoneMissed'
  <1> USE FailIsNotOther
  <1>0. TypeOK
    BY Zenon DEF TypeInv
  <1>1. ASSUME \A m \in Nodes : awaits'[m] = 0 PROVE NoneMissed'
    BY Zenon, <1>1 DEF NoneMissed
  <1>2. ASSUME todo.op \in {"enter", "complete", "branch", "evalJoin", "mapProgress", "abortMap"}, awaits' = awaits
        PROVE  NoneMissed'
    BY Zenon, <1>1, <1>2, CallsWithoutAwait
  <1>3. CASE Fail \/ CompleteExecution \/ EnterTooDeep
    BY Zenon, <1>2, <1>3, SignalTerminates DEF Fail, CompleteExecution, EnterTooDeep, flight, SignalInv
  <1>4. ASSUME NEW n \in Nodes,
               \/ EnterTask(n) \/ EnterChoice(n) \/ EnterFanout(n) \/ EnterMap(n) \/ EnterSubflow(n)
               \/ StartBranch(n) \/ JoinWaits(n) \/ CloseJoin(n)
               \/ MapCompletes(n) \/ MapStartsItem(n) \/ MapWaits(n) \/ AbortMap(n)
        PROVE  NoneMissed'
    <2>1. awaits' = awaits
      BY Zenon, <1>4 DEF EnterTask, EnterChoice, EnterFanout, EnterMap, EnterSubflow, StartBranch, JoinWaits, CloseJoin,
             MapCompletes, MapStartsItem, MapWaits, AbortMap, flight
    <2>2. todo = Call("enter", n) \/ todo.op = "branch" \/ todo = Call("evalJoin", n)
            \/ todo = Call("mapProgress", n) \/ todo = Call("abortMap", n)
      BY Zenon, <1>4 DEF EnterTask, EnterChoice, EnterFanout, EnterMap, EnterSubflow, Enter, StartBranch, JoinWaits,
             CloseJoin, MapCompletes, MapStartsItem, MapWaits, AbortMap
    <2>3. todo.op \in {"enter", "complete", "branch", "evalJoin", "mapProgress", "abortMap"}
      BY SMT, <2>2
    <2> QED
      BY Zenon, <1>2, <2>1, <2>3
  <1>5. ASSUME NEW n \in Nodes, EnterAwait(n)
        PROVE  NoneMissed'
    <2>1. todo = Call("enter", n) /\ awaits' = [awaits EXCEPT ![n] = num + 1] /\ todo' = Call("consume", n)
      BY Zenon, <1>5 DEF EnterAwait, Enter, OpenAwait
    <2>2. \A m \in Nodes : awaits[m] = 0
      BY Zenon, <2>1, CallsWithoutAwait
    <2>3. \A m \in Nodes : m # n => awaits'[m] = 0
      BY Zenon, <1>0, <2>1, <2>2 DEF TypeOK
    <2> QED
      BY Zenon, <2>1, <2>3 DEF NoneMissed
  <1>6. ASSUME NEW n \in Nodes, Consume(n)
        PROVE  NoneMissed'
    <2>1. todo = Call("consume", n)
      BY Zenon, <1>6 DEF Consume
    <2>2. \A m \in Nodes : awaits[m] # 0 => m = n
      <3>1. todo.op = "consume" /\ todo.node = n
        BY Zenon, <2>1
      <3>2. todo # Done
        BY <3>1
      <3>3. PICK kind \in Kinds, x \in Nodes : At(kind, x) /\ TodoFits(kind, x)
        BY Zenon, <3>2, BusyIsOpen, TheLocus
      <3> QED
        BY Zenon, <3>1, <3>3 DEF At, TodoFits
    <2>3. CASE Matching(n) = {} /\ UNCHANGED <<awaits, buffered>>
      BY ZenonT(30), <2>2, <2>3 DEF NoneMissed, Matching
    <2>4. CASE awaits' = [awaits EXCEPT ![n] = 0]
      BY Zenon, <1>0, <1>1, <2>2, <2>4 DEF TypeOK
    <2> QED
      BY Zenon, <1>6, <2>3, <2>4 DEF Consume
  <1> QED
    BY Zenon, <1>3, <1>4, <1>5, <1>6 DEF Calls

LEMMA SignalRekick ==
    ASSUME LInv, SignalInv, Rekick
    PROVE  SignalInv'
  <1>0. todo = Done /\ TypeOK /\ OneLocus /\ rekick \in RekickType /\ RekickOK /\ todo # FailCall /\ NoneMissed
    BY Zenon, IdleIsNoCall DEF Rekick, RekickTask, RekickAwait, RekickChild, RekickNext, LInv, TypeInv, TypeOK, SignalInv
  <1>1. CASE RekickNext \/ RekickTask
    <2>1. todo' = Done /\ UNCHANGED <<awaits, buffered>>
      BY Zenon, <1>0, <1>1 DEF RekickNext, RekickTask, flight, memory
    <2> QED
      BY Zenon, <1>0, <2>1, MissesNone DEF SignalInv, Calm
  <1>2. CASE RekickChild
    <2>1. /\ todo' = Done \/ (todo' = FailCall /\ rekick'.phase = "children")
          /\ UNCHANGED <<awaits, buffered>>
      <3>1. rekick.phase = "children" /\ rekick' = [rekick EXCEPT !.left = @ \ {CHOOSE x \in rekick.left : TRUE}]
        BY Zenon, <1>2 DEF RekickChild
      <3>2. rekick'.phase = rekick.phase
        BY <1>0, <3>1 DEF RekickType
      <3> QED
        BY Zenon, <1>2, <3>1, <3>2 DEF RekickChild, memory
    <2> QED
      BY Zenon, <1>0, <2>1, MissesNone DEF SignalInv, Calm
  <1>3. CASE RekickAwait
    <2>1. PICK k \in Keys : k \in rekick.left /\ k = CHOOSE x \in rekick.left : TRUE
      BY <1>0, <1>3 DEF RekickAwait, RekickType
    <2>2. PICK m \in Nodes : m = NodeOf(k)
      BY Zenon, KeyFacts
    <2>3. /\ rekick.phase = "awaits" /\ buffered' = buffered
          /\ awaits' = [awaits EXCEPT ![m] = num + 1] /\ todo' = Call("consume", m)
      BY Zenon, <1>3, <2>1, <2>2 DEF RekickAwait, OpenAwait, memory
    <2>4. awaits[m] # 0
      BY <1>0, <2>1, <2>2, <2>3 DEF RekickOK
    <2>5. Matching(m) = {}
      BY Zenon, <1>0, <2>4, IdleIsNoCall DEF NoneMissed
    <2>6. Matching(m)' = {}
      BY Zenon, <2>3, <2>5 DEF Matching
    <2>7. \A x \in Nodes : awaits'[x] # 0 => x = m
      BY Zenon, <1>0, <2>3, <2>4, OneAwait DEF TypeOK
    <2> QED
      BY Zenon, <2>3, <2>6, <2>7 DEF SignalInv, Calm, NoneMissed
  <1> QED
    BY Zenon, <1>1, <1>2, <1>3 DEF Rekick

LEMMA SignalArrives ==
    ASSUME LInv, SignalInv, NEW name, NEW id, Signal(name, id)
    PROVE  SignalInv'
  <1>0. TypeOK /\ OneLocus /\ todo = Done /\ NoneMissed /\ rekick = NoRekick /\ rekick' = rekick /\ awaits' = awaits
    BY Zenon DEF LInv, TypeInv, SignalInv, Signal, Ready, Idle, flight
  <1>1. Calm'
    BY Zenon, <1>0, StaysCalm
  <1>2. ASSUME NEW n \in Nodes, awaits[n] # 0, n \notin Listening(name)
        PROVE  Matching(n)' = {}
    <2>1. Matching(n) = {} /\ Flow.signal[n] # name
      BY Zenon, <1>0, <1>2, IdleIsNoCall DEF NoneMissed, Listening
    <2>2. PICK r : r = [name |-> name, id |-> id] /\ r.name = name /\ buffered' = Append(buffered, r)
      BY Zenon DEF Signal
    <2>3. buffered \in Seq(SignalType)
      BY Zenon, <1>0 DEF TypeOK
    <2>4. \A i \in DOMAIN buffered' : (i \in DOMAIN buffered /\ buffered'[i] = buffered[i]) \/ buffered'[i] = r
      <3>1. PICK T : r \in T /\ SignalType \subseteq T
        <4>1. r \in SignalType \cup {r} /\ SignalType \subseteq SignalType \cup {r}
          BY Zenon
        <4> QED
          BY Zenon, <4>1
      <3>2. buffered \in Seq(T)
        BY <2>3, <3>1
      <3> QED
        BY <2>2, <3>1, <3>2
    <2> QED
      BY Zenon, <2>1, <2>2, <2>4 DEF Matching
  <1>3. CASE Listening(name) = {}
    BY Zenon, <1>0, <1>1, <1>2, <1>3 DEF SignalInv, NoneMissed
  <1>4. CASE Listening(name) # {}
    <2>1. PICK m \in Listening(name) : m = CHOOSE n \in Listening(name) : TRUE
      BY Zenon, <1>4
    <2>2. todo' = Call("consume", m)
      BY Zenon, <1>4, <2>1 DEF Signal
    <2>3. m \in Nodes /\ awaits[m] # 0
      BY Zenon, <2>1 DEF Listening
    <2>4. \A n \in Nodes : awaits[n] # 0 => n = m
      BY Zenon, <1>0, <2>3, OneAwait
    <2> QED
      BY Zenon, <1>0, <1>1, <2>2, <2>4 DEF SignalInv, NoneMissed
  <1> QED
    BY Zenon, <1>3, <1>4

LEMMA SignalStep == LInv /\ SignalInv /\ [Next]_vars => SignalInv'
  <1> SUFFICES ASSUME LInv, SignalInv, [Next]_vars PROVE SignalInv'
    BY Zenon
  <1>0. TypeInv /\ TypeOK /\ OneLocus /\ Calm /\ NoneMissed
    BY Zenon DEF LInv, TypeInv, SignalInv
  <1>1. ASSUME Idle, rekick' = rekick \/ todo' = Done, buffered' = buffered, awaits' = awaits
        PROVE  SignalInv'
    BY Zenon, <1>0, <1>1, StaysCalm, MissesNone DEF Idle, SignalInv, Calm
  <1>2. CASE Start \/ Fork \/ \E id \in UpdateIds : Update(id)
    BY Zenon, <1>1, <1>2 DEF Start, Fork, Update, flight, memory, Ready, Idle
  <1>3. CASE Calls
    BY Zenon, <1>0, <1>3, CallsAreCalm, CallsMissNone DEF SignalInv
  <1>4. CASE Results
    <2>1. ASSUME NEW k, NEW retryable, NEW u, NEW live, TaskFailed(k, retryable, u, live), Ready
          PROVE  SignalInv'
      BY Zenon, <1>1, <2>1 DEF TaskFailed, memory, Ready
    <2>2. ASSUME NEW j, NEW u, NEW dyn, Complete(j, u, dyn)
          PROVE  SignalInv'
      BY Zenon, <1>1, <2>2 DEF Complete, memory, Ready
    <2> QED
      BY Zenon, <1>4, <2>1, <2>2 DEF Results, FailTask
  <1>5. CASE Timer
    <2>1. ASSUME NEW t, ObsoleteTimer(t) \/ RetryTimer(t) \/ TimeoutTimer(t)
          PROVE  SignalInv'
      <3>1. Ready /\ rekick' = rekick /\ buffered' = buffered /\ awaits' = awaits
        BY Zenon, <2>1 DEF ObsoleteTimer, RetryTimer, TimeoutTimer, TaskFailed, memory
      <3> QED
        BY Zenon, <1>1, <3>1 DEF Ready
    <2>2. ASSUME NEW t, AwaitTimer(t)
          PROVE  SignalInv'
      <3>1. Ready /\ rekick' = rekick /\ buffered' = buffered /\ awaits' = [awaits EXCEPT ![NodeOf(t.key)] = 0]
        BY Zenon, <2>2 DEF AwaitTimer, memory
      <3>2. \A n \in Nodes : awaits'[n] # 0 => awaits[n] # 0
        BY Zenon, <1>0, <3>1 DEF TypeOK
      <3> QED
        BY Zenon, <1>0, <3>1, <3>2, StaysCalm, MissesNone DEF SignalInv, Ready, Idle
    <2> QED
      BY Zenon, <1>5, <2>1, <2>2 DEF Timer
  <1>6. CASE ChildResults
    <2>1. PICK k, c, u, ok : ChildDone(k, c, u, ok)
      BY Zenon, <1>6 DEF ChildResults
    <2>2. Ready /\ rekick' = rekick /\ buffered' = buffered /\ awaits' = awaits
      BY Zenon, <2>1 DEF ChildDone, memory
    <2> QED
      BY Zenon, <1>1, <2>2 DEF Ready
  <1>7. CASE Requests
    <2>1. ASSUME NEW j, NEW u, NEW k, Interrupt(j, u) \/ Resume(k)
          PROVE  SignalInv'
      <3>1. Ready /\ rekick' = rekick /\ buffered' = buffered /\ awaits' = awaits
        BY Zenon, <2>1 DEF Interrupt, Resume, memory
      <3> QED
        BY Zenon, <1>1, <3>1 DEF Ready
    <2> QED
      BY Zenon, <1>2, <1>7, <2>1, SignalArrives, SignalTerminates DEF Requests, Cancel, Abort
  <1>8. CASE UNCHANGED vars
    BY Zenon, <1>0, <1>8 DEF SignalInv, Calm, NoneMissed, Matching, vars, flight, memory
  <1> QED
    BY Zenon, <1>2, <1>3, <1>4, <1>5, <1>6, <1>7, <1>8, SignalRekick DEF Next

\* Signals and the state they need, in one invariant.
CalmInv == LInv /\ SignalInv
=============================================================================
