-------------------------- MODULE FoldFamilyProofs --------------------------
(***************************************************************************)
(* The children of an execution: which it waits for, and what became of    *)
(* the others.  Then what the decider guarantees between decisions:        *)
(* nothing is in flight when it completes, it is never stuck, and its      *)
(* maps, fan-outs, signals and children are accounted for.  The facts of   *)
(* counting are discharged here, and the steps of the modules it extends   *)
(* put together to invariants.                                             *)
(***************************************************************************)
EXTENDS FoldWorkProofs, FiniteSetTheorems

\* Children: which the execution waits for, and what became of the others.

Ids == {s.id : s \in started}

Mine(k) == IdOf(children[k]) \in Ids \ (ended \cup cancelled)

\* The child of a fork's source, which its re-dispatch is yet to replace.
OfSource(k) ==
    /\ children[k].exec < exec
    /\ \/ rekick.phase \in {"tasks", "awaits"}
       \/ rekick.phase = "children" /\ IdOf(children[k]) \in inherited /\ (k \in rekick.left \/ todo = FailCall)

Numbered ==
    /\ \A k \in Keys : Running(k) => children[k].nr <= num /\ children[k].exec <= exec
    /\ \A s \in started : s.id.exec = exec /\ s.id.nr <= num
    /\ \A k, l \in Keys : Running(k) /\ Running(l) /\ IdOf(children[k]) = IdOf(children[l]) => k = l

Known == \A k \in Keys : Running(k) => Mine(k) \/ OfSource(k)

Told == ended \cup cancelled \subseteq Ids /\ ended \cap cancelled = {}

Kept(s) ==
    \/ \E k \in Keys : Running(k) /\ NodeOf(k) = s.node /\ IdOf(children[k]) = s.id
    \/ s.id \in ended \cup cancelled
    \/ s.node \in Flow.abandon

Renewing ==
    /\ rekick.phase = "no" => rekick = NoRekick
    /\ rekick.phase # "children" => inherited = {}
    /\ \A c \in inherited : c.exec < exec
    /\ rekick.phase \in {"tasks", "awaits"} => started = {}
    /\ rekick.phase = "children" => \A k \in rekick.left : children[k].exec < exec

Family == Numbered /\ Known /\ Told /\ Renewing /\ \A s \in started : Kept(s)

LEMMA IdFields == \A c : IdOf(c).exec = c.exec /\ IdOf(c).nr = c.nr
  BY Zenon DEF IdOf

LEMMA SourceNumbers ==
    ASSUME TypeOK
    PROVE  /\ num \in Nat /\ exec \in Nat /\ \A k \in Keys : children[k].exec \in Nat /\ children[k].nr \in Nat
           /\ \A s \in started : s.id.exec \in Nat /\ s.id.nr \in Nat
           /\ \A c \in inherited : c.exec \in Nat
  BY Zenon DEF TypeOK, ChildType, StartType, ChildId

\* Nothing happens to a child.
LEMMA FamilyKept ==
    ASSUME TypeOK, TypeOK', Family, UNCHANGED <<children, started, ended, cancelled, exec, inherited, rekick>>, num <= num',
           rekick.phase = "children" /\ todo = FailCall => todo' = FailCall
    PROVE  Family'
  <1>1. num \in Nat /\ num' \in Nat
    BY Zenon DEF TypeOK
  <1>2. \A x \in Nat : x <= num => x <= num'
    BY <1>1
  <1>3. Numbered'
    BY Zenon, <1>2, SourceNumbers DEF Family, Numbered, Running
  <1>4. Known'
    BY Zenon DEF Family, Known, Mine, OfSource, Ids, Running
  <1>5. Told' /\ Renewing' /\ \A s \in started' : Kept(s)'
    BY Zenon DEF Family, Told, Renewing, Kept, Ids, Running
  <1> QED
    BY Zenon, <1>3, <1>4, <1>5 DEF Family

\* A child starts, in the place of none or of the source's.
LEMMA FamilyStarts ==
    ASSUME TypeOK, Family, NEW k \in Keys, NEW owner, StartChild(k, owner), Running(k) => children[k].exec < exec,
           UNCHANGED <<ended, cancelled, exec, inherited>>, todo # FailCall, rekick.phase \notin {"tasks", "awaits"},
           rekick'.phase = rekick.phase, rekick'.left = rekick.left \ {k}, rekick'.phase = "no" => rekick' = NoRekick
    PROVE  Family'
  <1>0. PICK id : /\ id = [exec |-> exec, nr |-> num + 1]
                  /\ started' = started \cup {[id |-> id, node |-> NodeOf(k)]} /\ num' = num + 1
    BY Zenon DEF StartChild
  <1>1. /\ id.exec = exec /\ id.nr = num + 1
        /\ started' = started \cup {[id |-> id, node |-> NodeOf(k)]} /\ num' = num + 1
    BY SMT, <1>0
  <1>2. /\ children'[k] # NoChild /\ \A x \in Keys : x # k => children'[x] = children[x]
        /\ children'[k].exec = exec /\ children'[k].nr = num + 1 /\ IdOf(children'[k]) = id
    <2>1. children' = [children EXCEPT ![k] = [exec |-> exec, nr |-> num + 1, owner |-> owner]]
      BY Zenon DEF StartChild
    <2>2. children'[k] = [exec |-> exec, nr |-> num + 1, owner |-> owner]
      BY Zenon, <2>1 DEF TypeOK
    <2>3. children'[k].exec = exec /\ children'[k].nr = num + 1
      BY SMT, <2>2
    <2> QED
      BY Zenon, <1>0, <2>3, ChildStarted DEF IdOf
  <1>3. num \in Nat /\ exec \in Nat /\ num <= num + 1 /\ ~(num + 1 <= num) /\ exec <= exec /\ ~(exec < exec)
    BY SourceNumbers
  <1>a. \A x \in Nat : x <= num => x <= num + 1
    BY <1>3
  <1>4. PICK r : r = [id |-> id, node |-> NodeOf(k)] /\ r.id = id /\ r.node = NodeOf(k) /\ started' = started \cup {r}
    BY Zenon, <1>1
  <1>5. Ids' = Ids \cup {id}
    BY Zenon, <1>4 DEF Ids
  <1>6. id \notin Ids
    BY Zenon, <1>1, <1>3 DEF Family, Numbered, Ids
  <1>7. \A x \in Keys : x # k => (Running(x)' <=> Running(x)) /\ children'[x] = children[x]
    BY Zenon, <1>2 DEF Running
  <1>8. Numbered'
    <2>1. \A x \in Keys : Running(x)' => children'[x].nr <= num' /\ children'[x].exec <= exec'
      <3>1. children'[k].nr <= num' /\ children'[k].exec <= exec'
        BY <1>1, <1>2, <1>3
      <3> QED
        BY Zenon, <1>1, <1>a, <1>7, <3>1, SourceNumbers DEF Family, Numbered
    <2>2. \A s \in started' : s.id.exec = exec' /\ s.id.nr <= num'
      <3>1. r.id.exec = exec' /\ r.id.nr <= num'
        BY <1>1, <1>3, <1>4
      <3> QED
        BY Zenon, <1>1, <1>a, <1>4, <3>1, SourceNumbers DEF Family, Numbered
    <2>3. \A x \in Keys : x # k /\ Running(x)' => IdOf(children'[x]) # id
      <3> SUFFICES ASSUME NEW x \in Keys, x # k, Running(x)' PROVE IdOf(children'[x]) # id
        BY Zenon
      <3>1. children'[x].nr <= num
        BY Zenon, <1>7 DEF Family, Numbered
      <3> QED
        BY Zenon, <1>1, <1>3, <3>1, IdFields
    <2>4. \A x, y \in Keys : Running(x)' /\ Running(y)' /\ IdOf(children'[x]) = IdOf(children'[y]) => x = y
      BY Zenon, <1>2, <1>7, <2>3 DEF Family, Numbered
    <2> QED
      BY Zenon, <2>1, <2>2, <2>4 DEF Numbered
  <1>9. Known'
    <2>1. Mine(k)'
      BY Zenon, <1>2, <1>5, <1>6 DEF Mine, Family, Told
    <2>2. ASSUME NEW x \in Keys, x # k, Running(x)'
          PROVE  Mine(x)' \/ OfSource(x)'
      <3>1. Mine(x) \/ OfSource(x)
        BY Zenon, <1>7, <2>2 DEF Family, Known
      <3>2. Mine(x) => Mine(x)'
        BY Zenon, <1>5, <1>7, <2>2 DEF Mine
      <3>3. OfSource(x) => OfSource(x)'
        BY Zenon, <1>7, <2>2 DEF OfSource
      <3> QED
        BY Zenon, <3>1, <3>2, <3>3
    <2> QED
      BY Zenon, <2>1, <2>2 DEF Known
  <1>10. Told'
    BY Zenon, <1>5 DEF Family, Told
  <1>11. Renewing'
    <2>1. rekick'.phase = "children" => \A x \in rekick'.left : children'[x].exec < exec'
      <3>1. \A x \in rekick.left : x \in Keys
        BY Zenon DEF TypeOK, RekickType
      <3> QED
        BY Zenon, <1>7, <3>1 DEF Family, Renewing
    <2> QED
      BY Zenon, <2>1 DEF Family, Renewing
  <1>12. \A s \in started' : Kept(s)'
    <2>1. Kept(r)'
      BY Zenon, <1>2, <1>4 DEF Kept, Running
    <2>2. ASSUME NEW s \in started PROVE Kept(s)'
      <3>1. Kept(s) /\ s.id.exec = exec
        BY Zenon DEF Family, Numbered
      <3>2. ASSUME NEW x \in Keys, Running(x), NodeOf(x) = s.node, IdOf(children[x]) = s.id
            PROVE  Kept(s)'
        <4>1. x # k
          BY Zenon, <1>3, <3>1, <3>2, IdFields
        <4> QED
          BY Zenon, <1>7, <3>2, <4>1 DEF Kept
      <3> QED
        BY Zenon, <3>1, <3>2 DEF Kept
    <2> QED
      BY Zenon, <1>4, <2>1, <2>2
  <1> QED
    BY Zenon, <1>8, <1>9, <1>10, <1>11, <1>12 DEF Family

\* Without a re-dispatch under way every child is the execution's own.
LEMMA AllMine ==
    ASSUME Family, rekick = NoRekick
    PROVE  inherited = {} /\ \A k \in Keys : Running(k) => Mine(k)
  <1>1. rekick.phase = "no"
    BY Zenon DEF NoRekick
  <1>2. rekick.phase # "children" /\ rekick.phase \notin {"tasks", "awaits"}
    BY <1>1
  <1> QED
    BY Zenon, <1>2 DEF Family, Renewing, Known, OfSource

\* A child answers.
LEMMA FamilyAnswered ==
    ASSUME LInv, Family, NEW k, NEW s \in started, NEW u, NEW ok, k \in Keys, ChildDone(k, s.id, u, ok)
    PROVE  Family'
  <1>1. /\ rekick = NoRekick /\ Running(k) /\ IdOf(children[k]) = s.id /\ TypeOK
        /\ ended' = ended \cup {s.id} /\ children' = [children EXCEPT ![k] = NoChild]
        /\ UNCHANGED <<started, cancelled, exec, inherited, rekick, num>>
    BY Zenon DEF ChildDone, Ready, Idle, LInv, TypeInv
  <1>2. \A x \in Keys : Running(x) => Mine(x)
    BY Zenon, <1>1, AllMine
  <1>3. children'[k] = NoChild /\ \A x \in Keys : x # k => children'[x] = children[x]
    BY Zenon, <1>1 DEF TypeOK
  <1>4. \A x \in Keys : Running(x)' => x # k /\ Running(x) /\ children'[x] = children[x]
    BY Zenon, <1>3 DEF Running
  <1>5. s.id \in Ids /\ s.id \notin cancelled /\ Ids' = Ids
    BY Zenon, <1>1, <1>2 DEF Mine, Ids
  <1>6. Numbered'
    BY Zenon, <1>1, <1>4 DEF Family, Numbered
  <1>7. \A x \in Keys : Running(x)' => IdOf(children'[x]) # s.id
    BY Zenon, <1>1, <1>4 DEF Family, Numbered
  <1>8. Known'
    <2>1. ASSUME NEW x \in Keys, Running(x)' PROVE Mine(x)'
      <3>1. IdOf(children'[x]) \in Ids /\ IdOf(children'[x]) \notin ended /\ IdOf(children'[x]) \notin cancelled
        BY Zenon, <1>2, <1>4, <2>1 DEF Mine
      <3>2. IdOf(children'[x]) \notin ended'
        <4>1. IdOf(children'[x]) # s.id /\ ended' = ended \cup {s.id}
          BY Zenon, <1>1, <1>7, <2>1
        <4> QED
          BY SMT, <3>1, <4>1
      <3> QED
        BY Zenon, <1>1, <1>5, <3>1, <3>2 DEF Mine
    <2> QED
      BY Zenon, <2>1 DEF Known
  <1>9. Told'
    BY Zenon, <1>1, <1>5 DEF Family, Told
  <1>10. Renewing'
    <2>1. rekick'.phase # "children"
      BY <1>1 DEF NoRekick
    <2> QED
      BY Zenon, <1>1, <2>1 DEF Family, Renewing
  <1>11. ASSUME NEW x \in started' PROVE Kept(x)'
    <2>1. Kept(x)
      BY Zenon, <1>1 DEF Family
    <2>2. ASSUME NEW y \in Keys, Running(y), NodeOf(y) = x.node, IdOf(children[y]) = x.id
          PROVE  Kept(x)'
      <3>1. CASE y = k
        BY Zenon, <1>1, <2>2, <3>1 DEF Kept
      <3>2. CASE y # k
        BY Zenon, <1>3, <2>2, <3>2 DEF Kept, Running
      <3> QED
        BY Zenon, <3>1, <3>2
    <2> QED
      BY Zenon, <1>1, <2>1, <2>2 DEF Kept
  <1> QED
    BY Zenon, <1>6, <1>8, <1>9, <1>10, <1>11 DEF Family

\* A fan-out or a map settles, and lets the children it owns go.
LEMMA FamilyDropped ==
    ASSUME TypeOK, Family, rekick = NoRekick, NEW o \in Nodes,
           cancelled' = cancelled \cup OwnedChildren(o), children' = DropChildren(o),
           UNCHANGED <<started, ended, exec, inherited, rekick, num>>
    PROVE  Family'
  <1>1. \A x \in Keys : Running(x) => Mine(x)
    BY Zenon, AllMine
  <1>2. \A x \in Keys : children'[x] = IF children[x].owner = o THEN NoChild ELSE children[x]
    BY Zenon DEF DropChildren
  <1>3. \A x \in Keys : Running(x)' => Running(x) /\ children'[x] = children[x] /\ children[x].owner # o
    BY Zenon, <1>2 DEF Running
  <1>4. ASSUME NEW c \in OwnedChildren(o)
        PROVE  \E x \in Keys : c = IdOf(children[x]) /\ Running(x) /\ children[x].owner = o
    BY Zenon DEF OwnedChildren
  <1>5. Ids' = Ids /\ \A c \in OwnedChildren(o) : c \in Ids /\ c \notin ended
    BY Zenon, <1>1, <1>4 DEF Mine, Ids
  <1>6. Numbered'
    BY Zenon, <1>3 DEF Family, Numbered
  <1>7. \A x \in Keys : Running(x)' => IdOf(children'[x]) \notin OwnedChildren(o)
    BY Zenon, <1>3, <1>4 DEF Family, Numbered
  <1>8. Known'
    BY Zenon, <1>1, <1>3, <1>5, <1>7 DEF Known, Mine
  <1>9. Told'
    BY Zenon, <1>5 DEF Family, Told
  <1>10. Renewing'
    <2>1. rekick'.phase # "children"
      BY DEF NoRekick
    <2> QED
      BY Zenon, <2>1 DEF Family, Renewing
  <1>11. ASSUME NEW s \in started' PROVE Kept(s)'
    <2>1. Kept(s)
      BY Zenon DEF Family
    <2>2. ASSUME NEW x \in Keys, Running(x), NodeOf(x) = s.node, IdOf(children[x]) = s.id
          PROVE  Kept(s)'
      <3>1. CASE children[x].owner # o
        BY Zenon, <1>2, <2>2, <3>1 DEF Kept, Running
      <3>2. CASE children[x].owner = o /\ s.node \notin Flow.abandon
        <4>1. s.id \in OwnedChildren(o)
          BY Zenon, <2>2, <3>2 DEF OwnedChildren
        <4> QED
          BY Zenon, <4>1 DEF Kept
      <3> QED
        BY Zenon, <3>1, <3>2 DEF Kept
    <2> QED
      BY Zenon, <2>1, <2>2 DEF Kept
  <1> QED
    BY Zenon, <1>6, <1>8, <1>9, <1>10, <1>11 DEF Family

\* The execution ends, and its own children with it, not those of its source.
LEMMA FamilyTerminated ==
    ASSUME TypeOK, Family, NEW z, Terminate(z), cancelled' = cancelled \cup CancelChildren,
           \A k \in Keys : Running(k) => Mine(k) \/ IdOf(children[k]) \in inherited
    PROVE  Family'
  <1>1. /\ rekick' = NoRekick /\ inherited' = {} /\ UNCHANGED <<started, ended, exec, num>>
        /\ children' = [k \in Keys |-> NoChild]
    BY Zenon DEF Terminate
  <1>2. \A x \in Keys : ~Running(x)'
    BY Zenon, <1>1 DEF Running
  <1>3. Ids' = Ids /\ \A c \in CancelChildren : c \in Ids /\ c \notin ended
    <2>1. ASSUME NEW c \in CancelChildren
          PROVE  \E x \in Keys : c = IdOf(children[x]) /\ Running(x) /\ c \notin inherited
      BY Zenon DEF CancelChildren
    <2> QED
      BY Zenon, <1>1, <2>1 DEF Mine, Ids
  <1>4. Numbered' /\ Known'
    BY Zenon, <1>1, <1>2 DEF Family, Numbered, Known
  <1>5. Told'
    BY Zenon, <1>1, <1>3 DEF Family, Told
  <1>6. Renewing'
    <2>1. rekick'.phase # "children" /\ rekick'.phase \notin {"tasks", "awaits"}
      BY <1>1 DEF NoRekick
    <2> QED
      BY Zenon, <1>1, <2>1 DEF Renewing
  <1>7. ASSUME NEW s \in started' PROVE Kept(s)'
    <2>1. Kept(s) /\ s.id.exec = exec
      BY Zenon, <1>1 DEF Family, Numbered
    <2>2. ASSUME NEW x \in Keys, Running(x), NodeOf(x) = s.node, IdOf(children[x]) = s.id, s.node \notin Flow.abandon
          PROVE  Kept(s)'
      <3>1. s.id \notin inherited
        <4>1. ~(exec < exec)
          BY SourceNumbers
        <4> QED
          BY Zenon, <2>1, <4>1 DEF Family, Renewing
      <3>2. s.id \in CancelChildren
        BY Zenon, <2>2, <3>1 DEF CancelChildren
      <3> QED
        BY Zenon, <3>2 DEF Kept
    <2> QED
      BY Zenon, <1>1, <2>1, <2>2 DEF Kept
  <1> QED
    BY Zenon, <1>4, <1>5, <1>6, <1>7 DEF Family

\* A fork starts without children of its own.
LEMMA FamilyForked ==
    ASSUME LInv, LInv', Family, Fork
    PROVE  Family'
  <1>1. /\ exec' = exec + 1 /\ started' = {} /\ ended' = {} /\ cancelled' = {} /\ UNCHANGED <<children, num, inherited>>
        /\ rekick = NoRekick /\ TypeOK /\ OneLocus /\ status # "none"
        /\ rekick' = IF status \in Terminal THEN NoRekick ELSE [phase |-> "tasks", left |-> Redispatched]
    BY Zenon DEF Fork, Idle, LInv, TypeInv
  <1>2. \A x \in Nat : x <= exec => x <= exec' /\ x < exec'
    BY <1>1, SourceNumbers
  <1>3. Numbered'
    BY Zenon, <1>1, <1>2, SourceNumbers DEF Family, Numbered, Running
  <1>4. inherited' = {} /\ Told' /\ \A s \in started' : Kept(s)'
    BY Zenon, <1>1, AllMine DEF Told
  <1>5. CASE status = "open"
    <2>1. rekick' = [phase |-> "tasks", left |-> Redispatched]
      BY Zenon, <1>1, <1>5 DEF Terminal
    <2>2. rekick'.phase = "tasks" /\ rekick'.phase # "no" /\ rekick'.phase # "children"
      BY <2>1
    <2>3. Renewing'
      BY Zenon, <1>1, <1>4, <2>2 DEF Renewing
    <2>4. Known'
      BY Zenon, <1>1, <1>2, <2>2, SourceNumbers DEF Known, OfSource, Running, Family, Numbered
    <2> QED
      BY Zenon, <1>3, <1>4, <2>3, <2>4 DEF Family
  <1>6. CASE status # "open"
    <2>1. rekick' = NoRekick
      BY Zenon, <1>1, <1>6 DEF TypeOK
    <2>2. rekick'.phase # "children" /\ rekick'.phase \notin {"tasks", "awaits"}
      BY <2>1 DEF NoRekick
    <2>3. Renewing'
      BY Zenon, <1>4, <2>1, <2>2 DEF Renewing
    <2>4. \A x \in Keys : ~Running(x)'
      BY Zenon, <1>1, <1>6, NothingIsEmpty DEF OneLocus, Empty, Running
    <2> QED
      BY Zenon, <1>3, <1>4, <2>3, <2>4 DEF Family, Known
  <1> QED
    BY Zenon, <1>5, <1>6

LEMMA FamilyRekick ==
    ASSUME CalmInv, Family, Rekick, TypeOK'
    PROVE  Family'
  <1>0. /\ todo = Done /\ todo # FailCall /\ rekick.phase # "no" /\ TypeOK /\ rekick \in RekickType /\ RekickOK
        /\ num \in Nat
    BY Zenon, IdleIsNoCall
       DEF Rekick, RekickTask, RekickAwait, RekickChild, RekickNext, CalmInv, LInv, TypeInv, TypeOK
  <1>1. CASE RekickNext
    <2>1. UNCHANGED <<children, started, ended, cancelled, exec, num, todo>> /\ rekick.left = {}
      BY Zenon, <1>1 DEF RekickNext, flight, outside
    <2>2. Numbered' /\ Told' /\ (\A s \in started' : Kept(s)') /\ Ids' = Ids
      BY Zenon, <2>1 DEF Family, Numbered, Told, Kept, Ids, Running
    <2>3. \A x \in Keys : Running(x)' <=> Running(x)
      BY Zenon, <2>1 DEF Running
    <2>4. \A x \in Keys : Mine(x) => Mine(x)'
      BY Zenon, <2>1, <2>2 DEF Mine
    <2>5. CASE rekick.phase = "tasks"
      <3>1. rekick' = [phase |-> "awaits", left |-> {Plain(n) : n \in {x \in Nodes : awaits[x] # 0}}] /\ inherited' = {}
        BY <1>1, <2>5 DEF RekickNext
      <3>2. rekick'.phase = "awaits" /\ rekick'.phase # "no" /\ rekick'.phase # "children"
        BY <3>1
      <3>3. started = {}
        BY Zenon, <2>5 DEF Family, Renewing
      <3>4. Renewing'
        BY Zenon, <2>1, <3>1, <3>2, <3>3 DEF Renewing
      <3>5. \A x \in Keys : OfSource(x) => OfSource(x)'
        BY Zenon, <2>1, <3>2 DEF OfSource
      <3> QED
        BY Zenon, <2>2, <2>3, <2>4, <3>4, <3>5 DEF Family, Known
    <2>6. CASE rekick.phase = "awaits"
      <3>1. /\ rekick' = [phase |-> "children", left |-> {k \in Keys : Running(k)}]
            /\ inherited' = {IdOf(children[k]) : k \in {x \in Keys : Running(x)}}
        BY <1>1, <2>6 DEF RekickNext
      <3>2. rekick'.phase = "children" /\ rekick'.left = {k \in Keys : Running(k)} /\ rekick'.phase # "no"
            /\ rekick'.phase \notin {"tasks", "awaits"}
        BY <3>1
      <3>3. started = {}
        BY Zenon, <2>6 DEF Family, Renewing
      <3>4. \A x \in Keys : Running(x) => children[x].exec < exec
        BY Zenon, <3>3 DEF Family, Known, Mine, Ids, OfSource
      <3>5. Renewing'
        <4>1. \A c \in inherited' : c.exec < exec
          BY Zenon, <3>1, <3>4, IdFields
        <4> QED
          BY Zenon, <2>1, <3>2, <3>4, <4>1 DEF Renewing
      <3>6. Known'
        BY Zenon, <2>1, <2>3, <3>1, <3>2, <3>4 DEF Known, OfSource
      <3> QED
        BY Zenon, <2>2, <3>5, <3>6 DEF Family
    <2>7. CASE rekick.phase = "children"
      <3>1. rekick' = NoRekick /\ inherited' = {}
        BY <1>1, <2>7 DEF RekickNext
      <3>2. rekick'.phase # "children" /\ rekick'.phase \notin {"tasks", "awaits"}
        BY <3>1 DEF NoRekick
      <3>3. Renewing'
        BY Zenon, <3>1, <3>2 DEF Renewing
      <3>4. rekick.phase \notin {"tasks", "awaits"}
        BY <2>7
      <3>5. \A x \in Keys : ~OfSource(x)
        BY Zenon, <1>0, <2>1, <3>4 DEF OfSource
      <3> QED
        BY Zenon, <2>2, <2>3, <2>4, <3>3, <3>5 DEF Family, Known
    <2> QED
      BY Zenon, <1>0, <2>5, <2>6, <2>7 DEF RekickType
  <1>2. ASSUME RekickTask \/ RekickAwait \/ RekickChild
        PROVE  Family'
    <2>1. PICK k \in Keys : k \in rekick.left /\ k = CHOOSE x \in rekick.left : TRUE
      BY <1>0, <1>2 DEF RekickTask, RekickAwait, RekickChild, RekickType
    <2>2. rekick' = [rekick EXCEPT !.left = @ \ {k}]
      BY <1>2, <2>1 DEF RekickTask, RekickAwait, RekickChild
    <2>3. rekick'.phase = rekick.phase /\ rekick'.left = rekick.left \ {k}
      BY <1>0, <2>2 DEF RekickType
    <2>4. CASE RekickTask \/ RekickAwait
      <3>1. /\ UNCHANGED <<children, started, ended, cancelled, exec, inherited>>
            /\ rekick.phase \in {"tasks", "awaits"} /\ rekick'.phase \in {"tasks", "awaits"}
        BY Zenon, <2>3, <2>4 DEF RekickTask, RekickAwait, outside
      <3>2. num <= num'
        <4>1. CASE RekickTask
          BY <1>0, <2>1, <4>1 DEF RekickTask, Schedule
        <4>2. CASE RekickAwait
          BY <1>0, <4>2 DEF RekickAwait, OpenAwait
        <4> QED
          BY Zenon, <2>4, <4>1, <4>2
      <3>3. \A x \in Nat : x <= num => x <= num'
        BY <1>0, <3>2 DEF TypeOK
      <3>4. Numbered'
        BY Zenon, <1>0, <3>1, <3>3, SourceNumbers DEF Family, Numbered, Running
      <3>5. Told' /\ (\A s \in started' : Kept(s)')
        BY Zenon, <3>1 DEF Family, Told, Kept, Ids, Running
      <3>6. rekick'.phase # "no" /\ rekick'.phase # "children" /\ rekick.phase # "children"
        BY <3>1
      <3>7. Renewing'
        BY Zenon, <3>1, <3>6 DEF Family, Renewing
      <3>8. Known'
        BY Zenon, <3>1, <3>6 DEF Family, Known, Mine, OfSource, Ids, Running
      <3> QED
        BY Zenon, <3>4, <3>5, <3>7, <3>8 DEF Family
    <2>5. CASE RekickChild
      <3>1. /\ rekick.phase = "children" /\ UNCHANGED <<ended, cancelled, exec, inherited>>
            /\ \/ StartChild(k, children[k].owner) /\ todo' = Done
               \/ todo' = FailCall /\ UNCHANGED <<children, started, num>>
        BY Zenon, <2>1, <2>5 DEF RekickChild
      <3>2. rekick.phase \notin {"tasks", "awaits"} /\ rekick'.phase # "no" /\ rekick'.phase = "children"
        BY <2>3, <3>1
      <3>3. CASE StartChild(k, children[k].owner) /\ todo' = Done
        <4>1. children[k].exec < exec
          BY Zenon, <2>1, <3>1 DEF Family, Renewing
        <4> QED
          BY Zenon, <1>0, <2>3, <3>1, <3>2, <3>3, <4>1, FamilyStarts
      <3>4. CASE todo' = FailCall /\ UNCHANGED <<children, started, num>>
        <4>1. Numbered' /\ Told' /\ (\A s \in started' : Kept(s)')
          BY Zenon, <3>1, <3>4 DEF Family, Numbered, Told, Kept, Ids, Running
        <4>2. Renewing'
          BY Zenon, <2>3, <3>1, <3>2, <3>4 DEF Family, Renewing
        <4>3. \A x \in Keys : (Mine(x) => Mine(x)') /\ (OfSource(x) => OfSource(x)')
          BY Zenon, <3>1, <3>2, <3>4 DEF Mine, OfSource, Ids
        <4>4. Known'
          BY Zenon, <3>4, <4>3 DEF Family, Known, Running
        <4> QED
          BY Zenon, <4>1, <4>2, <4>4 DEF Family
      <3> QED
        BY Zenon, <3>1, <3>3, <3>4
    <2> QED
      BY Zenon, <1>2, <2>4, <2>5
  <1> QED
    BY Zenon, <1>1, <1>2 DEF Rekick

\* The numbers only grow.
LEMMA ScheduleNumbers ==
    ASSUME TypeOK, NEW k, NEW owner, NEW gen, NEW attempt, NEW live, Schedule(k, owner, gen, attempt, live)
    PROVE  num <= num'
  BY SourceNumbers DEF Schedule

LEMMA NotRenewing ==
    ASSUME Calm, todo.op \in {"enter", "complete", "branch", "evalJoin", "mapProgress", "abortMap"}
    PROVE  rekick = NoRekick /\ todo # FailCall
  <1>1. todo # Done /\ todo # FailCall /\ \A n : todo # Call("consume", n)
    BY SMT, FailIsNotOther
  <1> QED
    BY Zenon, <1>1 DEF Calm

LEMMA FamilyCalls ==
    ASSUME CalmInv, FanInv, Family, Calls, TypeOK'
    PROVE  Family'
  <1> USE FailIsNotOther
  <1>0. TypeInv /\ TypeOK /\ OneLocus /\ Calm /\ num \in Nat /\ num' \in Nat /\ num <= num
    <2>1. TypeInv /\ TypeOK /\ OneLocus /\ Calm
      BY Zenon DEF CalmInv, LInv, TypeInv, SignalInv
    <2>2. num \in Nat /\ num' \in Nat
      BY Zenon, <2>1 DEF TypeOK
    <2>3. num <= num
      BY SMT, <2>2
    <2> QED
      BY Zenon, <2>1, <2>2, <2>3
  <1>1. ASSUME UNCHANGED <<children, started, ended, cancelled, exec, inherited, rekick>>, num <= num', todo # FailCall
        PROVE  Family'
    BY Zenon, <1>0, <1>1, FamilyKept
  <1>2. CASE Fail
    <2>1. \A k \in Keys : Running(k) => Mine(k) \/ IdOf(children[k]) \in inherited
      <3>1. todo # Done /\ \A n : todo # Call("consume", n)
        BY SMT, <1>2 DEF Fail
      <3>2. CASE rekick = NoRekick
        BY Zenon, <3>2, AllMine
      <3>3. CASE rekick # NoRekick
        <4>1. rekick.phase = "children"
          BY Zenon, <1>0, <3>1, <3>3 DEF Calm
        <4>2. rekick.phase \notin {"tasks", "awaits"}
          BY <4>1
        <4> QED
          BY Zenon, <4>2 DEF Family, Known, OfSource
      <3> QED
        BY Zenon, <3>2, <3>3
    <2> QED
      BY Zenon, <1>0, <1>2, <2>1, FamilyTerminated DEF Fail
  <1>3. CASE CompleteExecution \/ EnterTooDeep
    <2>1. todo.op \in {"enter", "complete"}
      BY Zenon, <1>3 DEF CompleteExecution, EnterTooDeep
    <2>2. todo # FailCall /\ \A k \in Keys : ~Running(k)
      BY Zenon, <1>0, <2>1, NotRenewing, EnterIsEmpty DEF Empty
    <2>3. CASE Terminate("completed") /\ UNCHANGED cancelled
      <3>1. CancelChildren = {}
        BY Zenon, <2>2 DEF CancelChildren
      <3>2. cancelled' = cancelled \cup CancelChildren
        BY Zenon, <2>3, <3>1
      <3> QED
        BY Zenon, <1>0, <2>2, <2>3, <3>2, FamilyTerminated
    <2>4. CASE UNCHANGED <<status, flight, num, steps, counters, memory, rekick, inherited, exec, outside>>
      BY Zenon, <1>0, <1>1, <2>2, <2>4 DEF flight, outside
    <2> QED
      BY Zenon, <1>3, <2>3, <2>4 DEF CompleteExecution, EnterTooDeep
  <1>4. ASSUME NEW n \in Nodes,
               EnterTask(n) \/ EnterChoice(n) \/ EnterFanout(n) \/ EnterAwait(n) \/ EnterMap(n)
        PROVE  Family'
    <2>1. todo = Call("enter", n)
      BY Zenon, <1>4 DEF EnterTask, EnterChoice, EnterFanout, EnterAwait, EnterMap, Enter
    <2>2. UNCHANGED <<children, started, ended, cancelled, exec, inherited, rekick>>
      BY Zenon, <1>4 DEF EnterTask, EnterChoice, EnterFanout, EnterAwait, EnterMap, Enter, flight
    <2>3. num <= num'
      <3>1. CASE EnterTask(n)
        BY Zenon, <1>0, <3>1, ScheduleNumbers DEF EnterTask
      <3>2. CASE EnterAwait(n)
        <4>1. num' = num + 1
          BY Zenon, <3>2 DEF EnterAwait, OpenAwait
        <4> QED
          BY <1>0, <4>1
      <3>3. CASE EnterChoice(n) \/ EnterFanout(n) \/ EnterMap(n)
        BY Zenon, <1>0, <3>3 DEF EnterChoice, EnterFanout, EnterMap
      <3> QED
        BY Zenon, <1>4, <3>1, <3>2, <3>3
    <2>4. todo # FailCall
      BY Zenon, <1>0, <2>1, NotRenewing
    <2> QED
      BY Zenon, <1>1, <2>2, <2>3, <2>4
  \* A child starts where none runs.
  <1>5. ASSUME NEW k \in Keys, ~Running(k), NEW owner, StartChild(k, owner), UNCHANGED <<ended, cancelled, exec, inherited, rekick>>,
               todo.op \in {"enter", "complete", "branch", "evalJoin", "mapProgress", "abortMap"}
        PROVE  Family'
    <2>1. rekick = NoRekick /\ todo # FailCall
      BY Zenon, <1>0, <1>5, NotRenewing
    <2>2. rekick.phase = "no" /\ rekick.left = {}
      BY Zenon, <2>1 DEF NoRekick
    <2>3. rekick.phase \notin {"tasks", "awaits"} /\ rekick'.left = rekick.left \ {k}
      BY <1>5, <2>2
    <2> QED
      BY Zenon, <1>0, <1>5, <2>1, <2>3, FamilyStarts
  <1>6. ASSUME NEW n \in Nodes, EnterSubflow(n)
        PROVE  Family'
    <2>1. todo = Call("enter", n) /\ UNCHANGED <<ended, cancelled, exec, inherited, rekick>>
      BY Zenon, <1>6 DEF EnterSubflow, Enter
    <2>2. Plain(n) \in Keys /\ ~Running(Plain(n)) /\ todo # FailCall
      BY Zenon, <1>0, <2>1, EnterIsEmpty, NotRenewing, KeyFacts DEF Empty
    <2>3. CASE StartChild(Plain(n), None)
      BY Zenon, <1>5, <2>1, <2>2, <2>3
    <2>4. CASE UNCHANGED <<children, started, maps, num>>
      BY Zenon, <1>0, <1>1, <2>1, <2>2, <2>4
    <2> QED
      BY Zenon, <1>6, <2>3, <2>4 DEF EnterSubflow
  <1>7. ASSUME NEW f \in Nodes, StartBranch(f)
        PROVE  Family'
    <2>1. PICK b : b = Flow.branches[f][todo.i]
      BY Zenon
    <2>2. /\ todo.op = "branch" /\ todo.node = f /\ UNCHANGED <<ended, cancelled, exec, inherited, rekick>>
          /\ \/ Schedule(Plain(b), f, 0, 1, timers) /\ UNCHANGED <<children, started>>
             \/ StartChild(Plain(b), f)
             \/ UNCHANGED <<children, num, started>>
      BY Zenon, <1>7, <2>1 DEF StartBranch
    <2>3. todo # FailCall
      BY Zenon, <1>0, <2>2, NotRenewing
    <2>4. CASE Schedule(Plain(b), f, 0, 1, timers) /\ UNCHANGED <<children, started>>
      BY Zenon, <1>0, <1>1, <2>2, <2>3, <2>4, ScheduleNumbers
    <2>5. CASE UNCHANGED <<children, num, started>>
      BY Zenon, <1>0, <1>1, <2>2, <2>3, <2>5
    <2>6. CASE StartChild(Plain(b), f)
      <3>1. f \in fans /\ f \in Fanouts /\ todo.i \in DOMAIN Flow.branches[f] /\ Flow.branches[f] \in Seq(Nodes)
        BY Zenon, <1>0, <2>2, TheFan, FlowFields DEF TypeInv, TodoOK
      <3>2. todo.i \in todo.i .. Len(Flow.branches[f])
        BY <3>1
      <3>3. b \in Unstarted(f)
        BY Zenon, <2>1, <2>2, <3>2 DEF Unstarted
      <3>4. b \in Nodes
        BY <2>1, <3>1
      <3>5. Plain(b) \in Keys /\ ~Running(Plain(b))
        BY Zenon, <3>1, <3>3, <3>4, KeyFacts DEF FanInv, NotYet
      <3> QED
        BY Zenon, <1>5, <2>2, <2>6, <3>5
    <2> QED
      BY Zenon, <2>2, <2>4, <2>5, <2>6
  <1>8. ASSUME NEW n \in Nodes, MapStartsItem(n)
        PROVE  Family'
    <2>1. PICK k : k = <<n, maps[n].next + 1>>
      BY Zenon
    <2>2. /\ todo = Call("mapProgress", n) /\ HasRoom(n) /\ UNCHANGED <<ended, cancelled, exec, inherited, rekick>>
          /\ \/ Schedule(k, n, 0, 1, timers) /\ UNCHANGED <<children, started>>
             \/ StartChild(k, n)
             \/ UNCHANGED <<children, num, started>>
      BY Zenon, <1>8, <2>1 DEF MapStartsItem
    <2>3. todo.op = "mapProgress" /\ todo # FailCall
      BY Zenon, <1>0, <2>2, NotRenewing
    <2>4. CASE Schedule(k, n, 0, 1, timers) /\ UNCHANGED <<children, started>>
      BY Zenon, <1>0, <1>1, <2>2, <2>3, <2>4, ScheduleNumbers
    <2>5. CASE UNCHANGED <<children, num, started>>
      BY Zenon, <1>0, <1>1, <2>2, <2>3, <2>5
    <2>6. CASE StartChild(k, n)
      <3>1. maps[n].next \in Nat /\ maps[n].len \in 0 .. MaxItems /\ maps[n].next < maps[n].len
        BY Zenon, <1>0, <2>2 DEF HasRoom, TypeOK, MapType
      <3>2. maps[n].next + 1 \in 0 .. MaxItems /\ maps[n].next + 1 \notin 1 .. maps[n].next
        BY <3>1, FoldAssumption
      <3>3. k \in Keys /\ k[2] = maps[n].next + 1
        BY <2>1, <3>2, KeyFacts
      <3>4. todo # Done
        BY <2>3
      <3>5. PICK kind \in Kinds, m \in Nodes : At(kind, m) /\ TodoFits(kind, m)
        BY Zenon, <1>0, <3>4, BusyIsOpen, TheLocus
      <3>6. kind = "map" /\ m = n
        BY <2>2, <2>3, <3>5 DEF TodoFits
      <3>7. ~Running(k)
        BY <3>2, <3>3, <3>5, <3>6 DEF At, Owned
      <3> QED
        BY Zenon, <1>5, <2>2, <2>3, <2>6, <3>3, <3>7
    <2> QED
      BY Zenon, <2>2, <2>4, <2>5, <2>6
  <1>9. ASSUME NEW n \in Nodes, CloseJoin(n) \/ AbortMap(n)
        PROVE  Family'
    <2>1. /\ todo = Call("evalJoin", n) \/ todo = Call("abortMap", n)
          /\ cancelled' = cancelled \cup OwnedChildren(n) /\ children' = DropChildren(n)
          /\ UNCHANGED <<started, ended, exec, inherited, rekick, num>>
      BY Zenon, <1>9 DEF CloseJoin, AbortMap
    <2>2. todo.op \in {"evalJoin", "abortMap"}
      BY SMT, <2>1
    <2>3. rekick = NoRekick
      BY Zenon, <1>0, <2>2, NotRenewing
    <2> QED
      BY Zenon, <1>0, <2>1, <2>3, FamilyDropped
  <1>10. ASSUME NEW n \in Nodes, JoinWaits(n) \/ Consume(n) \/ MapCompletes(n) \/ MapWaits(n)
         PROVE  Family'
    <2>1. /\ todo = Call("evalJoin", n) \/ todo = Call("consume", n) \/ todo = Call("mapProgress", n)
          /\ UNCHANGED <<children, started, ended, cancelled, exec, inherited, rekick, num>>
      BY Zenon, <1>10 DEF JoinWaits, Consume, MapCompletes, MapWaits, flight, outside
    <2>2. todo # FailCall
      BY SMT, <2>1
    <2> QED
      BY Zenon, <1>0, <1>1, <2>1, <2>2
  <1> QED
    BY Zenon, <1>2, <1>3, <1>4, <1>6, <1>7, <1>8, <1>9, <1>10 DEF Calls

FamilyInv == WorkInv /\ SignalInv /\ Family

LEMMA FamilyStep ==
    ASSUME Counting
    PROVE  FamilyInv /\ [Next]_vars => Family'
  <1> SUFFICES ASSUME FamilyInv, [Next]_vars PROVE Family'
    BY Zenon
  <1>0. LInv /\ LInv' /\ TypeInv /\ TypeOK /\ TypeOK' /\ OneLocus /\ FanInv /\ CalmInv /\ Family
    BY Zenon, LocusStep DEF FamilyInv, WorkInv, LInv, TypeInv, CalmInv
  <1>n. num \in Nat /\ num <= num /\ num <= num + 1
    BY <1>0, SourceNumbers
  <1>1. ASSUME UNCHANGED <<children, started, ended, cancelled, exec, inherited, rekick>>, num <= num', Idle
        PROVE  Family'
    BY Zenon, <1>0, <1>1, IdleIsNoCall, FamilyKept DEF Idle
  <1>2. CASE Start \/ (\E id \in UpdateIds : Update(id)) \/ (\E name \in SignalNames, id \in SignalIds : Signal(name, id))
    BY Zenon, <1>1, <1>2, <1>n DEF Start, Update, Signal, Ready, Idle, flight, outside
  <1>3. ASSUME NEW k, NEW retryable, NEW u, NEW live, TaskFailed(k, retryable, u, live), Ready
        PROVE  Family'
    <2>1. UNCHANGED <<children, started, ended, cancelled, exec, inherited, rekick>>
      BY Zenon, <1>3 DEF TaskFailed, outside
    <2>2. num' = num \/ num' = num + 1
      BY Zenon, <1>3 DEF TaskFailed
    <2> QED
      BY Zenon, <1>1, <1>3, <1>n, <2>1, <2>2 DEF Ready
  <1>4. CASE Results
    <2>1. ASSUME NEW j, NEW u, NEW dyn, Complete(j, u, dyn)
          PROVE  Family'
      BY Zenon, <1>1, <1>n, <2>1 DEF Complete, Ready, outside
    <2> QED
      BY Zenon, <1>3, <1>4, <2>1 DEF Results, FailTask
  <1>5. CASE Timer
    <2>1. ASSUME NEW t \in timers, ObsoleteTimer(t) \/ AwaitTimer(t)
          PROVE  Family'
      <3>1. UNCHANGED <<children, started, ended, cancelled, exec, inherited, rekick, num>> /\ Ready
        BY Zenon, <2>1 DEF ObsoleteTimer, AwaitTimer, outside
      <3> QED
        BY Zenon, <1>1, <1>n, <3>1 DEF Ready
    <2>2. ASSUME NEW t \in timers, RetryTimer(t)
          PROVE  Family'
      BY Zenon, <1>0, <1>1, <2>2, ScheduleNumbers DEF RetryTimer, Ready
    <2>3. ASSUME NEW t \in timers, TimeoutTimer(t)
          PROVE  Family'
      BY Zenon, <1>3, <2>3 DEF TimeoutTimer
    <2> QED
      BY Zenon, <1>5, <2>1, <2>2, <2>3 DEF Timer
  <1>6. CASE ChildResults
    BY Zenon, <1>0, <1>6, FamilyAnswered DEF ChildResults
  <1>7. CASE Requests
    <2>1. ASSUME NEW j, NEW u, Interrupt(j, u)
          PROVE  Family'
      BY Zenon, <1>1, <1>n, <2>1 DEF Interrupt, Ready, outside
    <2>2. ASSUME NEW k, Resume(k)
          PROVE  Family'
      BY Zenon, <1>0, <1>1, <2>2, ScheduleNumbers DEF Resume, Ready
    <2>3. CASE Cancel \/ Abort
      <3>1. rekick = NoRekick /\ cancelled' = cancelled \cup CancelChildren /\ \E z : Terminate(z)
        BY Zenon, <2>3 DEF Cancel, Abort, Ready, Idle
      <3> QED
        BY Zenon, <1>0, <3>1, AllMine, FamilyTerminated
    <2>4. CASE Fork
      BY Zenon, <1>0, <2>4, FamilyForked
    <2> QED
      BY Zenon, <1>2, <1>7, <2>1, <2>2, <2>3, <2>4 DEF Requests
  <1>8. CASE UNCHANGED vars
    <2>1. UNCHANGED <<children, started, ended, cancelled, exec, inherited, rekick, num, todo>>
      BY Zenon, <1>8 DEF vars, flight, outside
    <2> QED
      BY Zenon, <1>0, <1>n, <2>1, FamilyKept
  <1> QED
    BY Zenon, <1>0, <1>2, <1>4, <1>5, <1>6, <1>7, <1>8, FamilyCalls, FamilyRekick DEF Next

----------------------------------------------------------------------------
\* Counting, and one thread of control.

LEMMA CountingHolds == Counting
  <1>1. IsFiniteSet(1 .. MaxItems)
    BY FS_Interval, FoldAssumption
  <1>2. \A S \in SUBSET (1 .. MaxItems) : IsFiniteSet(S)
    BY Zenon, <1>1, FS_Subset
  <1>3. \A S \in SUBSET Nodes : IsFiniteSet(S)
    BY Zenon, NodesAssumption, FS_Subset
  <1>4. ASSUME NEW S \in SUBSET (1 .. MaxItems)
        PROVE  /\ Cardinality(S) \in Nat /\ (Cardinality(S) = 0 => S = {})
               /\ \A x : x \notin S => Cardinality(S \cup {x}) = Cardinality(S) + 1
               /\ \A x \in S : Cardinality(S \ {x}) = Cardinality(S) - 1
               /\ \A T \in SUBSET S : Cardinality(T) <= Cardinality(S)
    BY Zenon, <1>2, FS_CardinalityType, FS_EmptySet, FS_AddElement, FS_RemoveElement, FS_Subset
  <1>5. \A S \in SUBSET Nodes : Cardinality(S) \in Nat /\ (Cardinality(S) = 0 <=> S = {})
    BY Zenon, <1>3, FS_CardinalityType, FS_EmptySet
  <1> QED
    BY Zenon, <1>2, <1>4, <1>5, FS_EmptySet DEF Counting

LEMMA LocusInductive == LInv /\ [Next]_vars => LInv'
  BY Zenon, CountingHolds, LocusStep

LEMMA LocusAlways == Spec => []LInv
  <1>1. Init => LInv
    BY TypeInit, LocusInit DEF LInv
  <1> QED
    BY <1>1, LocusInductive, PTL DEF Spec

----------------------------------------------------------------------------
\* What follows for executions that complete and for maps.

\* Completing strands no work: whatever the flow, an execution that completes
\* has no instance, fan-out, map, await or child in flight (route, complete0).
THEOREM CompletingIsClean == Spec => CompletesClean
  <1> DEFINE Clean == status = "open" /\ status' = "completed" =>
                        /\ fans = {}
                        /\ \A k \in Keys : ~Active(k) /\ ~Running(k)
                        /\ \A n \in Nodes : awaits[n] = 0 /\ ~maps[n].open
  <1>1. LInv /\ [Next]_vars => [Clean]_vars
    <2> SUFFICES ASSUME LInv, Next, status = "open", status' = "completed"
                 PROVE  Empty
      BY Zenon DEF Empty
    <2>1. Calls => CompleteExecution
      BY Zenon DEF Calls, Terminate, Fail, EnterTooDeep, Enter, EnterTask, EnterChoice, EnterFanout, EnterAwait, EnterMap,
             EnterSubflow, StartBranch, JoinWaits, CloseJoin, Consume, MapCompletes, MapStartsItem, MapWaits, AbortMap
    <2>2. ~Start /\ ~Rekick
      BY DEF Start, Rekick, RekickTask, RekickAwait, RekickChild, RekickNext
    <2>3. ~Results /\ ~ChildResults /\ ~Timer
      BY DEF Results, Timer, ChildResults, Complete, FailTask, TaskFailed, ObsoleteTimer, RetryTimer, TimeoutTimer,
             AwaitTimer, ChildDone
    <2>4. ~Requests
      BY DEF Requests, Terminate, Interrupt, Resume, Signal, Update, Cancel, Abort, Fork
    <2>5. CompleteExecution
      BY <2>1, <2>2, <2>3, <2>4 DEF Next
    <2> QED
      BY Zenon, <2>5, EnterIsEmpty DEF CompleteExecution, LInv
  <1>2. CompletesClean <=> [][Clean]_vars
    BY Zenon DEF CompletesClean
  <1> HIDE DEF Clean
  <1> QED
    BY <1>1, <1>2, LocusAlways, PTL DEF Spec

\* The window of a map is exact between decisions, whatever the list, the limit
\* and the order of results, retries and forks: Next - Done items are in flight,
\* at most max_parallel of them, and none past the end of the list (mapProgress).
THEOREM MapWindowIsExact == Spec => []MapWindow
  <1>1. LInv => MapWindow
    <2> SUFFICES ASSUME LInv, Ready, NEW n \in Nodes, maps[n].open
                 PROVE  /\ Cardinality(Items(n)) = maps[n].next - maps[n].done
                        /\ Cardinality(Items(n)) <= MapLimit(n)
                        /\ maps[n].next <= maps[n].len
      BY Zenon DEF MapWindow
    <2>1. todo.op = "idle"
      BY ReadyLocus DEF LInv
    <2> QED
      BY <2>1 DEF LInv, Window
  <1> QED
    BY <1>1, LocusAlways, PTL

----------------------------------------------------------------------------
\* Fan-outs, and that something always comes.

LEMMA WorkAlways == Spec => []WorkInv
  <1>1. Init => WorkInv
    <2> SUFFICES ASSUME Init PROVE WorkInv
      BY Zenon
    <2>1. LInv
      BY TypeInit, LocusInit DEF LInv
    <2>2. FanInv
      BY Zenon DEF Init, FanInv, Tracks, BranchKinds, NotYet
    <2>3. Timed
      <3>1. \A k \in Keys : tasks[k].status = "none"
        BY Zenon, NoTaskStatus DEF Init
      <3>2. \A n \in Nodes : awaits[n] = 0
        BY Zenon DEF Init
      <3> QED
        BY <3>1, <3>2 DEF Timed
    <2> QED
      BY Zenon, <2>1, <2>2, <2>3 DEF WorkInv
  <1>2. WorkInv /\ [Next]_vars => WorkInv'
    BY Zenon, CountingHolds, LocusInductive, FanStep, TimedStep DEF WorkInv
  <1> QED
    BY <1>1, <1>2, PTL DEF Spec

\* Whatever the flow, the outcome table of an open fan-out is exact between
\* decisions and its join undecided, after any order of results, retries,
\* timeouts, children and forks (evalJoin, settleTask, closeJoin).
THEOREM FanOutsTrackWork == Spec => []FanTracksWork
  <1>1. WorkInv => FanTracksWork
    BY Zenon, ReadyTracks DEF FanTracksWork
  <1> QED
    BY <1>1, WorkAlways, PTL

\* Whatever the flow, a stored state that is not final has something in flight,
\* and everything in it that waits has what wakes it: no order of results,
\* failures, timers, signals and forks leaves an execution running for ever
\* with nothing to come.
THEOREM ExecutionsAreNeverStuck == Spec => []NeverStuck
  <1>1. WorkInv => NeverStuck
    <2> SUFFICES ASSUME WorkInv, Ready
                 PROVE  RetryHasTimer /\ AwaitHasTimer /\ FanHasBranch /\ MapHasItem /\ SomethingOpen
      BY Zenon DEF NeverStuck
    <2>0. TypeInv /\ TypeOK /\ OneLocus /\ Window /\ todo.op = "idle"
      BY Zenon, ReadyLocus DEF WorkInv, LInv, TypeInv
    <2>1. RetryHasTimer /\ AwaitHasTimer
      BY Zenon, ReadyTimed DEF WorkInv
    <2>2. FanHasBranch
      <3> SUFFICES ASSUME NEW f \in fans PROVE \E b \in WaitFor(f) : Active(Plain(b)) \/ Running(Plain(b))
        BY Zenon DEF FanHasBranch
      <3>1. f \in Fanouts /\ JoinUndecided(f)
        BY Zenon, ReadyTracks
      <3>2. PICK b \in WaitFor(f) : branch[b] = "pending"
        BY Zenon, <3>1, CountingHolds, UndecidedWaits
      <3> QED
        BY Zenon, <3>1, <3>2, ReadyTracks, WaitForFacts
    <2>3. MapHasItem
      <3> SUFFICES ASSUME NEW n \in Nodes, maps[n].open, Items(n) = {} PROVE FALSE
        BY Zenon DEF MapHasItem
      <3>1. Cardinality(Items(n)) = maps[n].next - maps[n].done /\ maps[n].done < maps[n].next
        BY <2>0 DEF Window
      <3>2. Cardinality(Items(n)) = 0
        BY Zenon, CountingHolds, EmptyCount
      <3>3. maps[n].next \in Nat /\ maps[n].done \in Nat
        BY Zenon, <2>0 DEF TypeOK, MapType
      <3> QED
        BY <3>1, <3>2, <3>3
    <2>4. SomethingOpen
      <3>1. PICK kind \in Kinds \ {"nothing"}, n \in Nodes : At(kind, n)
        BY Zenon, <2>0, ReadyLocus
      <3>2. CASE kind \in {"task", "child"}
        BY Zenon, <3>1, <3>2, KeyFacts DEF At, SomethingOpen
      <3>3. CASE kind = "await"
        BY Zenon, <3>1, <3>3 DEF At, SomethingOpen
      <3>4. CASE kind = "fan"
        <4>1. n \in fans
          BY Zenon, <3>1, <3>4 DEF At
        <4>2. PICK b \in WaitFor(n) : Active(Plain(b)) \/ Running(Plain(b))
          BY Zenon, <2>2, <4>1 DEF FanHasBranch
        <4>3. n \in Fanouts
          BY Zenon, <4>1, ReadyTracks
        <4>4. b \in Nodes
          BY Zenon, <4>3, WaitForFacts, FanFields
        <4> QED
          BY Zenon, <4>2, <4>4, KeyFacts DEF SomethingOpen
      <3>5. CASE kind = "map"
        <4>1. maps[n].open
          BY Zenon, <3>1, <3>5 DEF At
        <4>2. PICK i \in 1 .. MaxItems : Active(<<n, i>>) \/ Running(<<n, i>>)
          BY Zenon, <2>3, <4>1 DEF MapHasItem, Items
        <4>3. i \in 0 .. MaxItems
          BY FoldAssumption
        <4> QED
          BY Zenon, <4>2, <4>3, KeyFacts DEF SomethingOpen
      <3> QED
        BY Zenon, <3>1, <3>2, <3>3, <3>4, <3>5 DEF Kinds
    <2> QED
      BY Zenon, <2>1, <2>2, <2>3, <2>4
  <1> QED
    BY <1>1, WorkAlways, PTL

----------------------------------------------------------------------------
\* Signals and children.

LEMMA CalmAlways == Spec => []CalmInv
  <1>1. Init => CalmInv
    <2>1. Init => LInv
      BY TypeInit, LocusInit DEF LInv
    <2>2. Init => SignalInv
      BY Zenon DEF Init, SignalInv, Calm, NoneMissed
    <2> QED
      BY Zenon, <2>1, <2>2 DEF CalmInv
  <1>2. CalmInv /\ [Next]_vars => CalmInv'
    BY Zenon, LocusInductive, SignalStep DEF CalmInv
  <1> QED
    BY <1>1, <1>2, PTL DEF Spec

\* Whatever the flow, no signal stays buffered while an await of its name is
\* open, whichever came first, nor across a fork (await, consume, signal).
THEOREM SignalsAreNotMissed == Spec => []NoMissedSignal
  <1>1. CalmInv => NoMissedSignal
    BY Zenon, IdleIsNoCall DEF CalmInv, SignalInv, NoneMissed, NoMissedSignal, Ready, Idle
  <1> QED
    BY <1>1, CalmAlways, PTL

LEMMA FamilyAlways == Spec => []FamilyInv
  <1>1. Init => Family
    <2> SUFFICES ASSUME Init PROVE Family
      BY Zenon
    <2>1. /\ \A x \in Keys : ~Running(x)
          /\ started = {} /\ ended = {} /\ cancelled = {} /\ inherited = {} /\ rekick = NoRekick
      BY Zenon DEF Init, Running
    <2>2. rekick.phase # "children"
      BY <2>1 DEF NoRekick
    <2> QED
      BY Zenon, <2>1, <2>2 DEF Family, Numbered, Known, Told, Renewing
  <1>2. WorkInv /\ CalmInv /\ Family => FamilyInv
    BY Zenon DEF FamilyInv, CalmInv
  <1>3. FamilyInv /\ [Next]_vars => Family'
    BY Zenon, CountingHolds, FamilyStep
  <1> QED
    BY <1>1, <1>2, <1>3, WorkAlways, CalmAlways, PTL DEF Spec

\* Whatever the flow, an execution asks only children of its own to cancel, and
\* none that answered: a fork that fails in the middle of its re-dispatch leaves
\* the children of its source alone (cancelChildren, decider.inherited).
THEOREM OnlyOwnChildrenAreCancelled == Spec => []CancelsOnlyItsOwn
  <1>1. FamilyInv => CancelsOnlyItsOwn
    BY Zenon DEF FamilyInv, Family, Told, Ids, CancelsOnlyItsOwn
  <1> QED
    BY <1>1, FamilyAlways, PTL

\* Whatever the flow, no child is lost track of: between decisions each child
\* started is awaited, has answered, was asked to cancel, or was abandoned as
\* its node says (startChild, closeJoin, abortMap, terminate).
THEOREM NoChildIsOrphaned == Spec => []NoOrphanChild
  <1>1. FamilyInv => NoOrphanChild
    BY Zenon DEF FamilyInv, Family, Kept, NoOrphanChild
  <1> QED
    BY <1>1, FamilyAlways, PTL

=============================================================================
