------------------------------ MODULE FlowDef ------------------------------
(***************************************************************************)
(* A flow definition (package flow) and what Validate guarantees about it. *)
(*                                                                         *)
(* The definition is one CONSTANT, Flow, a record of per-node functions.   *)
(* Everything an expression computes at run time (a choice predicate, the  *)
(* length of a map's list, the input of a subflow) is left to the fold as  *)
(* a nondeterministic outcome; here are only the graph and the policies.   *)
(***************************************************************************)
EXTENDS Integers, Sequences, FiniteSets

CONSTANTS
    Nodes,      \* the node ids of the flow
    SignalNames,\* the signal names its await nodes use
    Counters,   \* the usage counters a budget may cap
    None,       \* the empty node id ""
    End,        \* the reserved choice target flow.End
    Flow        \* the definition itself, an element of FlowType

Types == {"task", "choice", "fanout", "join", "await", "map", "subflow"}
JoinKinds == {"all", "any", "quorum", "min"}
Maybe == Nodes \cup {None}

FlowType ==
    [type : [Nodes -> Types],
     next : [Nodes -> Maybe],
     onFailure : [Nodes -> Maybe],
     onTimeout : [Nodes -> Maybe],
     dynamic : [Nodes -> SUBSET Nodes],
     rules : [Nodes -> SUBSET (Nodes \cup {End})],
     onErrorFail : SUBSET Nodes,
     branches : [Nodes -> Seq(Nodes)],
     waitFor : [Nodes -> SUBSET Nodes],
     kind : [Nodes -> JoinKinds],
     count : [Nodes -> Nat],
     signal : [Nodes -> SignalNames],
     timeout : SUBSET Nodes,       \* the nodes with a timeout
     retry : [Nodes -> Nat],
     maxParallel : [Nodes -> Nat],
     subflow : SUBSET Nodes,       \* the nodes that name a flow
     abandon : SUBSET Nodes,       \* parent_close: abandon
     start : Nodes,
     maxSteps : Nat,
     budget : [Counters -> Nat]]  \* 0: no budget for that counter

Type(n) == Flow.type[n]
Next_(n) == Flow.next[n]
OnFailure(n) == Flow.onFailure[n]
BranchesOf(f) == {Flow.branches[f][i] : i \in DOMAIN Flow.branches[f]}

\* flow.Node.MaxAttempts: at least one attempt, whatever retry says.
MaxAttempts(n) == IF Flow.retry[n] < 1 THEN 1 ELSE Flow.retry[n]

\* flow.Flow.MaxStepsOrDefault, with DefaultMaxSteps as in the source.
DefaultMaxSteps == 1000
MaxSteps == IF Flow.maxSteps <= 0 THEN DefaultMaxSteps ELSE Flow.maxSteps

\* The limit mapProgress uses: max_parallel, or DefaultMapParallel.
DefaultMapParallel == 100
MapLimit(n) == IF Flow.maxParallel[n] <= 0 THEN DefaultMapParallel ELSE Flow.maxParallel[n]

\* joinOf: a fanout is closed by the join that is its next.
JoinOf(f) == Flow.next[f]

\* WaitFor: the join's wait_for, or every branch of its fanout.
WaitFor(f) == IF Flow.waitFor[JoinOf(f)] # {} THEN Flow.waitFor[JoinOf(f)] ELSE BranchesOf(f)

\* How many successes the join of fanout f needs (evalJoin's need).
Need(f) == CASE Flow.kind[JoinOf(f)] = "all" -> Cardinality(WaitFor(f))
             [] Flow.kind[JoinOf(f)] = "any" -> 1
             [] OTHER -> Flow.count[JoinOf(f)]

----------------------------------------------------------------------------
\* Validate.

Fanouts == {n \in Nodes : Type(n) = "fanout"}
Joins == {n \in Nodes : Type(n) = "join"}
Branch == UNION {BranchesOf(f) : f \in Fanouts}

\* routes: every ordinary transition out of n.
Routes(n) ==
    ({Flow.next[n], Flow.onTimeout[n], Flow.onFailure[n]} \cup Flow.rules[n] \cup Flow.dynamic[n]) \cap Nodes

Successors(n) == Routes(n) \cup BranchesOf(n)

\* validateNodes with the per-type checks and rejectForeignFields.
ValidNode(n) ==
    /\ Flow.next[n] # n /\ Flow.onFailure[n] # n
    /\ Flow.next[n] # None => Type(n) # "choice"
    /\ Flow.onFailure[n] # None => Type(n) \in {"task", "join", "map", "subflow"}
    /\ Flow.dynamic[n] # {} => Type(n) = "task"
    /\ Flow.onTimeout[n] # None => Type(n) = "await"
    /\ Flow.retry[n] # 0 => Type(n) \in {"task", "map"}
    /\ n \in Flow.timeout => Type(n) \in {"task", "map", "await"}
    /\ n \in Flow.subflow => Type(n) \in {"map", "subflow"}
    /\ Type(n) = "subflow" => n \in Flow.subflow
    /\ Type(n) = "map" /\ n \in Flow.subflow => Flow.retry[n] = 0 /\ n \notin Flow.timeout
    /\ Type(n) = "choice" <=> Flow.rules[n] # {}
    /\ Type(n) = "fanout" <=> Flow.branches[n] # <<>>
    /\ Type(n) = "await" => n \in Flow.timeout
    /\ Flow.waitFor[n] # {} => Type(n) = "join"
    /\ Type(n) = "join" /\ Flow.kind[n] = "quorum" => Flow.count[n] > 0

\* validateFans, validateFanBranches and validateJoinFan.
ValidFan(f) ==
    /\ Flow.next[f] \in Joins
    /\ \A i, j \in DOMAIN Flow.branches[f] : i # j => Flow.branches[f][i] # Flow.branches[f][j]
    /\ \A b \in BranchesOf(f) :
          /\ Type(b) \in {"task", "subflow"}
          /\ Flow.onFailure[b] = None /\ Flow.next[b] = None /\ Flow.dynamic[b] = {}
    /\ \A g \in Fanouts \ {f} : JoinOf(g) # JoinOf(f) /\ BranchesOf(g) \cap BranchesOf(f) = {}
    /\ Flow.waitFor[JoinOf(f)] \subseteq BranchesOf(f)
    /\ Flow.kind[JoinOf(f)] \in {"quorum", "min"} => Flow.count[JoinOf(f)] <= Cardinality(WaitFor(f))

\* rejectBranchEntry.
NoBranchEntry ==
    \A n \in Nodes, r \in Nodes :
        r \in Routes(n) => r \notin Branch /\ (r \in Joins => n \in Fanouts /\ JoinOf(n) = r)

\* rejectUnreachable: a set that holds the start and every successor of its
\* members is all of the nodes.
AllReachable ==
    \A S \in SUBSET Nodes :
        (Flow.start \in S /\ \A n \in S : Successors(n) \subseteq S) => S = Nodes

ValidFlow ==
    /\ \A n \in Nodes : ValidNode(n)
    /\ \A f \in Fanouts : ValidFan(f)
    /\ \A j \in Joins : \E f \in Fanouts : JoinOf(f) = j
    /\ NoBranchEntry
    /\ Flow.start \notin Branch \cup Joins
    /\ AllReachable

ASSUME NodesAssumption == IsFiniteSet(Nodes) /\ None \notin Nodes /\ End \notin Nodes

ASSUME FlowAssumption == Flow \in FlowType /\ ValidFlow
=============================================================================
