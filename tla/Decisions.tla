----------------------------- MODULE Decisions ------------------------------
(***************************************************************************)
(* What the engine needs to know of the fold: which commands make a        *)
(* decision on which history of one execution.  Fold.tla is the decider in *)
(* full; here a state is the sequence of decisions it was folded from, and *)
(* a command says only whether it starts the execution, ends it, may be    *)
(* refused, cannot be read, answers work an earlier decision created, or   *)
(* decides more events than one append may hold.                           *)
(***************************************************************************)
EXTENDS Naturals, Sequences

CONSTANTS
    Commands,  \* the commands of one execution
    Start,     \* the one that starts it
    Closing,   \* those whose decision ends the execution (a cancel)
    Updates,   \* those refused once the execution has ended
    Invalid,   \* those whose payload is no good
    Large,     \* those that decide more events than MaxEvents
    Needs      \* the decisions that created the work a command answers

ASSUME CommandsAssumption ==
    /\ Start \in Commands
    /\ Closing \subseteq Commands \ {Start}
    /\ Updates \subseteq Commands \ {Start}
    /\ Invalid \subseteq Commands \ {Start}
    /\ Large \subseteq Commands
    /\ Needs \in [Commands -> SUBSET Commands]

\* A stored decision: the command it answers, or the failure it was replaced by.
DecisionType == [cmd : Commands, kind : {"decided", "aborted"}]

Exists(st) == st # <<>>
Applied(st) == {st[i].cmd : i \in 1..Len(st)}
Ended(st) == \E i \in 1..Len(st) : st[i].kind = "aborted" \/ st[i].cmd \in Closing

\* A result, a timer or a signal is taken once, and only while the work it
\* answers is there: decider.current, SignalIDs, UpdateIDs.
Current(st, c) == c \notin Applied(st) /\ Needs[c] \subseteq Applied(st)

\* Deciding without asking whether the execution has ended.
OutcomeOfEnded(st, c) ==
    IF c = Start THEN IF Exists(st) THEN "nothing" ELSE "events"
    ELSE IF ~Exists(st) THEN "notfound"
    ELSE IF c \in Invalid THEN "invalid"
    ELSE IF Current(st, c) THEN "events" ELSE "nothing"

\* fold.Decide: no such execution, refused, unreadable, nothing to do, or events.
Outcome(st, c) ==
    IF c = Start THEN IF Exists(st) THEN "nothing" ELSE "events"
    ELSE IF ~Exists(st) THEN "notfound"
    ELSE IF Ended(st) THEN IF c \in Updates THEN "rejected" ELSE "nothing"
    ELSE IF c \in Invalid THEN "invalid"
    ELSE IF Current(st, c) THEN "events" ELSE "nothing"

\* The decision stored for c: a too large one is the failure of the execution.
Decision(c) == [cmd |-> c, kind |-> IF c \in Large THEN "aborted" ELSE "decided"]
=============================================================================
