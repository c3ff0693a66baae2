------------------------------ MODULE Journal -------------------------------
(***************************************************************************)
(* What the engines promise together: the log of an execution is the one a *)
(* single engine would write that takes one command at a time, decides it  *)
(* on everything stored so far and stores the decision, if there is one.   *)
(***************************************************************************)
EXTENDS Decisions

VARIABLE journal  \* the decisions of the execution, oldest first

Init == journal = <<>>

Record(c) ==
    /\ Outcome(journal, c) = "events"
    /\ journal' = Append(journal, Decision(c))

Next == \E c \in Commands : Record(c)

Spec == Init /\ [][Next]_journal
=============================================================================
