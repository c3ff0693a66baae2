---------------------------- MODULE MCDispatch ------------------------------
(***************************************************************************)
(* A log of three decisions, each with a status of its own: the start, an  *)
(* attempt of a task, the end.  The effects of the start or of the end may *)
(* be refused, or the attempt may be unreadable.                           *)
(***************************************************************************)
EXTENDS Dispatch

Story == <<"running", "suspended", "completed">>
Ended == [n \in Jobs |-> Last]
Wrong == {<<1, "effect">>, <<2, "fold">>, <<Last, "effect">>}
=============================================================================
