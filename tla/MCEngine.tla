------------------------------ MODULE MCEngine ------------------------------
(***************************************************************************)
(* Small instances of Engine: s starts the execution, r is the result of   *)
(* the job that s scheduled and q of the one that r scheduled, u is an     *)
(* update, x a cancel, g a signal whose decision is too large to append, b *)
(* a command that cannot be read.                                          *)
(***************************************************************************)
EXTENDS Engine

Answers ==
    [c \in Commands |-> CASE c = "r" -> {"s"} [] c = "q" -> {"r"} [] OTHER -> {}]
=============================================================================
