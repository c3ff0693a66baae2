------------------------------ MODULE MCConsume ------------------------------
(* An instance of module Consume for TLC: a serial part, a concurrent part   *)
(* and a core trigger.                                                       *)
EXTENDS Consume

CONSTANTS s, f, c, a1, b1, b2

PartModes == [p \in {s, f, c} |-> IF p = s THEN "serial" ELSE IF p = f THEN "fetch" ELSE "core"]
Owner == [m \in {a1, b1, b2} |-> IF m = a1 THEN s ELSE f]

=============================================================================
