----------------------------- MODULE MCLifecycle -----------------------------
(* Instances of module Lifecycle for TLC.                                  *)
EXTENDS Lifecycle

=============================================================================
