------------------------------ MODULE MCWorker ------------------------------
\* Two worker processes, of two handlers and one, or of one each.
EXTENDS Worker, TLC

Pairs == ("h1" :> "p1") @@ ("h2" :> "p1") @@ ("h3" :> "p2")
Singles == ("h1" :> "p1") @@ ("h2" :> "p2")

\* Nothing tells the jobs of a key apart.
AnyJob == Permutations(Jobs)
=============================================================================
