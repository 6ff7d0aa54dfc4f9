----------------------------- MODULE MCCowNodes -----------------------------
EXTENDS CowNodes, TLC

CONSTANTS a, b, c, flat, leaf, copy, root

MCHeight == (flat :> 0) @@ (leaf :> 1) @@ (copy :> 1) @@ (root :> 2)

Symmetry == Permutations(Hands) \cup Permutations({leaf, copy})
=============================================================================
