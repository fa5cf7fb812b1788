------------------------------ MODULE MCVolumes ------------------------------
EXTENDS Volumes, TLC
CONSTANTS b1, b2, t, v, k0, k1
MCConfigOf == (t :> k0) @@ (v :> k1)
MCMadeBy == (k0 :> BaseType) @@ (k1 :> t)
MCTarget == [b \in Build |-> v]
Symmetry == Permutations({b1, b2})
==============================================================================
