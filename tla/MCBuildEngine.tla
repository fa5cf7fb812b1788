---------------------------- MODULE MCBuildEngine ----------------------------
(* BuildEngine for TLC. *)
EXTENDS BuildEngine, TLC

Symmetry == Permutations(ATC)
=============================================================================
