---------------------------- MODULE MCContainers -----------------------------
(* Containers for TLC. *)
EXTENDS Containers, TLC

CONSTANTS b1, c1, c2, x1
MCBuildOf == (c1 :> b1) @@ (c2 :> b1)
MCHelperOf == c1 :> x1
=============================================================================
