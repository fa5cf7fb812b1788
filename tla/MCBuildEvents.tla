---------------------------- MODULE MCBuildEvents ----------------------------
(* BuildEvents for TLC. *)
EXTENDS BuildEvents
=============================================================================
