--------------------------- MODULE MCNotifications ---------------------------
(* Notifications for TLC. *)
EXTENDS Notifications, TLC

Symmetry == Permutations(Listener)
=============================================================================
