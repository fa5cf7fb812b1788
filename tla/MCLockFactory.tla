--------------------------- MODULE MCLockFactory ---------------------------
(* LockFactory on small instances; ATCs, slots and ids are interchangeable. *)
EXTENDS LockFactory, TLC
Symmetry == Permutations(ATC) \cup Permutations(Slot) \cup Permutations(LockID)
=============================================================================
