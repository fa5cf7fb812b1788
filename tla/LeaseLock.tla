------------------------------ MODULE LeaseLock ------------------------------
(***************************************************************************)
(* What db/lock promises to the code that uses it: a lock taken from a     *)
(* LockFactory is exclusive among all ATCs until its holder lets it go or, *)
(* without being told, loses it (lock.ErrLostLock is only reported by      *)
(* Release); within one ATC it stays exclusive even when lost.             *)
(* LockFactory implements this specification; the modules of the lock's    *)
(* users assume it.                                                        *)
(***************************************************************************)
CONSTANTS ATC, Slot, LockID, None

VARIABLES
  hold,  \* hold[h]: the id that lock object h holds, or None
  lost   \* the holders whose lock others can take

leaseVars == <<hold, lost>>

LeaseHandle == ATC \X Slot

Holders(l) == {h \in LeaseHandle : hold[h] = l}

LeaseInit ==
  /\ hold = [h \in LeaseHandle |-> None]
  /\ lost = {}

(* LockFactory.Acquire returns a lock; it may be lost before the caller    *)
(* looks at it.                                                            *)
Take(h, l) ==
  /\ hold[h] = None
  /\ \A g \in Holders(l) : g[1] # h[1]
  /\ hold' = [hold EXCEPT ![h] = l]
  /\ \/ Holders(l) \subseteq lost /\ lost' = lost
     \/ lost' = lost \cup {h}

(* Lock.Release, or the end of the holders' process.                       *)
LetGo(H) ==
  /\ H # {}
  /\ \A h \in H : hold[h] # None
  /\ hold' = [h \in LeaseHandle |-> IF h \in H THEN None ELSE hold[h]]
  /\ lost' = lost \ H

(* The session behind some holders ends.                                   *)
Lose(H) ==
  /\ H # {}
  /\ \A h \in H : hold[h] # None
  /\ lost' = lost \cup H
  /\ hold' = hold

LeaseNext ==
  \/ \E h \in LeaseHandle, l \in LockID : Take(h, l)
  \/ \E H \in SUBSET LeaseHandle : LetGo(H) \/ Lose(H)

LeaseSpec == LeaseInit /\ [][LeaseNext]_leaseVars
=============================================================================
