----------------------------- MODULE LockFactory -----------------------------
(***************************************************************************)
(* The distributed lock of db/lock: every ATC has one lockFactory, which   *)
(* keeps a local set of registered lock ids (lockRepo) and talks to        *)
(* Postgres over a single connection (atccmd.constructLockConn), where the *)
(* lock itself is a session-level advisory lock.                           *)
(*                                                                         *)
(* A Handle is one `lock` object, <<atc, slot>>: it goes through           *)
(*   idle -> acquiring -> registering -> held -> releasing -> idle.        *)
(* A Session is one Postgres session of an ATC, <<atc, n>>; the connection *)
(* of the pool is replaced by a new session when it breaks, and Postgres   *)
(* frees the locks of the old one when it notices.                         *)
(***************************************************************************)
EXTENDS Naturals

CONSTANTS
  ATC,          \* the ATC processes that share the database
  Slot,         \* lock objects an ATC may use at the same time
  LockID,       \* lock ids (type and object id, abstracted)
  None,         \* no session, no slot, no lock id
  MaxSessions,  \* bound: sessions an ATC opens
  MaxDepth,     \* bound: re-entrant acquisitions of one advisory lock
  QueryErrors   \* whether Postgres may answer a query with an error

ASSUME NoneAssumption ==
  /\ None \notin ATC \X Nat
  /\ None \notin Slot
  /\ None \notin LockID
ASSUME BoundAssumption == MaxSessions \in Nat \ {0} /\ MaxDepth \in Nat \ {0}
ASSUME ErrorAssumption == QueryErrors \in BOOLEAN

VARIABLES
  pc,          \* pc[h]: where the lock object is in Acquire/Release
  id,          \* id[h]: lock.id
  sess,        \* sess[h]: the session on which the advisory lock was obtained
  released,    \* released[h]: the result of lockDB.Release
  registered,  \* registered[a]: keys of lockRepo.locks
  mutex,       \* mutex[a]: who holds acquireMutex
  conn,        \* conn[a]: number of the session the pool's connection uses
  alive,       \* sessions Postgres has not ended
  owner,       \* owner[l]: session holding the advisory lock
  depth        \* depth[l]: how many times it holds it

vars == <<pc, id, sess, released, registered, mutex, conn, alive, owner, depth>>
objVars == <<pc, id, sess, released>>
localVars == <<registered, mutex>>
dbVars == <<conn, alive, owner, depth>>

Handle == ATC \X Slot
Session == ATC \X (1..MaxSessions)
Phase == {"idle", "acquiring", "registering", "held", "releasing"}

Current(a) == <<a, conn[a]>>

(* The caller's view: Acquire returned true and Release was not called.    *)
Holds(h, l) == pc[h] = "held" /\ id[h] = l

Init ==
  /\ pc = [h \in Handle |-> "idle"]
  /\ id = [h \in Handle |-> None]
  /\ sess = [h \in Handle |-> None]
  /\ released = [h \in Handle |-> FALSE]
  /\ registered = [a \in ATC |-> {}]
  /\ mutex = [a \in ATC |-> None]
  /\ conn = [a \in ATC |-> 1]
  /\ alive = ATC \X {1}
  /\ owner = [l \in LockID |-> None]
  /\ depth = [l \in LockID |-> 0]

-----------------------------------------------------------------------------
(* Postgres. pg_try_advisory_lock on session s succeeds when the lock is   *)
(* free or already held by s (it is re-entrant and counts).                *)
PgGrants(s, l) == owner[l] \in {None, s}

PgTryLock(s, l) ==
  IF PgGrants(s, l)
  THEN /\ depth[l] < MaxDepth
       /\ owner' = [owner EXCEPT ![l] = s]
       /\ depth' = [depth EXCEPT ![l] = @ + 1]
  ELSE UNCHANGED <<owner, depth>>

PgUnlockAnyOwner(s, l) ==
  /\ depth' = [depth EXCEPT ![l] = 0]
  /\ owner' = [owner EXCEPT ![l] = None]

PgUnlock(s, l) ==
  IF owner[l] = s
  THEN /\ depth' = [depth EXCEPT ![l] = @ - 1]
       /\ owner' = [owner EXCEPT ![l] = IF depth[l] = 1 THEN None ELSE @]
  ELSE UNCHANGED <<owner, depth>>

(* The pool drops the broken connection; the next query opens a session.   *)
Reconnect(a) ==
  /\ conn[a] < MaxSessions
  /\ conn' = [conn EXCEPT ![a] = @ + 1]
  /\ alive' = alive \cup {<<a, conn[a] + 1>>}

-----------------------------------------------------------------------------
(* lock.Acquire, up to the call of lockDB.Acquire: take acquireMutex, and  *)
(* give up (a stuttering step) when the id is registered locally.          *)
StartAcquireUnchecked(h, l) ==
  /\ pc[h] = "idle"
  /\ mutex[h[1]] = None
  /\ mutex' = [mutex EXCEPT ![h[1]] = h[2]]
  /\ pc' = [pc EXCEPT ![h] = "acquiring"]
  /\ id' = [id EXCEPT ![h] = l]
  /\ UNCHANGED <<sess, released, registered, dbVars>>

StartAcquire(h, l) ==
  /\ pc[h] = "idle"
  /\ mutex[h[1]] = None
  /\ l \notin registered[h[1]]
  /\ mutex' = [mutex EXCEPT ![h[1]] = h[2]]
  /\ pc' = [pc EXCEPT ![h] = "acquiring"]
  /\ id' = [id EXCEPT ![h] = l]
  /\ UNCHANGED <<sess, released, registered, dbVars>>

(* Acquire gives up: acquireMutex is unlocked by the deferred call and no  *)
(* lock is returned.                                                       *)
GiveUp(h) ==
  /\ pc' = [pc EXCEPT ![h] = "idle"]
  /\ id' = [id EXCEPT ![h] = None]
  /\ mutex' = [mutex EXCEPT ![h[1]] = None]
  /\ UNCHANGED <<sess, released, registered>>

(* lockDB.Acquire answered: the advisory lock was granted or refused.      *)
DBAcquire(h) ==
  /\ pc[h] = "acquiring"
  /\ LET s == Current(h[1]) IN
       /\ PgTryLock(s, id[h])
       /\ IF PgGrants(s, id[h])
          THEN /\ pc' = [pc EXCEPT ![h] = "registering"]
               /\ sess' = [sess EXCEPT ![h] = s]
               /\ UNCHANGED <<id, released, registered, mutex>>
          ELSE GiveUp(h)
  /\ UNCHANGED <<conn, alive>>

(* lockDB.Acquire failed: the connection broke, before or after Postgres   *)
(* ran the query on the old session, or Postgres answered with an error.   *)
DBAcquireError(h) ==
  /\ pc[h] = "acquiring"
  /\ GiveUp(h)
  /\ \/ Reconnect(h[1]) /\ PgTryLock(Current(h[1]), id[h])
     \/ Reconnect(h[1]) /\ UNCHANGED <<owner, depth>>
     \/ QueryErrors /\ UNCHANGED dbVars

(* lockRepo.Register, and the deferred unlock of acquireMutex.             *)
RegisterForgotten(h) ==
  /\ pc[h] = "registering"
  /\ mutex' = [mutex EXCEPT ![h[1]] = None]
  /\ pc' = [pc EXCEPT ![h] = "held"]
  /\ UNCHANGED <<id, sess, released, registered, dbVars>>

Register(h) ==
  /\ pc[h] = "registering"
  /\ registered' = [registered EXCEPT ![h[1]] = @ \cup {id[h]}]
  /\ mutex' = [mutex EXCEPT ![h[1]] = None]
  /\ pc' = [pc EXCEPT ![h] = "held"]
  /\ UNCHANGED <<id, sess, released, dbVars>>

(* lock.Release, its first half: lockDB.Release on the connection's        *)
(* current session. Not under acquireMutex.                                *)
DBReleaseBlind(h) ==
  /\ pc[h] = "held"
  /\ PgUnlock(Current(h[1]), id[h])
  /\ released' = [released EXCEPT ![h] = TRUE]
  /\ pc' = [pc EXCEPT ![h] = "releasing"]
  /\ UNCHANGED <<id, sess, registered, mutex, conn, alive>>

DBRelease(h) ==
  /\ pc[h] = "held"
  /\ PgUnlock(Current(h[1]), id[h])
  /\ released' = [released EXCEPT ![h] = owner[id[h]] = Current(h[1])]
  /\ pc' = [pc EXCEPT ![h] = "releasing"]
  /\ UNCHANGED <<id, sess, registered, mutex, conn, alive>>

(* lockDB.Release failed; Release logs it and continues.                   *)
DBReleaseError(h) ==
  /\ pc[h] = "held"
  /\ released' = [released EXCEPT ![h] = FALSE]
  /\ pc' = [pc EXCEPT ![h] = "releasing"]
  /\ \/ Reconnect(h[1]) /\ PgUnlock(Current(h[1]), id[h])
     \/ Reconnect(h[1]) /\ UNCHANGED <<owner, depth>>
     \/ QueryErrors /\ UNCHANGED dbVars
  /\ UNCHANGED <<id, sess, registered, mutex>>

(* lock.Release, its second half: lockRepo.Unregister, and return nil or   *)
(* ErrLostLock by `released`.                                              *)
Unregister(h) ==
  /\ pc[h] = "releasing"
  /\ registered' = [registered EXCEPT ![h[1]] = @ \ {id[h]}]
  /\ pc' = [pc EXCEPT ![h] = "idle"]
  /\ id' = [id EXCEPT ![h] = None]
  /\ sess' = [sess EXCEPT ![h] = None]
  /\ released' = [released EXCEPT ![h] = FALSE]
  /\ UNCHANGED <<mutex, dbVars>>

-----------------------------------------------------------------------------
(* The connection breaks between two queries.                              *)
Break(a) ==
  /\ Reconnect(a)
  /\ UNCHANGED <<objVars, localVars, owner, depth>>

(* Postgres notices that a session's client is gone, and ends it.          *)
EndSessionLeaks(s) ==
  /\ s \in alive
  /\ s # Current(s[1])
  /\ alive' = alive \ {s}
  /\ UNCHANGED <<objVars, localVars, conn, owner, depth>>

EndSession(s) ==
  /\ s \in alive
  /\ s # Current(s[1])
  /\ alive' = alive \ {s}
  /\ owner' = [l \in LockID |-> IF owner[l] = s THEN None ELSE owner[l]]
  /\ depth' = [l \in LockID |-> IF owner[l] = s THEN 0 ELSE depth[l]]
  /\ UNCHANGED <<objVars, localVars, conn>>

(* An ATC dies and is started again: its memory is gone.                   *)
Crash(a) ==
  /\ Reconnect(a)
  /\ pc' = [h \in Handle |-> IF h[1] = a THEN "idle" ELSE pc[h]]
  /\ id' = [h \in Handle |-> IF h[1] = a THEN None ELSE id[h]]
  /\ sess' = [h \in Handle |-> IF h[1] = a THEN None ELSE sess[h]]
  /\ released' = [h \in Handle |-> IF h[1] = a THEN FALSE ELSE released[h]]
  /\ registered' = [registered EXCEPT ![a] = {}]
  /\ mutex' = [mutex EXCEPT ![a] = None]
  /\ UNCHANGED <<owner, depth>>

Next ==
  \/ \E h \in Handle, l \in LockID : StartAcquire(h, l)
  \/ \E h \in Handle :
       \/ DBAcquire(h)
       \/ DBAcquireError(h)
       \/ Register(h)
       \/ DBRelease(h)
       \/ DBReleaseError(h)
       \/ Unregister(h)
  \/ \E a \in ATC : Break(a) \/ Crash(a)
  \/ \E s \in Session : EndSession(s)

Spec == Init /\ [][Next]_vars

(* Postgres ends dead sessions (TCP keepalive), and goroutines inside      *)
(* Acquire and Release run on; nothing obliges a holder to call Release.   *)
Fairness ==
  /\ \A s \in Session : WF_vars(EndSession(s))
  /\ \A h \in Handle : WF_vars(DBAcquire(h) \/ Register(h) \/ Unregister(h))

FairSpec == Spec /\ Fairness

-----------------------------------------------------------------------------
TypeOK ==
  /\ pc \in [Handle -> Phase]
  /\ id \in [Handle -> LockID \cup {None}]
  /\ sess \in [Handle -> Session \cup {None}]
  /\ released \in [Handle -> BOOLEAN]
  /\ registered \in [ATC -> SUBSET LockID]
  /\ mutex \in [ATC -> Slot \cup {None}]
  /\ conn \in [ATC -> 1..MaxSessions]
  /\ alive \in SUBSET Session
  /\ owner \in [LockID -> Session \cup {None}]
  /\ depth \in [LockID -> 0..MaxDepth]

(* Acquire returns true to two callers for the same id only if the session *)
(* behind one of them has ended: as long as both sessions live, one lock   *)
(* is held once among all ATCs.                                            *)
MutualExclusion ==
  \A g, h \in Handle, l \in LockID :
    (g # h /\ Holds(g, l) /\ Holds(h, l)) => (sess[g] \notin alive \/ sess[h] \notin alive)

(* Within one ATC the lock is exclusive even across lost connections: a    *)
(* holder that does not know it lost its session still blocks its own      *)
(* process from acquiring the id again (lockRepo).                         *)
LocalExclusion ==
  \A g, h \in Handle, l \in LockID :
    (g # h /\ g[1] = h[1] /\ Holds(g, l)) => ~Holds(h, l)

(* Release returns nil only to a holder whose session is still the one it  *)
(* acquired on, so that it was exclusive until now: a lock lost to         *)
(* "connection breakage" is always reported as ErrLostLock.                *)
ReleaseIsTruthful ==
  [][\A h \in Handle :
       (pc[h] = "held" /\ pc'[h] = "releasing" /\ released'[h])
         => (sess[h] = Current(h[1]) /\ sess[h] \in alive /\ owner[id[h]] = sess[h])]_vars

(* No step of one lock object takes the advisory lock away from another    *)
(* one that still holds it: Release only undoes its own acquisition.       *)
NoStolenRelease ==
  [][\A g, h \in Handle, l \in LockID :
       (g # h /\ Holds(g, l) /\ owner[l] = sess[g] /\ pc[h] # pc'[h] /\ pc'[g] = pc[g])
         => owner'[l] = sess[g]]_vars

(* An advisory lock that no lock object stands for any more (its ATC died, *)
(* or its connection broke while Postgres ran the query) does not stay     *)
(* taken for ever once that session is not the ATC's connection any more.  *)
(* (After a failed unlock on a connection that stays up it may.)           *)
Orphaned(l) ==
  /\ owner[l] # None
  /\ \A h \in Handle : ~(pc[h] \in {"registering", "held"} /\ id[h] = l /\ sess[h] = owner[l])
OrphansAreFreed ==
  \A l \in LockID :
    (Orphaned(l) /\ owner[l] # Current(owner[l][1])) ~> ~Orphaned(l)

-----------------------------------------------------------------------------
(* What the users of the lock see.                                         *)
holdOf == [h \in Handle |-> IF pc[h] = "held" THEN id[h] ELSE None]
lostOf == {h \in Handle : pc[h] = "held" /\ sess[h] \notin alive}

Lease == INSTANCE LeaseLock WITH hold <- holdOf, lost <- lostOf

(* The lock factories together behave like one lease per id.               *)
ImplementsLease == Lease!LeaseSpec
=============================================================================
