-------------------------- MODULE LockFactoryProofs --------------------------
(***************************************************************************)
(* The lock factories are mutually exclusive, locally and among ATCs, and  *)
(* implement LeaseLock, for every number of ATCs, lock objects, lock ids   *)
(* and sessions.                                                           *)
(***************************************************************************)
EXTENDS LockFactory, TLAPS

(* acquireMutex is held by the object that is inside Acquire.              *)
MutexInv ==
  \A h \in Handle : pc[h] \in {"acquiring", "registering"} => mutex[h[1]] = h[2]

(* An object that acquires or has a lock knows which; one that has it      *)
(* obtained it on a session of its own ATC.                                *)
ObjectInv ==
  \A h \in Handle :
    /\ pc[h] # "idle" => id[h] \in LockID
    /\ pc[h] \in {"registering", "held"} =>
         sess[h] \in Session /\ sess[h][1] = h[1] /\ sess[h][2] <= conn[h[1]]

(* lockRepo has the ids that are held, and none that is being acquired.    *)
RepoInv ==
  \A h \in Handle :
    /\ pc[h] \in {"held", "releasing"} => id[h] \in registered[h[1]]
    /\ pc[h] \in {"acquiring", "registering"} => id[h] \notin registered[h[1]]

UniqueInv ==
  \A g, h \in Handle :
    (/\ g # h /\ g[1] = h[1] /\ id[g] = id[h]
     /\ pc[g] \in {"held", "releasing"}) => pc[h] \notin {"held", "releasing"}

(* While its session lives, an obtained lock is backed by Postgres.        *)
BackedInv ==
  \A h \in Handle :
    (pc[h] \in {"registering", "held"} /\ sess[h] \in alive) => owner[id[h]] = sess[h]

(* A later session of the ATC never owns a lock that the ATC thinks it     *)
(* holds: lockRepo keeps the id from being acquired again.                 *)
FreshInv ==
  \A h \in Handle :
    (/\ pc[h] \in {"registering", "held"} /\ owner[id[h]] # None
     /\ owner[id[h]][1] = h[1]) => owner[id[h]] = sess[h]

(* Postgres: only living sessions own locks, and count them.               *)
PgInv ==
  /\ \A l \in LockID : owner[l] # None => owner[l] \in alive /\ depth[l] >= 1
  /\ \A l \in LockID : owner[l] = None => depth[l] = 0
  /\ \A a \in ATC : Current(a) \in alive
  /\ \A s \in alive : s[2] <= conn[s[1]]

IInv == TypeOK /\ MutexInv /\ ObjectInv /\ RepoInv /\ UniqueInv /\ BackedInv /\ FreshInv /\ PgInv

-----------------------------------------------------------------------------
USE NoneAssumption, BoundAssumption, ErrorAssumption

(* The factories start with no lock held anywhere.                         *)
LEMMA InitIInv == Init => IInv
<1> SUFFICES ASSUME Init PROVE IInv
  OBVIOUS
<1>1. TypeOK
  BY DEF Init, TypeOK, Handle, Session, Phase
<1>2. PgInv
  BY DEF Init, PgInv, Current
<1> QED
  BY <1>1, <1>2 DEF Init, IInv, MutexInv, ObjectInv, RepoInv, UniqueInv, BackedInv, FreshInv, Handle

-----------------------------------------------------------------------------
(* What the queries do to Postgres' table of advisory locks.               *)
LockTable == owner \in [LockID -> Session \cup {None}] /\ depth \in [LockID -> 0..MaxDepth]

(* The owners of the locks are sessions of the set S, and only they count. *)
OwnersIn(S) ==
  /\ \A k \in LockID : owner[k] # None => owner[k] \in S /\ depth[k] >= 1
  /\ \A k \in LockID : owner[k] = None => depth[k] = 0

(* pg_try_advisory_lock on s gives l to s, or changes nothing.             *)
LEMMA TryLockEffect ==
  ASSUME NEW s \in Session, NEW l \in LockID, NEW S, s \in S,
         LockTable, OwnersIn(S), PgTryLock(s, l)
  PROVE  /\ LockTable'
         /\ \A k \in LockID : owner'[k] # None => owner'[k] \in S /\ depth'[k] >= 1
         /\ \A k \in LockID : owner'[k] = None => depth'[k] = 0
         /\ PgGrants(s, l) => owner'[l] = s
         /\ \A k \in LockID : owner[k] # None => owner'[k] = owner[k]
         /\ \A k \in LockID : owner'[k] = owner[k] \/ (k = l /\ owner'[k] = s)
<1>0. s # None
  BY DEF Session
<1>1. CASE PgGrants(s, l)
  <2>1. /\ depth[l] \in Nat /\ depth[l] < MaxDepth
        /\ owner' = [owner EXCEPT ![l] = s]
        /\ depth' = [depth EXCEPT ![l] = depth[l] + 1]
    BY <1>1 DEF PgTryLock, LockTable
  <2>2. LockTable'
    BY <2>1 DEF LockTable
  <2> QED
    BY <1>0, <1>1, <2>1, <2>2 DEF LockTable, OwnersIn, PgGrants
<1>2. CASE ~PgGrants(s, l)
  BY <1>2 DEF PgTryLock, LockTable, OwnersIn
<1> QED
  BY <1>1, <1>2

(* pg_advisory_unlock on s takes l from nobody but s.                      *)
LEMMA UnlockEffect ==
  ASSUME NEW s \in Session, NEW l \in LockID, NEW S,
         LockTable, OwnersIn(S), PgUnlock(s, l)
  PROVE  /\ LockTable'
         /\ \A k \in LockID : owner'[k] # None => owner'[k] \in S /\ depth'[k] >= 1
         /\ \A k \in LockID : owner'[k] = None => depth'[k] = 0
         /\ \A k \in LockID : owner'[k] \in {None, owner[k]}
         /\ \A k \in LockID : owner'[k] = owner[k] \/ (k = l /\ owner[k] = s)
<1>0. s # None
  BY DEF Session
<1>1. CASE owner[l] = s
  <2>1. /\ depth[l] \in Nat /\ depth[l] >= 1 /\ depth[l] <= MaxDepth
        /\ owner' = [owner EXCEPT ![l] = IF depth[l] = 1 THEN None ELSE owner[l]]
        /\ depth' = [depth EXCEPT ![l] = depth[l] - 1]
    BY <1>0, <1>1 DEF PgUnlock, LockTable, OwnersIn
  <2>2. LockTable'
    BY <1>0, <1>1, <2>1 DEF LockTable
  <2> QED
    BY <1>0, <1>1, <2>1, <2>2 DEF LockTable, OwnersIn
<1>2. CASE owner[l] # s
  BY <1>2 DEF PgUnlock, LockTable, OwnersIn
<1> QED
  BY <1>1, <1>2

(* A new session is new, alive and current; the old ones are still there.  *)
LEMMA ReconnectEffect ==
  ASSUME NEW a \in ATC, TypeOK, PgInv, Reconnect(a)
  PROVE  /\ conn' \in [ATC -> 1..MaxSessions]
         /\ alive' \in SUBSET Session
         /\ alive \subseteq alive'
         /\ \A b \in ATC : conn[b] <= conn'[b]
         /\ \A b \in ATC : <<b, conn'[b]>> \in alive'
         /\ \A s \in alive' : s[2] <= conn'[s[1]]
         /\ \A s \in alive' \ alive : s[1] = a /\ s[2] = conn[a] + 1
<1>1. conn[a] \in 1..MaxSessions /\ conn[a] + 1 \in 1..MaxSessions
  BY DEF TypeOK, Reconnect
<1>2. /\ conn' \in [ATC -> 1..MaxSessions]
      /\ \A b \in ATC : conn'[b] = IF b = a THEN conn[a] + 1 ELSE conn[b]
  BY <1>1 DEF TypeOK, Reconnect
<1>3. alive' \in SUBSET Session
  BY <1>1 DEF TypeOK, Reconnect, Session
<1> QED
  BY <1>1, <1>2, <1>3 DEF TypeOK, PgInv, Reconnect, Session, Current

(* Acquire that gives up leaves the invariant alone, Postgres aside.       *)
LEMMA GiveUpKeeps ==
  ASSUME IInv, NEW h \in Handle, pc[h] = "acquiring", GiveUp(h), PgInv',
         UNCHANGED <<conn, alive, owner, depth>>
  PROVE  IInv'
<1>1. TypeOK'
  BY DEF IInv, TypeOK, GiveUp, Phase, Handle
<1>2. MutexInv' /\ RepoInv' /\ UniqueInv'
  BY DEF IInv, TypeOK, GiveUp, MutexInv, RepoInv, UniqueInv, Handle
<1>3. ObjectInv' /\ BackedInv' /\ FreshInv'
  BY DEF IInv, TypeOK, GiveUp, ObjectInv, BackedInv, FreshInv
<1> QED BY <1>1, <1>2, <1>3 DEF IInv

(* The same when the connection is replaced and the old session may have   *)
(* been given the lock.                                                    *)
LEMMA ReconnectGiveUp ==
  ASSUME IInv, NEW h \in Handle, pc[h] = "acquiring", GiveUp(h), Reconnect(h[1]),
         LockTable',
         \A k \in LockID : owner'[k] # None => owner'[k] \in alive /\ depth'[k] >= 1,
         \A k \in LockID : owner'[k] = None => depth'[k] = 0,
         \A k \in LockID : owner[k] # None => owner'[k] = owner[k],
         \A k \in LockID : owner'[k] = owner[k] \/ (k = id[h] /\ owner'[k] = Current(h[1]))
  PROVE  IInv'
<1>1. h[1] \in ATC /\ TypeOK /\ PgInv
  BY DEF Handle, IInv
<1>2. /\ conn' \in [ATC -> 1..MaxSessions]
      /\ alive' \in SUBSET Session
      /\ alive \subseteq alive'
      /\ \A b \in ATC : conn[b] <= conn'[b]
      /\ \A b \in ATC : <<b, conn'[b]>> \in alive'
      /\ \A t \in alive' : t[2] <= conn'[t[1]]
      /\ \A t \in alive' \ alive : t[1] = h[1] /\ t[2] = conn[h[1]] + 1
  BY <1>1, ReconnectEffect
<1>3. TypeOK'
  <2>1. /\ pc' \in [Handle -> Phase]
        /\ id' \in [Handle -> LockID \cup {None}]
        /\ sess' \in [Handle -> Session \cup {None}]
        /\ released' \in [Handle -> BOOLEAN]
        /\ registered' \in [ATC -> SUBSET LockID]
        /\ mutex' \in [ATC -> Slot \cup {None}]
    BY DEF IInv, TypeOK, GiveUp, Phase, Handle
  <2> QED BY <1>2, <2>1 DEF TypeOK, LockTable
<1>4. PgInv'
  BY <1>2 DEF PgInv, Current
<1>5. MutexInv' /\ RepoInv' /\ UniqueInv'
  BY DEF IInv, TypeOK, GiveUp, MutexInv, RepoInv, UniqueInv, Handle
<1>6. \A g \in Handle : pc'[g] \in {"registering", "held"} =>
        pc[g] = pc'[g] /\ id[g] = id'[g] /\ sess[g] = sess'[g]
  BY DEF IInv, TypeOK, GiveUp
<1>7. ObjectInv'
  <2>1. \A g \in Handle : pc'[g] # "idle" => id'[g] \in LockID
    BY DEF IInv, TypeOK, GiveUp, ObjectInv
  <2>2. ASSUME NEW g \in Handle, pc'[g] \in {"registering", "held"}
        PROVE  sess'[g] \in Session /\ sess'[g][1] = g[1] /\ sess'[g][2] <= conn'[g[1]]
    <3>1. /\ sess[g] \in Session /\ sess[g][1] = g[1] /\ sess[g][2] <= conn[g[1]]
          /\ sess[g][2] \in Nat /\ g[1] \in ATC
      BY <1>6, <2>2 DEF IInv, ObjectInv, Handle, Session
    <3>2. conn[g[1]] \in Nat /\ conn'[g[1]] \in Nat /\ conn[g[1]] <= conn'[g[1]]
      BY <1>1, <1>2, <3>1 DEF TypeOK
    <3> QED BY <1>6, <2>2, <3>1, <3>2
  <2> QED BY <2>1, <2>2 DEF ObjectInv
<1>8. BackedInv'
  <2> SUFFICES ASSUME NEW g \in Handle, pc'[g] \in {"registering", "held"}, sess'[g] \in alive'
               PROVE  owner'[id'[g]] = sess'[g]
    BY DEF BackedInv
  <2>1. /\ id[g] \in LockID /\ sess[g] \in Session /\ sess[g] # None
        /\ sess[g][1] = g[1] /\ sess[g][2] <= conn[g[1]] /\ g[1] \in ATC
        /\ conn[g[1]] \in Nat
    BY <1>6 DEF IInv, ObjectInv, TypeOK, Session, Handle
  <2>2. sess[g] \in alive
    BY <1>2, <1>6, <2>1
  <2> QED BY <1>6, <2>1, <2>2 DEF IInv, BackedInv
<1>9. FreshInv'
  <2> SUFFICES ASSUME NEW g \in Handle, pc'[g] \in {"registering", "held"},
                      owner'[id'[g]] # None, owner'[id'[g]][1] = g[1]
               PROVE  owner'[id'[g]] = sess'[g]
    BY DEF FreshInv
  <2>1. /\ id[g] \in LockID /\ pc[g] = pc'[g] /\ id[g] = id'[g] /\ sess[g] = sess'[g] /\ g # h
    BY <1>6 DEF IInv, ObjectInv
  <2>2. id[g] = id[h] => g[1] # h[1]
    BY <2>1 DEF IInv, MutexInv, RepoInv, Handle
  <2>3. owner'[id[g]] = owner[id[g]]
    BY <2>1, <2>2 DEF Current
  <2> QED BY <2>1, <2>3 DEF IInv, FreshInv
<1> QED BY <1>3, <1>4, <1>5, <1>7, <1>8, <1>9 DEF IInv

(* Entering Acquire takes the mutex, for an id that is not registered.     *)
LEMMA StartAcquireStep ==
  ASSUME IInv, NEW h \in Handle, NEW l \in LockID, StartAcquire(h, l)
  PROVE  IInv'
<1> USE DEF IInv, TypeOK, StartAcquire, dbVars
<1>1. TypeOK'
  BY DEF Phase, Handle
<1>2. MutexInv' /\ RepoInv'
  BY DEF MutexInv, RepoInv, Handle
<1>3. UniqueInv'
  BY DEF UniqueInv
<1>4. ObjectInv' /\ BackedInv' /\ FreshInv'
  BY DEF ObjectInv, BackedInv, FreshInv
<1>5. PgInv'
  BY DEF PgInv, Current
<1> QED BY <1>1, <1>2, <1>3, <1>4, <1>5

(* The advisory lock is granted only if no living session of another ATC   *)
(* has it; what backs other objects is not touched.                        *)
LEMMA DBAcquireStep ==
  ASSUME IInv, NEW h \in Handle, DBAcquire(h)
  PROVE  IInv'
<1> DEFINE s == Current(h[1])
<1>1. /\ s \in Session /\ s \in alive /\ s = <<h[1], conn[h[1]]>> /\ id[h] \in LockID
      /\ PgTryLock(s, id[h]) /\ LockTable /\ OwnersIn(alive)
  BY DEF DBAcquire, IInv, ObjectInv, TypeOK, PgInv, Current, Session, Handle, LockTable, OwnersIn
<1>2. /\ LockTable'
      /\ \A k \in LockID : owner'[k] # None => owner'[k] \in alive /\ depth'[k] >= 1
      /\ \A k \in LockID : owner'[k] = None => depth'[k] = 0
      /\ PgGrants(s, id[h]) => owner'[id[h]] = s
      /\ \A k \in LockID : owner[k] # None => owner'[k] = owner[k]
      /\ \A k \in LockID : owner'[k] = owner[k] \/ (k = id[h] /\ owner'[k] = s)
  <2> HIDE DEF s
  <2> QED BY <1>1, TryLockEffect
<1>3. UNCHANGED <<conn, alive, released, registered>>
  BY DEF DBAcquire, GiveUp
<1>4. PgInv'
  BY <1>2, <1>3 DEF IInv, PgInv, Current
<1>5. CASE PgGrants(s, id[h])
  <2>1. /\ pc' = [pc EXCEPT ![h] = "registering"]
        /\ sess' = [sess EXCEPT ![h] = s]
        /\ UNCHANGED <<id, mutex>>
        /\ pc[h] = "acquiring"
    BY <1>5 DEF DBAcquire
  <2>2. TypeOK'
    BY <1>1, <1>2, <1>3, <2>1 DEF IInv, TypeOK, LockTable, Phase
  <2>3. BackedInv'
    <3> SUFFICES ASSUME NEW g \in Handle, pc'[g] \in {"registering", "held"}, sess'[g] \in alive
                 PROVE  owner'[id[g]] = sess'[g]
      BY <1>3, <2>1 DEF BackedInv
    <3>1. CASE g = h
      BY <1>1, <1>2, <1>5, <2>1, <3>1 DEF IInv, TypeOK
    <3>2. CASE g # h
      <4>1. pc[g] = pc'[g] /\ sess[g] = sess'[g] /\ id[g] \in LockID /\ sess[g] \in Session
        BY <2>1, <3>2 DEF IInv, TypeOK, ObjectInv
      <4>2. owner[id[g]] = sess[g] /\ sess[g] # None
        BY <4>1 DEF IInv, BackedInv, Session
      <4> QED BY <1>2, <4>1, <4>2
    <3> QED BY <3>1, <3>2
  <2>4. MutexInv' /\ RepoInv' /\ UniqueInv'
    BY <1>3, <2>1 DEF IInv, TypeOK, MutexInv, RepoInv, UniqueInv
  <2>5. ObjectInv'
    BY <1>1, <1>3, <2>1 DEF IInv, TypeOK, ObjectInv, Handle, Session
  <2>6. FreshInv'
    <3> SUFFICES ASSUME NEW g \in Handle, pc'[g] \in {"registering", "held"},
                        owner'[id[g]] # None, owner'[id[g]][1] = g[1]
                 PROVE  owner'[id[g]] = sess'[g]
      BY <2>1 DEF FreshInv
    <3>1. CASE g = h
      BY <1>1, <1>2, <1>5, <2>1, <3>1 DEF IInv, TypeOK
    <3>2. CASE g # h
      <4>1. pc[g] = pc'[g] /\ sess[g] = sess'[g] /\ id[g] \in LockID
        BY <2>1, <3>2 DEF IInv, TypeOK, ObjectInv
      <4>2. id[g] = id[h] => g[1] # h[1]
        BY <2>1, <3>2, <4>1 DEF IInv, MutexInv, RepoInv, Handle
      <4>3. owner'[id[g]] = owner[id[g]]
        BY <1>1, <1>2, <4>1, <4>2
      <4> QED BY <4>1, <4>3 DEF IInv, FreshInv
    <3> QED BY <3>1, <3>2
  <2> QED BY <1>4, <2>2, <2>3, <2>4, <2>5, <2>6 DEF IInv
<1>6. CASE ~PgGrants(s, id[h])
  <2>1. /\ GiveUp(h) /\ pc[h] = "acquiring" /\ UNCHANGED <<owner, depth>>
    BY <1>6 DEF DBAcquire, PgTryLock
  <2> QED BY <1>3, <1>4, <2>1, GiveUpKeeps
<1> QED BY <1>5, <1>6

(* Whatever a failed query left behind belongs to an old session.          *)
LEMMA DBAcquireErrorStep ==
  ASSUME IInv, NEW h \in Handle, DBAcquireError(h)
  PROVE  IInv'
<1> DEFINE s == Current(h[1])
<1>1. /\ s \in Session /\ s \in alive /\ id[h] \in LockID /\ h[1] \in ATC
      /\ LockTable /\ OwnersIn(alive) /\ GiveUp(h) /\ pc[h] = "acquiring"
      /\ TypeOK /\ PgInv /\ conn \in [ATC -> 1..MaxSessions] /\ alive \in SUBSET Session
  BY DEF DBAcquireError, IInv, ObjectInv, TypeOK, PgInv, Current, Session, Handle, LockTable, OwnersIn
<1>2. ASSUME Reconnect(h[1]), PgTryLock(s, id[h])  PROVE IInv'
  <2>1. /\ LockTable'
        /\ \A k \in LockID : owner'[k] # None => owner'[k] \in alive /\ depth'[k] >= 1
        /\ \A k \in LockID : owner'[k] = None => depth'[k] = 0
        /\ \A k \in LockID : owner[k] # None => owner'[k] = owner[k]
        /\ \A k \in LockID : owner'[k] = owner[k] \/ (k = id[h] /\ owner'[k] = s)
    <3> HIDE DEF s
    <3> QED BY <1>1, <1>2, TryLockEffect
  <2> QED BY <1>1, <1>2, <2>1, ReconnectGiveUp
<1>3. ASSUME Reconnect(h[1]), UNCHANGED <<owner, depth>>  PROVE IInv'
  BY <1>1, <1>3, ReconnectGiveUp DEF LockTable, OwnersIn
<1>4. ASSUME UNCHANGED dbVars  PROVE IInv'
  <2>1. PgInv' /\ UNCHANGED <<conn, alive, owner, depth>>
    BY <1>1, <1>4 DEF PgInv, dbVars, Current
  <2> QED BY <1>1, <2>1, GiveUpKeeps
<1> QED BY <1>2, <1>3, <1>4 DEF DBAcquireError

(* Registering: the mutex keeps every other object of the ATC from being   *)
(* inside Acquire, and the id was not registered.                          *)
LEMMA RegisterStep ==
  ASSUME IInv, NEW h \in Handle, Register(h)
  PROVE  IInv'
<1> USE DEF IInv, TypeOK, Register, dbVars
<1>1. TypeOK'
  BY DEF Phase, Handle, ObjectInv
<1>2. MutexInv' /\ RepoInv'
  <2>1. MutexInv'
    BY DEF MutexInv, Handle
  <2>2. \A g \in Handle : g # h /\ g[1] = h[1] => pc[g] \notin {"acquiring", "registering"}
    BY DEF MutexInv, Handle
  <2>3. RepoInv'
    BY <2>2 DEF RepoInv, ObjectInv, Handle
  <2> QED BY <2>1, <2>3
<1>3. UniqueInv'
  BY DEF UniqueInv, RepoInv, Handle
<1>4. ObjectInv' /\ BackedInv' /\ FreshInv'
  BY DEF ObjectInv, BackedInv, FreshInv
<1>5. PgInv'
  BY DEF PgInv, Current
<1> QED BY <1>1, <1>2, <1>3, <1>4, <1>5

(* An object that stops holding, while Postgres may take the lock away     *)
(* from the session it is current on and new sessions may appear.          *)
StopsHolding(h) ==
  /\ UNCHANGED <<id, sess, registered, mutex>>
  /\ pc[h] = "held" /\ pc' = [pc EXCEPT ![h] = "releasing"]
  /\ \A b \in ATC : conn[b] <= conn'[b]
  /\ \A t \in alive' \ alive : t[1] = h[1] /\ t[2] = conn[h[1]] + 1
  /\ \A k \in LockID : owner'[k] \in {None, owner[k]}
  /\ \A k \in LockID : owner'[k] = owner[k] \/ (k = id[h] /\ owner[k] = Current(h[1]))

(* Such a step keeps what the other objects rely on.                       *)
LEMMA HeldToReleasing ==
  ASSUME IInv, NEW h \in Handle, TypeOK', PgInv', StopsHolding(h)
  PROVE  IInv'
<1> USE DEF StopsHolding
<1>1. MutexInv' /\ RepoInv' /\ UniqueInv'
  BY DEF IInv, TypeOK, MutexInv, RepoInv, UniqueInv
<1>2. ASSUME NEW g \in Handle, pc'[g] \in {"registering", "held"}
      PROVE  /\ g # h /\ pc[g] = pc'[g] /\ id[g] \in LockID
             /\ sess[g] \in Session /\ sess[g][1] = g[1] /\ sess[g][2] <= conn[g[1]]
             /\ sess[g][2] \in Nat /\ g[1] \in ATC /\ conn[g[1]] \in Nat
  BY <1>2 DEF IInv, TypeOK, ObjectInv, Handle, Session
<1>3. ObjectInv'
  <2>1. \A g \in Handle : pc'[g] # "idle" => id'[g] \in LockID
    BY DEF IInv, TypeOK, ObjectInv
  <2>2. ASSUME NEW g \in Handle, pc'[g] \in {"registering", "held"}
        PROVE  sess'[g] \in Session /\ sess'[g][1] = g[1] /\ sess'[g][2] <= conn'[g[1]]
    <3>1. g[1] \in ATC /\ conn'[g[1]] \in Nat /\ conn[g[1]] <= conn'[g[1]]
      BY <1>2, <2>2 DEF TypeOK
    <3> QED BY <1>2, <2>2, <3>1
  <2> QED BY <2>1, <2>2 DEF ObjectInv
<1>4. BackedInv'
  <2> SUFFICES ASSUME NEW g \in Handle, pc'[g] \in {"registering", "held"}, sess[g] \in alive'
               PROVE  owner'[id[g]] = sess[g]
    BY DEF BackedInv
  <2>1. sess[g] \in alive
    BY <1>2
  <2>2. owner[id[g]] = sess[g]
    BY <1>2, <2>1 DEF IInv, BackedInv
  <2>3. ~(id[g] = id[h] /\ g[1] = h[1])
    BY <1>2 DEF IInv, UniqueInv, RepoInv
  <2>4. ~(id[g] = id[h] /\ sess[g] = Current(h[1]))
    BY <1>2, <2>3 DEF Current
  <2> QED BY <1>2, <2>2, <2>4
<1>5. FreshInv'
  BY <1>2 DEF IInv, FreshInv
<1> QED BY <1>1, <1>3, <1>4, <1>5 DEF IInv

(* Unlocking: the only object that the session's lock could back is the    *)
(* one that releases it, because ids are registered at most once.          *)
LEMMA DBReleaseStep ==
  ASSUME IInv, NEW h \in Handle, DBRelease(h)
  PROVE  IInv'
<1>1. /\ h[1] \in ATC /\ id[h] \in LockID /\ Current(h[1]) \in Session
      /\ LockTable /\ OwnersIn(alive) /\ PgUnlock(Current(h[1]), id[h])
  BY DEF DBRelease, IInv, ObjectInv, TypeOK, PgInv, Current, Session, Handle, LockTable, OwnersIn
<1>2. /\ LockTable'
      /\ \A k \in LockID : owner'[k] # None => owner'[k] \in alive /\ depth'[k] >= 1
      /\ \A k \in LockID : owner'[k] = None => depth'[k] = 0
      /\ \A k \in LockID : owner'[k] \in {None, owner[k]}
      /\ \A k \in LockID : owner'[k] = owner[k] \/ (k = id[h] /\ owner[k] = Current(h[1]))
  BY <1>1, UnlockEffect
<1>3. /\ UNCHANGED <<id, sess, registered, mutex, conn, alive>>
      /\ pc[h] = "held" /\ pc' = [pc EXCEPT ![h] = "releasing"]
      /\ released' \in [Handle -> BOOLEAN]
  BY DEF DBRelease, IInv, TypeOK
<1>4. PgInv'
  BY <1>2, <1>3 DEF IInv, PgInv, Current
<1>5. TypeOK'
  BY <1>2, <1>3 DEF IInv, TypeOK, LockTable, Phase
<1>6. (\A b \in ATC : conn[b] <= conn'[b]) /\ alive' \ alive = {}
  BY <1>3 DEF IInv, TypeOK
<1>7. StopsHolding(h)
  BY <1>2, <1>3, <1>6 DEF StopsHolding
<1> QED BY <1>4, <1>5, <1>7, HeldToReleasing

(* The same when the query fails, with or without having been run.         *)
LEMMA DBReleaseErrorStep ==
  ASSUME IInv, NEW h \in Handle, DBReleaseError(h)
  PROVE  IInv'
<1> DEFINE s == Current(h[1])
<1>1. /\ h[1] \in ATC /\ id[h] \in LockID /\ s \in Session
      /\ LockTable /\ OwnersIn(alive) /\ TypeOK /\ PgInv
  BY DEF DBReleaseError, IInv, ObjectInv, TypeOK, PgInv, Current, Session, Handle, LockTable, OwnersIn
<1>2. /\ UNCHANGED <<id, sess, registered, mutex>>
      /\ pc[h] = "held" /\ pc' = [pc EXCEPT ![h] = "releasing"]
      /\ released' \in [Handle -> BOOLEAN]
  BY DEF DBReleaseError, IInv, TypeOK
<1>3. ASSUME Reconnect(h[1]), PgUnlock(s, id[h]) \/ UNCHANGED <<owner, depth>>  PROVE IInv'
  <2>1. /\ LockTable'
        /\ \A k \in LockID : owner'[k] # None => owner'[k] \in alive /\ depth'[k] >= 1
        /\ \A k \in LockID : owner'[k] = None => depth'[k] = 0
        /\ \A k \in LockID : owner'[k] \in {None, owner[k]}
        /\ \A k \in LockID : owner'[k] = owner[k] \/ (k = id[h] /\ owner[k] = s)
    <3>1. CASE PgUnlock(s, id[h])
      <4> HIDE DEF s
      <4> QED BY <1>1, <3>1, UnlockEffect
    <3>2. CASE UNCHANGED <<owner, depth>>
      BY <1>1, <3>2 DEF LockTable, OwnersIn
    <3> QED BY <1>3, <3>1, <3>2
  <2>2. /\ conn' \in [ATC -> 1..MaxSessions]
        /\ alive' \in SUBSET Session
        /\ alive \subseteq alive'
        /\ \A b \in ATC : conn[b] <= conn'[b]
        /\ \A b \in ATC : <<b, conn'[b]>> \in alive'
        /\ \A t \in alive' : t[2] <= conn'[t[1]]
        /\ \A t \in alive' \ alive : t[1] = h[1] /\ t[2] = conn[h[1]] + 1
    BY <1>1, <1>3, ReconnectEffect
  <2>3. PgInv'
    BY <2>1, <2>2 DEF PgInv, Current
  <2>4. TypeOK'
    BY <1>1, <1>2, <2>1, <2>2 DEF TypeOK, LockTable, Phase
  <2>5. StopsHolding(h)
    BY <1>2, <2>1, <2>2 DEF StopsHolding
  <2> QED BY <2>3, <2>4, <2>5, HeldToReleasing
<1>4. ASSUME UNCHANGED dbVars  PROVE IInv'
  <2>1. PgInv' /\ TypeOK' /\ UNCHANGED <<conn, alive, owner, depth>>
    BY <1>1, <1>2, <1>4 DEF PgInv, dbVars, Current, TypeOK, Phase
  <2>2. (\A b \in ATC : conn[b] <= conn'[b]) /\ alive' \ alive = {}
    BY <1>1, <2>1 DEF TypeOK
  <2>3. StopsHolding(h)
    BY <1>2, <2>1, <2>2 DEF StopsHolding
  <2> QED BY <2>1, <2>3, HeldToReleasing
<1> QED BY <1>3, <1>4 DEF DBReleaseError

(* Unregistering an id that no other object of the ATC holds.              *)
LEMMA UnregisterStep ==
  ASSUME IInv, NEW h \in Handle, Unregister(h)
  PROVE  IInv'
<1> USE DEF IInv, TypeOK, Unregister, dbVars
<1>1. TypeOK'
  BY DEF Phase, Handle
<1>2. MutexInv' /\ RepoInv'
  BY DEF MutexInv, RepoInv, UniqueInv, Handle
<1>3. UniqueInv'
  BY DEF UniqueInv
<1>4. ObjectInv' /\ BackedInv' /\ FreshInv'
  BY DEF ObjectInv, BackedInv, FreshInv
<1>5. PgInv'
  BY DEF PgInv, Current
<1> QED BY <1>1, <1>2, <1>3, <1>4, <1>5

(* Objects that are left alone, or reset, while a session is replaced.     *)
LEMMA ReconnectKeepsObjects ==
  ASSUME IInv, NEW a \in ATC, Reconnect(a), UNCHANGED <<owner, depth>>,
         \A g \in Handle : pc'[g] # "idle" => pc'[g] = pc[g] /\ id'[g] = id[g] /\ sess'[g] = sess[g]
  PROVE  ObjectInv' /\ BackedInv' /\ FreshInv' /\ PgInv'
<1>1. TypeOK /\ PgInv
  BY DEF IInv
<1>2. /\ conn' \in [ATC -> 1..MaxSessions]
      /\ alive' \in SUBSET Session
      /\ alive \subseteq alive'
      /\ \A b \in ATC : conn[b] <= conn'[b]
      /\ \A b \in ATC : <<b, conn'[b]>> \in alive'
      /\ \A t \in alive' : t[2] <= conn'[t[1]]
      /\ \A t \in alive' \ alive : t[1] = a /\ t[2] = conn[a] + 1
  BY <1>1, ReconnectEffect
<1>3. PgInv'
  BY <1>1, <1>2 DEF PgInv, Current
<1>4. ASSUME NEW g \in Handle, pc'[g] \in {"registering", "held"}
      PROVE  /\ pc'[g] = pc[g] /\ id'[g] = id[g] /\ sess'[g] = sess[g]
             /\ sess[g] \in Session /\ sess[g][1] = g[1] /\ sess[g][2] <= conn[g[1]]
             /\ sess[g][2] \in Nat /\ g[1] \in ATC /\ conn[g[1]] \in Nat /\ conn'[g[1]] \in Nat
  BY <1>2, <1>4 DEF IInv, TypeOK, ObjectInv, Handle, Session
<1>5. ObjectInv'
  <2>1. \A g \in Handle : pc'[g] # "idle" => id'[g] \in LockID
    BY DEF IInv, ObjectInv
  <2>2. ASSUME NEW g \in Handle, pc'[g] \in {"registering", "held"}
        PROVE  sess'[g] \in Session /\ sess'[g][1] = g[1] /\ sess'[g][2] <= conn'[g[1]]
    BY <1>2, <1>4, <2>2
  <2> QED BY <2>1, <2>2 DEF ObjectInv
<1>6. BackedInv'
  <2> SUFFICES ASSUME NEW g \in Handle, pc'[g] \in {"registering", "held"}, sess'[g] \in alive'
               PROVE  owner[id[g]] = sess[g]
    BY <1>4 DEF BackedInv
  <2>1. sess[g] \in alive
    BY <1>2, <1>4
  <2> QED BY <1>4, <2>1 DEF IInv, BackedInv
<1>7. FreshInv'
  BY <1>4 DEF IInv, FreshInv
<1> QED BY <1>3, <1>5, <1>6, <1>7

(* The connection breaks while no query runs.                              *)
LEMMA BreakStep ==
  ASSUME IInv, NEW a \in ATC, Break(a)
  PROVE  IInv'
<1>1. Reconnect(a) /\ UNCHANGED <<pc, id, sess, released, registered, mutex, owner, depth>>
  BY DEF Break, objVars, localVars
<1>2. conn' \in [ATC -> 1..MaxSessions] /\ alive' \in SUBSET Session
  BY <1>1, ReconnectEffect DEF IInv
<1>3. TypeOK'
  BY <1>1, <1>2 DEF IInv, TypeOK
<1>4. MutexInv' /\ RepoInv' /\ UniqueInv'
  BY <1>1 DEF IInv, MutexInv, RepoInv, UniqueInv
<1>5. ObjectInv' /\ BackedInv' /\ FreshInv' /\ PgInv'
  BY <1>1, ReconnectKeepsObjects
<1> QED BY <1>3, <1>4, <1>5 DEF IInv

(* The restarted ATC has no object, no registered id and a new session.    *)
LEMMA CrashStep ==
  ASSUME IInv, NEW a \in ATC, Crash(a)
  PROVE  IInv'
<1>1. conn' \in [ATC -> 1..MaxSessions] /\ alive' \in SUBSET Session
  BY ReconnectEffect DEF IInv, Crash
<1>2. /\ pc' \in [Handle -> Phase] /\ id' \in [Handle -> LockID \cup {None}]
      /\ sess' \in [Handle -> Session \cup {None}] /\ released' \in [Handle -> BOOLEAN]
  <2>1. pc' \in [Handle -> Phase]
    BY DEF Crash, IInv, TypeOK, Phase
  <2>2. id' \in [Handle -> LockID \cup {None}]
    BY DEF Crash, IInv, TypeOK
  <2>3. sess' \in [Handle -> Session \cup {None}]
    BY DEF Crash, IInv, TypeOK
  <2>4. released' \in [Handle -> BOOLEAN]
    BY Zenon DEF Crash, IInv, TypeOK
  <2> QED BY <2>1, <2>2, <2>3, <2>4
<1>3. TypeOK'
  <2>1. registered' \in [ATC -> SUBSET LockID] /\ mutex' \in [ATC -> Slot \cup {None}]
    BY DEF Crash, IInv, TypeOK
  <2>2. UNCHANGED <<owner, depth>>
    BY DEF Crash
  <2> QED BY <1>1, <1>2, <2>1, <2>2 DEF IInv, TypeOK
<1>4. MutexInv' /\ RepoInv' /\ UniqueInv'
  BY DEF Crash, IInv, TypeOK, MutexInv, RepoInv, UniqueInv, Handle
<1>5. \A g \in Handle : pc'[g] # "idle" => pc'[g] = pc[g] /\ id'[g] = id[g] /\ sess'[g] = sess[g]
  BY DEF Crash
<1>6. Reconnect(a) /\ UNCHANGED <<owner, depth>>
  BY DEF Crash
<1>7. ObjectInv' /\ BackedInv' /\ FreshInv' /\ PgInv'
  BY <1>5, <1>6, ReconnectKeepsObjects
<1> QED BY <1>3, <1>4, <1>7 DEF IInv

(* Ending a session frees its locks; whoever relied on it is now lost.     *)
LEMMA EndSessionStep ==
  ASSUME IInv, NEW s \in Session, EndSession(s)
  PROVE  IInv'
<1> USE DEF IInv, TypeOK, EndSession, objVars, localVars
<1>1. TypeOK'
  OBVIOUS
<1>2. MutexInv' /\ RepoInv' /\ UniqueInv' /\ ObjectInv'
  BY DEF MutexInv, RepoInv, UniqueInv, ObjectInv
<1>3. BackedInv' /\ FreshInv'
  BY DEF BackedInv, FreshInv, ObjectInv
<1>4. PgInv'
  BY DEF PgInv, Current, Session
<1> QED BY <1>1, <1>2, <1>3, <1>4

-----------------------------------------------------------------------------
(* Every step keeps the invariant.                                         *)
LEMMA NextIInv == IInv /\ [Next]_vars => IInv'
<1> SUFFICES ASSUME IInv, [Next]_vars PROVE IInv'
  OBVIOUS
<1>1. CASE UNCHANGED vars
  BY <1>1 DEF vars, IInv, TypeOK, MutexInv, ObjectInv, RepoInv, UniqueInv, BackedInv, FreshInv,
     PgInv, Current
<1>2. CASE Next
  BY <1>2, StartAcquireStep, DBAcquireStep, DBAcquireErrorStep, RegisterStep, DBReleaseStep,
     DBReleaseErrorStep, UnregisterStep, BreakStep, CrashStep, EndSessionStep DEF Next
<1> QED BY <1>1, <1>2

(* The invariant that the theorems below rest on.                          *)
THEOREM LockInvariant == Spec => []IInv
<1>1. Init => IInv
  BY InitIInv
<1>2. IInv /\ [Next]_vars => IInv'
  BY NextIInv
<1> QED BY <1>1, <1>2, PTL DEF Spec

(* Every variable keeps its type, whatever breaks.                         *)
THEOREM TypeCorrect == Spec => []TypeOK
<1>1. IInv => TypeOK
  BY DEF IInv
<1> QED BY <1>1, LockInvariant, PTL

(* Two live holders would both be the owner in Postgres, hence of the same *)
(* session and ATC, which lockRepo excludes.                               *)
THEOREM MutuallyExclusive == Spec => []MutualExclusion
<1>1. IInv => MutualExclusion
  BY DEF IInv, MutualExclusion, UniqueInv, BackedInv, ObjectInv, Holds
<1> QED BY <1>1, LockInvariant, PTL

(* Within an ATC, exclusion does not depend on the session at all.         *)
THEOREM LocallyExclusive == Spec => []LocalExclusion
<1>1. IInv => LocalExclusion
  BY DEF IInv, LocalExclusion, UniqueInv, Holds
<1> QED BY <1>1, LockInvariant, PTL

(* A successful unlock on the current session can only be that of the      *)
(* acquisition that the holder made, by FreshInv.                          *)
THEOREM TruthfulRelease == Spec => ReleaseIsTruthful
<1> DEFINE Truthful ==
      \A h \in Handle : (pc[h] = "held" /\ pc'[h] = "releasing" /\ released'[h])
        => (sess[h] = Current(h[1]) /\ sess[h] \in alive /\ owner[id[h]] = sess[h])
<1>1. ASSUME IInv, Next, NEW h \in Handle, pc[h] = "held", pc'[h] = "releasing", released'[h]
      PROVE  sess[h] = Current(h[1]) /\ sess[h] \in alive /\ owner[id[h]] = sess[h]
  <2> USE <1>1 DEF IInv, TypeOK
  <2>1. \A g \in Handle, l \in LockID : ~StartAcquire(g, l)
    BY DEF StartAcquire
  <2>2. \A g \in Handle : ~DBAcquire(g) /\ ~DBAcquireError(g) /\ ~Register(g) /\ ~Unregister(g)
    BY DEF DBAcquire, DBAcquireError, GiveUp, Register, Unregister
  <2>3. ASSUME NEW g \in Handle, DBReleaseError(g)  PROVE FALSE
    <3>1. g = h
      BY <2>3 DEF DBReleaseError
    <3>2. ~released'[h]
      BY <2>3, <3>1, Zenon DEF DBReleaseError
    <3> QED BY <3>2
  <2>4. /\ \A a \in ATC : ~Break(a) /\ ~Crash(a)
        /\ \A s \in Session : ~EndSession(s)
    <3>1. \A a \in ATC : ~Break(a)
      BY DEF Break, objVars
    <3>2. \A a \in ATC : Crash(a) => pc'[h] \in {"idle", pc[h]}
      BY DEF Crash
    <3>3. \A s \in Session : ~EndSession(s)
      BY DEF EndSession, objVars
    <3> QED BY <3>1, <3>2, <3>3
  <2>5. PICK g \in Handle : DBRelease(g)
    BY <2>1, <2>2, <2>3, <2>4 DEF Next
  <2>6. g = h
    BY <2>5 DEF DBRelease
  <2>7. released'[h] = (owner[id[h]] = Current(h[1]))
    BY <2>5, <2>6, Zenon DEF DBRelease
  <2>8. h[1] \in ATC /\ owner[id[h]] = Current(h[1]) /\ Current(h[1])[1] = h[1] /\ Current(h[1]) # None
    <3>1. owner[id[h]] = Current(h[1])
      BY <2>7, Zenon
    <3> QED BY <3>1 DEF Handle, Current
  <2> QED BY <2>8 DEF FreshInv, PgInv
<1>2. IInv /\ [Next]_vars => [Truthful]_vars
  BY <1>1
<1> QED BY <1>2, LockInvariant, PTL DEF Spec, ReleaseIsTruthful

(* Release undoes an acquisition of its own ATC's session only, and        *)
(* lockRepo lets no two objects of an ATC have the same id: whatever one   *)
(* object does, what another one holds stays its own in Postgres.          *)
THEOREM NothingStolen == Spec => NoStolenRelease
<1> DEFINE Kept ==
      \A g, h \in Handle, l \in LockID :
        (g # h /\ Holds(g, l) /\ owner[l] = sess[g] /\ pc[h] # pc'[h] /\ pc'[g] = pc[g])
          => owner'[l] = sess[g]
<1>1. ASSUME IInv, Next, NEW g \in Handle, NEW h \in Handle, NEW l \in LockID,
             Holds(g, l), owner[l] = sess[g], pc[h] # pc'[h], pc'[g] = pc[g]
      PROVE  owner'[l] = sess[g]
  <2>1. pc[g] = "held" /\ id[g] = l /\ sess[g] \in Session /\ sess[g][1] = g[1] /\ owner[l] # None
    BY <1>1 DEF Holds, IInv, ObjectInv, Session
  <2>2. \A k \in Handle : k[1] \in ATC /\ Current(k[1]) \in Session /\ Current(k[1])[1] = k[1]
    BY <1>1 DEF IInv, TypeOK, Handle, Session, Current
  <2>3. LockTable /\ OwnersIn(alive)
    BY <1>1 DEF IInv, TypeOK, PgInv, LockTable, OwnersIn
  <2>4. pc \in [Handle -> Phase]
    BY <1>1 DEF IInv, TypeOK
  <2>5. CASE UNCHANGED owner
    BY <1>1, <2>5
  <2>6. ASSUME NEW k \in Handle, pc[k] = "acquiring", PgTryLock(Current(k[1]), id[k])
        PROVE  owner'[l] = owner[l]
    <3>1. id[k] \in LockID /\ Current(k[1]) \in alive
      BY <1>1, <2>2, <2>6 DEF IInv, ObjectInv, PgInv
    <3> QED BY <2>1, <2>2, <2>3, <2>6, <3>1, TryLockEffect
  <2>7. ASSUME NEW k \in Handle, pc[k] = "held", pc' = [pc EXCEPT ![k] = "releasing"],
               PgUnlock(Current(k[1]), id[k])
        PROVE  owner'[l] = owner[l]
    <3>1. id[k] \in LockID
      BY <1>1, <2>7 DEF IInv, ObjectInv
    <3>2. k # g
      BY <1>1, <2>1, <2>4, <2>7
    <3>3. ~(id[k] = l /\ owner[l] = Current(k[1]))
      BY <1>1, <2>1, <2>2, <2>7, <3>2 DEF IInv, UniqueInv
    <3> QED BY <2>2, <2>3, <2>7, <3>1, <3>3, UnlockEffect
  <2>8. CASE \E k \in Handle : DBAcquire(k) \/ DBAcquireError(k)
    <3>1. UNCHANGED owner \/ \E k \in Handle : pc[k] = "acquiring" /\ PgTryLock(Current(k[1]), id[k])
      BY <2>8 DEF DBAcquire, DBAcquireError, dbVars
    <3> QED BY <1>1, <2>5, <2>6, <3>1
  <2>9. CASE \E k \in Handle : DBRelease(k) \/ DBReleaseError(k)
    <3>1. \/ UNCHANGED owner
          \/ \E k \in Handle : /\ pc[k] = "held" /\ pc' = [pc EXCEPT ![k] = "releasing"]
                               /\ PgUnlock(Current(k[1]), id[k])
      BY <2>9 DEF DBRelease, DBReleaseError, dbVars
    <3> QED BY <1>1, <2>5, <2>7, <3>1
  <2>10. CASE \/ \E k \in Handle : (\E i \in LockID : StartAcquire(k, i)) \/ Register(k) \/ Unregister(k)
              \/ \E a \in ATC : Break(a) \/ Crash(a)
    <3>1. UNCHANGED owner
      BY Zenon, <2>10 DEF StartAcquire, Register, Unregister, Break, Crash, dbVars
    <3> QED BY <2>5, <3>1
  <2>11. CASE \E s \in Session : EndSession(s)
    BY <1>1, <2>11 DEF EndSession, objVars
  <2> QED BY Zenon, <1>1, <2>8, <2>9, <2>10, <2>11 DEF Next
<1>2. IInv /\ [Next]_vars => [Kept]_vars
  BY <1>1
<1> QED BY <1>2, LockInvariant, PTL DEF Spec, NoStolenRelease

-----------------------------------------------------------------------------
(* Refinement. Three facts about the mapping: who holds, what they hold,   *)
(* and that opening a session loses nobody's lock.                         *)
LEMMA HoldOfFacts ==
  ASSUME IInv, NEW h \in Handle
  PROVE  /\ pc[h] = "held" => holdOf[h] = id[h] /\ holdOf[h] # None /\ holdOf[h] \in LockID
         /\ pc[h] # "held" => holdOf[h] = None
BY DEF IInv, ObjectInv, holdOf

(* No holder's session is a new one.                                       *)
LEMMA ReconnectLosesNone ==
  ASSUME IInv, NEW a \in ATC, Reconnect(a), NEW h \in Handle, pc[h] = "held"
  PROVE  sess[h] \in alive' <=> sess[h] \in alive
<1>1. /\ alive \subseteq alive'
      /\ \A t \in alive' \ alive : t[1] = a /\ t[2] = conn[a] + 1
  BY ReconnectEffect DEF IInv
<1>2. /\ sess[h][1] = h[1] /\ sess[h][2] <= conn[h[1]] /\ sess[h][2] \in Nat
      /\ conn[h[1]] \in Nat
  BY DEF IInv, ObjectInv, TypeOK, Session, Handle
<1> QED BY <1>1, <1>2

(* Steps that keep the set of holders, their ids and sessions, and the     *)
(* fate of these sessions, are not seen by the users.                      *)
SameHolders ==
  /\ \A h \in Handle : pc[h] = "held" <=> pc'[h] = "held"
  /\ \A h \in Handle : pc[h] = "held" => /\ id'[h] = id[h] /\ sess'[h] = sess[h]
                                         /\ sess[h] \in alive' <=> sess[h] \in alive

(* They stutter.                                                           *)
LEMMA SameHoldersStutter ==
  ASSUME SameHolders
  PROVE  UNCHANGED <<holdOf, lostOf>>
<1>1. holdOf' = holdOf
  BY DEF SameHolders, holdOf
<1>2. lostOf' = lostOf
  BY DEF SameHolders, lostOf
<1> QED BY <1>1, <1>2

(* A user gets the lock when its object registers it.                      *)
LEMMA RegisterTakes ==
  ASSUME IInv, IInv', NEW h \in Handle, Register(h)
  PROVE  Lease!Take(h, id[h])
<1>1. /\ pc[h] = "registering" /\ pc' = [pc EXCEPT ![h] = "held"]
      /\ UNCHANGED <<id, sess, alive, owner>> /\ id[h] \in LockID
  BY DEF Register, dbVars, IInv, ObjectInv
<1>2. holdOf[h] = None /\ holdOf' = [holdOf EXCEPT ![h] = id[h]]
  <2>1. holdOf[h] = None
    BY <1>1 DEF holdOf
  <2>2. \A g \in Handle : (IF pc'[g] = "held" THEN id'[g] ELSE None) =
          (IF g = h THEN id[h] ELSE IF pc[g] = "held" THEN id[g] ELSE None)
    BY <1>1 DEF IInv, TypeOK
  <2>3. holdOf' = [holdOf EXCEPT ![h] = id[h]]
    BY <2>2, Zenon DEF holdOf
  <2> QED BY <2>1, <2>3
<1>3. ASSUME NEW g \in Handle, holdOf[g] = id[h]
      PROVE  g # h /\ pc[g] = "held" /\ id[g] = id[h] /\ pc'[g] = "held" /\ pc'[h] = "held"
  BY <1>1, <1>2, <1>3 DEF holdOf, IInv, TypeOK
<1>4. \A g \in Lease!Holders(id[h]) : g[1] # h[1]
  BY <1>1, <1>3 DEF Lease!Holders, Lease!LeaseHandle, Handle, IInv, UniqueInv
<1>5. CASE sess[h] \in alive
  <2>1. ASSUME NEW g \in Handle, holdOf[g] = id[h]  PROVE g \in lostOf
    <3>1. g[1] # h[1] /\ sess[g] # sess[h]
      BY <1>1, <1>3, <1>4, <2>1 DEF Lease!Holders, Lease!LeaseHandle, Handle, IInv, ObjectInv
    <3> QED BY <1>1, <1>3, <1>5, <2>1, <3>1 DEF lostOf, IInv, BackedInv
  <2>2. lostOf' = lostOf
    BY <1>1, <1>5 DEF lostOf, IInv, TypeOK
  <2> QED BY <1>2, <1>4, <2>1, <2>2 DEF Lease!Take, Lease!Holders, Lease!LeaseHandle, Handle
<1>6. CASE sess[h] \notin alive
  <2>1. lostOf' = lostOf \cup {h}
    BY <1>1, <1>6 DEF lostOf, IInv, TypeOK
  <2> QED BY <1>2, <1>4, <2>1 DEF Lease!Take
<1> QED BY <1>5, <1>6

(* A user's lock is gone when its object starts to release it.             *)
LEMMA ReleaseLetsGo ==
  ASSUME IInv, IInv', NEW h \in Handle, pc[h] = "held", pc' = [pc EXCEPT ![h] = "releasing"],
         UNCHANGED <<id, sess>>,
         \A g \in Handle : pc[g] = "held" => (sess[g] \in alive' <=> sess[g] \in alive)
  PROVE  Lease!LetGo({h})
<1>1. holdOf[h] # None
  BY HoldOfFacts
<1>2. holdOf' = [g \in Handle |-> IF g \in {h} THEN None ELSE holdOf[g]]
  BY DEF holdOf, IInv, TypeOK
<1>3. lostOf' = lostOf \ {h}
  BY DEF lostOf, IInv, TypeOK
<1> QED BY <1>1, <1>2, <1>3 DEF Lease!LetGo, Lease!LeaseHandle, Handle

(* The end of a session is the loss of the locks that were taken on it.    *)
LEMMA EndSessionLoses ==
  ASSUME IInv, IInv', NEW s \in Session, EndSession(s)
  PROVE  UNCHANGED <<holdOf, lostOf>> \/ \E H \in SUBSET Handle : Lease!Lose(H)
<1> DEFINE H == {h \in Handle : pc[h] = "held" /\ sess[h] = s}
<1>1. UNCHANGED <<pc, id, sess>> /\ alive' = alive \ {s} /\ s \in alive
  BY DEF EndSession, objVars
<1>2. holdOf' = holdOf
  BY <1>1 DEF holdOf
<1>3. lostOf' = lostOf \cup H
  BY <1>1 DEF lostOf
<1>4. \A h \in H : holdOf[h] # None
  BY HoldOfFacts
<1>5. CASE H = {}
  BY <1>2, <1>3, <1>5
<1>6. CASE H # {}
  <2>1. Lease!Lose(H)
    BY <1>2, <1>3, <1>4, <1>6 DEF Lease!Lose
  <2> QED BY <2>1
<1> QED BY <1>5, <1>6

(* The end of an ATC lets all its locks go.                                *)
LEMMA CrashLetsGo ==
  ASSUME IInv, IInv', NEW a \in ATC, Crash(a)
  PROVE  UNCHANGED <<holdOf, lostOf>> \/ \E H \in SUBSET Handle : Lease!LetGo(H)
<1> DEFINE H == {h \in Handle : pc[h] = "held" /\ h[1] = a}
<1>1. \A h \in Handle : pc[h] = "held" => (sess[h] \in alive' <=> sess[h] \in alive)
  BY ReconnectLosesNone DEF Crash
<1>2. holdOf' = [h \in Handle |-> IF h \in H THEN None ELSE holdOf[h]]
  BY DEF holdOf, Crash
<1>3. lostOf' = lostOf \ H
  BY <1>1 DEF lostOf, Crash
<1>4. \A h \in H : holdOf[h] # None
  BY HoldOfFacts
<1>5. CASE H = {}
  <2>1. holdOf' = holdOf
    BY <1>2, <1>5 DEF holdOf
  <2> QED BY <1>3, <1>5, <2>1
<1>6. CASE H # {}
  <2>1. Lease!LetGo(H)
    BY <1>2, <1>3, <1>4, <1>6 DEF Lease!LetGo, Lease!LeaseHandle, Handle
  <2> QED BY <2>1
<1> QED BY <1>5, <1>6

(* The lock factories of all ATCs implement one lease per lock id: the     *)
(* modules of the lock's users may assume LeaseLock.                       *)
THEOREM LockImplementsLease == Spec => ImplementsLease
<1> USE DEF Lease!LeaseNext
<1>1. Init => Lease!LeaseInit
  BY DEF Init, Lease!LeaseInit, Lease!LeaseHandle, Handle, holdOf, lostOf
<1>2. ASSUME IInv, IInv', [Next]_vars  PROVE [Lease!LeaseNext]_<<holdOf, lostOf>>
  <2> USE <1>2
  <2>1. ASSUME NEW h \in Handle, NEW l \in LockID, StartAcquire(h, l)  PROVE UNCHANGED <<holdOf, lostOf>>
    <3>1. SameHolders
      BY <2>1 DEF StartAcquire, dbVars, SameHolders, IInv, TypeOK
    <3> QED BY <3>1, SameHoldersStutter
  <2>2. ASSUME NEW h \in Handle, DBAcquire(h)  PROVE UNCHANGED <<holdOf, lostOf>>
    <3>1. SameHolders
      BY <2>2 DEF DBAcquire, GiveUp, SameHolders, IInv, TypeOK
    <3> QED BY <3>1, SameHoldersStutter
  <2>3. ASSUME NEW h \in Handle, DBAcquireError(h)  PROVE UNCHANGED <<holdOf, lostOf>>
    <3>1. h[1] \in ATC /\ (Reconnect(h[1]) \/ alive' = alive)
      BY <2>3 DEF DBAcquireError, dbVars, Handle
    <3>2. \A g \in Handle : pc[g] = "held" => (sess[g] \in alive' <=> sess[g] \in alive)
      BY <3>1, ReconnectLosesNone
    <3>3. SameHolders
      BY <2>3, <3>2 DEF DBAcquireError, GiveUp, SameHolders, IInv, TypeOK
    <3> QED BY <3>3, SameHoldersStutter
  <2>4. ASSUME NEW h \in Handle, Register(h)  PROVE Lease!LeaseNext
    <3>1. h \in Lease!LeaseHandle /\ id[h] \in LockID
      BY <2>4 DEF Lease!LeaseHandle, Handle, Register, IInv, ObjectInv
    <3> QED BY <2>4, <3>1, RegisterTakes
  <2>5. ASSUME NEW h \in Handle, DBRelease(h) \/ DBReleaseError(h)  PROVE Lease!LeaseNext
    <3>1. /\ h[1] \in ATC /\ (Reconnect(h[1]) \/ alive' = alive)
          /\ pc[h] = "held" /\ pc' = [pc EXCEPT ![h] = "releasing"] /\ UNCHANGED <<id, sess>>
      BY <2>5 DEF DBRelease, DBReleaseError, dbVars, Handle
    <3>2. \A g \in Handle : pc[g] = "held" => (sess[g] \in alive' <=> sess[g] \in alive)
      BY <3>1, ReconnectLosesNone
    <3>3. Lease!LetGo({h})
      BY <3>1, <3>2, ReleaseLetsGo, Zenon
    <3> QED BY <3>3 DEF Lease!LeaseHandle, Handle
  <2>6. ASSUME NEW h \in Handle, Unregister(h)  PROVE UNCHANGED <<holdOf, lostOf>>
    <3>1. SameHolders
      BY <2>6 DEF Unregister, dbVars, SameHolders, IInv, TypeOK
    <3> QED BY <3>1, SameHoldersStutter
  <2>7. ASSUME NEW a \in ATC, Break(a)  PROVE UNCHANGED <<holdOf, lostOf>>
    <3>1. SameHolders
      BY <2>7, ReconnectLosesNone DEF Break, objVars, SameHolders
    <3> QED BY <3>1, SameHoldersStutter
  <2>8. ASSUME NEW a \in ATC, Crash(a)  PROVE [Lease!LeaseNext]_<<holdOf, lostOf>>
    BY <2>8, CrashLetsGo DEF Lease!LeaseHandle, Handle
  <2>9. ASSUME NEW s \in Session, EndSession(s)  PROVE [Lease!LeaseNext]_<<holdOf, lostOf>>
    BY <2>9, EndSessionLoses DEF Lease!LeaseHandle, Handle
  <2>10. CASE UNCHANGED vars
    BY <2>10 DEF vars, holdOf, lostOf
  <2> QED BY <2>1, <2>2, <2>3, <2>4, <2>5, <2>6, <2>7, <2>8, <2>9, <2>10 DEF Next
<1> QED BY <1>1, <1>2, LockInvariant, PTL DEF Spec, ImplementsLease, Lease!LeaseSpec, Lease!leaseVars
=============================================================================
