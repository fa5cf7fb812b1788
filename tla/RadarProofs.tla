----------------------------- MODULE RadarProofs -----------------------------
(***************************************************************************)
(* Proofs about Radar, for any ATCs, goroutines, requests and bounds.      *)
(*                                                                         *)
(* Locks: a step leaves the locks and who must have them alone, or it      *)
(* takes, leaves, or gives up those of one scan, or of one ATC.            *)
(* Versions: what a scan of the type is about to save is no older than     *)
(* the type's version, since the scan has had the lock of the type's       *)
(* configuration since its check, and nobody saves without.                *)
(***************************************************************************)
EXTENDS Radar, TLAPS

PCs == {"off", "spawned", "wait", "acquire", "from", "check", "save"}
Busy(s) == scan[s].pc \in {"from", "check", "save"}
Active(s) == scan[s].pc \in {"acquire", "from", "check", "save"}

(* A goroutine's record, whatever versions it has.                         *)
Shape(f, g) ==
  [pc : PCs, live : BOOLEAN, on : Thing, via : Nat, from : {f}, got : {g}, quiet : BOOLEAN]

Types ==
  /\ source \in [Thing -> Nat] /\ typeVersion \in Nat /\ resPaused \in BOOLEAN
  /\ DOMAIN scan = Scanner
  /\ \A s \in Scanner : scan[s] \in Shape(scan[s].from, scan[s].got)
  /\ held \subseteq [key : [of : Thing, via : Nat], by : Scanner, leaked : BOOLEAN]

(* A scan of the type has the type's configuration, checks from a version  *)
(* that its source has, and saves none older than the type's.              *)
Versions ==
  /\ typeVersion <= source["type"]
  /\ \A s \in Scanner :
       /\ Active(s) /\ scan[s].on = "type" => scan[s].via = 0
       /\ Active(s) /\ s.of = "type" =>
            scan[s].on = "type" /\ scan[s].from \in Nat /\ scan[s].from <= source["type"]
       /\ scan[s].pc = "save" /\ scan[s].on = "type" =>
            /\ Last(scan[s].got) \in Nat
            /\ typeVersion <= Last(scan[s].got) /\ Last(scan[s].got) <= source["type"]

IInv == Types /\ Versions /\ LocksAreScans

USE RadarAssumption DEF Thing


-----------------------------------------------------------------------------
LEMMA FunctionSeq ==
  ASSUME NEW n \in Nat, NEW f \in [1..n -> Nat]
  PROVE  f \in Seq(Nat) /\ Len(f) = n
OBVIOUS

(* What a check finds ends with the newest version.                        *)
LEMMA FoundNewest ==
  ASSUME source \in [Thing -> Nat], NEW t \in Thing, NEW from \in Nat, from <= source[t]
  PROVE  Last(Found(t, from)) = source[t]
<1>1. CASE from = 0
  BY <1>1 DEF Found, Last
<1>2. CASE from # 0
  <2> DEFINE n == source[t] - from + 1
             f == [i \in 1..n |-> from + i - 1]
  <2>1. n \in Nat /\ n >= 1
    OBVIOUS
  <2>2. f \in [1..n -> Nat]
    OBVIOUS
  <2> HIDE DEF n
  <2>4. Len(f) = n
    BY <2>1, <2>2, FunctionSeq
  <2> USE DEF n
  <2>3. f[Len(f)] = source[t]
    BY <2>1, <2>4
  <2> QED BY <1>2, <2>3 DEF Found, Last
<1> QED BY <1>1, <1>2

-----------------------------------------------------------------------------
(* What a step does to the locks.                                          *)
SameLock(z) == /\ Busy(z)' <=> Busy(z)
               /\ Busy(z) => KeyOf(scan[z])' = KeyOf(scan[z])
KeepsLocks == held' = held /\ \A z \in Scanner : SameLock(z)
TakesLock(s) ==
  /\ ~Busy(s) /\ Busy(s)'
  /\ IsFree(KeyOf(scan[s])) /\ KeyOf(scan[s])' = KeyOf(scan[s])
  /\ held' = held \cup {[key |-> KeyOf(scan[s]), by |-> s, leaked |-> FALSE]}
  /\ \A z \in Scanner \ {s} : SameLock(z)
LeavesLocked(s) ==
  /\ IsFree(KeyOf(scan[s])) /\ held' = held \cup LeftLocked(s)
  /\ \A z \in Scanner : SameLock(z)
GivesUp(s) ==
  /\ ~Busy(s)' /\ Release(s)
  /\ \A z \in Scanner \ {s} : SameLock(z)
Dies(a) ==
  /\ held' = {h \in held : h.by.atc # a}
  /\ \A z \in Scanner : IF z.atc = a THEN ~Busy(z)' ELSE SameLock(z)

LEMMA LocksStep ==
  ASSUME Types, LocksAreScans, NEW s \in Scanner, NEW a \in Atc,
         KeepsLocks \/ TakesLock(s) \/ LeavesLocked(s) \/ GivesUp(s) \/ Dies(a)
  PROVE  LocksAreScans'
<1> USE DEF LocksAreScans, Leaked
<1>0. /\ \A z \in Scanner : Busy(z) <=> \E h \in held : ~h.leaked /\ h.by = z
      /\ \A h \in held : h.by \in Scanner /\ h.leaked \in BOOLEAN
      /\ \A h \in held : ~h.leaked => KeyOf(scan[h.by]) = h.key
  BY DEF Busy, Types
<1> SUFFICES /\ \A h, i \in held' : h.key = i.key => h = i
             /\ \A h \in held' : ~h.leaked => KeyOf(scan'[h.by]) = h.key /\ Busy(h.by)'
             /\ \A z \in Scanner : Busy(z)' => \E h \in held' : ~h.leaked /\ h.by = z
             /\ \A h \in held' : h.leaked => h.key.of = "type"
             /\ \A h \in held' : h.by \in Scanner
  BY DEF Busy, Types
<1>1. CASE KeepsLocks
  BY <1>0, <1>1 DEF KeepsLocks, SameLock
<1>2. CASE TakesLock(s)
  <2> DEFINE new == [key |-> KeyOf(scan[s]), by |-> s, leaked |-> FALSE]
  <2>1. new.key = KeyOf(scan[s]) /\ new.by = s /\ new.leaked = FALSE
    OBVIOUS
  <2>2. held' = held \cup {new} /\ \A h \in held : h.key # new.key
    BY <1>2 DEF TakesLock, IsFree
  <2>3. KeyOf(scan'[s]) = new.key /\ Busy(s)'
    BY <1>2 DEF TakesLock, KeyOf
  <2>4. \A h \in held : ~h.leaked => h.by # s
    BY <1>0, <1>2 DEF TakesLock
  <2>5. \A z \in Scanner \ {s} : SameLock(z)
    BY <1>2 DEF TakesLock
  <2> HIDE DEF new
  <2> QED BY <1>0, <2>1, <2>2, <2>3, <2>4, <2>5 DEF SameLock
<1>3. CASE LeavesLocked(s)
  <2>1. CASE LeftLocked(s) = {}
    BY <1>0, <1>3, <2>1 DEF LeavesLocked, SameLock
  <2>2. CASE LeftLocked(s) # {}
    <3> DEFINE new == [key |-> KeyOf(scan[s]), by |-> s, leaked |-> TRUE]
    <3>1. new.key = KeyOf(scan[s]) /\ new.by = s /\ new.leaked = TRUE /\ new.key.of = "type"
      BY <2>2 DEF LeftLocked, KeyOf
    <3>2. held' = held \cup {new} /\ \A h \in held : h.key # new.key
      BY <1>3, <2>2 DEF LeavesLocked, LeftLocked, IsFree
    <3> HIDE DEF new
    <3> QED BY <1>0, <1>3, <3>1, <3>2 DEF LeavesLocked, SameLock
  <2> QED BY <2>1, <2>2
<1>4. CASE GivesUp(s)
  BY <1>0, <1>4 DEF GivesUp, Release, SameLock
<1>5. CASE Dies(a)
  BY <1>0, <1>5 DEF Dies, SameLock
<1> QED BY <1>1, <1>2, <1>3, <1>4, <1>5

-----------------------------------------------------------------------------
(* What a step does to the goroutines.                                     *)
Others(s) == DOMAIN scan' = Scanner /\ \A z \in Scanner \ {s} : scan'[z] = scan[z]
Well(s) == scan'[s] \in Shape(scan'[s].from, scan'[s].got)

(* A scan is over, or goes on from that of the type to the resource's.     *)
Over(s) ==
  /\ Others(s) /\ Well(s) /\ ~Busy(s)'
  /\ Active(s)' => s.of = "res" /\ scan'[s].on = "res"

LEMMA OffShape == Off \in Shape(0, <<>>) /\ Off.from = 0 /\ Off.got = <<>> /\ Off.pc = "off"
BY DEF Off, Shape, PCs

LEMMA EndsOver ==
  ASSUME Types, NEW s \in Scanner, Ends(s) \/ scan' = [scan EXCEPT ![s] = Off]
  PROVE  Over(s)
<1>1. scan' = [scan EXCEPT ![s] = Off]
  BY DEF Ends
<1>2. scan'[s] = Off /\ Others(s)
  BY <1>1 DEF Types, Others
<1> QED BY <1>2, OffShape DEF Over, Well, Busy, Active

LEMMA GoesOnOver ==
  ASSUME Types, NEW s \in Scanner, GoesOn(s)
  PROVE  Over(s)
<1> DEFINE r == [Off EXCEPT !.pc = "wait", !.live = scan[s].live]
<1>1. r \in Shape(0, <<>>) /\ r.pc = "wait" /\ r.from = 0 /\ r.got = <<>>
  BY Zenon DEF Types, Shape, Off, PCs
<1>2. scan'[s] \in {r, Off} /\ Others(s)
  BY DEF Types, Others, GoesOn
<1> HIDE DEF r
<1> QED BY <1>1, <1>2, OffShape DEF Over, Well, Busy, Active

LEMMA ReturnsOver ==
  ASSUME Types, Versions, NEW s \in Scanner, Active(s), NEW tv \in Nat, Returns(s, tv)
  PROVE  Over(s)
<1>1. CASE scan[s].on = s.of
  BY <1>1, GoesOnOver DEF Returns
<1>2. CASE scan[s].on # s.of
  <2>1. scan' = [scan EXCEPT ![s].pc = "acquire", ![s].on = "res", ![s].via = tv, ![s].got = <<>>]
    BY <1>2 DEF Returns, OnWithResource
  <2>2. Others(s)
    BY <2>1 DEF Types, Others
  <2>3. s.of = "res"
    BY <1>2 DEF Versions
  <2>4. scan[s] \in Shape(scan[s].from, scan[s].got)
    BY DEF Types
  <2>5. /\ scan'[s] \in Shape(scan[s].from, <<>>)
        /\ scan'[s].pc = "acquire" /\ scan'[s].on = "res"
    BY Zenon, <2>1, <2>4 DEF Types, Shape, PCs
  <2>6. Well(s)
    BY <2>5 DEF Well, Shape
  <2> QED BY <2>2, <2>3, <2>5, <2>6 DEF Over, Busy, Active
<1> QED BY <1>1, <1>2

LEMMA StartedShape ==
  ASSUME Types, Versions, NEW s \in Scanner, NEW from, NEW live \in BOOLEAN
  PROVE  LET r == Started(s, from, live)
         IN /\ r \in Shape(r.from, r.got) /\ r.pc = "acquire"
            /\ r.on = "type" => r.via = 0
            /\ s.of = "type" => r.on = "type" /\ r.from = typeVersion
<1> DEFINE r == Started(s, from, live)
           on == IF s.of = "res" /\ typeVersion = 0 THEN "type" ELSE s.of
           via == IF s.of = "res" THEN typeVersion ELSE 0
           f == IF s.of = "res" THEN from ELSE typeVersion
<1>1. s.of \in Thing /\ typeVersion \in Nat /\ resPaused \in BOOLEAN
  BY DEF Types
<1>2. on \in Thing /\ via \in Nat /\ (on = "type" => via = 0) /\ (s.of = "type" => on = "type" /\ f = typeVersion)
  BY <1>1
<1>3. r = [[[[[[Off EXCEPT !.pc = "acquire"] EXCEPT !.live = live] EXCEPT !.quiet = resPaused] EXCEPT !.on = on]
              EXCEPT !.via = via] EXCEPT !.from = f]
  BY DEF Started, Off
<1> HIDE DEF r, on, via, f
<1>4. /\ r.pc = "acquire" /\ r.on = on /\ r.via = via /\ r.from = f /\ r.got = <<>>
      /\ r \in Shape(f, <<>>)
  BY Zenon, <1>1, <1>2, <1>3 DEF Off, Shape, PCs
<1>5. /\ r \in Shape(r.from, r.got) /\ r.pc = "acquire"
      /\ r.on = "type" => r.via = 0
      /\ s.of = "type" => r.on = "type" /\ r.from = typeVersion
  BY <1>2, <1>4
<1> QED BY <1>5 DEF r

-----------------------------------------------------------------------------
Lock == [key : [of : Thing, via : Nat], by : Scanner, leaked : BOOLEAN]
NotBack == typeVersion' >= typeVersion \/ pipeline' = "gone"

(* The type's version, and the sources, after a step in which no scan of    *)
(* the type other than s has something to save that is older.               *)
Newer(s) ==
  /\ source' = source /\ resPaused' = resPaused
  /\ typeVersion' \in Nat /\ typeVersion' <= source["type"]
  /\ \A z \in Scanner \ {s} :
       scan[z].pc = "save" /\ scan[z].on = "type" => typeVersion' <= Last(scan[z].got)

LEMMA OverStep ==
  ASSUME Types, Versions, NEW s \in Scanner, Over(s), Newer(s), held' \subseteq Lock
  PROVE  Types' /\ Versions' /\ \A z \in Scanner \ {s} : SameLock(z)
<1>1. Types'
  BY DEF Types, Over, Others, Well, Newer, Lock
<1>2. \A z \in Scanner \ {s} : SameLock(z)
  BY DEF Over, Others, SameLock, Busy, KeyOf
<1>3. /\ scan'[s].pc \notin {"from", "check", "save"}
      /\ scan'[s].pc = "acquire" => s.of = "res" /\ scan'[s].on = "res"
  BY DEF Over, Busy, Active
<1>4. Versions'
  BY <1>3 DEF Versions, Over, Others, Newer, Active
<1> QED BY <1>1, <1>2, <1>4

LEMMA SameNewer ==
  ASSUME Types, Versions, NEW s \in Scanner,
         UNCHANGED <<source, resPaused>>, typeVersion' = typeVersion \/ typeVersion' = 0
  PROVE  Newer(s)
BY DEF Types, Versions, Newer

LEMMA ReleaseOver ==
  ASSUME Types, Versions, NEW s \in Scanner, Over(s), Newer(s), Release(s)
  PROVE  Types' /\ Versions' /\ GivesUp(s)
<1>1. held' \subseteq Lock
  BY DEF Types, Release, Lock
<1> QED BY <1>1, OverStep DEF GivesUp, Over

(* A step of a scan that only moves on.                                     *)
LEMMA MovesOn ==
  ASSUME Types, Versions, NEW s \in Scanner, Others(s), Well(s), Newer(s), held' \subseteq Lock,
         /\ Active(s)' /\ scan'[s].on = "type" => scan'[s].via = 0
         /\ Active(s)' /\ s.of = "type" =>
              /\ scan'[s].on = "type"
              /\ scan'[s].from \in Nat /\ scan'[s].from <= source["type"]
         /\ scan'[s].pc = "save" /\ scan'[s].on = "type" =>
              /\ Last(scan'[s].got) \in Nat
              /\ typeVersion' <= Last(scan'[s].got) /\ Last(scan'[s].got) <= source["type"]
  PROVE  Types' /\ Versions' /\ \A z \in Scanner \ {s} : SameLock(z)
<1>1. Types'
  BY DEF Types, Others, Well, Newer, Lock
<1>2. \A z \in Scanner \ {s} : SameLock(z)
  BY DEF Others, SameLock, Busy, KeyOf
<1>3. Versions'
  BY DEF Versions, Others, Newer, Active
<1> QED BY <1>1, <1>2, <1>3

-----------------------------------------------------------------------------
(* The steps of a scan.                                                     *)
Kept(s) ==
  /\ Types' /\ Versions' /\ NotBack
  /\ KeepsLocks \/ TakesLock(s) \/ LeavesLocked(s) \/ GivesUp(s)

LEMMA SameNotBack == ASSUME Types, typeVersion' = typeVersion PROVE NotBack
BY DEF Types, NotBack

LEMMA LockUnchanged == ASSUME Types, held' = held PROVE held' \subseteq Lock
BY DEF Types, Lock

LEMMA NoLockOver ==
  ASSUME Types, Versions, NEW s \in Scanner, ~Busy(s), Over(s),
         UNCHANGED <<source, resPaused, typeVersion, held>>
  PROVE  Kept(s)
<1>1. Types' /\ Versions' /\ \A z \in Scanner \ {s} : SameLock(z)
  BY OverStep, SameNewer, LockUnchanged
<1>2. SameLock(s)
  BY DEF SameLock, Over
<1> QED BY <1>1, <1>2, SameNotBack DEF Kept, KeepsLocks

LEMMA StoreKept ==
  ASSUME Types, Versions, NEW s \in Scanner, Store(s)
  PROVE  Kept(s)
<1>1. scan[s] \in Shape(scan[s].from, scan[s].got)
  BY DEF Types
<1>2. Others(s)
  BY DEF Store, Types, Others
<1>3. scan'[s].pc = "wait" /\ scan'[s] \in Shape(scan[s].from, scan[s].got)
  BY <1>1 DEF Store, Types, Shape, PCs
<1>4. Over(s)
  BY <1>2, <1>3 DEF Over, Well, Busy, Active, Shape
<1> QED BY <1>4, NoLockOver DEF Store, Busy, sourceVars, dbVars, rowVars, lockVars

LEMMA CancelKept ==
  ASSUME Types, Versions, NEW s \in Scanner, Cancel(s)
  PROVE  Kept(s)
BY Zenon, EndsOver, NoLockOver DEF Cancel, Busy, sourceVars, dbVars, rowVars, lockVars

LEMMA StartsKept ==
  ASSUME Types, Versions, NEW s \in Scanner, ~Busy(s), NEW from, NEW live \in BOOLEAN,
         scan' = [scan EXCEPT ![s] = Started(s, from, live)],
         UNCHANGED <<source, resPaused, typeVersion, held>>
  PROVE  Kept(s)
<1> DEFINE r == Started(s, from, live)
<1>1. Others(s) /\ scan'[s] = r
  BY DEF Types, Others
<1>2. /\ r \in Shape(r.from, r.got) /\ r.pc = "acquire"
      /\ r.on = "type" => r.via = 0
      /\ s.of = "type" => r.on = "type" /\ r.from = typeVersion
  BY StartedShape
<1> HIDE DEF r
<1>3. Types' /\ Versions' /\ \A z \in Scanner \ {s} : SameLock(z)
  <2>1. typeVersion \in Nat /\ typeVersion <= source["type"]
    BY DEF Types, Versions
  <2> QED BY <1>1, <1>2, <2>1, MovesOn, SameNewer, LockUnchanged DEF Well
<1>4. SameLock(s)
  BY <1>1, <1>2 DEF SameLock, Busy
<1> QED BY <1>3, <1>4, SameNotBack DEF Kept, KeepsLocks

LEMMA BeginKept ==
  ASSUME Types, Versions, NEW s \in Scanner, Begin(s)
  PROVE  Kept(s)
<1>1. ~Busy(s) /\ UNCHANGED <<source, resPaused, typeVersion, held>>
  BY DEF Begin, Busy, sourceVars, dbVars, rowVars, lockVars
<1>2. CASE Present
  BY Zenon, <1>1, <1>2, StartsKept DEF Begin
<1>3. CASE ~Present
  BY <1>1, <1>3, EndsOver, NoLockOver DEF Begin
<1> QED BY <1>2, <1>3

LEMMA AskKept ==
  ASSUME Types, Versions, NEW s \in Scanner, NEW from, Ask(s, from)
  PROVE  Kept(s)
<1>1. ~Busy(s) /\ UNCHANGED <<source, resPaused, typeVersion, held>>
  BY DEF Ask, Busy, sourceVars, dbVars, rowVars, lockVars
<1> QED BY Zenon, <1>1, StartsKept DEF Ask

LEMMA KeyLock ==
  ASSUME Types, NEW s \in Scanner, NEW b \in BOOLEAN
  PROVE  [key |-> KeyOf(scan[s]), by |-> s, leaked |-> b] \in Lock
<1>1. scan[s].on \in Thing /\ scan[s].via \in Nat
  BY DEF Types, Shape
<1> QED BY <1>1 DEF Lock, KeyOf

LEMMA AcquireKept ==
  ASSUME Types, Versions, NEW s \in Scanner, Acquire(s)
  PROVE  Kept(s)
<1> DEFINE lock == [key |-> KeyOf(scan[s]), by |-> s, leaked |-> FALSE]
<1>1. scan[s].pc = "acquire" /\ UNCHANGED <<source, resPaused, typeVersion>>
  BY DEF Acquire, sourceVars, dbVars, rowVars
<1>2. CASE GoesOn(s) /\ UNCHANGED lockVars
  BY <1>1, <1>2, GoesOnOver, NoLockOver DEF Busy, lockVars
<1>3. CASE /\ IsFree(KeyOf(scan[s])) /\ held' = held \cup {lock}
           /\ scan' = [scan EXCEPT ![s].pc = "from"]
  <2>1. scan[s] \in Shape(scan[s].from, scan[s].got)
    BY DEF Types
  <2>2. Others(s)
    BY <1>3 DEF Types, Others
  <2>3. /\ scan'[s] \in Shape(scan[s].from, scan[s].got) /\ scan'[s].pc = "from"
        /\ scan'[s].on = scan[s].on /\ scan'[s].via = scan[s].via
        /\ scan'[s].from = scan[s].from /\ scan'[s].got = scan[s].got
    BY <1>3, <2>1 DEF Types, Shape, PCs
  <2>4. held' \subseteq Lock
    BY Zenon, <1>3, KeyLock DEF Types, Lock
  <2>5. Types' /\ Versions' /\ \A z \in Scanner \ {s} : SameLock(z)
    <3>1. Active(s)
      BY <1>1 DEF Active
    <3>2. /\ scan[s].on = "type" => scan[s].via = 0
          /\ s.of = "type" => scan[s].on = "type" /\ scan[s].from \in Nat /\ scan[s].from <= source["type"]
      BY <3>1 DEF Versions
    <3> QED BY <1>1, <2>2, <2>3, <2>4, <3>2, MovesOn, SameNewer DEF Well
  <2>6. TakesLock(s)
    BY <1>1, <1>3, <2>3, <2>5 DEF TakesLock, Busy, KeyOf
  <2> QED BY <1>1, <2>5, <2>6, SameNotBack DEF Kept
<1> QED BY <1>2, <1>3 DEF Acquire

LEMMA AcquireFailsKept ==
  ASSUME Types, Versions, NEW s \in Scanner, AcquireFails(s)
  PROVE  Kept(s)
<1>1. /\ scan[s].pc = "acquire" /\ UNCHANGED <<source, resPaused, typeVersion>>
      /\ IsFree(KeyOf(scan[s])) /\ held' = held \cup LeftLocked(s)
  BY DEF AcquireFails, sourceVars, dbVars, rowVars
<1>2. Over(s)
  BY GoesOnOver DEF AcquireFails
<1>3. held' \subseteq Lock
  BY Zenon, <1>1, KeyLock DEF Types, Lock, LeftLocked
<1>4. Types' /\ Versions' /\ \A z \in Scanner \ {s} : SameLock(z)
  BY <1>1, <1>2, <1>3, OverStep, SameNewer
<1>5. SameLock(s)
  BY <1>1, <1>2 DEF SameLock, Over, Busy
<1> QED BY <1>1, <1>4, <1>5, SameNotBack DEF Kept, LeavesLocked

LEMMA FromKept ==
  ASSUME Types, Versions, NEW s \in Scanner, From(s)
  PROVE  Kept(s)
<1> DEFINE f == IF scan[s].on = "res" /\ scan[s].from = 0 THEN Latest ELSE scan[s].from
<1>1. scan[s].pc = "from" /\ UNCHANGED <<source, resPaused, typeVersion, held>>
  BY DEF From, sourceVars, dbVars, rowVars, lockVars
<1>2. scan[s] \in Shape(scan[s].from, scan[s].got)
  BY DEF Types
<1>3. Others(s)
  BY DEF From, Types, Others
<1>4. /\ scan'[s] \in Shape(f, scan[s].got) /\ scan'[s].pc = "check"
      /\ scan'[s].on = scan[s].on /\ scan'[s].via = scan[s].via
      /\ scan'[s].from = f /\ scan'[s].got = scan[s].got
  BY Zenon, <1>2 DEF From, Types, Shape, PCs
<1>5. Types' /\ Versions' /\ \A z \in Scanner \ {s} : SameLock(z)
  <2>1. Active(s)
    BY <1>1 DEF Active
  <2>2. /\ scan[s].on = "type" => scan[s].via = 0
        /\ s.of = "type" => scan[s].on = "type" /\ scan[s].from \in Nat /\ scan[s].from <= source["type"]
    BY <2>1 DEF Versions
  <2>3. scan[s].on = "type" => f = scan[s].from
    OBVIOUS
  <2> HIDE DEF f
  <2> QED BY <1>1, <1>3, <1>4, <2>2, <2>3, MovesOn, SameNewer, LockUnchanged DEF Well
<1>6. SameLock(s)
  BY <1>1, <1>4 DEF SameLock, Busy, KeyOf
<1> QED BY <1>1, <1>5, <1>6, SameNotBack DEF Kept, KeepsLocks

LEMMA GivesUpKept ==
  ASSUME Types, Versions, NEW s \in Scanner, Over(s), Release(s),
         UNCHANGED <<source, resPaused, typeVersion>>
  PROVE  Kept(s)
BY ReleaseOver, SameNewer, SameNotBack DEF Kept

LEMMA CheckKept ==
  ASSUME Types, Versions, NEW s \in Scanner, Check(s)
  PROVE  Kept(s)
<1> DEFINE from == IF scan[s].on # s.of THEN 0 ELSE scan[s].from
           got == Found(scan[s].on, from)
<1>1. /\ scan[s].pc = "check" /\ Active(s) /\ typeVersion \in Nat
      /\ UNCHANGED <<source, resPaused, typeVersion>>
  BY DEF Check, sourceVars, dbVars, rowVars, Active, Types
<1>2. CASE Ends(s) /\ Release(s)
  BY <1>1, <1>2, EndsOver, GivesUpKept
<1>3. CASE Returns(s, typeVersion) /\ Release(s)
  BY <1>1, <1>3, ReturnsOver, GivesUpKept
<1>4. CASE scan' = [scan EXCEPT ![s].pc = "save", ![s].got = got] /\ UNCHANGED held
  <2>1. scan[s] \in Shape(scan[s].from, scan[s].got)
    BY DEF Types
  <2>2. Others(s)
    BY <1>4 DEF Types, Others
  <2>3. /\ scan[s].on = "type" => scan[s].via = 0
        /\ s.of = "type" => scan[s].on = "type" /\ scan[s].from \in Nat /\ scan[s].from <= source["type"]
    BY <1>1 DEF Versions
  <2>4. scan[s].on = "type" => Last(got) = source["type"]
    <3> SUFFICES ASSUME scan[s].on = "type" PROVE Last(Found("type", from)) = source["type"]
      OBVIOUS
    <3>1. from \in Nat /\ from <= source["type"]
      <4>1. source["type"] \in Nat /\ s.of \in Thing
        BY DEF Types
      <4> QED BY <2>3, <4>1
    <3>2. source \in [Thing -> Nat] /\ "type" \in Thing
      BY DEF Types
    <3> HIDE DEF from
    <3> QED BY <3>1, <3>2, FoundNewest
  <2> HIDE DEF got
  <2>5. /\ scan'[s] \in Shape(scan[s].from, got) /\ scan'[s].pc = "save"
        /\ scan'[s].on = scan[s].on /\ scan'[s].via = scan[s].via
        /\ scan'[s].from = scan[s].from /\ scan'[s].got = got
    BY Zenon, <1>4, <2>1 DEF Types, Shape, PCs
  <2>6. Types' /\ Versions' /\ \A z \in Scanner \ {s} : SameLock(z)
    <3>1. source["type"] \in Nat /\ typeVersion <= source["type"]
      BY DEF Types, Versions
    <3>2. Newer(s) /\ held' \subseteq Lock /\ Well(s)
      BY <1>1, <1>4, <2>5, SameNewer, LockUnchanged DEF Well
    <3>3. scan'[s].pc = "save" /\ scan'[s].on = "type" =>
            /\ Last(scan'[s].got) \in Nat
            /\ typeVersion' <= Last(scan'[s].got) /\ Last(scan'[s].got) <= source["type"]
      BY <1>1, <2>4, <2>5, <3>1
    <3> QED BY <2>2, <2>3, <2>5, <3>2, <3>3, MovesOn
  <2>7. SameLock(s)
    BY <1>1, <2>5 DEF SameLock, Busy, KeyOf
  <2> QED BY <1>1, <1>4, <2>6, <2>7, SameNotBack DEF Kept, KeepsLocks
<1> QED BY <1>2, <1>3, <1>4 DEF Check

LEMMA CheckFailsKept ==
  ASSUME Types, Versions, NEW s \in Scanner, CheckFails(s)
  PROVE  Kept(s)
<1>1. /\ Active(s) /\ typeVersion \in Nat /\ Release(s)
      /\ UNCHANGED <<source, resPaused, typeVersion>>
  BY DEF CheckFails, sourceVars, dbVars, rowVars, Active, Types
<1>2. Over(s)
  BY <1>1, EndsOver, ReturnsOver DEF CheckFails
<1> QED BY <1>1, <1>2, GivesUpKept

LEMMA SaveFailsKept ==
  ASSUME Types, Versions, NEW s \in Scanner, SaveFails(s)
  PROVE  Kept(s)
<1>1. Release(s) /\ UNCHANGED <<source, resPaused, typeVersion>>
  BY DEF SaveFails, sourceVars, dbVars, rowVars
<1>2. Over(s)
  BY EndsOver, GoesOnOver DEF SaveFails
<1> QED BY <1>1, <1>2, GivesUpKept

(* Only the scan with the lock of the type's configuration saves, and what  *)
(* it found is no older than what is saved.                                 *)
LEMMA SaveKept ==
  ASSUME Types, Versions, LocksAreScans, NEW s \in Scanner, Save(s)
  PROVE  Kept(s)
<1>1. /\ scan[s].pc = "save" /\ Active(s) /\ Release(s)
      /\ UNCHANGED <<source, resPaused>>
  BY DEF Save, sourceVars, rowVars, Active
<1>2. CASE UNCHANGED typeVersion
  <2>1. GoesOn(s) \/ Ends(s) \/ (scan[s].on = "type" /\ Returns(s, Last(scan[s].got)))
    BY DEF Save
  <2>2. scan[s].on = "type" => Last(scan[s].got) \in Nat
    BY <1>1 DEF Versions
  <2>3. Over(s)
    BY <1>1, <2>1, <2>2, GoesOnOver, EndsOver, ReturnsOver
  <2> QED BY <1>1, <1>2, <2>3, GivesUpKept
<1>3. CASE scan[s].on = "type" /\ typeVersion' = Last(scan[s].got) /\ Returns(s, Last(scan[s].got))
  <2> DEFINE v == Last(scan[s].got)
  <2>1. v \in Nat /\ typeVersion <= v /\ v <= source["type"]
    BY <1>1, <1>3 DEF Versions
  <2>2. ASSUME NEW z \in Scanner \ {s}
        PROVE  ~(scan[z].pc = "save" /\ scan[z].on = "type")
    <3> SUFFICES ASSUME scan[z].pc = "save", scan[z].on = "type" PROVE FALSE
      OBVIOUS
    <3>1. scan[z].via = 0 /\ scan[s].via = 0
      BY <1>1, <1>3 DEF Versions, Active
    <3>2. KeyOf(scan[z]) = KeyOf(scan[s])
      BY <1>3, <3>1 DEF KeyOf
    <3>3. PICK h \in held \ Leaked : h.by = s
      BY <1>1 DEF LocksAreScans
    <3>4. PICK i \in held \ Leaked : i.by = z
      BY DEF LocksAreScans
    <3>5. h.key = i.key
      BY <3>2, <3>3, <3>4 DEF LocksAreScans
    <3>6. h = i
      BY <3>5 DEF LocksAreScans, Leaked
    <3> QED BY <3>3, <3>4, <3>6
  <2>3. Newer(s)
    BY <1>1, <1>3, <2>1, <2>2 DEF Newer
  <2>4. Over(s)
    BY <1>1, <1>3, <2>1, ReturnsOver
  <2>5. NotBack
    BY <1>3, <2>1 DEF NotBack, Types
  <2> QED BY <1>1, <2>3, <2>4, <2>5, ReleaseOver DEF Kept
<1> QED BY <1>2, <1>3 DEF Save, dbVars

-----------------------------------------------------------------------------
(* The steps of an ATC.                                                     *)
Alike(z) ==
  /\ scan'[z] \in Shape(scan'[z].from, scan'[z].got)
  /\ Active(z)' => /\ scan'[z].pc = scan[z].pc /\ scan'[z].on = scan[z].on /\ scan'[z].via = scan[z].via
                   /\ scan'[z].from = scan[z].from /\ scan'[z].got = scan[z].got

LEMMA AlikeStep ==
  ASSUME Types, Versions, UNCHANGED <<source, resPaused, typeVersion>>, held' \subseteq held,
         DOMAIN scan' = Scanner, \A z \in Scanner : Alike(z)
  PROVE  Types' /\ Versions' /\ NotBack
<1>1. Types'
  <2>1. \A z \in Scanner : scan'[z] \in Shape(scan'[z].from, scan'[z].got)
    BY Zenon DEF Alike
  <2> QED BY Zenon, <2>1 DEF Types
<1>2. Versions'
  <2>1. ASSUME NEW z \in Scanner, Active(z)'
        PROVE  /\ Active(z) /\ scan'[z].pc = scan[z].pc /\ scan'[z].on = scan[z].on /\ scan'[z].via = scan[z].via
               /\ scan'[z].from = scan[z].from /\ scan'[z].got = scan[z].got
    BY Zenon, <2>1 DEF Alike, Active
  <2>2. \A z \in Scanner : scan'[z].pc = "save" => Active(z)'
    BY Zenon DEF Active
  <2>3. ASSUME NEW z \in Scanner, Active(z)'
        PROVE  /\ scan'[z].on = "type" => scan'[z].via = 0
               /\ z.of = "type" =>
                    scan'[z].on = "type" /\ scan'[z].from \in Nat /\ scan'[z].from <= source["type"]
    <3>1. /\ Active(z) /\ scan'[z].on = scan[z].on /\ scan'[z].via = scan[z].via
          /\ scan'[z].from = scan[z].from
      BY Zenon, <2>1, <2>3
    <3> QED BY Zenon, <3>1 DEF Versions
  <2>4. ASSUME NEW z \in Scanner, scan'[z].pc = "save", scan'[z].on = "type"
        PROVE  /\ Last(scan'[z].got) \in Nat
               /\ typeVersion <= Last(scan'[z].got) /\ Last(scan'[z].got) <= source["type"]
    <3>1. scan[z].pc = "save" /\ scan[z].on = "type" /\ scan'[z].got = scan[z].got
      BY Zenon, <2>1, <2>2, <2>4
    <3> QED BY Zenon, <3>1 DEF Versions
  <2>5. source' = source /\ typeVersion' = typeVersion /\ typeVersion <= source["type"]
    BY DEF Versions
  <2> QED BY Zenon, <2>3, <2>4, <2>5 DEF Versions
<1> QED BY <1>1, <1>2, SameNotBack

LEMMA SyncKept ==
  ASSUME Types, Versions, NEW a \in Atc, Sync(a)
  PROVE  Types' /\ Versions' /\ NotBack /\ KeepsLocks
<1>1. UNCHANGED <<source, resPaused, typeVersion, held>>
  BY DEF Sync, sourceVars, dbVars, rowVars, lockVars
<1>2. DOMAIN scan' = Scanner
  BY DEF Sync, Cancelled, Types
<1>3. ASSUME NEW z \in Scanner
      PROVE  /\ scan'[z] \in Shape(scan[z].from, scan[z].got)
             /\ scan'[z].pc = scan[z].pc /\ scan'[z].on = scan[z].on /\ scan'[z].via = scan[z].via
             /\ scan'[z].from = scan[z].from /\ scan'[z].got = scan[z].got
  <2>1. scan[z] \in Shape(scan[z].from, scan[z].got)
    BY DEF Types
  <2>2. scan'[z] = scan[z] \/ scan'[z] = [scan[z] EXCEPT !.live = FALSE]
    BY DEF Sync, Cancelled
  <2> QED BY Zenon, <2>1, <2>2 DEF Shape
<1>4. \A z \in Scanner : Alike(z) /\ SameLock(z)
  BY <1>3 DEF Alike, SameLock, Busy, KeyOf
<1> QED BY <1>1, <1>2, <1>4, AlikeStep DEF KeepsLocks

LEMMA TickKept ==
  ASSUME Types, Versions, NEW a \in Atc, Tick(a)
  PROVE  Types' /\ Versions' /\ NotBack /\ KeepsLocks
<1> DEFINE r == [Off EXCEPT !.pc = "spawned", !.live = TRUE]
<1>1. UNCHANGED <<source, resPaused, typeVersion, held>>
  BY DEF Tick, sourceVars, dbVars, rowVars, lockVars
<1>2. r \in Shape(0, <<>>) /\ r.pc = "spawned" /\ r.from = 0 /\ r.got = <<>>
  BY Zenon DEF Shape, Off, PCs
<1>3. DOMAIN scan' = Scanner
  BY DEF Tick
<1>4. \A z \in Scanner : scan'[z] = scan[z] \/ (scan'[z] = r /\ scan[z].pc = "off")
  BY DEF Tick, Spawned
<1> HIDE DEF r
<1>5. ASSUME NEW z \in Scanner PROVE Alike(z) /\ SameLock(z)
  <2>1. CASE scan'[z] = scan[z]
    BY <2>1 DEF Alike, SameLock, Busy, KeyOf, Types
  <2>2. CASE scan'[z] = r /\ scan[z].pc = "off"
    BY <1>2, <2>2 DEF Alike, SameLock, Busy, Active
  <2> QED BY <1>4, <2>1, <2>2
<1> QED BY <1>1, <1>3, <1>5, AlikeStep DEF KeepsLocks

LEMMA CrashKept ==
  ASSUME Types, Versions, NEW a \in Atc, Crash(a)
  PROVE  Types' /\ Versions' /\ NotBack /\ Dies(a)
<1>1. UNCHANGED <<source, resPaused, typeVersion>> /\ held' = {h \in held : h.by.atc # a}
  BY DEF Crash, sourceVars, dbVars, rowVars
<1>2. DOMAIN scan' = Scanner /\ \A z \in Scanner : scan'[z] = IF z.atc = a THEN Off ELSE scan[z]
  BY DEF Crash
<1>3. ASSUME NEW z \in Scanner
      PROVE  Alike(z) /\ IF z.atc = a THEN ~Busy(z)' ELSE SameLock(z)
  <2>1. CASE z.atc = a
    BY <1>2, <2>1, OffShape DEF Alike, Busy, Active
  <2>2. CASE z.atc # a
    BY <1>2, <2>2 DEF Alike, SameLock, Busy, KeyOf, Types
  <2> QED BY <2>1, <2>2
<1>4. held' \subseteq held
  BY <1>1
<1> QED BY <1>1, <1>2, <1>3, <1>4, AlikeStep DEF Dies

-----------------------------------------------------------------------------
(* The steps that leave the goroutines and the locks alone.                 *)
LEMMA QuietKept ==
  ASSUME Types, Versions, UNCHANGED <<scan, held>>,
         resPaused' \in BOOLEAN, source' \in [Thing -> Nat], source'["type"] >= source["type"],
         typeVersion' = typeVersion \/ (typeVersion' = 0 /\ pipeline' = "gone")
  PROVE  Types' /\ Versions' /\ NotBack /\ KeepsLocks
<1>1. Types'
  BY SMTT(20) DEF Types
<1>2. typeVersion \in Nat /\ source["type"] \in Nat /\ source'["type"] \in Nat /\ typeVersion' <= typeVersion
  BY DEF Types
<1>3. Versions'
  BY <1>2 DEF Versions, Active
<1>4. NotBack
  BY <1>2 DEF NotBack
<1>5. KeepsLocks
  BY DEF KeepsLocks, SameLock, Busy
<1> QED BY <1>1, <1>3, <1>4, <1>5

LEMMA OthersKept ==
  ASSUME Types, Versions,
         \/ \E a \in Atc : TickFails(a)
         \/ \E t \in Thing : Elapse(t) \/ NewVersion(t)
         \/ Put \/ \E v \in putting : SaveOutput(v)
         \/ Toggle \/ Rename \/ Destroy \/ UNCHANGED vars
  PROVE  Types' /\ Versions' /\ NotBack /\ KeepsLocks
<1>1. source \in [Thing -> Nat] /\ source["type"] \in Nat /\ resPaused \in BOOLEAN
  BY SMTT(20) DEF Types
<1>2. UNCHANGED <<scan, held>>
  BY SMTT(20) DEF TickFails, Elapse, NewVersion, Put, SaveOutput, Toggle, Rename, Destroy, vars, lockVars
<1>3. resPaused' \in BOOLEAN
  BY Zenon, <1>1 DEF TickFails, Elapse, NewVersion, Put, SaveOutput, Toggle, Rename, Destroy, vars, rowVars
<1>4. typeVersion' = typeVersion \/ (typeVersion' = 0 /\ pipeline' = "gone")
  BY SMTT(20) DEF TickFails, Elapse, NewVersion, Put, SaveOutput, Toggle, Rename, Destroy, vars, dbVars
<1>5. source' = source \/ \E t \in Thing : source' = [source EXCEPT ![t] = @ + 1]
  BY DEF TickFails, Elapse, NewVersion, Put, SaveOutput, Toggle, Rename, Destroy, vars, sourceVars
<1>6. source' \in [Thing -> Nat] /\ source'["type"] >= source["type"]
  BY <1>1, <1>5
<1> QED BY <1>2, <1>3, <1>4, <1>6, QuietKept

-----------------------------------------------------------------------------
LEMMA InitIInv == Init => IInv
<1> SUFFICES ASSUME Init PROVE IInv
  OBVIOUS
<1>1. \A z \in Scanner : scan[z] = Off /\ ~Busy(z) /\ ~Active(z)
  BY OffShape DEF Init, Busy, Active
<1>2. Types
  <2>0. resPaused = FALSE
    BY DEF Init
  <2>1. source \in [Thing -> Nat] /\ typeVersion \in Nat
    <3>1. source \in [Thing -> {1}] /\ typeVersion = 0
      BY DEF Init
    <3> QED BY <3>1
  <2>2. DOMAIN scan = Scanner /\ held = {}
    BY DEF Init
  <2>3. \A z \in Scanner : scan[z] \in Shape(scan[z].from, scan[z].got)
    BY <1>1, OffShape
  <2> QED BY Zenon, <2>0, <2>1, <2>2, <2>3 DEF Types
<1>3. Versions
  <2>1. typeVersion = 0 /\ source["type"] = 1
    BY DEF Init
  <2>2. \A z \in Scanner : ~Active(z) /\ scan[z].pc # "save"
    BY <1>1, OffShape
  <2> QED BY <2>1, <2>2 DEF Versions
<1>4. LocksAreScans
  BY <1>1, OffShape DEF Init, LocksAreScans, Leaked, Busy
<1> QED BY <1>2, <1>3, <1>4 DEF IInv

LEMMA ScannerStep ==
  ASSUME IInv, NEW s \in Scanner,
         ScanStep(s) \/ ScanFails(s) \/ \E from \in {0} \cup ToSet(saved) : Ask(s, from)
  PROVE  Kept(s)
<1> USE DEF IInv
<1>1. CASE ScanStep(s)
  BY <1>1, StoreKept, CancelKept, BeginKept, AcquireKept, FromKept, CheckKept, SaveKept DEF ScanStep
<1>2. CASE ScanFails(s)
  BY <1>2, AcquireFailsKept, CheckFailsKept, SaveFailsKept DEF ScanFails
<1>3. CASE \E from \in {0} \cup ToSet(saved) : Ask(s, from)
  BY <1>3, AskKept
<1> QED BY <1>1, <1>2, <1>3

LEMMA IInvStep == IInv /\ [Next]_vars => IInv' /\ NotBack
<1> SUFFICES ASSUME IInv, [Next]_vars PROVE IInv' /\ NotBack
  OBVIOUS
<1> USE DEF IInv
<1>0. ASSUME Types', Versions', NotBack, KeepsLocks PROVE IInv' /\ NotBack
  <2>1. LocksAreScans'
    BY <1>0 DEF KeepsLocks, SameLock, LocksAreScans, Leaked, Busy
  <2> QED BY <1>0, <2>1
<1>1. ASSUME NEW s \in Scanner,
             ScanStep(s) \/ ScanFails(s) \/ \E from \in {0} \cup ToSet(saved) : Ask(s, from)
      PROVE  IInv' /\ NotBack
  <2>1. Kept(s)
    BY <1>1, ScannerStep
  <2>2. s.atc \in Atc
    OBVIOUS
  <2>3. LocksAreScans'
    BY <2>1, <2>2, LocksStep DEF Kept
  <2> QED BY <2>1, <2>3 DEF Kept
<1>2. ASSUME NEW a \in Atc, Sync(a) \/ Tick(a) PROVE IInv' /\ NotBack
  BY <1>0, <1>2, SyncKept, TickKept
<1>3. ASSUME NEW a \in Atc, Crash(a) PROVE IInv' /\ NotBack
  <2>1. Types' /\ Versions' /\ NotBack /\ Dies(a)
    BY <1>3, CrashKept
  <2>2. CASE Scanner = {}
    BY <2>1, <2>2 DEF LocksAreScans, Leaked, Types
  <2>3. CASE Scanner # {}
    BY <2>1, <2>3, LocksStep
  <2> QED BY <2>1, <2>2, <2>3
<1>4. CASE \/ \E a \in Atc : TickFails(a)
           \/ \E t \in Thing : Elapse(t) \/ NewVersion(t)
           \/ Put \/ \E v \in putting : SaveOutput(v)
           \/ Toggle \/ Rename \/ Destroy \/ UNCHANGED vars
  BY <1>0, <1>4, OthersKept
<1> QED BY <1>1, <1>2, <1>3, <1>4 DEF Next

-----------------------------------------------------------------------------
(* A checking lock is held by exactly one scan, until that scan ends, on    *)
(* however many ATCs and with however many goroutines and requests; only    *)
(* AcquireResourceTypeCheckingLockWithIntervalCheck leaves one locked.      *)
THEOREM LocksHeld == Spec => []LocksAreScans
<1>1. IInv => LocksAreScans
  BY DEF IInv
<1> QED BY <1>1, InitIInv, IInvStep, PTL DEF Spec

(* SaveVersion (resource_type.go) never puts a resource type back to an     *)
(* older version, whichever scans of it, by goroutines or inside requests,  *)
(* checked from versions they read before they had the lock.                *)
THEOREM TypesAdvance == Spec => TypeNeverGoesBack
<1>1. IInv /\ [Next]_vars => [typeVersion' >= typeVersion \/ pipeline' = "gone"]_vars
  BY IInvStep DEF NotBack
<1> QED BY <1>1, InitIInv, IInvStep, PTL DEF Spec, TypeNeverGoesBack
=============================================================================
