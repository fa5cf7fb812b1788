-------------------------- MODULE ContainersProofs ---------------------------
(***************************************************************************)
(* For any number of builds, processes, collectors, hijack requests and    *)
(* faults:                                                                 *)
(*   OwnersKeepContainers  what is destroyed is orphaned;                  *)
(*   EndsStay              a row that is on its way out stays so;          *)
(*   GardenMatches         Garden's containers have rows, created rows     *)
(*                         have containers;                                *)
(*   SessionsStay          a hijack session ends its container's life only *)
(*                         where a collector was blind to it.              *)
(*                                                                         *)
(* Everybody acts on a row as they read it earlier, so the invariant says  *)
(* what is still true of it by then. Rows only age: RowsAge is what any    *)
(* step may do to them, and under it an orphan stays one and a row that is *)
(* not creating never is again.                                            *)
(***************************************************************************)
EXTENDS Containers, TLAPS

Fields == {"state", "owner", "hijacked", "discontinued", "worker"}
JobFields == {"atc", "id", "worker", "left", "at"}

Rows == 1..inserted

Typed ==
  /\ inserted \in 0..MaxRows
  /\ DOMAIN row = Id /\ DOMAIN build = Build
  /\ \A i \in Id : /\ DOMAIN row[i] = Fields
                   /\ row[i].owner \in Build \cup (0..inserted) \cup {NoOwner}
                   /\ inserted < i => row[i].state = "gone"
  /\ DOMAIN pc = Proc /\ DOMAIN has = Proc
  /\ \A p \in Proc : has[p] \in 0..inserted
  /\ \A j \in jobs : DOMAIN j = JobFields /\ j.id \in Rows
  /\ garden \subseteq Rows

(* Who acts on a row has one; a helper works only while its creator waits. *)
OnRow == {"reuse", "lookup", "lock", "fetch", "image", "create", "mark", "undo"}

Placed ==
  /\ \A p \in Proc : pc[p] \in OnRow => has[p] \in Rows
  /\ \A p \in Proc : pc[p] \in {"fetch", "image"} => p \in DOMAIN HelperOf
  /\ \A c \in DOMAIN HelperOf : pc[c] # "image" => pc[HelperOf[c]] = "idle"

(* A job's container was orphaned when it was read, and still is.          *)
OrphansInv ==
  /\ \A i \in Id : In(i, {"destroying"}) => Orphaned(i)
  /\ \A j \in jobs : /\ ~In(j.id, {"creating", "failed"})
                     /\ In(j.id, {"created", "destroying"}) => Orphaned(j.id)
                     /\ j.at \in {"destroy", "delete"} => In(j.id, {"destroying", "gone"})

IInv == Typed /\ Placed /\ OrphansInv

(* Somebody made the container in Garden, or found it there, and marks the *)
(* row next or destroys the container.                                     *)
Attended(i) == \E p \in Proc : has[p] = i /\ pc[p] \in {"mark", "undo"}

Deleting(i) == \E j \in jobs : j.id = i /\ j.at = "delete"

(* A container in Garden whose row does not lead to it is attended.        *)
AttendedInv ==
  \A i \in garden \ excused : In(i, {"creating", "failed", "gone"}) \/ Deleting(i) => Attended(i)

(* A created row has its container, and one about to be marked created     *)
(* has it already: whoever destroys it saw the row past these states.      *)
BackedInv ==
  /\ \A i \in Id \ (excused \cup graced) : In(i, {"created"}) => i \in garden
  /\ \A p \in Proc : pc[p] = "mark" /\ has[p] \notin excused \cup graced /\ In(has[p], {"creating", "created"}) =>
                       has[p] \in garden
  /\ \A p \in Proc : pc[p] = "undo" /\ has[p] \notin excused => ~In(has[p], {"creating", "created"})

(* Only a collector that did not see a session destroys a container that   *)
(* is not discontinued.                                                    *)
BlindInv ==
  /\ \A i \in Id : In(i, {"destroying"}) /\ ~row[i].discontinued => i \in blind
  /\ \A j \in jobs : j.at = "mark" \/ (j.at = "destroy" /\ ~j.left) => j.id \in blind

GInv == AttendedInv /\ BackedInv /\ BlindInv

-----------------------------------------------------------------------------
(* What a step may do to a row, and to the rows.                           *)
RowAges(i) ==
  /\ row'[i].owner \in {row[i].owner, NoOwner}
  /\ \/ row'[i].state = row[i].state
     \/ row'[i].state = "gone"
     \/ row[i].state = "creating" /\ row'[i].state \in {"created", "failed"}
     \/ row[i].state = "created" /\ row'[i].state = "destroying" /\ Orphaned(i)

NewRow(i) ==
  /\ row'[i].owner \in Build \cup (0..inserted) \cup {NoOwner}
  /\ row'[i].state \in {"gone", "creating"}
  /\ inserted' < i => row'[i].state = "gone"

RowsAge ==
  /\ inserted' \in inserted..MaxRows
  /\ DOMAIN row' = Id /\ DOMAIN build' = Build
  /\ \A i \in Id : DOMAIN row'[i] = Fields
  /\ \A i \in Id : i <= inserted => RowAges(i)
  /\ \A i \in Id : inserted < i => NewRow(i)
  /\ \A b \in Build : build[b] = "cold" => build'[b] = "cold" \/ \A i \in Id : row'[i].owner # b

(* The ids of the rows.                                                    *)
LEMMA RowIds ==
  ASSUME Typed
  PROVE  /\ MaxRows \in Nat /\ inserted \in Nat /\ inserted <= MaxRows /\ 0 \in 0..inserted
         /\ \A i \in Id : i \in Nat /\ 0 < i /\ (Live(i) => i \in Rows)
         /\ \A i \in Rows : i \in Id /\ i <= inserted
         /\ Rows \subseteq Id /\ garden \subseteq Id /\ inserted + 1 \notin garden
<1>1. MaxRows \in Nat /\ inserted \in 0..MaxRows /\ garden \subseteq 1..inserted
  BY ContainersAssumption DEF Typed, Rows
<1>2. \A i \in 1..MaxRows : Live(i) => ~(inserted < i)
  BY DEF Typed, Id, Live
<1> QED BY <1>1, <1>2 DEF Rows, Id

LEMMA RowsStill ==
  ASSUME Typed, row' = row, inserted' = inserted, DOMAIN build' = Build,
         \A b \in Build : build[b] = "cold" => build'[b] = "cold"
  PROVE  RowsAge
BY RowIds DEF Typed, RowsAge, RowAges, NewRow

(* The columns of the rows after an UPDATE, and after a DELETE.            *)
LEMMA Updated ==
  ASSUME Typed, NEW i \in Id, NEW s, SetState(i, s)
  PROVE  /\ DOMAIN row' = Id
         /\ \A k \in Id : /\ DOMAIN row'[k] = Fields
                          /\ row'[k].owner = row[k].owner /\ row'[k].discontinued = row[k].discontinued
                          /\ row'[k].state = IF k = i THEN s ELSE row[k].state
BY DEF Typed, SetState, Fields

LEMMA Deleted ==
  ASSUME Typed, NEW ids, DeleteRows(ids)
  PROVE  /\ DOMAIN row' = Id
         /\ \A k \in Id : /\ DOMAIN row'[k] = Fields
                          /\ row'[k].owner \in {row[k].owner, NoOwner}
                          /\ k \notin ids => row'[k].discontinued = row[k].discontinued
                          /\ row'[k].state = IF k \in ids THEN "gone" ELSE row[k].state
BY Zenon DEF Typed, DeleteRows, Fields, Gone

LEMMA UpdateAges ==
  ASSUME Typed, NEW i \in Rows, NEW s, SetState(i, s),
         \/ s = row[i].state
         \/ row[i].state = "creating" /\ s \in {"created", "failed"}
         \/ row[i].state = "created" /\ s = "destroying" /\ Orphaned(i),
         build' = build, inserted' = inserted
  PROVE  RowsAge
<1>1. i \in Id /\ i <= inserted /\ inserted \in Nat
  BY RowIds
<1>2. \A k \in Id : k \in Nat
  BY RowIds
<1> QED BY <1>1, <1>2, Updated, RowIds DEF Typed, RowsAge, RowAges, NewRow

LEMMA DeleteAges ==
  ASSUME Typed, NEW ids, DeleteRows(ids), build' = build, inserted' = inserted
  PROVE  RowsAge
<1>1. inserted \in Nat /\ \A k \in Id : k \in Nat
  BY RowIds
<1> QED BY <1>1, Deleted, RowIds DEF Typed, RowsAge, RowAges, NewRow

LEMMA BuildAges ==
  ASSUME Typed, NEW b \in Build, BuildCompletes(b) \/ MarkNonInterceptible(b) \/ BuildDeleted(b)
  PROVE  RowsAge
<1>1. CASE BuildCompletes(b) \/ MarkNonInterceptible(b)
  <2>1. row' = row /\ inserted' = inserted /\ DOMAIN build' = Build
    BY <1>1 DEF BuildCompletes, MarkNonInterceptible, Typed
  <2>2. \A c \in Build : build[c] = "cold" => build'[c] = "cold"
    BY <1>1 DEF BuildCompletes, MarkNonInterceptible, Typed
  <2> QED BY <2>1, <2>2, RowsStill
<1>2. CASE BuildDeleted(b)
  <2>1. inserted \in Nat /\ MaxRows \in Nat /\ inserted <= MaxRows /\ \A k \in Id : k \in Nat
    BY RowIds
  <2>2. NoOwner \notin Build
    BY ContainersAssumption
  <2>3. /\ inserted' = inserted /\ DOMAIN row' = Id /\ DOMAIN build' = Build
        /\ \A k \in Id : /\ DOMAIN row'[k] = Fields /\ row'[k].state = row[k].state
                         /\ row'[k].owner = IF row[k].owner = b THEN NoOwner ELSE row[k].owner
    BY <1>2 DEF BuildDeleted, Typed, Fields
  <2>4. \A c \in Build : build[c] = "cold" => build'[c] = "cold" \/ \A i \in Id : row'[i].owner # c
    BY <1>2, <2>2, <2>3 DEF BuildDeleted, Typed
  <2> QED BY <2>1, <2>3, <2>4 DEF RowsAge, RowAges, NewRow, Typed
<1> QED BY <1>1, <1>2

(* The owner of the container that p finds or creates.                     *)
LEMMA Owners ==
  ASSUME Typed, NEW p \in Proc
  PROVE  OwnerOf(p) \in Build \cup (0..inserted)
<1>1. CASE p \in Creator
  BY <1>1, ContainersAssumption DEF OwnerOf
<1>2. CASE p \notin Creator
  <2>1. \E c \in DOMAIN HelperOf : HelperOf[c] = p
    BY <1>2 DEF Proc, Helper
  <2> DEFINE c == CHOOSE c \in DOMAIN HelperOf : HelperOf[c] = p
  <2>2. c \in DOMAIN HelperOf
    BY <2>1
  <2>3. c \in Proc
    BY <2>2, ContainersAssumption DEF Proc
  <2> HIDE DEF c
  <2>4. has[c] \in 0..inserted
    BY <2>3 DEF Typed
  <2> QED BY <1>2, <2>4 DEF OwnerOf, c
<1> QED BY <1>1, <1>2

LEMMA InsertAges ==
  ASSUME Typed, NEW p \in Proc, NEW w, inserted < MaxRows, inserted' = inserted + 1, build' = build,
         row' = [row EXCEPT ![inserted + 1] = [Gone EXCEPT !.state = "creating", !.owner = OwnerOf(p), !.worker = w]]
  PROVE  /\ RowsAge
         /\ \A k \in Id : k # inserted + 1 => row'[k] = row[k]
         /\ row'[inserted + 1].state = "creating"
<1> DEFINE o == OwnerOf(p)
           r == [Gone EXCEPT !.state = "creating", !.owner = o, !.worker = w]
<1>1. inserted \in Nat /\ MaxRows \in Nat /\ inserted + 1 \in Id /\ \A k \in Id : k \in Nat
  BY RowIds DEF Id
<1>2. o \in Build \cup (0..inserted)
  BY Owners
<1> HIDE DEF o
<1>3. DOMAIN r = Fields /\ r.state = "creating" /\ r.owner = o
  BY DEF Gone, Fields
<1> HIDE DEF r
<1>4. row' = [row EXCEPT ![inserted + 1] = r]
  BY DEF r, o
<1>5. /\ DOMAIN row' = Id /\ row'[inserted + 1] = r
      /\ \A k \in Id : k # inserted + 1 => row'[k] = row[k]
  BY <1>1, <1>4 DEF Typed
<1>6. \A k \in Id : DOMAIN row'[k] = Fields /\ (k <= inserted => RowAges(k))
  BY <1>1, <1>3, <1>5 DEF RowAges, Typed
<1>7. \A k \in Id : inserted < k => NewRow(k)
  <2>1. NewRow(inserted + 1)
    <3>1. ~(inserted' < inserted + 1)
      BY <1>1
    <3>2. row'[inserted + 1].state = "creating" /\ row'[inserted + 1].owner = o
      BY <1>3, <1>5, Zenon
    <3> QED BY <1>2, <3>1, <3>2, Zenon DEF NewRow
  <2>2. \A k \in Id : inserted < k /\ k # inserted + 1 => NewRow(k)
    BY <1>1, <1>5 DEF NewRow, Typed
  <2> QED BY <2>1, <2>2
<1> QED BY <1>1, <1>3, <1>5, <1>6, <1>7 DEF RowsAge, Typed

-----------------------------------------------------------------------------
(* Under RowsAge, what was read of a row stays true.                       *)
LEMMA OrphansStay ==
  ASSUME Typed, RowsAge, NEW i \in Rows, Orphaned(i)
  PROVE  Orphaned(i)'
<1>1. i \in Id /\ i <= inserted /\ inserted \in Nat
  BY RowIds
<1>2. RowAges(i)
  BY <1>1 DEF RowsAge
<1>3. CASE row'[i].owner = NoOwner
  BY <1>3 DEF Orphaned
<1>4. CASE row'[i].owner = row[i].owner /\ row[i].owner \in Build /\ build[row[i].owner] = "cold"
  BY <1>1, <1>4 DEF RowsAge, Orphaned
<1>5. CASE row'[i].owner = row[i].owner /\ row[i].owner \in Id /\ row[row[i].owner].state # "creating"
  <2> DEFINE o == row[i].owner
  <2>1. o \in 0..inserted
    <3>1. o \in Build \cup (0..inserted) \cup {NoOwner} /\ o \in Nat
      BY <1>1, <1>5, RowIds DEF Typed
    <3> HIDE DEF o
    <3> QED BY <3>1, ContainersAssumption
  <2>2. RowAges(o)
    BY <1>1, <1>5, <2>1 DEF RowsAge, Id
  <2>3. row'[o].state # "creating"
    BY <1>5, <2>2 DEF RowAges
  <2> QED BY <1>5, <2>3 DEF Orphaned
<1> QED BY <1>2, <1>3, <1>4, <1>5 DEF Orphaned, RowAges

(* The rows a job of the next state stands for: those of a job there was,  *)
(* or those just read.                                                     *)
JobsAge ==
  \A j \in jobs' :
    /\ DOMAIN j = JobFields
    /\ \/ \E k \in jobs : k.id = j.id /\ (j.at \in {"destroy", "delete"} => k.at \in {"destroy", "delete"})
       \/ \E k \in jobs : k.id = j.id /\ row'[j.id].state = "destroying"
       \/ /\ j.id \in Id /\ In(j.id, {"created", "destroying"}) /\ Orphaned(j.id)
          /\ j.at \in {"destroy", "delete"} => In(j.id, {"destroying"})

LEMMA OrphansStep ==
  ASSUME Typed, OrphansInv, RowsAge, JobsAge
  PROVE  OrphansInv' /\ \A j \in jobs' : j.id \in Rows'
<1>1. inserted \in Nat /\ inserted' \in Nat /\ inserted <= inserted' /\ \A k \in Id : k \in Nat /\ 0 < k
  BY RowIds DEF RowsAge
<1>2. ASSUME NEW i \in Id, In(i, {"destroying"})' PROVE Orphaned(i)'
  <2>1. i \in Rows
    BY <1>1, <1>2 DEF RowsAge, NewRow, In, Rows
  <2>2. RowAges(i)
    BY <2>1, <1>1 DEF RowsAge, Rows
  <2>3. Orphaned(i)
    BY <1>2, <2>2 DEF RowAges, OrphansInv, In
  <2> QED BY <2>1, <2>3, OrphansStay
<1>3. ASSUME NEW j \in jobs'
      PROVE  /\ j.id \in Rows' /\ ~In(j.id, {"creating", "failed"})'
             /\ In(j.id, {"created", "destroying"})' => Orphaned(j.id)'
             /\ j.at \in {"destroy", "delete"} => In(j.id, {"destroying", "gone"})'
  <2> DEFINE i == j.id
  <2>1. /\ i \in Rows /\ ~In(i, {"creating", "failed"}) /\ (In(i, {"created", "destroying"}) => Orphaned(i))
        /\ j.at \in {"destroy", "delete"} => In(i, {"destroying", "gone"}) \/ row'[i].state = "destroying"
    <3>1. CASE \E k \in jobs : k.id = j.id
      BY <3>1, <1>3 DEF JobsAge, OrphansInv, Typed, In
    <3>2. CASE /\ i \in Id /\ In(i, {"created", "destroying"}) /\ Orphaned(i)
               /\ j.at \in {"destroy", "delete"} => In(i, {"destroying"})
      BY <1>1, <3>2 DEF Typed, In, Rows
    <3> QED BY <1>3, <3>1, <3>2 DEF JobsAge
  <2> HIDE DEF i
  <2>2. i \in Id /\ i <= inserted /\ i \in Rows'
    BY <1>1, <2>1, RowIds DEF Rows
  <2>3. RowAges(i)
    BY <2>2 DEF RowsAge
  <2>4. ~In(i, {"creating", "failed"})' /\ (In(i, {"created", "destroying"})' => In(i, {"created", "destroying"}))
    BY <2>1, <2>3 DEF RowAges, In
  <2>5. j.at \in {"destroy", "delete"} => In(i, {"destroying", "gone"})'
    BY <2>1, <2>3 DEF RowAges, In
  <2>6. In(i, {"created", "destroying"})' => Orphaned(i)'
    BY <2>1, <2>4, OrphansStay
  <2> QED BY <2>2, <2>4, <2>5, <2>6 DEF i
<1> QED BY <1>2, <1>3 DEF OrphansInv

LEMMA Combine ==
  ASSUME IInv, RowsAge, JobsAge, Placed', DOMAIN pc' = Proc, DOMAIN has' = Proc,
         \A p \in Proc : has'[p] \in 0..inserted', garden' \subseteq Rows'
  PROVE  IInv'
<1>1. OrphansInv' /\ \A j \in jobs' : j.id \in Rows'
  BY OrphansStep DEF IInv
<1>2. inserted \in Nat /\ inserted' \in Nat /\ inserted <= inserted' /\ \A k \in Id : k \in Nat /\ 0 < k
  BY RowIds DEF IInv, RowsAge
<1>3. \A i \in Id : /\ DOMAIN row'[i] = Fields
                    /\ row'[i].owner \in Build \cup (0..inserted') \cup {NoOwner}
                    /\ inserted' < i => row'[i].state = "gone"
  <2>1. \A i \in Id : row'[i].owner \in Build \cup (0..inserted) \cup {NoOwner}
    BY <1>2 DEF IInv, Typed, RowsAge, RowAges, NewRow
  <2>2. \A i \in Id : inserted' < i => row'[i].state = "gone"
    BY <1>2 DEF RowsAge, NewRow
  <2> QED BY <1>2, <2>1, <2>2 DEF RowsAge
<1>4. inserted' \in 0..MaxRows
  BY <1>2 DEF RowsAge
<1> QED BY <1>1, <1>3, <1>4 DEF IInv, Typed, RowsAge, JobsAge

LEMMA RowsGrow ==
  ASSUME IInv, RowsAge
  PROVE  /\ Rows \subseteq Rows' /\ 0..inserted \subseteq 0..inserted'
         /\ inserted \in Nat /\ inserted' \in Nat /\ inserted <= inserted'
BY RowIds DEF IInv, RowsAge, Rows

(* No process acts.                                                        *)
LEMMA ProcsStill ==
  ASSUME IInv, RowsAge, JobsAge, pc' = pc, has' = has, garden' \subseteq garden
  PROVE  IInv'
<1>1. /\ Rows \subseteq Rows' /\ 0..inserted \subseteq 0..inserted'
  BY RowsGrow
<1>2. Placed'
  BY <1>1 DEF Placed, IInv
<1> QED BY <1>1, <1>2, Combine DEF IInv, Typed

LEMMA JobsStill ==
  ASSUME IInv, jobs' \subseteq jobs
  PROVE  JobsAge
BY DEF IInv, Typed, JobsAge

(* One process acts.                                                       *)
ProcActs(p, l) ==
  /\ pc' = [pc EXCEPT ![p] = l]
  /\ has' = has \/ \E x \in 0..inserted' : has' = [has EXCEPT ![p] = x]
  /\ l \in OnRow => has'[p] \in Rows'
  /\ l \in {"fetch", "image"} => p \in DOMAIN HelperOf
  /\ p \in Creator \/ pc[p] # "idle"
  /\ pc[p] # "image"

LEMMA OneActs ==
  ASSUME IInv, RowsAge, JobsAge, NEW p \in Proc, NEW l, ProcActs(p, l), garden' \subseteq Rows'
  PROVE  IInv'
<1>1. /\ Rows \subseteq Rows' /\ 0..inserted \subseteq 0..inserted'
  BY RowsGrow
<1>2. /\ DOMAIN pc = Proc /\ DOMAIN has = Proc /\ \A q \in Proc : has[q] \in 0..inserted
  BY DEF IInv, Typed
<1>3. /\ DOMAIN pc' = Proc /\ pc'[p] = l /\ \A q \in Proc \ {p} : pc'[q] = pc[q]
  BY <1>2 DEF ProcActs
<1>4. DOMAIN has' = Proc /\ \A q \in Proc \ {p} : has'[q] = has[q]
  BY <1>2 DEF ProcActs
<1>5. \A q \in Proc : has'[q] \in 0..inserted'
  BY <1>1, <1>2 DEF ProcActs
<1>6. Placed'
  <2>1. \A q \in Proc : pc'[q] \in OnRow => has'[q] \in Rows'
    BY <1>1, <1>3, <1>4 DEF IInv, Placed, ProcActs
  <2>2. \A q \in Proc : pc'[q] \in {"fetch", "image"} => q \in DOMAIN HelperOf
    BY <1>3 DEF IInv, Placed, ProcActs
  <2>3. ASSUME NEW c \in DOMAIN HelperOf, pc'[c] # "image" PROVE pc'[HelperOf[c]] = "idle"
    <3>1. c \in Creator /\ HelperOf[c] \in Helper /\ c \in Proc /\ HelperOf[c] \in Proc /\ HelperOf[c] \notin Creator
      BY ContainersAssumption DEF Helper, Proc
    <3>2. pc[c] # "image"
      BY <1>3, <2>3, <3>1 DEF ProcActs
    <3>3. pc[HelperOf[c]] = "idle"
      BY <3>2 DEF IInv, Placed
    <3>4. HelperOf[c] # p
      BY <3>1, <3>3 DEF ProcActs
    <3> QED BY <1>3, <3>1, <3>3, <3>4
  <2> QED BY <2>1, <2>2, <2>3 DEF Placed
<1> QED BY <1>3, <1>4, <1>5, <1>6, Combine

(* A process and its helper act.                                           *)
LEMMA TwoAct ==
  ASSUME IInv, RowsAge, JobsAge, NEW p \in DOMAIN HelperOf, DOMAIN pc' = Proc, DOMAIN has' = Proc,
         \A q \in Proc \ {p, HelperOf[p]} : pc'[q] = pc[q],
         \A q \in Proc : has'[q] = has[q] \/ (has'[q] = 0 /\ pc'[q] \notin OnRow),
         pc'[p] = "image" \/ pc'[HelperOf[p]] = "idle",
         pc'[p] \in OnRow => pc[p] \in OnRow,
         pc'[HelperOf[p]] \in {"idle", "find"},
         garden' \subseteq Rows'
  PROVE  IInv'
<1>1. /\ Rows \subseteq Rows' /\ 0..inserted \subseteq 0..inserted' /\ 0 \in 0..inserted'
  BY RowsGrow
<1>2. \A q \in Proc : has'[q] \in 0..inserted'
  BY <1>1 DEF IInv, Typed
<1>3. \A c \in DOMAIN HelperOf : c \in Creator /\ c \in Proc /\ HelperOf[c] \in Proc /\ HelperOf[c] \notin Creator
  BY ContainersAssumption DEF Helper, Proc
<1>4. Placed'
  <2>1. \A q \in Proc : pc'[q] \in OnRow => has'[q] \in Rows'
    BY <1>1, <1>3 DEF IInv, Placed, OnRow
  <2>2. \A q \in Proc : pc'[q] \in {"fetch", "image"} => q \in DOMAIN HelperOf
    BY <1>3 DEF IInv, Placed
  <2>3. ASSUME NEW c \in DOMAIN HelperOf, pc'[c] # "image" PROVE pc'[HelperOf[c]] = "idle"
    <3>1. CASE c = p
      BY <2>3, <3>1
    <3>2. CASE c # p
      <4>1. HelperOf[c] # HelperOf[p] /\ HelperOf[c] # p /\ c # HelperOf[p]
        BY <1>3, <3>2, ContainersAssumption
      <4> QED BY <1>3, <2>3, <3>2, <4>1 DEF IInv, Placed
    <3> QED BY <3>1, <3>2
  <2> QED BY <2>1, <2>2, <2>3 DEF Placed
<1> QED BY <1>2, <1>4, Combine

-----------------------------------------------------------------------------
(* The actions.                                                            *)
LEMMA StepBuild ==
  ASSUME IInv, NEW b \in Build, BuildCompletes(b) \/ MarkNonInterceptible(b) \/ BuildDeleted(b)
  PROVE  RowsAge /\ IInv'
<1>1. pc' = pc /\ has' = has /\ garden' = garden /\ jobs' = jobs
  BY DEF BuildCompletes, MarkNonInterceptible, BuildDeleted, procVars, gardenVars, gcVars
<1> QED BY <1>1, BuildAges, JobsStill, ProcsStill DEF IInv

(* Failed() of a row that is on the way, or too late.                      *)
LEMMA FailedAges ==
  ASSUME Typed, NEW i \in Rows, Failed(i), build' = build, inserted' = inserted
  PROVE  RowsAge
BY RowsStill, UpdateAges DEF Failed, MayFail, In, Typed

LEMMA StepProc ==
  ASSUME IInv, NEW p \in Proc,
         \/ Choose(p) \/ Find(p) \/ Reuse(p) \/ Lookup(p) \/ AcquireLock(p) \/ CreateInGarden(p) \/ Undo(p)
  PROVE  RowsAge /\ IInv'
<1> USE DEF Choose, Find, Reuse, Lookup, AcquireLock, CreateInGarden, Undo
<1>1. row' = row /\ build' = build /\ inserted' = inserted /\ jobs' = jobs
  BY DEF dbVars, gcVars
<1>2. RowsAge /\ JobsAge
  BY Zenon, <1>1, RowsStill, JobsStill DEF IInv, Typed
<1>3. Rows' = Rows /\ DOMAIN has = Proc /\ 0 \in 0..inserted'
  BY <1>1, RowIds DEF Rows, IInv, Typed
<1>4. garden' \subseteq Rows'
  BY Zenon, <1>3 DEF IInv, Typed, Placed, OnRow, gardenVars
<1>5. \E l : ProcActs(p, l)
  <2> USE DEF ProcActs, OnRow
  <2>1. CASE Choose(p)
    BY Zenon, <2>1
  <2>2. CASE Find(p)
    <3>1. \A i \in Owned(p) : i \in Rows /\ i \in 0..inserted'
      <4>1. \A i \in Id : Live(i) => i \in Rows
        BY RowIds DEF IInv
      <4> QED BY <1>1, <4>1 DEF Owned, Rows
    <3> QED BY Zenon, <1>3, <2>2, <3>1
  <2>3. CASE Reuse(p) \/ Undo(p)
    BY <1>3, <2>3 DEF Leave
  <2>4. CASE Lookup(p) \/ AcquireLock(p) \/ CreateInGarden(p)
    BY Zenon, <1>3, <2>4 DEF IInv, Placed
  <2> QED BY Zenon, <2>1, <2>2, <2>3, <2>4
<1> QED BY <1>2, <1>4, <1>5, OneActs

LEMMA StepInsert ==
  ASSUME IInv, NEW p \in Proc, Insert(p)
  PROVE  RowsAge /\ IInv'
<1>1. build' = build /\ jobs' = jobs /\ garden' = garden /\ pc[p] = "insert"
  BY DEF Insert, gardenVars, gcVars
<1>2. JobsAge /\ DOMAIN has = Proc /\ garden \subseteq Rows /\ inserted \in Nat
  BY <1>1, JobsStill, RowIds DEF IInv, Typed
<1>3. CASE inserted' = inserted /\ row' = row /\ Leave(p, "failed")
  <2>1. RowsAge
    BY <1>1, <1>3, RowsStill DEF IInv, Typed
  <2>2. ProcActs(p, "failed")
    <3>1. 0 \in 0..inserted' /\ has' = [has EXCEPT ![p] = 0] /\ pc' = [pc EXCEPT ![p] = "failed"]
      BY <1>2, <1>3 DEF Leave
    <3> QED BY Zenon, <1>1, <3>1 DEF ProcActs, OnRow
  <2>3. garden' \subseteq Rows'
    BY <1>1, <1>2, <1>3 DEF Rows
  <2> QED BY <1>2, <2>1, <2>2, <2>3, OneActs
<1>4. CASE /\ inserted < MaxRows /\ inserted' = inserted + 1
           /\ row' = [row EXCEPT ![inserted + 1] =
                        [Gone EXCEPT !.state = "creating", !.owner = OwnerOf(p), !.worker = on[p]]]
           /\ has' = [has EXCEPT ![p] = inserted + 1] /\ pc' = [pc EXCEPT ![p] = "lock"]
  <2>1. RowsAge
    BY Zenon, <1>1, <1>4, InsertAges DEF IInv
  <2>2. inserted + 1 \in Rows' /\ inserted + 1 \in 0..inserted' /\ Rows \subseteq Rows'
    BY <1>2, <1>4 DEF Rows
  <2>3. ProcActs(p, "lock")
    BY Zenon, <1>1, <1>2, <1>4, <2>2 DEF ProcActs, OnRow
  <2> QED BY <1>1, <1>2, <2>1, <2>2, <2>3, OneActs
<1> QED BY <1>3, <1>4 DEF Insert

LEMMA StepMark ==
  ASSUME IInv, NEW p \in Proc, CreateRefused(p) \/ CreateFails(p) \/ MarkCreated(p) \/ MarkFails(p)
  PROVE  RowsAge /\ IInv'
<1> USE DEF CreateRefused, CreateFails, MarkCreated, MarkFails
<1>1. build' = build /\ inserted' = inserted /\ jobs' = jobs /\ pc[p] \in {"create", "mark"}
  BY DEF gcVars
<1>2. /\ JobsAge /\ DOMAIN has = Proc /\ garden \subseteq Rows /\ has[p] \in Rows /\ Rows' = Rows
      /\ 0 \in 0..inserted' /\ build' = build /\ DOMAIN build = Build
  BY <1>1, JobsStill, RowIds DEF IInv, Typed, Placed, OnRow, Rows
<1>3. RowsAge
  <2>1. CASE Failed(has[p])
    BY Zenon, <1>1, <1>2, <2>1, FailedAges DEF IInv
  <2>2. CASE row' = row
    BY Zenon, <1>1, <1>2, <2>2, RowsStill DEF IInv
  <2>3. CASE MayBeCreated(has[p]) /\ SetState(has[p], "created")
    BY <1>1, <1>2, <2>3, UpdateAges DEF IInv, MayBeCreated, In
  <2> QED BY Zenon, <2>1, <2>2, <2>3
<1>4. garden' \subseteq Rows'
  BY <1>2 DEF gardenVars
<1>5. \E l : ProcActs(p, l)
  BY Zenon, <1>1, <1>2 DEF ProcActs, OnRow, Leave
<1> QED BY <1>2, <1>3, <1>4, <1>5, OneActs

LEMMA StepImage ==
  ASSUME IInv, NEW p \in Proc, Fetch(p) \/ ImageFetched(p) \/ ImageFailed(p)
  PROVE  RowsAge /\ IInv'
<1> USE DEF Fetch, ImageFetched, ImageFailed
<1>1. build' = build /\ inserted' = inserted /\ jobs' = jobs /\ garden' = garden /\ pc[p] \in {"fetch", "image"}
  BY DEF gcVars, dbVars, gardenVars
<1>2. /\ JobsAge /\ DOMAIN has = Proc /\ DOMAIN pc = Proc /\ garden \subseteq Rows /\ has[p] \in Rows /\ Rows' = Rows
      /\ DOMAIN build = Build /\ p \in DOMAIN HelperOf
  BY <1>1, JobsStill DEF IInv, Typed, Placed, OnRow, Rows
<1>3. RowsAge
  <2>1. CASE Failed(has[p])
    BY <1>1, <1>2, <2>1, FailedAges DEF IInv
  <2>2. CASE row' = row
    BY <1>1, <1>2, <2>2, RowsStill DEF IInv
  <2> QED BY <2>1, <2>2 DEF dbVars
<1>4. HelperOf[p] \in Proc /\ HelperOf[p] # p
  BY <1>2, ContainersAssumption DEF Helper, Proc
<1>5. /\ DOMAIN pc' = Proc /\ DOMAIN has' = Proc
      /\ \A q \in Proc \ {p, HelperOf[p]} : pc'[q] = pc[q]
      /\ pc'[p] = "image" \/ pc'[HelperOf[p]] = "idle"
      /\ pc'[HelperOf[p]] \in {"idle", "find"}
      /\ pc'[p] \in OnRow => pc[p] \in OnRow
  BY <1>1, <1>2, <1>4 DEF OnRow
<1>6. \A q \in Proc : has'[q] = has[q] \/ (has'[q] = 0 /\ pc'[q] \notin OnRow)
  BY <1>2, <1>4 DEF OnRow
<1> QED BY <1>1, <1>2, <1>3, <1>5, <1>6, TwoAct

LEMMA StepCrash ==
  ASSUME IInv, NEW p \in Proc, Crash(p)
  PROVE  RowsAge /\ IInv'
<1>1. row' = row /\ build' = build /\ inserted' = inserted /\ jobs' = jobs /\ garden' = garden /\ p \in Creator
  BY DEF Crash, gcVars, dbVars, gardenVars
<1>2. RowsAge /\ JobsAge /\ Rows' = Rows /\ garden' \subseteq Rows'
  BY Zenon, <1>1, RowsStill, JobsStill DEF IInv, Typed, Rows
<1>3. CASE p \in DOMAIN HelperOf
  <2>1. HelperOf[p] \in Proc /\ HelperOf[p] # p
    BY <1>3, ContainersAssumption DEF Helper, Proc
  <2>2. /\ DOMAIN pc' = Proc /\ DOMAIN has' = Proc
        /\ \A q \in Proc \ {p, HelperOf[p]} : pc'[q] = pc[q] /\ has'[q] = has[q]
        /\ pc'[p] = "start" /\ pc'[HelperOf[p]] = "idle"
        /\ has'[p] = 0 /\ has'[HelperOf[p]] = 0
    BY <1>3, <2>1 DEF Crash
  <2>3. pc'[p] \notin OnRow /\ pc'[HelperOf[p]] \notin OnRow
    BY <2>2 DEF OnRow
  <2> QED BY Zenon, <1>2, <1>3, <2>1, <2>2, <2>3, TwoAct
<1>4. CASE p \notin DOMAIN HelperOf
  <2>1. pc' = [pc EXCEPT ![p] = "start"] /\ has' = [has EXCEPT ![p] = 0]
    BY Zenon, <1>4 DEF Crash, IInv, Typed
  <2>2. pc[p] # "image" /\ 0 \in 0..inserted'
    BY <1>1, <1>4, RowIds DEF IInv, Placed, Typed
  <2>3. ProcActs(p, "start")
    BY Zenon, <1>1, <2>1, <2>2 DEF ProcActs, OnRow
  <2> QED BY <1>2, <2>3, OneActs
<1> QED BY <1>3, <1>4

LEMMA StepGarden ==
  ASSUME IInv,
         \/ \E i \in Id : LockLost(i) \/ GardenReaps(i)
         \/ \E a \in Atc : SyncWorkers(a) \/ CollectorCrash(a)
         \/ \E h \in Hijacker : HijackRun(h) \/ HijackClose(h)
         \/ \E w \in Worker : Heartbeat(w)
         \/ UNCHANGED vars
  PROVE  RowsAge /\ IInv'
<1>1. /\ row' = row /\ build' = build /\ inserted' = inserted /\ jobs' \subseteq jobs /\ garden' \subseteq garden
      /\ pc' = pc /\ has' = has
  BY Zenon DEF LockLost, GardenReaps, SyncWorkers, CollectorCrash, HijackRun, HijackClose, Heartbeat, KeepContainers, vars,
     dbVars, gardenVars, procVars, gcVars
<1> QED BY <1>1, RowsStill, JobsStill, ProcsStill DEF IInv, Typed

LEMMA StepHijackMark ==
  ASSUME IInv, NEW h \in Hijacker, HijackMark(h)
  PROVE  RowsAge /\ IInv'
<1>1. /\ build' = build /\ inserted' = inserted /\ jobs' = jobs /\ garden' = garden /\ pc' = pc /\ has' = has
  BY DEF HijackMark, gardenVars, procVars, gcVars
<1>2. row' = row \/ row' = [row EXCEPT ![hon[h]].hijacked = TRUE]
  BY DEF HijackMark
<1>3. /\ DOMAIN row' = Id
      /\ \A k \in Id : DOMAIN row'[k] = Fields /\ row'[k].owner = row[k].owner /\ row'[k].state = row[k].state
  BY <1>2 DEF IInv, Typed, Fields
<1>4. inserted \in Nat /\ \A k \in Id : k \in Nat
  BY RowIds DEF IInv
<1>5. RowsAge
  <2>1. inserted' \in inserted..MaxRows
    BY <1>1, RowIds DEF IInv
  <2>2. \A i \in Id : RowAges(i)
    BY Zenon, <1>3 DEF RowAges
  <2>3. \A i \in Id : inserted < i => NewRow(i)
    BY Zenon, <1>1, <1>3 DEF IInv, Typed, NewRow
  <2>4. DOMAIN build' = Build
    BY Zenon, <1>1 DEF IInv, Typed
  <2> QED BY Zenon, <1>1, <1>3, <2>1, <2>2, <2>3, <2>4 DEF RowsAge
<1> QED BY <1>1, <1>5, JobsStill, ProcsStill

LEMMA StepWorkers ==
  ASSUME IInv, (\E w \in Worker : WorkerMoves(w)) \/ CollectWorkers
  PROVE  RowsAge /\ IInv'
<1>1. /\ build' = build /\ inserted' = inserted /\ jobs' = jobs /\ garden' = garden /\ pc' = pc /\ has' = has
      /\ row' = row \/ \E ids : DeleteRows(ids)
  BY Zenon DEF WorkerMoves, CollectWorkers, KeepContainers, Cascade, dbVars, gardenVars, procVars, gcVars
<1>2. RowsAge
  BY Zenon, <1>1, RowsStill, DeleteAges DEF IInv, Typed
<1> QED BY <1>1, <1>2, JobsStill, ProcsStill

LEMMA StepCollect ==
  ASSUME IInv, NEW a \in Atc, Collect(a)
  PROVE  RowsAge /\ IInv'
<1>1. /\ build' = build /\ inserted' = inserted /\ garden' = garden /\ pc' = pc /\ has' = has
      /\ DeleteRows({i \in Id : In(i, {"failed"})})
  BY Zenon DEF Collect, gardenVars, procVars
<1>2. RowsAge
  BY <1>1, DeleteAges DEF IInv
<1>3. JobsAge
  <2>1. ASSUME NEW j \in jobs' \ jobs
        PROVE  /\ DOMAIN j = JobFields
               /\ j.id \in Id /\ In(j.id, {"created", "destroying"}) /\ Orphaned(j.id)
               /\ j.at \in {"destroy", "delete"} => In(j.id, {"destroying"})
    <3>1. PICK i \in Id :
            /\ \E w \in Worker : i \in Candidates(a, w, "created") \cup Candidates(a, w, "destroying")
            /\ j = [atc |-> a, id |-> i, worker |-> row[i].worker, left |-> row[i].discontinued,
                    at |-> IF ~In(i, {"created"}) THEN "destroy" ELSE IF row[i].hijacked THEN "look" ELSE "mark"]
      BY Zenon, <2>1 DEF Collect
    <3>2. In(i, {"created", "destroying"}) /\ Orphaned(i)
      BY Zenon, <3>1 DEF Candidates, In
    <3>3. /\ DOMAIN j = JobFields /\ j.id = i
          /\ j.at = IF ~In(i, {"created"}) THEN "destroy" ELSE IF row[i].hijacked THEN "look" ELSE "mark"
      BY <3>1 DEF JobFields
    <3> QED BY <3>2, <3>3 DEF In
  <2>2. \A j \in jobs : DOMAIN j = JobFields
    BY DEF IInv, Typed
  <2> QED BY <2>1, <2>2 DEF JobsAge
<1> QED BY <1>1, <1>2, <1>3, ProcsStill

LEMMA StepJob ==
  ASSUME IInv, NEW j \in jobs, JobStep(j) \/ JobFails(j)
  PROVE  RowsAge /\ IInv'
<1> USE DEF JobStep, JobFails, JobLook, JobDiscontinue, JobMark, JobDestroy, JobDelete
<1>1. /\ build' = build /\ inserted' = inserted /\ garden' \subseteq garden /\ pc' = pc /\ has' = has
  BY DEF gardenVars, procVars, dbVars
<1>2. /\ DOMAIN j = JobFields /\ j.id \in Rows /\ ~In(j.id, {"creating", "failed"}) /\ j.id \in Id
      /\ In(j.id, {"created", "destroying"}) => Orphaned(j.id)
  BY RowIds DEF IInv, Typed, OrphansInv
<1>3. RowsAge
  <2>1. CASE row' = row
    BY <1>1, <2>1, RowsStill DEF IInv, Typed
  <2>2. CASE \E ids : DeleteRows(ids)
    BY <1>1, <2>2, DeleteAges DEF IInv
  <2>3. CASE MayBeDestroying(j.id) /\ SetState(j.id, "destroying")
    BY <1>1, <1>2, <2>3, UpdateAges DEF IInv, MayBeDestroying, In
  <2>4. CASE /\ MayBeDestroying(j.id)
             /\ row' = [row EXCEPT ![j.id].state = "destroying", ![j.id].discontinued = TRUE]
    <3>1. /\ DOMAIN row' = Id
          /\ \A k \in Id : /\ DOMAIN row'[k] = Fields /\ row'[k].owner = row[k].owner
                           /\ row'[k].state = IF k = j.id THEN "destroying" ELSE row[k].state
      BY <1>2, <2>4 DEF IInv, Typed, Fields
    <3>2. inserted \in Nat /\ (\A k \in Id : k \in Nat) /\ j.id <= inserted
      BY <1>2, RowIds DEF IInv
    <3>3. row[j.id].state \in {"created", "destroying"} /\ Orphaned(j.id)
      BY <1>2, <2>4 DEF MayBeDestroying, In
    <3> QED BY <1>1, <1>2, <3>1, <3>2, <3>3, RowIds DEF IInv, Typed, RowsAge, RowAges, NewRow
  <2> QED BY <2>1, <2>2, <2>3, <2>4 DEF dbVars
<1>4. JobsAge
  <2>1. ASSUME NEW k \in jobs' \ jobs
        PROVE  /\ DOMAIN k = JobFields /\ k.id = j.id
               /\ \/ k.at \in {"destroy", "delete"} => j.at \in {"destroy", "delete"}
                  \/ row'[k.id].state = "destroying"
    <3>1. \/ \E t : k = [j EXCEPT !.at = t] /\ (t = "delete" => j.at = "destroy") /\ t # "destroy"
          \/ /\ MayBeDestroying(j.id) /\ SetState(j.id, "destroying")
             /\ k = [j EXCEPT !.at = "destroy", !.left = row[j.id].discontinued]
      BY <2>1 DEF Step, End
    <3>2. DOMAIN k = JobFields /\ k.id = j.id
      BY Zenon, <1>2, <3>1 DEF JobFields
    <3>3. CASE \E t : k = [j EXCEPT !.at = t] /\ (t = "delete" => j.at = "destroy") /\ t # "destroy"
      BY <1>2, <3>2, <3>3 DEF JobFields
    <3>4. CASE SetState(j.id, "destroying")
      BY <1>2, <3>2, <3>4, Updated DEF IInv
    <3> QED BY <3>1, <3>2, <3>3, <3>4
  <2>2. \A k \in jobs : DOMAIN k = JobFields
    BY DEF IInv, Typed
  <2> QED BY <2>1, <2>2 DEF JobsAge
<1> QED BY <1>1, <1>3, <1>4, ProcsStill

LEMMA IInvInit == Init => IInv
<1> SUFFICES ASSUME Init PROVE IInv
  OBVIOUS
<1>1. Typed
  <2>1. 0 \in 0..MaxRows /\ 0 \in 0..0
    BY ContainersAssumption
  <2> QED BY <2>1 DEF Init, Typed, Gone, Fields
<1>2. Placed
  <2>1. \A c \in DOMAIN HelperOf : HelperOf[c] \in Proc /\ HelperOf[c] \notin Creator
    BY ContainersAssumption DEF Helper, Proc
  <2>2. \A p \in Proc : pc[p] = IF p \in Creator THEN "start" ELSE "idle"
    BY DEF Init
  <2> QED BY <2>1, <2>2 DEF Placed, OnRow
<1>3. OrphansInv
  BY DEF Init, OrphansInv, In, Gone
<1> QED BY <1>1, <1>2, <1>3 DEF IInv

LEMMA IInvStep == IInv /\ [Next]_vars => RowsAge /\ IInv'
<1> SUFFICES ASSUME IInv, [Next]_vars PROVE RowsAge /\ IInv'
  OBVIOUS
<1> QED BY StepBuild, StepProc, StepInsert, StepMark, StepImage, StepCrash, StepGarden, StepHijackMark, StepWorkers,
           StepCollect, StepJob DEF Next, ProcStep, HijackStep

(* The container of a build that runs, and the container that fetches an   *)
(* image for one being created, are not destroyed under it, though each    *)
(* collector acts on what FindOrphanedContainers returned earlier.         *)
THEOREM OwnersKeepContainers == Spec => []OwnedContainersStay
<1>1. IInv => OwnedContainersStay
  <2> SUFFICES ASSUME IInv, NEW i \in Id, In(i, {"destroying"})
               PROVE  LET o == row[i].owner
                      IN  /\ o \in Build => build[o] # "running"
                          /\ o \in Id => row[o].state # "creating"
    BY DEF OwnedContainersStay
  <2> DEFINE o == row[i].owner
  <2>1. \/ o = NoOwner
        \/ o \in Build /\ build[o] = "cold"
        \/ o \in Id /\ row[o].state # "creating"
    BY DEF IInv, OrphansInv, Orphaned
  <2>2. \A j \in Id : j \in Nat
    BY RowIds DEF IInv
  <2>3. NoOwner \notin Build /\ NoOwner \notin Id /\ Build \cap Id = {}
    BY <2>2, ContainersAssumption
  <2> QED BY <2>1, <2>3
<1> QED BY <1>1, IInvInit, IInvStep, PTL DEF Spec

(* A row that is destroying or failed becomes nothing else but gone, and   *)
(* no id comes back: each statement of db/container.go is guarded by the   *)
(* states it may start from, so nobody's older copy of the row matters.    *)
THEOREM EndsStay == Spec => EndsAreFinal
<1>1. ASSUME IInv, RowsAge, NEW i \in Id
      PROVE  /\ In(i, {"destroying", "failed"}) => row'[i].state \in {row[i].state, "gone"}
             /\ ~Live(i) /\ i <= inserted => row'[i].state = "gone"
  <2>1. inserted \in Nat /\ i \in Nat
    BY <1>1, RowIds DEF IInv
  <2>2. CASE i <= inserted
    BY <1>1, <2>2 DEF RowsAge, RowAges, In, Live
  <2>3. CASE inserted < i
    BY <1>1, <2>1, <2>3 DEF IInv, Typed, In
  <2> QED BY <2>1, <2>2, <2>3
<1>2. IInv /\ [Next]_vars =>
        [\A i \in Id : /\ In(i, {"destroying", "failed"}) => row'[i].state \in {row[i].state, "gone"}
                       /\ ~Live(i) /\ i <= inserted => row'[i].state = "gone"]_vars
  BY <1>1, IInvStep
<1> QED BY <1>2, IInvInit, IInvStep, PTL DEF Spec, EndsAreFinal

-----------------------------------------------------------------------------
(* What a step that creates nothing in Garden, and marks no row created,   *)
(* may do to containers and to those who attend to them.                   *)
Past(i) == In(i, {"creating", "failed", "gone"}) \/ Deleting(i)

GardenAges ==
  /\ garden' \subseteq garden /\ graced \subseteq graced' /\ excused \subseteq excused'
  /\ \A p \in Proc : pc[p] \in {"mark", "undo"} =>
       (pc'[p] = pc[p] /\ has'[p] = has[p]) \/ has[p] \in excused'
  /\ \A p \in Proc : pc'[p] \in {"mark", "undo"} => pc'[p] = pc[p] /\ has'[p] = has[p]
  /\ \A i \in garden' \ excused' : Past(i)' => Past(i)
  /\ \A i \in Id : In(i, {"created"})' => In(i, {"created"})
  /\ \A i \in garden \ garden' : i \in graced' \/ ~In(i, {"creating", "created"})

LEMMA GardenStep ==
  ASSUME IInv, IInv', RowsAge, GardenAges, AttendedInv, BackedInv
  PROVE  AttendedInv' /\ BackedInv'
<1>1. Rows \subseteq Id
  BY RowIds DEF IInv
<1>2. \A i \in Rows : RowAges(i)
  BY RowIds DEF IInv, RowsAge
<1>3. ASSUME NEW i \in garden' \ excused', Past(i)' PROVE Attended(i)'
  <2>1. i \in garden \ excused /\ Past(i)
    BY Zenon, <1>3 DEF GardenAges
  <2>2. PICK p \in Proc : has[p] = i /\ pc[p] \in {"mark", "undo"}
    BY SMTT(20), <2>1 DEF AttendedInv, Past, Attended
  <2>3. has'[p] = i /\ pc'[p] = pc[p]
    BY SMTT(20), <1>3, <2>2 DEF GardenAges
  <2> QED BY <2>2, <2>3 DEF Attended
<1>4. ASSUME NEW i \in Id \ (excused' \cup graced'), In(i, {"created"})' PROVE i \in garden'
  BY SMTT(20), <1>4 DEF GardenAges, BackedInv, In
<1>5. ASSUME NEW p \in Proc, pc'[p] \in {"mark", "undo"}, has'[p] \notin excused',
             row'[has'[p]].state \in {"creating", "created"}
      PROVE  pc'[p] = "mark" /\ (has'[p] \notin graced' => has'[p] \in garden')
  <2>1. pc[p] = pc'[p] /\ has[p] = has'[p] /\ has[p] \notin excused
    BY Zenon, <1>5 DEF GardenAges
  <2>2. has[p] \in Rows
    BY Zenon, <1>5, <2>1 DEF IInv, Placed, OnRow
  <2>3. In(has[p], {"creating", "created"})
    BY Zenon, <1>2, <1>5, <2>1, <2>2 DEF RowAges, In
  <2>4. pc[p] = "mark"
    BY Zenon, <1>5, <2>1, <2>3 DEF BackedInv
  <2>5. has[p] \notin graced' => has[p] \in garden
    BY Zenon, <2>1, <2>3, <2>4 DEF GardenAges, BackedInv
  <2> QED BY Zenon, <2>1, <2>3, <2>4, <2>5 DEF GardenAges
<1>6. AttendedInv'
  BY <1>3 DEF AttendedInv, Past
<1>7. \A p \in Proc : pc'[p] = "mark" /\ has'[p] \notin excused' \cup graced'
                      /\ row'[has'[p]].state \in {"creating", "created"} => has'[p] \in garden'
  BY Zenon, <1>5
<1>8. \A p \in Proc : pc'[p] = "undo" /\ has'[p] \notin excused' => row'[has'[p]].state \notin {"creating", "created"}
  BY <1>5
<1> QED BY <1>4, <1>6, <1>7, <1>8 DEF BackedInv, In

(* The same for what collectors know.                                      *)
BlindAges ==
  /\ blind \subseteq blind'
  /\ \A i \in Id : row'[i].state = "destroying" =>
       row[i].state = "destroying" /\ row'[i].discontinued = row[i].discontinued
  /\ jobs' \subseteq jobs

LEMMA BlindStep ==
  ASSUME BlindAges, BlindInv
  PROVE  BlindInv'
<1>1. \A i \in Id : In(i, {"destroying"})' /\ ~row'[i].discontinued => i \in blind'
  BY DEF BlindAges, BlindInv, In
<1>2. \A j \in jobs' : j.at = "mark" \/ (j.at = "destroy" /\ ~j.left) => j.id \in blind'
  BY DEF BlindAges, BlindInv
<1> QED BY <1>1, <1>2 DEF BlindInv

(* Rows and jobs as they were: a step of a process that is not about to    *)
(* mark its row, or of somebody else.                                      *)
LEMMA GardenProc ==
  ASSUME IInv, IInv', RowsAge, GInv, NEW p \in Proc,
         Choose(p) \/ Find(p) \/ Reuse(p) \/ AcquireLock(p) \/ Fetch(p) \/ ImageFetched(p)
  PROVE  GInv'
<1> USE DEF Choose, Find, Reuse, AcquireLock, Fetch, ImageFetched
<1>1. /\ row' = row /\ jobs' = jobs /\ garden' = garden /\ graced' = graced /\ excused' = excused /\ blind' = blind
      /\ pc[p] \notin {"mark", "undo"}
  BY Zenon DEF dbVars, gcVars, gardenVars, ghosts
<1>2. DOMAIN pc = Proc /\ DOMAIN has = Proc
  BY Zenon DEF IInv, Typed
<1>3. \A q \in Proc : pc[q] \in {"mark", "undo"} \/ pc'[q] \in {"mark", "undo"} => pc'[q] = pc[q] /\ has'[q] = has[q]
  <2>1. CASE Choose(p) \/ Find(p) \/ Reuse(p) \/ AcquireLock(p)
    BY Zenon, <1>2, <2>1 DEF Leave
  <2>2. CASE Fetch(p) \/ ImageFetched(p)
    <3>1. p \in DOMAIN HelperOf
      BY Zenon, <2>2 DEF IInv, Placed
    <3>2. pc[HelperOf[p]] \in {"idle", "done"} /\ HelperOf[p] \in Proc
      BY Zenon, <2>2, <3>1 DEF IInv, Placed, Proc, Helper
    <3> QED BY Zenon, <1>2, <2>2, <3>2
  <2> QED BY Zenon, <2>1, <2>2
<1>4. GardenAges
  BY Zenon, <1>1, <1>3 DEF GardenAges, In, Past, Deleting
<1>5. BlindAges
  BY Zenon, <1>1 DEF BlindAges
<1> QED BY <1>4, <1>5, GardenStep, BlindStep DEF GInv

LEMMA GardenStill ==
  ASSUME IInv, IInv', RowsAge, GInv,
         \/ \E b \in Build : BuildCompletes(b) \/ MarkNonInterceptible(b)
         \/ \E i \in Id : LockLost(i) \/ GardenReaps(i)
         \/ \E a \in Atc : SyncWorkers(a) \/ CollectorCrash(a)
         \/ \E j \in jobs : JobFails(j)
         \/ \E h \in Hijacker : HijackRun(h) \/ HijackClose(h)
         \/ \E w \in Worker : Heartbeat(w)
         \/ UNCHANGED vars
  PROVE  GInv'
<1>1. /\ row' = row /\ jobs' \subseteq jobs /\ garden' \subseteq garden /\ graced' = graced /\ excused' = excused
      /\ blind' = blind /\ pc' = pc /\ has' = has /\ garden \ garden' \subseteq graced
  BY Zenon DEF BuildCompletes, MarkNonInterceptible, LockLost, GardenReaps, SyncWorkers, CollectorCrash, JobFails, End,
     HijackRun, HijackClose, Heartbeat, KeepContainers, vars, dbVars, gardenVars, procVars, gcVars, ghosts
<1>2. GardenAges
  BY Zenon, <1>1 DEF GardenAges, In, Past, Deleting
<1>3. BlindAges
  BY Zenon, <1>1 DEF BlindAges
<1> QED BY <1>2, <1>3, GardenStep, BlindStep DEF GInv

(* Rows that lose their owner, are marked, or go with their worker.        *)
LEMMA GardenRows ==
  ASSUME IInv, IInv', RowsAge, GInv,
         \/ \E b \in Build : BuildDeleted(b)
         \/ \E h \in Hijacker : HijackMark(h)
         \/ \E w \in Worker : WorkerMoves(w)
         \/ CollectWorkers
  PROVE  GInv'
<1>1. /\ jobs' = jobs /\ garden' = garden /\ graced' = graced /\ excused \subseteq excused'
      /\ blind' = blind /\ pc' = pc /\ has' = has
  BY Zenon DEF BuildDeleted, HijackMark, WorkerMoves, CollectWorkers, KeepContainers, Cascade, dbVars, gardenVars, procVars,
     gcVars, ghosts
<1>2. \A i \in Id : \/ row'[i].state = row[i].state /\ row'[i].discontinued = row[i].discontinued
                    \/ row'[i].state = "gone" /\ i \in excused'
  <2>1. CASE row' = row
    BY <2>1
  <2>2. CASE \E ws : DeleteRows(On(ws)) /\ excused' = excused \cup On(ws)
    <3>1. PICK ids : DeleteRows(ids) /\ excused' = excused \cup ids
      BY <2>2
    <3> QED BY Zenon, <3>1, Deleted DEF IInv
  <2>3. CASE \E b \in Build : BuildDeleted(b)
    BY <2>3 DEF BuildDeleted, IInv, Typed, Fields
  <2>4. CASE \E i : row' = [row EXCEPT ![i].hijacked = TRUE]
    BY <2>4 DEF IInv, Typed, Fields
  <2>5. CASE \E h \in Hijacker : HijackMark(h)
    BY <2>1, <2>4, <2>5 DEF HijackMark
  <2>6. CASE (\E w \in Worker : WorkerMoves(w)) \/ CollectWorkers
    BY Zenon, <2>1, <2>2, <2>6 DEF WorkerMoves, CollectWorkers, KeepContainers, Cascade, dbVars
  <2> QED BY <2>3, <2>5, <2>6
<1>3. garden \subseteq Id
  BY RowIds DEF IInv
<1>4. GardenAges
  BY Zenon, <1>1, <1>2, <1>3 DEF GardenAges, In, Past, Deleting
<1>5. BlindAges
  BY Zenon, <1>1, <1>2 DEF BlindAges
<1> QED BY <1>4, <1>5, GardenStep, BlindStep DEF GInv

LEMMA GardenInsert ==
  ASSUME IInv, IInv', RowsAge, GInv, NEW p \in Proc, Insert(p)
  PROVE  GInv'
<1>1. /\ build' = build /\ jobs' = jobs /\ garden' = garden /\ graced' = graced /\ excused' = excused
      /\ blind' = blind /\ pc[p] = "insert" /\ DOMAIN pc = Proc /\ DOMAIN has = Proc
  BY DEF Insert, gardenVars, gcVars, ghosts, IInv, Typed
<1>2. \A q \in Proc : pc[q] \in {"mark", "undo"} \/ pc'[q] \in {"mark", "undo"} => pc'[q] = pc[q] /\ has'[q] = has[q]
  BY <1>1 DEF Insert, Leave
<1>3. \A i \in Id : row'[i] = row[i] \/ (row'[i].state = "creating" /\ i \notin garden)
  <2>1. CASE row' = row
    BY <2>1
  <2>2. CASE /\ inserted < MaxRows /\ inserted' = inserted + 1
             /\ row' = [row EXCEPT ![inserted + 1] =
                          [Gone EXCEPT !.state = "creating", !.owner = OwnerOf(p), !.worker = on[p]]]
    <3>1. /\ \A k \in Id : k # inserted + 1 => row'[k] = row[k]
          /\ row'[inserted + 1].state = "creating"
      BY Zenon, <1>1, <2>2, InsertAges DEF IInv
    <3>2. inserted + 1 \notin garden
      BY RowIds DEF IInv
    <3> QED BY Zenon, <3>1, <3>2
  <2> QED BY <2>1, <2>2 DEF Insert
<1>4. garden \subseteq Id
  BY RowIds DEF IInv
<1>5. GardenAges
  BY Zenon, <1>1, <1>2, <1>3, <1>4 DEF GardenAges, In, Past, Deleting
<1>6. BlindAges
  BY <1>1, <1>3 DEF BlindAges
<1> QED BY <1>5, <1>6, GardenStep, BlindStep DEF GInv

LEMMA FailedRow ==
  ASSUME Typed, NEW i \in Rows, Failed(i)
  PROVE  \A k \in Id : /\ row'[k].discontinued = row[k].discontinued
                       /\ row'[k].state = row[k].state \/ (row[k].state \in {"creating", "failed"} /\ row'[k].state = "failed")
<1>1. i \in Id
  BY RowIds
<1> QED BY <1>1, Updated DEF Failed, MayFail, In

LEMMA GardenFailed ==
  ASSUME IInv, IInv', RowsAge, GInv, NEW p \in Proc, ImageFailed(p) \/ CreateRefused(p)
  PROVE  GInv'
<1> USE DEF ImageFailed, CreateRefused
<1>1. /\ jobs' = jobs /\ garden' = garden /\ graced' = graced /\ excused' = excused
      /\ blind' = blind /\ pc[p] \in {"image", "create"} /\ DOMAIN pc = Proc /\ DOMAIN has = Proc
      /\ has[p] \in Rows /\ Failed(has[p])
  BY Zenon DEF gardenVars, gcVars, ghosts, IInv, Typed, Placed, OnRow
<1>2. \A q \in Proc : pc[q] \in {"mark", "undo"} \/ pc'[q] \in {"mark", "undo"} => pc'[q] = pc[q] /\ has'[q] = has[q]
  <2>1. CASE CreateRefused(p)
    BY <1>1, <2>1 DEF Leave
  <2>2. CASE ImageFailed(p)
    <3>1. p \in DOMAIN HelperOf
      BY <2>2 DEF IInv, Placed
    <3>2. pc[HelperOf[p]] = "failed" /\ HelperOf[p] \in Proc
      BY Zenon, <2>2, <3>1 DEF Proc, Helper
    <3> QED BY <1>1, <2>2, <3>2
  <2> QED BY <2>1, <2>2
<1>3. \A k \in Id : /\ row'[k].discontinued = row[k].discontinued
                    /\ row'[k].state = row[k].state \/ (row[k].state \in {"creating", "failed"} /\ row'[k].state = "failed")
  BY Zenon, <1>1, FailedRow DEF IInv
<1>4. garden \subseteq Id
  BY RowIds DEF IInv
<1>5. GardenAges
  BY Zenon, <1>1, <1>2, <1>3, <1>4 DEF GardenAges, In, Past, Deleting
<1>6. BlindAges
  BY Zenon, <1>1, <1>3 DEF BlindAges
<1> QED BY <1>5, <1>6, GardenStep, BlindStep DEF GInv

LEMMA GardenCrash ==
  ASSUME IInv, IInv', RowsAge, GInv, NEW p \in Proc, Crash(p)
  PROVE  GInv'
<1>1. /\ row' = row /\ jobs' = jobs /\ garden' = garden /\ graced' = graced /\ excused \subseteq excused' /\ blind' = blind
  BY Zenon DEF Crash, dbVars, gcVars, gardenVars
<1> DEFINE q == IF p \in DOMAIN HelperOf THEN {p, HelperOf[p]} ELSE {p}
<1>2. /\ \A x \in Proc : x \in q => pc'[x] \in {"start", "idle"} /\ (pc[x] \in {"mark", "undo"} => has[x] \in excused')
      /\ \A x \in Proc : x \notin q => pc'[x] = pc[x] /\ has'[x] = has[x]
  BY Zenon DEF Crash
<1> HIDE DEF q
<1>3. GardenAges
  BY Zenon, <1>1, <1>2 DEF GardenAges, In, Past, Deleting
<1>4. BlindAges
  BY <1>1 DEF BlindAges
<1> QED BY <1>3, <1>4, GardenStep, BlindStep DEF GInv

(* A process finds its container in Garden, makes it, marks its row or     *)
(* destroys it: nothing else changes but its own row and container.        *)
Focus(p, h) ==
  /\ jobs' = jobs /\ graced' = graced /\ blind' = blind /\ excused \subseteq excused'
  /\ DOMAIN pc' = Proc /\ \A q \in Proc \ {p} : pc'[q] = pc[q] /\ has'[q] = has[q]
  /\ \A i \in Id \ {h} : row'[i].state = row[i].state
  /\ \A i \in Id : row'[i].discontinued = row[i].discontinued
  /\ row'[h].state = "destroying" => row[h].state = "destroying"
  /\ \A i \in Rows \ {h} : i \in garden' <=> i \in garden

LEMMA Focused ==
  ASSUME IInv, IInv', GInv, NEW p \in Proc, NEW h \in Rows, h = has[p], Focus(p, h), Rows' = Rows,
         has'[p] = h \/ pc'[p] \notin {"mark", "undo"},
         h \in garden' \ excused' /\ Past(h)' => Attended(h)',
         h \notin excused' \cup graced /\ In(h, {"created"})' => h \in garden',
         \A q \in Proc : pc'[q] = "mark" /\ has'[q] = h /\ h \notin excused' \cup graced
                         /\ In(h, {"creating", "created"})' => h \in garden',
         \A q \in Proc : pc'[q] = "undo" /\ has'[q] = h /\ h \notin excused' => ~In(h, {"creating", "created"})'
  PROVE  GInv'
<1>1. Rows \subseteq Id /\ garden \subseteq Rows /\ garden' \subseteq Rows
  BY Zenon, RowIds DEF IInv, Typed, Rows
<1>2. AttendedInv'
  <2> SUFFICES ASSUME NEW i \in garden' \ excused', Past(i)', i # h PROVE Attended(i)'
    BY Zenon DEF AttendedInv, Past
  <2>1. i \in garden \ excused /\ Past(i)
    BY Zenon, <1>1 DEF Focus, Past, Deleting, In
  <2>2. PICK q \in Proc : has[q] = i /\ pc[q] \in {"mark", "undo"}
    BY Zenon, <2>1 DEF GInv, AttendedInv, Past, Attended
  <2> QED BY Zenon, <2>2 DEF Focus, Attended
<1>3. \A i \in Id \ (excused' \cup graced') : In(i, {"created"})' => i \in garden'
  <2> SUFFICES ASSUME NEW i \in Id \ (excused' \cup graced'), In(i, {"created"})', i # h PROVE i \in garden'
    BY Zenon DEF Focus
  <2>1. In(i, {"created"}) /\ i \notin excused \cup graced
    BY Zenon DEF Focus, In
  <2> QED BY Zenon, <1>1, <2>1 DEF Focus, GInv, BackedInv
<1>4. ASSUME NEW q \in Proc, pc'[q] \in {"mark", "undo"}, has'[q] # h, has'[q] \notin excused',
             row'[has'[q]].state \in {"creating", "created"}
      PROVE  pc'[q] = "mark" /\ (has'[q] \notin graced => has'[q] \in garden')
  <2>1. q # p /\ pc'[q] = pc[q] /\ has'[q] = has[q] /\ has[q] \notin excused
    BY Zenon, <1>4 DEF Focus
  <2>2. has[q] \in Rows
    BY Zenon, <1>4, <2>1 DEF IInv, Placed, OnRow
  <2>3. In(has[q], {"creating", "created"})
    BY Zenon, <1>1, <1>4, <2>1, <2>2 DEF Focus, In
  <2> QED BY Zenon, <1>1, <1>4, <2>1, <2>2, <2>3 DEF Focus, GInv, BackedInv
<1>5. \A q \in Proc : pc'[q] = "mark" /\ has'[q] \notin excused' \cup graced'
                      /\ row'[has'[q]].state \in {"creating", "created"} => has'[q] \in garden'
  BY Zenon, <1>4 DEF Focus, In
<1>6. \A q \in Proc : pc'[q] = "undo" /\ has'[q] \notin excused' => row'[has'[q]].state \notin {"creating", "created"}
  BY Zenon, <1>4 DEF Focus, In
<1>7. BlindAges
  BY Zenon, <1>1 DEF Focus, BlindAges
<1> QED BY Zenon, <1>2, <1>3, <1>5, <1>6, <1>7, BlindStep DEF GInv, BackedInv, In

LEMMA GardenMark ==
  ASSUME IInv, IInv', RowsAge, GInv, NEW p \in Proc,
         Lookup(p) \/ CreateInGarden(p) \/ CreateFails(p) \/ MarkCreated(p) \/ MarkFails(p) \/ Undo(p)
  PROVE  GInv'
<1>0. PICK h : h = has[p]
  OBVIOUS
<1>1. /\ jobs' = jobs /\ graced' = graced /\ blind' = blind /\ excused \subseteq excused' /\ inserted' = inserted
      /\ pc[p] \in {"lookup", "create", "mark", "undo"}
  BY Zenon DEF Lookup, CreateInGarden, CreateFails, MarkCreated, MarkFails, Undo, dbVars, gardenVars, gcVars, ghosts
<1>2. /\ DOMAIN pc = Proc /\ DOMAIN has = Proc /\ h \in Rows /\ Rows' = Rows /\ h \in Id /\ Rows \subseteq Id
  BY Zenon, <1>0, <1>1, RowIds DEF IInv, Typed, Placed, OnRow, Rows
<1>3. /\ \A q \in Proc \ {p} : pc'[q] = pc[q] /\ has'[q] = has[q]
      /\ has'[p] = h \/ pc'[p] \notin {"mark", "undo"}
      /\ DOMAIN pc' = Proc
  BY Zenon, <1>0, <1>2 DEF Lookup, CreateInGarden, CreateFails, MarkCreated, MarkFails, Undo, Leave
<1>4. \/ \A i \in Id : row'[i].state = row[i].state /\ row'[i].discontinued = row[i].discontinued
      \/ /\ \A i \in Id \ {h} : row'[i].state = row[i].state
         /\ \A i \in Id : row'[i].discontinued = row[i].discontinued
         /\ \/ pc[p] = "create" /\ row[h].state \in {"creating", "failed"} /\ row'[h].state = "failed"
            \/ pc[p] = "mark" /\ row[h].state \in {"creating", "created"} /\ row'[h].state = "created"
  <2>1. CASE row' = row
    BY Zenon, <2>1
  <2>2. CASE MayBeCreated(h) /\ SetState(h, "created") /\ pc[p] = "mark"
    BY Zenon, <1>2, <2>2, Updated DEF IInv, MayBeCreated, In
  <2>3. CASE Failed(h) /\ pc[p] = "create"
    BY Zenon, <1>2, <2>1, <2>3, Updated DEF IInv, Failed, MayFail, In
  <2> QED BY Zenon, <1>0, <2>1, <2>2, <2>3 DEF Lookup, CreateInGarden, CreateFails, MarkCreated, MarkFails, Undo, dbVars
<1>5. \A i \in Rows \ {h} : i \in garden' <=> i \in garden
  BY Zenon, <1>0 DEF Lookup, CreateInGarden, CreateFails, MarkCreated, MarkFails, Undo, gardenVars
<1>6. Focus(p, h)
  BY Zenon, <1>1, <1>2, <1>3, <1>4, <1>5 DEF Focus
(* What happens to the container and to p, but for faults.                 *)
<1>7. \/ h \in excused'
      \/ h \in garden' /\ row' = row /\ pc'[p] = "mark" /\ has'[p] = h
      \/ h \notin garden /\ garden' = garden /\ row' = row /\ pc[p] = "lookup" /\ pc'[p] = "lock"
      \/ /\ garden' = garden /\ pc[p] = "mark" /\ pc'[p] = "done"
         /\ row[h].state \in {"creating", "created"} /\ SetState(h, "created")
      \/ /\ garden' = garden /\ row' = row /\ pc'[p] = "undo" /\ has'[p] = h
         /\ row[h].state \notin {"creating", "created"}
      \/ h \notin garden' /\ row' = row /\ pc[p] = "undo" /\ pc'[p] = "failed"
  <2>1. CASE Lookup(p)
    BY Zenon, <1>0, <1>2, <2>1 DEF Lookup, gardenVars, dbVars
  <2>2. CASE CreateInGarden(p)
    BY Zenon, <1>0, <1>2, <2>2 DEF CreateInGarden, dbVars
  <2>3. CASE CreateFails(p) \/ MarkFails(p)
    BY Zenon, <1>0, <2>3 DEF CreateFails, MarkFails
  <2>4. CASE MarkCreated(p)
    BY Zenon, <1>0, <1>2, <2>4 DEF MarkCreated, MayBeCreated, In, Leave, gardenVars
  <2>5. CASE Undo(p)
    BY Zenon, <1>0, <1>2, <2>5 DEF Undo, Leave, dbVars
  <2> QED BY Zenon, <2>1, <2>2, <2>3, <2>4, <2>5
<1>8. \A q \in Proc : pc[q] = "undo" /\ has[q] = h /\ h \notin excused => row[h].state \notin {"creating", "created"}
  BY Zenon DEF GInv, BackedInv, In
<1>9. \A q \in Proc : pc[q] = "mark" /\ has[q] = h /\ h \notin excused \cup graced /\ row[h].state \in {"creating", "created"}
                        => h \in garden
  BY Zenon DEF GInv, BackedInv, In
<1>10. h \notin excused \cup graced /\ row[h].state = "created" => h \in garden
  BY Zenon, <1>2 DEF GInv, BackedInv, In
<1>11. h \in garden \ excused /\ Past(h) => Attended(h)
  BY DEF GInv, AttendedInv, Past
(* What is to be shown of h.                                               *)
<1> DEFINE Goal ==
             /\ h \in garden' \ excused' /\ Past(h)' => Attended(h)'
             /\ h \notin excused' \cup graced /\ In(h, {"created"})' => h \in garden'
             /\ \A q \in Proc : pc'[q] = "mark" /\ has'[q] = h /\ h \notin excused' \cup graced
                                /\ In(h, {"creating", "created"})' => h \in garden'
             /\ \A q \in Proc : pc'[q] = "undo" /\ has'[q] = h /\ h \notin excused' => ~In(h, {"creating", "created"})'
<1>13. ASSUME h \in excused'
       PROVE  Goal
  BY Zenon, <1>13
<1>14. ASSUME h \notin excused' /\ h \in garden' /\ row' = row /\ pc'[p] = "mark" /\ has'[p] = h
       PROVE  Goal
  BY Zenon, <1>1, <1>3, <1>8, <1>14 DEF Attended, In
<1>15. ASSUME h \notin excused' /\ h \notin garden /\ garden' = garden /\ row' = row /\ pc[p] = "lookup" /\ pc'[p] = "lock"
       PROVE  Goal
  BY Zenon, <1>1, <1>3, <1>8, <1>9, <1>10, <1>15 DEF In
<1>16. ASSUME /\ h \notin excused' /\ garden' = garden /\ pc[p] = "mark" /\ pc'[p] = "done"
            /\ row[h].state \in {"creating", "created"} /\ SetState(h, "created")
       PROVE  Goal
  <2>1. row'[h].state = "created"
    BY Zenon, <1>2, <1>16, Updated DEF IInv
  <2>2. ~Deleting(h)'
    BY Zenon, <2>1 DEF IInv, OrphansInv, Deleting, In
  <2>3. ~Past(h)'
    BY Zenon, <2>1, <2>2 DEF Past, In
  <2>4. h \notin graced => h \in garden
    BY Zenon, <1>1, <1>9, <1>0, <1>16
  <2>5. \A q \in Proc : ~(pc'[q] = "undo" /\ has'[q] = h)
    BY Zenon, <1>1, <1>3, <1>8, <1>16
  <2> QED BY Zenon, <1>16, <2>3, <2>4, <2>5
<1>17. ASSUME /\ h \notin excused' /\ garden' = garden /\ row' = row /\ pc'[p] = "undo" /\ has'[p] = h
            /\ row[h].state \notin {"creating", "created"}
       PROVE  Goal
  BY Zenon, <1>1, <1>17 DEF Attended, In
<1>18. ASSUME h \notin excused' /\ h \notin garden' /\ row' = row /\ pc[p] = "undo" /\ pc'[p] = "failed"
       PROVE  Goal
  BY <1>1, <1>8, <1>0, <1>18 DEF In
<1>19. Goal
  BY Zenon, <1>7, <1>13, <1>14, <1>15, <1>16, <1>17, <1>18
<1> QED BY Zenon, <1>2, <1>3, <1>6, <1>0, <1>19, Focused

LEMMA GardenCollect ==
  ASSUME IInv, IInv', RowsAge, GInv, NEW a \in Atc, Collect(a)
  PROVE  GInv'
<1>1. /\ garden' = garden /\ graced' = graced /\ excused' = excused /\ pc' = pc /\ has' = has
      /\ blind \subseteq blind' /\ jobs \subseteq jobs'
      /\ DeleteRows({i \in Id : In(i, {"failed"})})
  BY Zenon DEF Collect, gardenVars, procVars
<1>2. \A i \in Id : \/ row'[i].state = row[i].state /\ row'[i].discontinued = row[i].discontinued
                    \/ row[i].state = "failed" /\ row'[i].state = "gone"
  <2> DEFINE ids == {i \in Id : In(i, {"failed"})}
  <2>1. \A i \in ids : row[i].state = "failed"
    BY DEF In
  <2>2. DeleteRows(ids)
    BY <1>1
  <2> HIDE DEF ids
  <2> QED BY Zenon, <2>1, <2>2, Deleted DEF IInv
<1>3. ASSUME NEW j \in jobs' \ jobs
      PROVE  j.at # "delete" /\ (j.at = "mark" \/ (j.at = "destroy" /\ ~j.left) => j.id \in blind')
  <2>1. PICK ids \in SUBSET {i \in Id : \E w \in Worker : i \in Candidates(a, w, "created") \cup Candidates(a, w, "destroying")} :
          /\ jobs' = jobs \cup {[atc |-> a, id |-> i, worker |-> row[i].worker, left |-> row[i].discontinued,
                                 at |-> IF ~In(i, {"created"}) THEN "destroy"
                                        ELSE IF row[i].hijacked THEN "look" ELSE "mark"] : i \in ids}
          /\ blind' = blind \cup {i \in ids : In(i, {"created"}) /\ ~row[i].hijacked}
    BY Zenon DEF Collect
  <2>2. PICK i \in ids :
          j = [atc |-> a, id |-> i, worker |-> row[i].worker, left |-> row[i].discontinued,
               at |-> IF ~In(i, {"created"}) THEN "destroy" ELSE IF row[i].hijacked THEN "look" ELSE "mark"]
    BY Zenon, <1>3, <2>1
  <2>3. /\ j.id = i /\ j.left = row[i].discontinued
        /\ j.at = IF ~In(i, {"created"}) THEN "destroy" ELSE IF row[i].hijacked THEN "look" ELSE "mark"
    BY <2>2
  <2>4. i \in Id /\ (In(i, {"created"}) \/ In(i, {"destroying"}))
    BY Zenon, <2>1 DEF Candidates
  <2>5. CASE In(i, {"created"})
    BY Zenon, <2>1, <2>3, <2>5
  <2>6. CASE ~In(i, {"created"})
    <3>1. ~row[i].discontinued => i \in blind
      BY Zenon, <2>4, <2>6 DEF GInv, BlindInv
    <3> QED BY Zenon, <2>1, <2>3, <2>6, <3>1
  <2> QED BY <2>5, <2>6
<1>4. garden \subseteq Id
  BY RowIds DEF IInv
<1>5. \A i : Deleting(i)' => Deleting(i)
  BY <1>3 DEF Deleting
<1>6. GardenAges
  BY Zenon, <1>1, <1>2, <1>4, <1>5 DEF GardenAges, In, Past
<1>7. BlindInv'
  <2>1. \A i \in Id : In(i, {"destroying"})' /\ ~row'[i].discontinued => i \in blind'
    BY <1>1, <1>2 DEF GInv, BlindInv, In
  <2>2. \A j \in jobs' : j.at = "mark" \/ (j.at = "destroy" /\ ~j.left) => j.id \in blind'
    BY <1>1, <1>3 DEF GInv, BlindInv
  <2> QED BY <2>1, <2>2 DEF BlindInv
<1> QED BY <1>6, <1>7, GardenStep DEF GInv

LEMMA GardenJob ==
  ASSUME IInv, IInv', RowsAge, GInv, NEW j \in jobs, JobStep(j)
  PROVE  GInv'
<1> USE DEF JobStep, JobLook, JobDiscontinue, JobMark, JobDestroy, JobDelete
<1> DEFINE i == j.id
<1>1. /\ garden' \subseteq garden /\ graced \subseteq graced' /\ excused' = excused /\ pc' = pc /\ has' = has
      /\ blind \subseteq blind'
  BY DEF gardenVars, procVars, ghosts
<1>2. /\ DOMAIN j = JobFields /\ i \in Rows /\ i \in Id /\ garden \subseteq Id
      /\ j.at \in {"destroy", "delete"} => In(i, {"destroying", "gone"})
      /\ j.at = "mark" \/ (j.at = "destroy" /\ ~j.left) => i \in blind
  BY RowIds DEF IInv, Typed, OrphansInv, GInv, BlindInv
<1>3. \/ \A k \in Id : row'[k].state = row[k].state /\ row'[k].discontinued = row[k].discontinued
      \/ /\ MayBeDestroying(i) /\ row'[i].state = "destroying"
         /\ \A k \in Id \ {i} : row'[k].state = row[k].state /\ row'[k].discontinued = row[k].discontinued
         /\ i \in blind \/ row'[i].discontinued = TRUE
      \/ /\ j.at = "delete" /\ row'[i].state = "gone"
         /\ \A k \in Id \ {i} : row'[k].state = row[k].state /\ row'[k].discontinued = row[k].discontinued
  <2>1. CASE row' = row
    BY <2>1
  <2>2. CASE j.at = "mark" /\ MayBeDestroying(i) /\ SetState(i, "destroying")
    BY <1>2, <2>2, Updated DEF IInv
  <2>3. CASE MayBeDestroying(i) /\ row' = [row EXCEPT ![i].state = "destroying", ![i].discontinued = TRUE]
    <3>1. DOMAIN row = Id /\ DOMAIN row[i] = Fields
      BY <1>2 DEF IInv, Typed
    <3>2. row'[i].state = "destroying" /\ row'[i].discontinued = TRUE
      BY <1>2, <2>3, <3>1 DEF Fields
    <3>3. \A k \in Id \ {i} : row'[k] = row[k]
      BY <2>3, <3>1
    <3> QED BY Zenon, <2>3, <3>2, <3>3
  <2>4. CASE j.at = "delete" /\ DeleteRows({i})
    <3> DEFINE ids == {i}
    <3>1. DeleteRows(ids) /\ i \in ids /\ \A k \in ids : k = i
      BY <2>4
    <3> HIDE DEF ids
    <3> QED BY <1>2, <2>4, <3>1, Deleted DEF IInv
  <2> QED BY Zenon, <2>1, <2>2, <2>3, <2>4 DEF dbVars
<1>4. \A k \in garden \ garden' : k = i /\ j.at = "destroy"
  BY DEF gardenVars
<1>5. ASSUME NEW k \in jobs' \ jobs
      PROVE  /\ k.id = i
             /\ k.at = "delete" => i \notin garden'
             /\ k.at = "mark" \/ (k.at = "destroy" /\ ~k.left) => i \in blind'
  <2>1. CASE j.at \in {"look", "destroy"} /\ \E t : k = [j EXCEPT !.at = t]
    <3>1. PICK t : k = [j EXCEPT !.at = t]
      BY Zenon, <2>1
    <3>2. k.id = i /\ k.at = t
      BY <1>2, <3>1 DEF JobFields
    <3>3. CASE j.at = "look"
      <4>1. t \in {"discontinue", "mark"} /\ (t = "mark" => i \in blind')
        BY <1>2, <1>5, <3>2, <3>3 DEF Step, JobFields
      <4> QED BY <3>2, <4>1
    <3>4. CASE j.at = "destroy"
      <4>1. t = "delete" /\ garden' = garden \ {i}
        BY <1>2, <1>5, <3>2, <3>4 DEF Step, End, JobFields
      <4> QED BY <3>2, <4>1
    <3> QED BY <2>1, <3>3, <3>4
  <2>2. CASE j.at = "mark" /\ \E x : k = [j EXCEPT !.at = "destroy", !.left = x]
    <3>1. k.id = i /\ k.at = "destroy"
      BY <1>2, <2>2 DEF JobFields
    <3> QED BY <1>1, <1>2, <2>2, <3>1
  <2> QED BY Zenon, <1>5, <2>1, <2>2 DEF Step, End
<1> HIDE DEF i
<1>6. \A k \in garden' : Deleting(k)' => Deleting(k)
  BY <1>5 DEF Deleting
<1>7. j.at = "delete" => Deleting(i)
  BY DEF Deleting, i
<1>8. GardenAges
  <2>1. \A k \in garden' \ excused' : Past(k)' => Past(k)
    <3> SUFFICES ASSUME NEW k \in garden' \ excused', Past(k)', ~Deleting(k) PROVE Past(k)
      BY DEF Past
    <3>1. k \in Id /\ row'[k].state \in {"creating", "failed", "gone"}
      BY <1>1, <1>2, <1>6 DEF Past, In
    <3>2. row'[k].state = row[k].state
      BY <1>3, <1>7, <3>1
    <3> QED BY <3>1, <3>2 DEF Past, In
  <2>2. \A k \in Id : In(k, {"created"})' => In(k, {"created"})
    BY <1>3 DEF In
  <2>3. \A k \in garden \ garden' : ~In(k, {"creating", "created"})
    BY <1>2, <1>4 DEF In
  <2> QED BY <1>1, <2>1, <2>2, <2>3 DEF GardenAges
<1>9. BlindInv'
  <2>1. \A k \in Id : In(k, {"destroying"})' /\ ~row'[k].discontinued => k \in blind'
    <3> SUFFICES ASSUME NEW k \in Id, row'[k].state = "destroying", ~row'[k].discontinued PROVE k \in blind
      BY <1>1 DEF In
    <3>1. CASE row'[k].state = row[k].state /\ row'[k].discontinued = row[k].discontinued
      BY <3>1 DEF GInv, BlindInv, In
    <3> QED BY <1>3, <3>1
  <2>2. \A k \in jobs' : k.at = "mark" \/ (k.at = "destroy" /\ ~k.left) => k.id \in blind'
    BY <1>1, <1>5 DEF GInv, BlindInv
  <2> QED BY <2>1, <2>2 DEF BlindInv
<1> QED BY <1>8, <1>9, GardenStep DEF GInv

LEMMA GInvInit == Init => GInv
<1> SUFFICES ASSUME Init PROVE GInv
  OBVIOUS
<1>1. \A p \in Proc : pc[p] \in {"start", "idle"}
  BY DEF Init
<1>2. garden = {} /\ jobs = {} /\ \A i \in Id : row[i].state = "gone"
  BY SMTT(20) DEF Init, Gone
<1> QED BY <1>1, <1>2 DEF GInv, AttendedInv, BackedInv, BlindInv, In

LEMMA GInvStep == IInv /\ GInv /\ [Next]_vars => GInv'
<1> SUFFICES ASSUME IInv, GInv, [Next]_vars PROVE GInv'
  OBVIOUS
<1>1. RowsAge /\ IInv'
  BY IInvStep
<1> QED BY <1>1, GardenProc, GardenStill, GardenRows, GardenInsert, GardenFailed, GardenCrash, GardenMark,
           GardenCollect, GardenJob DEF Next, ProcStep, HijackStep

LEMMA Invariants == Spec => [](IInv /\ GInv)
BY IInvInit, IInvStep, GInvInit, GInvStep, PTL DEF Spec

(* Garden has no container without a row that leads to it or a process     *)
(* that is about to destroy it, and a created row has its container, among *)
(* any number of processes that create, adopt, undo and destroy the same   *)
(* one (findOrCreateContainer, containercollector.go), but for the ids     *)
(* that a fault hit.                                                       *)
THEOREM GardenMatches == Spec => []RowsMatchGarden
<1>1. ASSUME IInv, GInv, NEW i \in Id \ excused
      PROVE  /\ i \in garden => Live(i) \/ \E p \in Proc : has[p] = i /\ pc[p] \in {"mark", "undo"}
             /\ In(i, {"created"}) /\ i \notin graced => i \in garden
  BY Zenon, <1>1 DEF GInv, AttendedInv, BackedInv, Attended, Live, In
<1>2. IInv /\ GInv => RowsMatchGarden
  BY Zenon, <1>1 DEF RowsMatchGarden
<1> QED BY <1>2, Invariants, PTL

(* An open hijack session loses its container only to a collector that was *)
(* blind to it or to the process that could not mark the row created: the  *)
(* collectors that saw the session leave the container to Garden, which    *)
(* keeps it while somebody is attached (markHijackedContainerAsDestroying, *)
(* tryToDestroyContainer).                                                 *)
THEOREM SessionsStay == Spec => SessionsSurvive
<1>1. ASSUME IInv, GInv, [Next]_vars, NEW h \in Hijacker, hpc[h] = "open", hon[h] \in garden \ garden'
      PROVE  hon[h] \in blind \/ \E p \in Proc : pc[p] = "undo" /\ has[p] = hon[h]
  <2> USE <1>1
  <2>1. CASE \E p \in Proc : Undo(p)
    BY <2>1 DEF Undo
  <2>2. CASE \E j \in jobs : JobDestroy(j)
    <3>1. PICK j \in jobs : JobDestroy(j)
      BY <2>2
    <3>2. j.at = "destroy" /\ hon[h] = j.id /\ ~j.left
      BY Zenon, <3>1 DEF JobDestroy
    <3> QED BY Zenon, <3>2 DEF GInv, BlindInv
  <2>3. CASE \E i \in Id : GardenReaps(i)
    BY <2>3 DEF GardenReaps, Attached
  <2>4. CASE \E p \in Proc : ProcStep(p) \/ CreateFails(p) \/ MarkFails(p) \/ Crash(p)
    BY Zenon, <2>1, <2>4 DEF ProcStep, Choose, Find, Reuse, Lookup, Insert, AcquireLock, Fetch, ImageFetched, ImageFailed,
       CreateInGarden, CreateRefused, MarkCreated, CreateFails, MarkFails, Crash, gardenVars
  <2>5. CASE \E j \in jobs : JobStep(j) \/ JobFails(j)
    BY <2>2, <2>5 DEF JobStep, JobLook, JobDiscontinue, JobMark, JobDelete, JobFails, gardenVars
  <2>6. CASE garden' = garden
    BY <2>6
  <2>7. CASE \/ \E b \in Build : BuildCompletes(b) \/ MarkNonInterceptible(b) \/ BuildDeleted(b)
             \/ \E i \in Id : LockLost(i)
             \/ \E a \in Atc : SyncWorkers(a) \/ Collect(a) \/ CollectorCrash(a)
             \/ \E k \in Hijacker : HijackRun(k) \/ HijackStep(k)
             \/ \E w \in Worker : WorkerMoves(w) \/ Heartbeat(w)
             \/ CollectWorkers
             \/ UNCHANGED vars
    BY Zenon, <2>6, <2>7 DEF BuildCompletes, MarkNonInterceptible, BuildDeleted, LockLost, SyncWorkers, Collect, CollectorCrash,
       HijackRun, HijackStep, HijackMark, HijackClose, WorkerMoves, Heartbeat, CollectWorkers, KeepContainers, Cascade,
       vars, gardenVars
  <2> QED BY Zenon, <2>3, <2>4, <2>5, <2>7 DEF Next
<1>2. IInv /\ GInv /\ [Next]_vars =>
        [\A h \in Hijacker :
           LET i == hon[h]
           IN  hpc[h] = "open" /\ i \in garden \ garden' =>
                 i \in blind \/ \E p \in Proc : pc[p] = "undo" /\ has[p] = i]_vars
  BY <1>1
<1> QED BY <1>2, Invariants, PTL DEF Spec, SessionsSurvive
=============================================================================
