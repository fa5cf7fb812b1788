-------------------------- MODULE BuildEventsProofs --------------------------
(***************************************************************************)
(* What a client of the events of a build can rely on, for every number of *)
(* writers, events and reconnections and every size of a batch: the end    *)
(* means that it has them all, and it has them in order if transactions    *)
(* commit in the order of their event ids, which one writer does.          *)
(***************************************************************************)
EXTENDS BuildEvents, FiniteSetTheorems, SequenceTheorems, TLAPS

Typed ==
  /\ rows \in SUBSET Nat /\ IsFiniteSet(rows)
  /\ last \in Nat /\ tx \in [Writer -> Nat] /\ finish \in Nat
  /\ pc \in {"flag", "query", "push", "wait", "closed", "end"}
  /\ cursor \in Nat
  /\ todo \in Seq(Nat) /\ buffer \in Seq(Nat) /\ received \in Seq(Nat)

(* Every place of the order is taken.                                      *)
PlacesTaken == \A i \in 1..Cardinality(rows) : \E e \in rows : Place(e) = i

(* Finish waits for the open transactions, and no event follows its own.   *)
LastInv ==
  /\ finish # 0 \/ completed => \A w \in Writer : tx[w] = 0
  /\ completed => finish = 0

(* The cursor counts what is received or on its way. When a query made     *)
(* after the build was completed returns less than a batch, it counts all. *)
CursorInv ==
  /\ cursor = Len(received) + Len(buffer) + Len(todo)
  /\ pc # "push" => todo = <<>>
  /\ ended => completed
  /\ pc \in {"closed", "end"} => ended
  /\ pc = "end" => buffer = <<>>
  /\ ~reaped => /\ cursor <= Cardinality(rows)
                /\ (ended /\ (pc \in {"closed", "end"} \/ (pc = "push" /\ ~full)))
                     => cursor = Cardinality(rows)

IInv == Typed /\ PlacesTaken /\ LastInv /\ CursorInv

(* What is received or on its way has the place of its number.             *)
InPlace(seq, from) == \A i \in 1..Len(seq) : seq[i] \in rows /\ Place(seq[i]) = from + i

OrderInv ==
  ~reaped => /\ InPlace(received, 0)
             /\ InPlace(buffer, Len(received))
             /\ InPlace(todo, Len(received) + Len(buffer))

(* Transactions commit in the order in which nextval gave out their ids.   *)
Newer == \A e \in rows' \ rows : \A d \in rows : d < e
CommitsInOrder == [][Newer]_vars

(* With one writer, the id of an open transaction is the newest.           *)
NewestInv ==
  /\ \A e \in rows : e <= last
  /\ \A w \in Writer : tx[w] <= last /\ (tx[w] # 0 => \A e \in rows : e < tx[w])
  /\ finish <= last /\ (finish # 0 => \A e \in rows : e < finish)

OneWriter == \A v, w \in Writer : v = w

USE EventAssumption

-----------------------------------------------------------------------------
(* Places.                                                                 *)
LEMMA PlaceType ==
  ASSUME Typed, NEW e \in Nat
  PROVE  /\ Place(e) \in Nat /\ Cardinality(rows) \in Nat
         /\ Place(e) <= Cardinality(rows)
         /\ e \in rows => Place(e) >= 1
         /\ IsFiniteSet({d \in rows : d <= e})
<1> DEFINE U == {d \in rows : d <= e}
<1>1. IsFiniteSet(rows) /\ rows \subseteq Nat
  BY DEF Typed
<1>2. IsFiniteSet(U) /\ Cardinality(U) <= Cardinality(rows)
  BY <1>1, FS_Subset
<1>3. Cardinality(U) \in Nat /\ Cardinality(rows) \in Nat
  BY <1>1, <1>2, FS_CardinalityType
<1>4. e \in rows => e \in U
  BY <1>1
<1>5. e \in rows => Cardinality(U) # 0
  BY <1>2, <1>4, FS_EmptySet
<1> QED BY <1>2, <1>3, <1>5 DEF Place

(* Later events have later places, whether or not the earlier is a row.    *)
LEMMA PlaceGrows ==
  ASSUME Typed, NEW e \in Nat, NEW f \in rows, e < f
  PROVE  Place(e) < Place(f)
<1> DEFINE U == {d \in rows : d <= e}
           V == {d \in rows : d <= f}
<1>1. f \in Nat /\ rows \subseteq Nat
  BY DEF Typed
<1>2. IsFiniteSet(V) /\ U \subseteq V /\ f \in V /\ f \notin U
  <2>1. IsFiniteSet(V)
    BY <1>1, PlaceType
  <2>2. \A d \in rows : d <= e => d <= f
    BY <1>1
  <2>3. f <= f /\ ~(f <= e)
    BY <1>1
  <2> QED BY <2>1, <2>2, <2>3
<1>3. Cardinality(U) <= Cardinality(V) /\ Cardinality(U) # Cardinality(V)
  BY <1>2, FS_Subset
<1>4. Place(e) \in Nat /\ Place(f) \in Nat
  BY Zenon, <1>1, PlaceType
<1> QED BY <1>3, <1>4 DEF Place

LEMMA PlaceOnce ==
  ASSUME Typed, NEW e \in rows, NEW f \in rows, Place(e) = Place(f)
  PROVE  e = f
<1>1. e \in Nat /\ f \in Nat /\ Place(e) \in Nat
  BY Zenon, PlaceType DEF Typed
<1>2. ~(e < f) /\ ~(f < e)
  BY <1>1, PlaceGrows
<1> QED BY <1>1, <1>2

(* The query returns a sequence in which every event has its place.        *)
LEMMA OrderedPlaces ==
  ASSUME Typed, PlacesTaken
  PROVE  /\ Cardinality(rows) \in Nat
         /\ Ordered \in Seq(Nat) /\ Len(Ordered) = Cardinality(rows)
         /\ \A i \in 1..Cardinality(rows) : Ordered[i] \in rows /\ Place(Ordered[i]) = i
<1>1. Cardinality(rows) \in Nat
  BY FS_CardinalityType DEF Typed
<1>2. \A i \in 1..Cardinality(rows) : Ordered[i] \in rows /\ Place(Ordered[i]) = i
  BY DEF Ordered, PlacesTaken
<1>3. Ordered \in [1..Cardinality(rows) -> Nat]
  BY Zenon, <1>2 DEF Ordered, Typed
<1> QED BY <1>1, <1>2, <1>3

(* What a new row does to the places: those before it stay, it is inserted *)
(* after them, and the others move on by one.                              *)
LEMMA NewPlaces ==
  ASSUME Typed, NEW x \in Nat, x \notin rows, rows' = rows \cup {x}
  PROVE  /\ Cardinality(rows') = Cardinality(rows) + 1
         /\ IsFiniteSet(rows')
         /\ \A e \in rows : e < x => Place(e)' = Place(e)
         /\ \A e \in rows : x < e => Place(e)' = Place(e) + 1
         /\ Place(x)' = Place(x) + 1
<1>1. IsFiniteSet(rows) /\ rows \subseteq Nat
  BY DEF Typed
<1>2. Cardinality(rows') = Cardinality(rows) + 1 /\ IsFiniteSet(rows')
  BY <1>1, FS_AddElement
<1>3. ASSUME NEW e \in rows, e < x
      PROVE  Cardinality({d \in rows' : d <= e}) = Cardinality({d \in rows : d <= e})
  <2>1. {d \in rows' : d <= e} = {d \in rows : d <= e}
    BY <1>1, <1>3
  <2> QED BY <2>1
<1>4. ASSUME NEW e \in Nat, x <= e
      PROVE  Cardinality({d \in rows' : d <= e}) = Cardinality({d \in rows : d <= e}) + 1
  <2>1. {d \in rows' : d <= e} = {d \in rows : d <= e} \cup {x}
    BY <1>1, <1>4
  <2>2. IsFiniteSet({d \in rows : d <= e}) /\ x \notin {d \in rows : d <= e}
    BY PlaceType
  <2> QED BY <2>1, <2>2, FS_AddElement
<1>5. \A e \in rows : e < x => Place(e)' = Place(e)
  BY <1>3 DEF Place
<1>6. \A e \in Nat : x <= e => Place(e)' = Place(e) + 1
  BY <1>4 DEF Place
<1> QED BY <1>1, <1>2, <1>5, <1>6

LEMMA InsertedPlaces ==
  ASSUME Typed, PlacesTaken, NEW x \in Nat, rows' = rows \cup {x}
  PROVE  PlacesTaken' /\ IsFiniteSet(rows') /\ rows' \in SUBSET Nat
         /\ Cardinality(rows) <= Cardinality(rows')
<1>1. CASE x \in rows
  <2>1. rows' = rows
    BY <1>1
  <2>2. Cardinality(rows) \in Nat
    BY FS_CardinalityType DEF Typed
  <2>3. PlacesTaken'
    BY <2>1 DEF PlacesTaken, Place
  <2>4. IsFiniteSet(rows) /\ rows \in SUBSET Nat
    BY DEF Typed
  <2>5. Cardinality(rows) <= Cardinality(rows)
    BY <2>2
  <2> QED BY <2>1, <2>3, <2>4, <2>5
<1>2. CASE x \notin rows
  <2> DEFINE n == Cardinality(rows)
             p == Place(x)
  <2>1. n \in Nat /\ p \in Nat /\ p <= n /\ rows \subseteq Nat
    BY Zenon, PlaceType DEF Typed
  <2>2. /\ Cardinality(rows') = n + 1
        /\ IsFiniteSet(rows')
        /\ \A e \in rows : e < x => Place(e)' = Place(e)
        /\ \A e \in rows : x < e => Place(e)' = Place(e) + 1
        /\ Place(x)' = p + 1
    BY <1>2, NewPlaces
  <2>3. \A e \in rows : Place(e) \in Nat /\ (x < e => p < Place(e)) /\ (e < x => Place(e) <= p)
    <3>1. ASSUME NEW e \in rows, e < x
          PROVE  Place(e) <= p
      <4>3. \A d \in rows : d <= e => d <= x
        BY <2>1, <3>1
      <4>1. {d \in rows : d <= e} \subseteq {d \in rows : d <= x}
        BY <4>3
      <4>2. IsFiniteSet({d \in rows : d <= x})
        BY PlaceType
      <4> QED BY <4>1, <4>2, FS_Subset DEF Place
    <3> QED BY Zenon, <2>1, <3>1, PlaceType, PlaceGrows
  <2>4. ASSUME NEW i \in 1..(n + 1)
        PROVE  \E e \in rows' : Place(e)' = i
    <3>1. CASE i <= p
      <4>1. PICK e \in rows : Place(e) = i
        BY <2>1, <3>1 DEF PlacesTaken
      <4>2. e < x
        BY <1>2, <2>1, <2>3, <3>1, <4>1
      <4> QED BY <2>2, <4>1, <4>2
    <3>2. CASE i = p + 1
      BY <2>2, <3>2
    <3>3. CASE i > p + 1
      <4>1. PICK e \in rows : Place(e) = i - 1
        BY <2>1, <2>4, <3>3 DEF PlacesTaken
      <4>2. x < e
        BY <1>2, <2>1, <2>3, <3>3, <4>1
      <4> QED BY <2>1, <2>2, <4>1, <4>2
    <3> QED BY <2>1, <3>1, <3>2, <3>3
  <2>5. PlacesTaken'
    BY <2>2, <2>4 DEF PlacesTaken
  <2> QED BY <2>1, <2>2, <2>5
<1> QED BY <1>1, <1>2

-----------------------------------------------------------------------------
(* What the steps do to the rows: they leave them, add one before the      *)
(* build is completed, or reap them.                                       *)
Keeps == rows' = rows /\ reaped' = reaped /\ completed' = completed
Adds(x) ==
  /\ x \in Nat /\ rows' = rows \cup {x} /\ ~completed
  /\ reaped' = reaped /\ UNCHANGED <<sourceVars, received>>
Reaps == rows' = {} /\ reaped' /\ completed' = completed /\ UNCHANGED <<sourceVars, received>>

LEMMA RowsSteps ==
  ASSUME IInv, [Next]_vars
  PROVE  Keeps \/ (\E x : Adds(x)) \/ Reaps
<1>1. ASSUME NEW w \in Writer, SaveCommit(w)
      PROVE  Keeps \/ \E x : Adds(x)
  <2>1. tx[w] \in Nat /\ ~completed
    BY <1>1 DEF SaveCommit, IInv, Typed, LastInv
  <2> QED BY <1>1, <2>1 DEF SaveCommit, Keeps, Adds
<1>2. ASSUME FinishCommit
      PROVE  Adds(finish)
  BY <1>2 DEF FinishCommit, IInv, Typed, LastInv, Adds
<1>3. ASSUME Reap
      PROVE  Reaps
  BY <1>3 DEF Reap, Reaps
<1>4. ASSUME \/ \E w \in Writer : SaveEvent(w)
             \/ FinishInsert \/ FinishFails \/ MarkAsAborted \/ Tell \/ TellFails
             \/ Collect \/ NextEvent \/ NextEnd \/ Resume \/ vars' = vars
      PROVE  Keeps
  BY <1>4 DEF SaveEvent, FinishInsert, FinishFails, MarkAsAborted, Tell, TellFails, Collect,
     CollectFlag, CollectQuery, CollectPush, CollectDecide, CollectWake, NextEvent, NextEnd,
     Resume, vars, buildVars, Keeps
<1> QED BY <1>1, <1>2, <1>3, <1>4 DEF Next

(* Only the writers and Finish have to do with transactions.               *)
LEMMA WritesSteps ==
  ASSUME [Next]_vars
  PROVE  \/ \E w \in Writer : SaveEvent(w) \/ SaveCommit(w)
         \/ FinishInsert \/ FinishCommit \/ FinishFails
         \/ UNCHANGED <<last, tx, finish>> /\ UNCHANGED completed /\ rows' \subseteq rows
<1>1. ASSUME \/ MarkAsAborted \/ Tell \/ TellFails \/ Reap \/ Collect \/ NextEvent \/ NextEnd
             \/ Resume \/ vars' = vars
      PROVE  UNCHANGED <<last, tx, finish>> /\ UNCHANGED completed /\ rows' \subseteq rows
  BY <1>1 DEF MarkAsAborted, Tell, TellFails, Reap, Collect, CollectFlag, CollectQuery,
     CollectPush, CollectDecide, CollectWake, NextEvent, NextEnd, Resume, vars, buildVars
<1> QED BY <1>1 DEF Next

(* Where the source is concerned, a step is one of its own, or leaves it.  *)
LEMMA SourceSteps ==
  ASSUME [Next]_vars
  PROVE  Collect \/ NextEvent \/ NextEnd \/ Resume \/ UNCHANGED <<sourceVars, received>>
BY DEF Next, SaveEvent, SaveCommit, FinishInsert, FinishCommit, FinishFails, MarkAsAborted, Tell,
   TellFails, Reap, vars

(* A page has what follows the cursor, up to a batch.                      *)
LEMMA PageOf ==
  ASSUME Typed, PlacesTaken
  PROVE  /\ Page(cursor) \in Seq(Nat)
         /\ Cardinality(rows) \in Nat
         /\ cursor <= Cardinality(rows) =>
              /\ cursor + Len(Page(cursor)) <= Cardinality(rows)
              /\ Len(Page(cursor)) # Batch => cursor + Len(Page(cursor)) = Cardinality(rows)
              /\ InPlace(Page(cursor), cursor)
<1> DEFINE n == Cardinality(rows)
           to == IF cursor + Batch < n THEN cursor + Batch ELSE n
           m == IF to > cursor THEN to - cursor ELSE 0
<1>1. /\ n \in Nat /\ Len(Ordered) = n
      /\ \A i \in 1..n : Ordered[i] \in rows /\ Place(Ordered[i]) = i
  BY OrderedPlaces
<1>2. cursor \in Nat /\ Batch \in Nat /\ Batch > 0 /\ rows \subseteq Nat
  BY DEF Typed
<1>3. m \in Nat /\ \A i \in 1..m : cursor + i \in 1..n
  BY <1>1, <1>2
<1>4. Page(cursor) = [i \in 1..m |-> Ordered[cursor + i]]
  BY <1>1 DEF Page
<1> HIDE DEF m, to
<1>5. Page(cursor) \in [1..m -> Nat]
  BY Zenon, <1>1, <1>2, <1>3, <1>4
<1>6. Page(cursor) \in Seq(Nat) /\ Len(Page(cursor)) = m
  BY <1>3, <1>5
<1>7. \A i \in 1..m : Page(cursor)[i] \in rows /\ Place(Page(cursor)[i]) = cursor + i
  BY <1>1, <1>3, <1>4
<1>8. cursor <= n => cursor + m <= n /\ (m # Batch => cursor + m = n)
  BY <1>1, <1>2 DEF m, to
<1> QED BY <1>1, <1>6, <1>7, <1>8 DEF InPlace

-----------------------------------------------------------------------------
(* The invariant.                                                          *)
LEMMA TypedKept ==
  ASSUME IInv, [Next]_vars
  PROVE  Typed' /\ PlacesTaken'
<1> USE DEF IInv
<1>1. rows' \in SUBSET Nat /\ IsFiniteSet(rows') /\ PlacesTaken'
  <2>1. CASE Keeps
    BY Zenon, <2>1 DEF Keeps, Typed, PlacesTaken, Place
  <2>2. CASE \E x : Adds(x)
    BY <2>2, InsertedPlaces DEF Adds
  <2>3. CASE Reaps
    BY <2>3, FS_EmptySet DEF Reaps, PlacesTaken
  <2> QED BY <2>1, <2>2, <2>3, RowsSteps
<1>2. last' \in Nat /\ tx' \in [Writer -> Nat] /\ finish' \in Nat
  <2>1. CASE \E w \in Writer : SaveEvent(w) \/ SaveCommit(w)
    <3>1. last \in Nat /\ tx \in [Writer -> Nat] /\ finish \in Nat
      BY DEF Typed
    <3>2. ASSUME NEW w \in Writer, SaveEvent(w)
          PROVE  last' \in Nat /\ tx' \in [Writer -> Nat] /\ finish' \in Nat
      BY <3>1, <3>2 DEF SaveEvent
    <3>3. ASSUME NEW w \in Writer, SaveCommit(w)
          PROVE  last' \in Nat /\ tx' \in [Writer -> Nat] /\ finish' \in Nat
      BY <3>1, <3>3 DEF SaveCommit
    <3> QED BY <2>1, <3>2, <3>3
  <2>2. CASE FinishInsert \/ FinishCommit \/ FinishFails
    BY <2>2 DEF Typed, FinishInsert, FinishCommit, FinishFails
  <2>3. CASE UNCHANGED <<last, tx, finish>>
    BY <2>3 DEF Typed
  <2> QED BY <2>1, <2>2, <2>3, WritesSteps
<1>3. /\ pc' \in {"flag", "query", "push", "wait", "closed", "end"}
      /\ cursor' \in Nat
      /\ todo' \in Seq(Nat) /\ buffer' \in Seq(Nat) /\ received' \in Seq(Nat)
  <2>1. CASE CollectQuery
    <3>1. /\ todo' = Page(cursor) /\ cursor' = cursor + Len(Page(cursor)) /\ pc' = "push"
          /\ buffer' = buffer /\ received' = received
      BY <2>1 DEF CollectQuery
    <3>2. Page(cursor) \in Seq(Nat) /\ Len(Page(cursor)) \in Nat
      BY PageOf, LenProperties
    <3> QED BY <3>1, <3>2 DEF Typed
  <2>2. CASE CollectPush
    BY <2>2, HeadTailProperties DEF CollectPush, Typed
  <2>3. CASE NextEvent
    BY <2>3, HeadTailProperties DEF NextEvent, Typed
  <2>4. CASE Resume
    BY <2>4 DEF Resume, Typed
  <2>5. CASE CollectFlag \/ CollectDecide \/ CollectWake \/ NextEnd \/ UNCHANGED <<sourceVars, received>>
    BY <2>5 DEF CollectFlag, CollectDecide, CollectWake, NextEnd, sourceVars, Typed
  <2> QED BY <2>1, <2>2, <2>3, <2>4, <2>5, SourceSteps DEF Collect
<1> QED BY <1>1, <1>2, <1>3 DEF Typed

LEMMA LastKept ==
  ASSUME IInv, [Next]_vars
  PROVE  LastInv'
<1> USE DEF IInv, Typed, LastInv
<1>1. CASE \E w \in Writer : SaveEvent(w) \/ SaveCommit(w)
  BY <1>1 DEF SaveEvent, SaveCommit
<1>2. CASE FinishInsert \/ FinishCommit \/ FinishFails
  BY <1>2 DEF FinishInsert, FinishCommit, FinishFails
<1>3. CASE UNCHANGED <<last, tx, finish>> /\ UNCHANGED completed
  BY <1>3
<1> QED BY <1>1, <1>2, <1>3, WritesSteps

LEMMA CursorKept ==
  ASSUME IInv, [Next]_vars
  PROVE  CursorInv'
<1>1. /\ Typed /\ PlacesTaken /\ CursorInv
      /\ cursor \in Nat /\ Cardinality(rows) \in Nat
      /\ Len(received) \in Nat /\ Len(buffer) \in Nat /\ Len(todo) \in Nat
  BY PageOf, LenProperties DEF IInv, Typed
<1>2. CASE Collect \/ NextEvent \/ NextEnd \/ Resume
  <2>1. rows' = rows /\ reaped' = reaped /\ completed' = completed
    BY <1>2 DEF Collect, CollectFlag, CollectQuery, CollectPush, CollectDecide, CollectWake,
       NextEvent, NextEnd, Resume, buildVars
  <2>2. CASE CollectFlag
    BY <1>1, <2>1, <2>2 DEF CollectFlag, CursorInv
  <2>3. CASE CollectQuery
    <3>1. /\ todo' = Page(cursor) /\ cursor' = cursor + Len(Page(cursor)) /\ pc' = "push"
          /\ full' = (Len(Page(cursor)) = Batch)
          /\ pc = "query" /\ buffer' = buffer /\ received' = received /\ ended' = ended
      BY <2>3 DEF CollectQuery
    <3>2. /\ Len(Page(cursor)) \in Nat
          /\ cursor <= Cardinality(rows) =>
              /\ cursor + Len(Page(cursor)) <= Cardinality(rows)
              /\ Len(Page(cursor)) # Batch => cursor + Len(Page(cursor)) = Cardinality(rows)
      BY <1>1, PageOf, LenProperties
    <3>3. cursor = Len(received) + Len(buffer)
      BY <1>1, <3>1, EmptySeq DEF CursorInv
    <3> QED BY Zenon, <1>1, <2>1, <3>1, <3>2, <3>3 DEF CursorInv
  <2>4. CASE CollectPush
    <3>1. Len(Append(buffer, Head(todo))) = Len(buffer) + 1 /\ Len(Tail(todo)) = Len(todo) - 1
      BY <1>1, <2>4, HeadTailProperties DEF CollectPush, Typed
    <3> QED BY <1>1, <2>1, <2>4, <3>1 DEF CollectPush, CursorInv
  <2>5. CASE CollectDecide
    BY <1>1, <2>1, <2>5 DEF CollectDecide, CursorInv
  <2>6. CASE CollectWake \/ NextEnd
    BY <1>1, <2>1, <2>6 DEF CollectWake, NextEnd, CursorInv
  <2>7. CASE NextEvent
    <3>1. Len(Append(received, Head(buffer))) = Len(received) + 1 /\ Len(Tail(buffer)) = Len(buffer) - 1
      BY <1>1, <2>7, HeadTailProperties DEF NextEvent, Typed
    <3> QED BY <1>1, <2>1, <2>7, <3>1 DEF NextEvent, CursorInv
  <2>8. CASE Resume
    <3>1. Len(received) <= cursor /\ Len(<<>>) = 0
      BY <1>1 DEF CursorInv
    <3> QED BY <1>1, <2>1, <2>8, <3>1 DEF Resume, CursorInv
  <2> QED BY <1>2, <2>2, <2>3, <2>4, <2>5, <2>6, <2>7, <2>8 DEF Collect
<1>3. CASE UNCHANGED <<sourceVars, received>>
  <2>1. /\ pc' = pc /\ ended' = ended /\ cursor' = cursor /\ todo' = todo /\ buffer' = buffer
        /\ full' = full /\ received' = received
    BY <1>3 DEF sourceVars
  <2>2. CASE Keeps \/ Reaps
    BY <1>1, <2>1, <2>2 DEF Keeps, Reaps, CursorInv
  <2>3. ASSUME NEW x, Adds(x)
        PROVE  CursorInv'
    <3>1. ~ended /\ reaped' = reaped
      BY <1>1, <2>3 DEF Adds, CursorInv
    <3>2. IsFiniteSet(rows') /\ Cardinality(rows) <= Cardinality(rows')
      BY Zenon, <1>1, <2>3, InsertedPlaces DEF Adds
    <3>3. Cardinality(rows') \in Nat
      BY <3>2, FS_CardinalityType
    <3> QED BY <1>1, <2>1, <3>1, <3>2, <3>3 DEF CursorInv
  <2> QED BY <2>2, <2>3, RowsSteps
<1> QED BY <1>2, <1>3, SourceSteps

LEMMA EventsInvariant == Spec => []IInv
<1>1. Init => IInv
  BY FS_EmptySet, EmptySeq DEF Init, IInv, Typed, PlacesTaken, LastInv, CursorInv
<1>2. IInv /\ [Next]_vars => IInv'
  BY TypedKept, LastKept, CursorKept DEF IInv
<1> QED BY <1>1, <1>2, PTL DEF Spec

(* The event handler tells the end only after the source has read          *)
(* `completed` and then a short page: no event is committed after the one  *)
(* of Finish, so the client has them all, however many writers there were. *)
THEOREM EndIsTheEnd == Spec => []EndMeansAll
<1>1. IInv => EndMeansAll
  BY LenProperties, EmptySeq DEF IInv, Typed, CursorInv, EndMeansAll
<1> QED BY <1>1, EventsInvariant, PTL

-----------------------------------------------------------------------------
(* Order.                                                                  *)
LEMMA SamePlaces ==
  ASSUME rows' = rows, NEW s, NEW m
  PROVE  InPlace(s, m) => InPlace(s, m)'
<1>1. \A e : Place(e)' = Place(e)
  BY DEF Place
<1> QED BY <1>1 DEF InPlace

(* A row that is newer than all leaves every event in its place.           *)
LEMMA NewerPlaces ==
  ASSUME Typed, NEW x \in Nat, rows' = rows \cup {x}, Newer,
         NEW s, NEW m, InPlace(s, m)
  PROVE  InPlace(s, m)'
<1>1. CASE x \in rows
  <2>1. rows' = rows
    BY <1>1
  <2> QED BY <2>1, SamePlaces
<1>2. CASE x \notin rows
  <2>1. \A e \in rows : e < x /\ e \in rows'
    BY <1>2 DEF Newer
  <2>2. \A e \in rows : Place(e)' = Place(e)
    BY <1>2, <2>1, NewPlaces
  <2> QED BY <2>1, <2>2 DEF InPlace
<1> QED BY <1>1, <1>2

(* The first event of one queue moves to the end of the one before it.     *)
LEMMA MovePlaces ==
  ASSUME NEW s \in Seq(Nat), NEW t \in Seq(Nat), t # <<>>, NEW m \in Nat,
         InPlace(s, m), InPlace(t, m + Len(s))
  PROVE  /\ Len(Append(s, Head(t))) = Len(s) + 1
         /\ InPlace(Append(s, Head(t)), m)
         /\ InPlace(Tail(t), m + Len(s) + 1)
<1>1. /\ Len(s) \in Nat /\ Len(t) \in Nat \ {0} /\ Head(t) = t[1]
      /\ Len(Tail(t)) = Len(t) - 1 /\ \A i \in 1..Len(Tail(t)) : Tail(t)[i] = t[i + 1]
  BY LenProperties, EmptySeq, HeadTailProperties
<1>2. /\ Len(Append(s, Head(t))) = Len(s) + 1
      /\ \A i \in 1..Len(s) : Append(s, Head(t))[i] = s[i]
      /\ Append(s, Head(t))[Len(s) + 1] = Head(t)
  BY <1>1
<1>3. InPlace(Append(s, Head(t)), m)
  <2>1. ASSUME NEW i \in 1..(Len(s) + 1)
        PROVE  Append(s, Head(t))[i] \in rows /\ Place(Append(s, Head(t))[i]) = m + i
    <3>1. CASE i \in 1..Len(s)
      BY <1>2, <3>1 DEF InPlace
    <3>2. CASE i = Len(s) + 1
      <4>1. t[1] \in rows /\ Place(t[1]) = m + Len(s) + 1
        BY <1>1 DEF InPlace
      <4>2. m + i = m + Len(s) + 1
        BY <1>1, <3>2
      <4> QED BY <1>1, <1>2, <3>2, <4>1, <4>2
    <3> QED BY <1>1, <2>1, <3>1, <3>2
  <2> QED BY <1>2, <2>1 DEF InPlace
<1>4. InPlace(Tail(t), m + Len(s) + 1)
  <2>1. ASSUME NEW i \in 1..Len(Tail(t))
        PROVE  Tail(t)[i] \in rows /\ Place(Tail(t)[i]) = m + Len(s) + 1 + i
    <3>1. i + 1 \in 1..Len(t) /\ (m + Len(s)) + (i + 1) = m + Len(s) + 1 + i
      BY <1>1, <2>1
    <3> QED BY <1>1, <2>1, <3>1 DEF InPlace
  <2> QED BY <2>1 DEF InPlace
<1> QED BY <1>2, <1>3, <1>4

LEMMA OrderKept ==
  ASSUME IInv, OrderInv, [Next]_vars, [Newer]_vars
  PROVE  OrderInv'
<1>1. /\ Typed /\ PlacesTaken /\ CursorInv
      /\ todo \in Seq(Nat) /\ buffer \in Seq(Nat) /\ received \in Seq(Nat)
      /\ Len(received) \in Nat /\ Len(buffer) \in Nat /\ Len(todo) \in Nat
  BY LenProperties DEF IInv, Typed
<1>2. \A m : InPlace(<<>>, m)
  BY DEF InPlace
<1>3. CASE reaped'
  BY <1>3 DEF OrderInv
<1>4. CASE ~reaped' /\ (Collect \/ NextEvent \/ NextEnd \/ Resume)
  <2>1. rows' = rows /\ reaped' = reaped
    BY <1>4 DEF Collect, CollectFlag, CollectQuery, CollectPush, CollectDecide, CollectWake,
       NextEvent, NextEnd, Resume, buildVars
  <2>2. /\ InPlace(received, 0) /\ InPlace(buffer, Len(received))
        /\ InPlace(todo, Len(received) + Len(buffer))
        /\ cursor <= Cardinality(rows)
    BY <1>1, <1>4, <2>1 DEF OrderInv, CursorInv
  <2>3. SUFFICES \E r, b, t : /\ received' = r /\ buffer' = b /\ todo' = t
                              /\ InPlace(r, 0) /\ InPlace(b, Len(r)) /\ InPlace(t, Len(r) + Len(b))
    <3>1. PICK r, b, t : /\ received' = r /\ buffer' = b /\ todo' = t
                         /\ InPlace(r, 0) /\ InPlace(b, Len(r)) /\ InPlace(t, Len(r) + Len(b))
      BY <2>3
    <3>2. \A e : Place(e)' = Place(e)
      BY <2>1 DEF Place
    <3> QED BY <2>1, <3>1, <3>2 DEF OrderInv, InPlace
  <2>4. CASE CollectFlag \/ CollectDecide \/ CollectWake \/ NextEnd
    BY <2>2, <2>4 DEF CollectFlag, CollectDecide, CollectWake, NextEnd
  <2>5. CASE CollectQuery
    <3>1. todo' = Page(cursor) /\ buffer' = buffer /\ received' = received /\ pc = "query"
      BY <2>5 DEF CollectQuery
    <3>2. cursor = Len(received) + Len(buffer)
      BY <1>1, <3>1, EmptySeq DEF CursorInv
    <3>3. InPlace(Page(cursor), cursor)
      BY <1>1, <2>2, PageOf
    <3> QED BY <2>2, <3>1, <3>2, <3>3
  <2>6. CASE CollectPush
    <3>1. /\ todo # <<>> /\ todo' = Tail(todo) /\ buffer' = Append(buffer, Head(todo))
          /\ received' = received
      BY <2>6 DEF CollectPush
    <3>2. /\ Len(Append(buffer, Head(todo))) = Len(buffer) + 1
          /\ InPlace(Append(buffer, Head(todo)), Len(received))
          /\ InPlace(Tail(todo), Len(received) + Len(buffer) + 1)
      BY <1>1, <2>2, <3>1, MovePlaces
    <3>3. Len(received) + Len(buffer) + 1 = Len(received) + (Len(buffer) + 1)
      BY <1>1
    <3> QED BY Zenon, <2>2, <3>1, <3>2, <3>3
  <2>7. CASE NextEvent
    <3>1. /\ buffer # <<>> /\ buffer' = Tail(buffer) /\ received' = Append(received, Head(buffer))
          /\ todo' = todo
      BY <2>7 DEF NextEvent
    <3>2. /\ Len(Append(received, Head(buffer))) = Len(received) + 1
          /\ InPlace(Append(received, Head(buffer)), 0)
          /\ InPlace(Tail(buffer), Len(received) + 1)
      <4>1. 0 + Len(received) = Len(received)
        BY <1>1
      <4> QED BY <1>1, <2>2, <3>1, <4>1, MovePlaces
    <3>3. Len(Tail(buffer)) = Len(buffer) - 1
      BY <1>1, <3>1, HeadTailProperties
    <3>4. Len(received) + 1 + (Len(buffer) - 1) = Len(received) + Len(buffer)
      BY <1>1
    <3>5. InPlace(todo, Len(Append(received, Head(buffer))) + Len(Tail(buffer)))
      BY Zenon, <2>2, <3>2, <3>3, <3>4
    <3> QED BY Zenon, <2>2, <3>1, <3>2, <3>5
  <2>8. CASE Resume
    BY <1>2, <2>2, <2>8 DEF Resume
  <2> QED BY <1>4, <2>4, <2>5, <2>6, <2>7, <2>8 DEF Collect
<1>5. CASE ~reaped' /\ UNCHANGED <<sourceVars, received>>
  <2>1. buffer' = buffer /\ todo' = todo /\ received' = received
    BY <1>5 DEF sourceVars
  <2>2. PICK r, b, t : r = received /\ b = buffer /\ t = todo
    OBVIOUS
  <2>3. CASE Keeps
    <3>1. InPlace(r, 0) /\ InPlace(b, Len(r)) /\ InPlace(t, Len(r) + Len(b)) /\ rows' = rows
      BY <1>5, <2>2, <2>3 DEF OrderInv, Keeps
    <3>2. InPlace(r, 0)' /\ InPlace(b, Len(r))' /\ InPlace(t, Len(r) + Len(b))'
      BY <3>1, SamePlaces
    <3> QED BY <2>1, <2>2, <3>2 DEF OrderInv
  <2>4. ASSUME NEW x, Adds(x)
        PROVE  OrderInv'
    <3>1. InPlace(r, 0) /\ InPlace(b, Len(r)) /\ InPlace(t, Len(r) + Len(b))
      BY <1>5, <2>2, <2>4 DEF OrderInv, Adds
    <3>2. Newer
      BY DEF Newer, vars, buildVars
    <3>3. InPlace(r, 0)' /\ InPlace(b, Len(r))' /\ InPlace(t, Len(r) + Len(b))'
      BY <1>1, <2>4, <3>1, <3>2, NewerPlaces DEF Adds
    <3> QED BY <2>1, <2>2, <3>3 DEF OrderInv
  <2> QED BY <1>5, <2>3, <2>4, RowsSteps DEF Reaps
<1> QED BY <1>3, <1>4, <1>5, SourceSteps

LEMMA SamePrefix ==
  ASSUME NEW s \in Seq(Nat), NEW t \in Seq(Nat), Len(s) <= Len(t), \A i \in 1..Len(s) : s[i] = t[i]
  PROVE  SubSeq(s, 1, Len(s)) = SubSeq(t, 1, Len(s))
<1>1. PICK n \in Nat : n = Len(s) /\ n <= Len(t)
  BY LenProperties
<1>2. \A i \in 1..n : s[i] \in Nat /\ t[i] \in Nat
  BY <1>1, ElementOfSeq
<1>3. /\ SubSeq(s, 1, n) \in Seq(Nat) /\ Len(SubSeq(s, 1, n)) = n
      /\ \A i \in 1..n : SubSeq(s, 1, n)[i] = s[i]
  BY <1>2, SubSeqProperties
<1>4. /\ SubSeq(t, 1, n) \in Seq(Nat) /\ Len(SubSeq(t, 1, n)) = n
      /\ \A i \in 1..n : SubSeq(t, 1, n)[i] = t[i]
  BY <1>2, SubSeqProperties
<1>5. \A i \in 1..n : SubSeq(s, 1, n)[i] = SubSeq(t, 1, n)[i]
  BY Zenon, <1>1, <1>3, <1>4
<1> QED BY Zenon, <1>1, <1>3, <1>4, <1>5, SeqEqual

LEMMA PlacesMeanOrder ==
  ASSUME IInv, OrderInv
  PROVE  InOrder
<1> DEFINE s == received \o buffer \o todo
           r == received \o buffer
<1>1. CASE reaped
  BY <1>1 DEF InOrder
<1>2. CASE ~reaped
  <2>1. /\ Typed /\ PlacesTaken
        /\ todo \in Seq(Nat) /\ buffer \in Seq(Nat) /\ received \in Seq(Nat)
        /\ Len(received) \in Nat /\ Len(buffer) \in Nat /\ Len(todo) \in Nat
        /\ InPlace(received, 0) /\ InPlace(buffer, Len(received))
        /\ InPlace(todo, Len(received) + Len(buffer))
        /\ Len(received) + Len(buffer) + Len(todo) <= Cardinality(rows)
    BY <1>2, LenProperties DEF IInv, Typed, OrderInv, CursorInv
  <2>2. /\ r \in Seq(Nat) /\ Len(r) = Len(received) + Len(buffer)
        /\ \A i \in 1..(Len(received) + Len(buffer)) :
             r[i] = IF i <= Len(received) THEN received[i] ELSE buffer[i - Len(received)]
    BY <2>1, ConcatProperties
  <2>3. /\ s \in Seq(Nat) /\ Len(s) = Len(r) + Len(todo)
        /\ \A i \in 1..(Len(r) + Len(todo)) :
             s[i] = IF i <= Len(r) THEN r[i] ELSE todo[i - Len(r)]
    BY <2>1, <2>2, ConcatProperties
  <2> HIDE DEF r, s
  <2>9. \A i \in 1..Len(s) : i \in Nat /\ i >= 1 /\ i <= Len(received) + Len(buffer) + Len(todo)
    BY <2>1, <2>2, <2>3
  <2>4. ASSUME NEW i \in 1..Len(s)
        PROVE  s[i] \in rows /\ Place(s[i]) = i
    <3>1. CASE i <= Len(received)
      <4>2. i \in 1..Len(received) /\ 0 + i = i /\ i <= Len(r)
            /\ i \in 1..(Len(received) + Len(buffer)) /\ i \in 1..(Len(r) + Len(todo))
        BY <2>1, <2>2, <2>9, <3>1
      <4>1. s[i] = received[i] /\ i \in 1..Len(received) /\ 0 + i = i
        BY <2>2, <2>3, <3>1, <4>2
      <4> QED BY <2>1, <4>1 DEF InPlace
    <3>2. CASE i > Len(received) /\ i <= Len(r)
      <4>1. /\ s[i] = buffer[i - Len(received)] /\ i - Len(received) \in 1..Len(buffer)
            /\ Len(received) + (i - Len(received)) = i
        <5>1. /\ i - Len(received) \in 1..Len(buffer) /\ Len(received) + (i - Len(received)) = i
              /\ i \in 1..(Len(received) + Len(buffer)) /\ i \in 1..(Len(r) + Len(todo))
              /\ ~(i <= Len(received))
          BY <2>1, <2>2, <2>9, <3>2
        <5> QED BY <2>2, <2>3, <3>2, <5>1
      <4> QED BY <2>1, <4>1 DEF InPlace
    <3>3. CASE i > Len(r)
      <4>1. /\ s[i] = todo[i - Len(r)] /\ i - Len(r) \in 1..Len(todo)
            /\ Len(received) + Len(buffer) + (i - Len(r)) = i
        BY <2>1, <2>2, <2>3, <2>4, <3>3
      <4> QED BY Zenon, <2>1, <4>1 DEF InPlace
    <3> QED BY <2>1, <2>2, <2>4, <3>1, <3>2, <3>3
  <2>5. /\ Ordered \in Seq(Nat) /\ Len(Ordered) = Cardinality(rows) /\ Cardinality(rows) \in Nat
        /\ \A i \in 1..Cardinality(rows) : Ordered[i] \in rows /\ Place(Ordered[i]) = i
    BY <2>1, OrderedPlaces
  <2>6. Len(s) \in Nat /\ Len(s) <= Len(Ordered)
    BY <2>1, <2>2, <2>3, <2>5
  <2>7. \A i \in 1..Len(s) : i \in 1..Cardinality(rows) /\ s[i] = Ordered[i]
    BY <2>1, <2>4, <2>5, <2>6, PlaceOnce
  <2>8. SubSeq(s, 1, Len(s)) = SubSeq(Ordered, 1, Len(s))
    BY Zenon, <2>3, <2>5, <2>6, <2>7, SamePrefix
  <2> QED BY <2>6, <2>8 DEF InOrder, IsPrefix, s, r
<1> QED BY <1>1, <1>2

(* A client has the events of the build in order, from the first, without  *)
(* a gap and without repetition over any number of connections, as long as *)
(* the transactions of SaveEvent commit in the order of their event ids:   *)
(* what OFFSET counted stays in front of the cursor.                       *)
THEOREM OrderKeptByCommits == Spec /\ CommitsInOrder => []InOrder
<1>1. Init => OrderInv
  BY EmptySeq DEF Init, OrderInv, InPlace
<1>2. IInv /\ OrderInv /\ [Next]_vars /\ [Newer]_vars => OrderInv'
  BY OrderKept
<1>3. IInv /\ OrderInv => InOrder
  BY PlacesMeanOrder
<1> QED BY <1>1, <1>2, <1>3, EventsInvariant, PTL DEF Spec, CommitsInOrder

LEMMA NewestKept ==
  ASSUME IInv, OneWriter, NewestInv, [Next]_vars
  PROVE  NewestInv' /\ [Newer]_vars
<1> USE DEF IInv, Typed
<1>1. \A e \in rows : e \in Nat
  OBVIOUS
<1>2. ASSUME NEW w \in Writer, SaveEvent(w)
      PROVE  NewestInv' /\ Newer
  BY <1>1, <1>2 DEF SaveEvent, NewestInv, Newer, OneWriter
<1>3. ASSUME NEW w \in Writer, SaveCommit(w)
      PROVE  NewestInv' /\ Newer
  <2>1. finish = 0 /\ \A v \in Writer : v = w
    BY <1>3 DEF SaveCommit, LastInv, OneWriter
  <2> QED BY Zenon, <1>1, <1>3, <2>1 DEF SaveCommit, NewestInv, Newer
<1>4. ASSUME FinishInsert \/ FinishFails
      PROVE  NewestInv' /\ Newer
  <2>1. rows' = rows /\ tx' = tx /\ last <= last' /\ finish' <= last' /\ last' \in Nat
    BY <1>4 DEF FinishInsert, FinishFails, NewestInv
  <2>2. finish' # 0 => \A e \in rows : e < finish'
    BY <1>1, <1>4 DEF FinishInsert, FinishFails, NewestInv
  <2> QED BY <1>1, <2>1, <2>2 DEF NewestInv, Newer
<1>5. ASSUME FinishCommit
      PROVE  NewestInv' /\ Newer
  <2>1. \A v \in Writer : tx[v] = 0
    BY <1>5 DEF FinishCommit, LastInv
  <2> QED BY <1>1, <1>5, <2>1 DEF FinishCommit, NewestInv, Newer
<1>6. ASSUME UNCHANGED <<last, tx, finish>>, rows' \subseteq rows
      PROVE  NewestInv' /\ Newer
  BY <1>1, <1>6 DEF NewestInv, Newer
<1> QED BY <1>2, <1>3, <1>4, <1>5, <1>6, WritesSteps

(* One writer's transactions commit in order, since SaveEvent returns      *)
(* before the next one is called, and Finish comes after it.               *)
THEOREM OneWriterCommitsInOrder == OneWriter => (Spec => CommitsInOrder)
<1> SUFFICES ASSUME OneWriter
             PROVE  Spec => CommitsInOrder
  OBVIOUS
<1>1. Init => NewestInv
  BY DEF Init, NewestInv
<1>2. IInv /\ NewestInv /\ [Next]_vars => NewestInv' /\ [Newer]_vars
  BY NewestKept
<1> QED BY <1>1, <1>2, EventsInvariant, PTL DEF Spec, CommitsInOrder

(* With one writer, then, a client has the events in order.                *)
THEOREM OrderKeptByOneWriter == OneWriter => (Spec => []InOrder)
BY OneWriterCommitsInOrder, OrderKeptByCommits, PTL

=============================================================================
