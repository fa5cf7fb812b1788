----------------------------- MODULE BuildEvents -----------------------------
(***************************************************************************)
(* The events of one build, from the transactions that save them           *)
(* (build.SaveEvent, build.Finish) to a client that follows them over      *)
(* HTTP (db/build_event_source.go, api/buildserver/eventhandler.go), and   *)
(* the reaper that deletes them (gc/buildreaper.go).                       *)
(*                                                                         *)
(* An event is its event_id, which nextval gives out inside the            *)
(* transaction: transactions may commit in another order. The client       *)
(* numbers what it receives and resumes after the last number it saw.      *)
(***************************************************************************)
EXTENDS Naturals, Sequences, FiniteSets, SequencesExt

CONSTANTS
  Writer,    \* goroutines of the build's steps that save events
  MaxEvents, \* bound: events of the build
  Batch,     \* capacity of source.events and size of a batch (2000)
  MaxCloses  \* bound: times the client goes away and comes back

ASSUME EventAssumption ==
  /\ MaxEvents \in Nat /\ MaxCloses \in Nat
  /\ Batch \in Nat \ {0}

VARIABLES
  rows,       \* event_ids of the committed events
  last,       \* last value of the build's sequence
  tx,         \* tx[w]: event_id of the writer's open transaction, or 0
  finish,     \* event_id in the open transaction of Finish, or 0
  completed,  \* builds.completed; the sequence is gone
  aborted,    \* the status is aborted, though the build may still run
  telling,    \* committed transactions whose NOTIFY is still to come
  missed,     \* a NOTIFY failed, or its ATC died before it
  reaped,     \* the reaper deleted the events
  wakeup,     \* the source's notifier has something buffered
  pc,         \* where collectEvents is
  ended,      \* `completed` as collectEvents read it
  cursor, todo, buffer,  \* OFFSET, rows of the query still to push, source.events
  full,       \* the query returned a whole batch
  received,   \* what the client received, over all its connections
  closes

buildVars == <<rows, last, tx, finish, completed, aborted, reaped>>
sourceVars == <<pc, ended, cursor, todo, buffer, full>>
vars == <<buildVars, telling, missed, wakeup, sourceVars, received, closes>>

Init ==
  /\ rows = {} /\ last = 0
  /\ tx = [w \in Writer |-> 0] /\ finish = 0
  /\ completed = FALSE /\ aborted = FALSE /\ reaped = FALSE
  /\ telling = 0 /\ missed = FALSE
  /\ wakeup = TRUE
  /\ pc = "flag" /\ ended = FALSE /\ cursor = 0 /\ todo = <<>> /\ buffer = <<>> /\ full = FALSE
  /\ received = <<>>
  /\ closes = 0

(* SELECT ... ORDER BY event_id ASC: in the i-th place is the event that   *)
(* i of them come up to.                                                   *)
Place(e) == Cardinality({d \in rows : d <= e})
Ordered == [i \in 1..Cardinality(rows) |-> CHOOSE e \in rows : Place(e) = i]

-----------------------------------------------------------------------------
(* SaveEvent: insert with nextval, which takes a lock on the sequence that *)
(* DROP SEQUENCE waits for. The plan's steps are over before Finish...     *)
SaveEvent(w) ==
  /\ tx[w] = 0
  /\ ~completed /\ finish = 0
  /\ last < MaxEvents
  /\ last' = last + 1
  /\ tx' = [tx EXCEPT ![w] = last + 1]
  /\ UNCHANGED <<rows, finish, completed, aborted, reaped, telling, missed, wakeup, sourceVars, received, closes>>

(* ...commit, or roll back...                                              *)
SaveCommit(w) ==
  /\ tx[w] # 0
  /\ tx' = [tx EXCEPT ![w] = 0]
  /\ \/ rows' = rows \cup {tx[w]} /\ telling' = telling + 1
     \/ rows' = rows /\ telling' = telling
  /\ UNCHANGED <<last, finish, completed, aborted, reaped, missed, wakeup, sourceVars, received, closes>>

(* Finish: insert the last event, drop the sequence, commit.               *)
FinishInsert ==
  /\ finish = 0
  /\ ~completed
  /\ \A w \in Writer : tx[w] = 0
  /\ last <= MaxEvents
  /\ last' = last + 1
  /\ finish' = last + 1
  /\ UNCHANGED <<rows, tx, completed, aborted, reaped, telling, missed, wakeup, sourceVars, received, closes>>

FinishSilent ==
  /\ finish # 0
  /\ rows' = rows \cup {finish}
  /\ finish' = 0
  /\ completed' = TRUE
  /\ UNCHANGED <<last, tx, aborted, reaped, telling, missed, wakeup, sourceVars, received, closes>>

FinishCommit ==
  /\ finish # 0
  /\ rows' = rows \cup {finish}
  /\ finish' = 0
  /\ completed' = TRUE
  /\ telling' = telling + 1
  /\ UNCHANGED <<last, tx, aborted, reaped, missed, wakeup, sourceVars, received, closes>>

(* A statement of Finish fails and it rolls back: the build is tracked     *)
(* again later.                                                            *)
FinishFails ==
  /\ finish # 0
  /\ finish' = 0
  /\ UNCHANGED <<rows, last, tx, completed, aborted, reaped, telling, missed, wakeup, sourceVars, received, closes>>

(* MarkAsAborted sets the status at once, whatever it was.                 *)
MarkAsAborted ==
  /\ ~aborted
  /\ aborted' = TRUE
  /\ UNCHANGED <<rows, last, tx, finish, completed, reaped, telling, missed, wakeup, sourceVars, received, closes>>

(* ...then NOTIFY, which wakes the source's notifier up, now or after its  *)
(* listener reconnected (module Notifications).                            *)
Tell ==
  /\ telling > 0
  /\ telling' = telling - 1
  /\ wakeup' = TRUE
  /\ UNCHANGED <<buildVars, missed, sourceVars, received, closes>>

TellFails ==
  /\ telling > 0
  /\ telling' = telling - 1
  /\ missed' = TRUE
  /\ UNCHANGED <<buildVars, wakeup, sourceVars, received, closes>>

(* The reaper deletes the events of a build whose status is not pending or *)
(* started: it may be an aborted one whose steps are still being stopped.  *)
Reap ==
  /\ completed \/ aborted
  /\ ~reaped
  /\ reaped' = TRUE
  /\ rows' = {}
  /\ UNCHANGED <<last, tx, finish, completed, aborted, telling, missed, wakeup, sourceVars, received, closes>>

-----------------------------------------------------------------------------
(* collectEvents: read whether the build is completed...                   *)
CollectFlag ==
  /\ pc = "flag"
  /\ ended' = completed
  /\ pc' = "query"
  /\ UNCHANGED <<buildVars, telling, missed, wakeup, cursor, todo, buffer, full, received, closes>>

(* ORDER BY event_id OFFSET from LIMIT Batch.                              *)
Page(from) ==
  LET to == IF from + Batch < Len(Ordered) THEN from + Batch ELSE Len(Ordered)
  IN [i \in 1..(IF to > from THEN to - from ELSE 0) |-> Ordered[from + i]]

(* ...and only then the events after the cursor...                         *)
CollectQuery ==
  /\ pc = "query"
  /\ LET batch == Page(cursor) IN
       /\ todo' = batch
       /\ cursor' = cursor + Len(batch)
       /\ full' = (Len(batch) = Batch)
  /\ pc' = "push"
  /\ UNCHANGED <<buildVars, telling, missed, wakeup, ended, buffer, received, closes>>

(* ...push them, waiting while the channel is full...                      *)
CollectPush ==
  /\ pc = "push"
  /\ todo # <<>>
  /\ Len(buffer) < Batch
  /\ buffer' = Append(buffer, Head(todo))
  /\ todo' = Tail(todo)
  /\ UNCHANGED <<buildVars, telling, missed, wakeup, pc, ended, cursor, full, received, closes>>

(* ...and go on, close the channel, or wait for a notification.            *)
CollectDecideLate ==
  /\ pc = "push"
  /\ todo = <<>>
  /\ pc' = IF full THEN "flag" ELSE IF completed THEN "closed" ELSE "wait"
  /\ UNCHANGED <<buildVars, telling, missed, wakeup, ended, cursor, todo, buffer, full, received, closes>>

CollectDecide ==
  /\ pc = "push"
  /\ todo = <<>>
  /\ pc' = IF full THEN "flag" ELSE IF ended THEN "closed" ELSE "wait"
  /\ UNCHANGED <<buildVars, telling, missed, wakeup, ended, cursor, todo, buffer, full, received, closes>>

CollectWake ==
  /\ pc = "wait"
  /\ wakeup
  /\ wakeup' = FALSE
  /\ pc' = "flag"
  /\ UNCHANGED <<buildVars, telling, missed, ended, cursor, todo, buffer, full, received, closes>>

(* The event handler: Next returns an event, which is written with its     *)
(* number...                                                               *)
NextEvent ==
  /\ buffer # <<>>
  /\ received' = Append(received, Head(buffer))
  /\ buffer' = Tail(buffer)
  /\ UNCHANGED <<buildVars, telling, missed, wakeup, pc, ended, cursor, todo, full, closes>>

(* ...or ErrEndOfBuildEventStream, and the end is written.                 *)
NextEnd ==
  /\ pc = "closed"
  /\ buffer = <<>>
  /\ pc' = "end"
  /\ UNCHANGED <<buildVars, telling, missed, wakeup, ended, cursor, todo, buffer, full, received, closes>>

(* The connection to the client breaks, or a query fails; the client asks  *)
(* again from the event after the last one it received (Last-Event-ID).    *)
ResumeAtLast ==
  /\ pc # "end"
  /\ closes < MaxCloses
  /\ closes' = closes + 1
  /\ pc' = "flag" /\ ended' = FALSE /\ todo' = <<>> /\ buffer' = <<>> /\ full' = FALSE
  /\ cursor' = IF received = <<>> THEN 0 ELSE Len(received) - 1
  /\ wakeup' = TRUE
  /\ UNCHANGED <<buildVars, telling, missed, received>>

Resume ==
  /\ pc # "end"
  /\ closes < MaxCloses
  /\ closes' = closes + 1
  /\ pc' = "flag" /\ ended' = FALSE /\ todo' = <<>> /\ buffer' = <<>> /\ full' = FALSE
  /\ cursor' = Len(received)
  /\ wakeup' = TRUE
  /\ UNCHANGED <<buildVars, telling, missed, received>>

Collect ==
  CollectFlag \/ CollectQuery \/ CollectPush \/ CollectDecide \/ CollectWake

Next ==
  \/ \E w \in Writer : SaveEvent(w) \/ SaveCommit(w)
  \/ FinishInsert \/ FinishCommit \/ FinishFails \/ MarkAsAborted
  \/ Tell \/ TellFails \/ Reap
  \/ Collect \/ NextEvent \/ NextEnd \/ Resume

Spec == Init /\ [][Next]_vars

(* The goroutines of the source and the handler run on, and so does the    *)
(* one that calls Notify.                                                  *)
Fairness == WF_vars(Collect) /\ WF_vars(NextEvent \/ NextEnd) /\ WF_vars(Tell)

FairSpec == Spec /\ Fairness

-----------------------------------------------------------------------------
TypeOK ==
  /\ rows \subseteq 1..(MaxEvents + 1) /\ last \in 0..(MaxEvents + 1)
  /\ tx \in [Writer -> 0..MaxEvents] /\ finish \in 0..(MaxEvents + 1)
  /\ completed \in BOOLEAN /\ aborted \in BOOLEAN /\ reaped \in BOOLEAN /\ wakeup \in BOOLEAN
  /\ telling \in 0..(MaxEvents + 1) /\ missed \in BOOLEAN
  /\ pc \in {"flag", "query", "push", "wait", "closed", "end"}
  /\ ended \in BOOLEAN /\ full \in BOOLEAN
  /\ cursor \in 0..(MaxEvents + 1)
  /\ Len(todo) <= Batch /\ Len(buffer) <= Batch
  /\ closes \in 0..MaxCloses

(* The client has received the events of the build in order, from the      *)
(* first, without a gap and without repetition, over any number of         *)
(* connections (unless the reaper deleted them).                           *)
InOrder == reaped \/ IsPrefix(received \o buffer \o todo, Ordered)

(* A client that is told the end has the last event of the build, which is *)
(* what `completed` is read before the events for.                         *)
EndMeansAll ==
  (pc = "end" /\ ~reaped) => /\ completed
                             /\ Len(received) = Cardinality(rows)

(* Every client of a completed build is told the end, though the reaper    *)
(* may delete the events under its cursor, unless a NOTIFY failed.         *)
ClientsSeeTheEnd == completed ~> (pc = "end" \/ missed)
=============================================================================
