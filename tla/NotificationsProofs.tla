------------------------- MODULE NotificationsProofs -------------------------
(***************************************************************************)
(* Proofs about Notifications, for any set of listeners and any bounds.    *)
(*                                                                         *)
(* NoLostWakeup is inductive once three things are known: whoever waits    *)
(* has its sink registered, a registered sink means that the connection    *)
(* listens, and what was announced is true.  The second of these is the    *)
(* delicate one, since Unlisten closes the channel outside of the mutex:   *)
(* Closing says that nobody can register a sink between the two halves.    *)
(***************************************************************************)
EXTENDS Notifications, TLAPS

Registered == sinks = {l \in Listener : pc[l] \in {"check", "wait", "woken"}}

(* At most one listener is between the halves of Unlisten; the channel is  *)
(* still open then, so that Listen is refused.                             *)
Closing ==
  \A l \in Listener : pc[l] = "unlisten" =>
    /\ open /\ sinks = {}
    /\ \A m \in Listener : pc[m] = "unlisten" => m = l

Announced ==
  /\ notes > 0 => truth
  /\ \A i \in 1..Len(queue) : queue[i] => truth
  /\ \A l \in Listener : TRUE \in buf[l] => truth

IInv ==
  /\ TypeOK /\ Registered /\ Closing /\ Announced
  /\ SinksAreHeard /\ NoLostWakeup /\ NoFalseAlarm

USE NotificationBounds DEF PC, Watching

LEMMA InitIInv == Init => IInv
<1> SUFFICES ASSUME Init PROVE IInv
  OBVIOUS
<1>1. TypeOK
  <2>1. 0 \in 0..MaxNotes /\ 0 \in 0..MaxBreaks /\ 0 \in 0..MaxFails /\ <<>> \in Seq(BOOLEAN)
    OBVIOUS
  <2> QED BY <2>1, Zenon DEF Init, TypeOK
<1>2. Registered /\ Closing /\ SinksAreHeard
  BY Zenon DEF Init, Registered, Closing, SinksAreHeard
<1>3. Announced /\ NoLostWakeup /\ NoFalseAlarm
  <2>1. ~(notes > 0) /\ 1..Len(queue) = {}
    BY DEF Init
  <2> QED BY <2>1, Zenon DEF Init, Announced, NoLostWakeup, NoFalseAlarm
<1> QED BY <1>1, <1>2, <1>3 DEF IInv

(* Appending to the queue, and taking its head.                            *)
LEMMA QueueAppend ==
  ASSUME NEW q \in Seq(BOOLEAN), NEW v \in BOOLEAN
  PROVE  /\ Append(q, v) \in Seq(BOOLEAN) /\ Append(q, v) # <<>>
         /\ Len(Append(q, v)) = Len(q) + 1
         /\ Append(q, v)[Len(q) + 1] = v
         /\ \A i \in 1..Len(q) : Append(q, v)[i] = q[i]
OBVIOUS

LEMMA QueueTail ==
  ASSUME NEW q \in Seq(BOOLEAN), q # <<>>
  PROVE  /\ Tail(q) \in Seq(BOOLEAN) /\ Head(q) \in BOOLEAN /\ Head(q) = q[1]
         /\ Len(q) >= 1 /\ Len(Tail(q)) = Len(q) - 1
         /\ \A i \in 1..Len(Tail(q)) : Tail(q)[i] = q[i + 1]
OBVIOUS

-----------------------------------------------------------------------------
(* The type invariant.                                                     *)
LEMMA TypeStep == ASSUME TypeOK, [Next]_vars PROVE TypeOK'
<1> USE DEF TypeOK
<1>1. CASE UNCHANGED vars
  BY Zenon, <1>1 DEF vars
<1>2. CASE MakeTrue
  BY Zenon, <1>2 DEF MakeTrue, pqVars, bounds
<1>3. CASE Notify
  <2>1. notes' \in 0..MaxNotes
    BY <1>3 DEF Notify
  <2>2. Append(queue, TRUE) \in Seq(BOOLEAN)
    BY QueueAppend
  <2>3. queue' \in Seq(BOOLEAN)
    BY <1>3, <2>2, Zenon DEF Notify
  <2> QED BY <1>3, <2>1, <2>3, Zenon DEF Notify, bounds
<1>4. CASE Disconnect
  <2>1. breaks' \in 0..MaxBreaks
    BY <1>4 DEF Disconnect
  <2> QED BY <1>4, <2>1, Zenon DEF Disconnect, dbVars
<1>5. CASE Reconnect
  BY Zenon, <1>5, QueueAppend DEF Reconnect, dbVars, bounds
<1>6. CASE Dispatch
  <2>1. queue' \in Seq(BOOLEAN) /\ Head(queue) \in BOOLEAN
    BY <1>6, QueueTail DEF Dispatch
  <2>2. \A l \in Listener : Offer(buf[l], Head(queue)) \in {{}, {TRUE}, {FALSE}}
    BY Zenon, <2>1 DEF Offer
  <2> QED BY Zenon, <1>6, <2>1, <2>2 DEF Dispatch, dbVars, bounds
<1>7. ASSUME NEW l \in Listener,
             Listen(l) \/ Check(l) \/ CheckFails(l) \/ Receive(l) \/ Wake(l) \/ Unlisten(l) \/ PqUnlisten(l)
      PROVE  TypeOK'
  <2>1. CASE Listen(l)
    BY Zenon, <2>1 DEF Listen, dbVars, bounds
  <2>2. CASE Check(l)
    BY Zenon, <2>2 DEF Check, dbVars, pqVars, bounds
  <2>3. CASE CheckFails(l)
    <3>1. fails' \in 0..MaxFails
      BY <2>3 DEF CheckFails
    <3> QED BY <2>3, <3>1, Zenon DEF CheckFails, dbVars, pqVars
  <2>4. CASE Receive(l)
    BY Zenon, <2>4 DEF Receive, dbVars, pqVars, bounds
  <2>5. CASE Wake(l)
    BY Zenon, <2>5 DEF Wake, dbVars, pqVars, bounds
  <2>6. CASE Unlisten(l)
    BY Zenon, <2>6 DEF Unlisten, dbVars, pqVars, bounds
  <2>7. CASE PqUnlisten(l)
    BY Zenon, <2>7 DEF PqUnlisten, dbVars, bounds
  <2> QED BY Zenon, <1>7, <2>1, <2>2, <2>3, <2>4, <2>5, <2>6, <2>7
<1> QED BY Zenon, <1>1, <1>2, <1>3, <1>4, <1>5, <1>6, <1>7 DEF Next

-----------------------------------------------------------------------------
(* The bus's registrations and the channel.                                *)
Bus == Registered /\ Closing /\ SinksAreHeard

LEMMA BusStep == ASSUME TypeOK, Bus, [Next]_vars PROVE Bus'
<1> USE DEF TypeOK, Bus, Registered, Closing, SinksAreHeard
<1>1. CASE UNCHANGED <<open, sinks, pc>>
  BY <1>1
<1>2. CASE MakeTrue \/ Notify \/ Disconnect \/ Reconnect \/ Dispatch
  BY Zenon, <1>1, <1>2 DEF MakeTrue, Notify, Disconnect, Reconnect, Dispatch, pqVars
<1>3. ASSUME NEW l \in Listener, Listen(l) PROVE Bus'
  <2>1. ~open \/ sinks # {}
    BY <1>3 DEF Listen
  <2>2. \A m \in Listener : pc[m] # "unlisten"
    BY <2>1
  <2> QED BY <1>3, <2>2 DEF Listen
<1>4. ASSUME NEW l \in Listener, Check(l) \/ CheckFails(l) \/ Receive(l) \/ Wake(l) PROVE Bus'
  <2>1. open' = open /\ sinks' = sinks /\ pc[l] \in {"check", "wait"}
    BY <1>4 DEF Check, CheckFails, Receive, Wake, pqVars
  <2>2. \E c \in {"check", "wait", "woken"} : pc' = [pc EXCEPT ![l] = c]
    BY <1>4 DEF Check, CheckFails, Receive, Wake
  <2> QED BY <2>1, <2>2
<1>5. ASSUME NEW l \in Listener, Unlisten(l) PROVE Bus'
  <2>1. l \in sinks /\ open
    BY <1>5 DEF Unlisten
  <2>2. \A m \in Listener : pc[m] # "unlisten"
    BY <2>1
  <2>3. pc' = [pc EXCEPT ![l] = IF sinks = {l} THEN "unlisten" ELSE "off"] /\ sinks' = sinks \ {l} /\ open' = open
    BY <1>5 DEF Unlisten, pqVars
  <2> QED BY <2>1, <2>2, <2>3
<1>6. ASSUME NEW l \in Listener, PqUnlisten(l) PROVE Bus'
  BY <1>6 DEF PqUnlisten
<1> QED BY <1>1, <1>2, <1>3, <1>4, <1>5, <1>6 DEF Next, vars

-----------------------------------------------------------------------------
(* What is announced, and who is told.                                     *)
Told == Announced /\ NoLostWakeup /\ NoFalseAlarm

LEMMA ToldStep == ASSUME TypeOK, Bus, Told, [Next]_vars PROVE Told'
<1> USE DEF TypeOK, Told, Announced, NoLostWakeup, NoFalseAlarm
<1>1. CASE UNCHANGED vars
  BY Zenon, <1>1 DEF vars
<1>2. CASE MakeTrue
  BY <1>2 DEF MakeTrue, pqVars
<1>3. CASE Notify
  <2>1. \A l \in Listener : pc[l] = "wait" => open
    BY DEF Bus, Registered, SinksAreHeard
  <2>2. \A i \in 1..Len(queue') : queue'[i] => truth'
    BY <1>3, QueueAppend DEF Notify
  <2>3. open /\ connected => queue' # <<>>
    BY Zenon, <1>3, QueueAppend DEF Notify
  <2> QED BY Zenon, <1>3, <2>1, <2>2, <2>3 DEF Notify
<1>4. CASE Disconnect
  BY Zenon, <1>4 DEF Disconnect, dbVars
<1>5. CASE Reconnect
  <2>1. \A i \in 1..Len(queue') : queue'[i] => truth'
    BY <1>5, QueueAppend DEF Reconnect, dbVars
  <2>2. queue' # <<>>
    BY Zenon, <1>5, QueueAppend DEF Reconnect
  <2> QED BY Zenon, <1>5, <2>1, <2>2 DEF Reconnect, dbVars
<1>6. CASE Dispatch
  <2>1. \A i \in 1..Len(queue') : queue'[i] => truth'
    BY <1>6, QueueTail DEF Dispatch, dbVars
  <2>2. Head(queue) \in BOOLEAN /\ (Head(queue) => truth)
    <3>1. queue # <<>>
      BY <1>6, Zenon DEF Dispatch
    <3>2. Head(queue) \in BOOLEAN /\ Head(queue) = queue[1] /\ 1 \in 1..Len(queue)
      BY <3>1, QueueTail
    <3>3. queue[1] => truth
      BY <3>2, Zenon
    <3> QED BY <3>2, <3>3, Zenon
  <2>3. \A l \in Listener : TRUE \in buf'[l] => truth
    BY Zenon, <1>6, <2>2 DEF Dispatch, Offer
  <2>4. \A l \in Listener : pc[l] = "wait" => buf'[l] # {}
    <3>1. \A l \in Listener : pc[l] = "wait" => l \in sinks
      BY DEF Bus, Registered
    <3> QED BY Zenon, <1>6, <3>1 DEF Dispatch, Offer
  <2> QED BY Zenon, <1>6, <2>1, <2>3, <2>4 DEF Dispatch, dbVars
<1>7. ASSUME NEW l \in Listener,
             Listen(l) \/ Check(l) \/ CheckFails(l) \/ Receive(l) \/ Wake(l) \/ Unlisten(l) \/ PqUnlisten(l)
      PROVE  Told'
  <2>1. CASE Listen(l)
    BY Zenon, <2>1 DEF Listen, dbVars
  <2>2. CASE Check(l)
    BY Zenon, <2>2 DEF Check, dbVars, pqVars
  <2>3. CASE CheckFails(l)
    BY Zenon, <2>3 DEF CheckFails, dbVars, pqVars
  <2>4. CASE Receive(l)
    <3>1. PICK v \in buf[l] : IF v THEN notify' = [notify EXCEPT ![l] = TRUE] /\ pc' = pc
                                   ELSE pc' = [pc EXCEPT ![l] = "check"] /\ notify' = notify
      BY <2>4 DEF Receive
    <3>2. v \in BOOLEAN /\ (v => truth)
      <4>1. buf[l] = {} \/ buf[l] = {TRUE} \/ buf[l] = {FALSE}
        BY Zenon
      <4>2. v = TRUE \/ v = FALSE
        <5> v \in buf[l]
          BY <3>1
        <5> QED BY <4>1
      <4>3. v = TRUE => truth
        <5>1. v = TRUE => TRUE \in buf[l]
          BY Zenon, <3>1
        <5>2. TRUE \in buf[l] => truth
          BY Zenon
        <5> QED BY <5>1, <5>2
      <4> QED BY <4>2, <4>3, Zenon
    <3> QED BY Zenon, <2>4, <3>1, <3>2 DEF Receive, dbVars, pqVars
  <2>5. CASE Wake(l)
    BY Zenon, <2>5 DEF Wake, dbVars, pqVars
  <2>6. CASE Unlisten(l)
    BY Zenon, <2>6 DEF Unlisten, dbVars, pqVars
  <2>7. CASE PqUnlisten(l)
    BY Zenon, <2>7 DEF PqUnlisten, dbVars
  <2> QED BY Zenon, <1>7, <2>1, <2>2, <2>3, <2>4, <2>5, <2>6, <2>7
<1> QED BY Zenon, <1>1, <1>2, <1>3, <1>4, <1>5, <1>6, <1>7 DEF Next

LEMMA IInvHolds == Spec => []IInv
<1>1. IInv /\ [Next]_vars => IInv'
  BY TypeStep, BusStep, ToldStep DEF IInv, Bus, Told
<1> QED BY <1>1, InitIInv, PTL DEF Spec

-----------------------------------------------------------------------------
(* Variables keep their types; a sink buffers at most one notification.    *)
THEOREM TypeCorrect == Spec => []TypeOK
BY IInvHolds, PTL DEF IInv

(* However Listen and the two halves of Unlisten interleave, a registered  *)
(* sink's channel is open.                                                 *)
THEOREM SinksHeard == Spec => []SinksAreHeard
BY IInvHolds, PTL DEF IInv

(* No wake-up is lost, for any number of listeners, breaks and NOTIFYs.    *)
THEOREM WakeupsKept == Spec => []NoLostWakeup
BY IInvHolds, PTL DEF IInv

(* Nobody is woken for a condition that does not hold.                     *)
THEOREM AlarmsTrue == Spec => []NoFalseAlarm
BY IInvHolds, PTL DEF IInv
=============================================================================
