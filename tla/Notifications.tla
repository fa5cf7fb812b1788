---------------------------- MODULE Notifications ----------------------------
(***************************************************************************)
(* How an ATC is told of a change in the database: the notifications bus   *)
(* (db/notifications_bus.go), which shares one pq.Listener among all the   *)
(* goroutines of the process, and the condition notifiers on top of it     *)
(* (db/notifier.go), for one channel and the condition that is announced   *)
(* on it, such as `status = 'aborted'` on a build's abort channel.         *)
(*                                                                         *)
(* The bus's mutex makes Listen, the first half of Unlisten and the        *)
(* dispatch of one notification atomic; pq.Listener.Unlisten is called     *)
(* after the mutex is released.                                            *)
(***************************************************************************)
EXTENDS Naturals, Sequences

CONSTANTS
  Listener,   \* goroutines that watch the channel
  MaxNotes,   \* bound: NOTIFYs
  MaxBreaks,  \* bound: times the listener's connection breaks
  MaxFails    \* bound: failing condition queries

ASSUME NotificationBounds == MaxNotes \in Nat /\ MaxBreaks \in Nat /\ MaxFails \in Nat

VARIABLES
  truth,      \* the condition holds in the database
  notes,      \* how many NOTIFYs were executed
  open,       \* pq.Listener has the channel
  connected,  \* pq.Listener's connection is up
  queue,      \* pq.Listener.Notify: TRUE a notification, FALSE a reconnection
  sinks,      \* listeners with a sink in bus.notifications[channel]
  buf,        \* buf[l]: what is buffered in the sink: a set of at most one BOOLEAN
  pc,         \* pc[l]: where the listener is
  notify,     \* notify[l]: something is buffered in notifier.notify
  breaks, fails

vars == <<truth, notes, open, connected, queue, sinks, buf, pc, notify, breaks, fails>>
dbVars == <<truth, notes>>
pqVars == <<open, connected, queue>>
bounds == <<breaks, fails>>

PC == {"off", "check", "wait", "woken", "unlisten"}
Watching(l) == pc[l] \in {"check", "wait"}

Init ==
  /\ truth \in BOOLEAN
  /\ notes = 0
  /\ open = FALSE /\ connected = TRUE /\ queue = <<>>
  /\ sinks = {}
  /\ buf = [l \in Listener |-> {}]
  /\ pc = [l \in Listener |-> "off"]
  /\ notify = [l \in Listener |-> FALSE]
  /\ breaks = 0 /\ fails = 0

-----------------------------------------------------------------------------
(* Somewhere an ATC makes the condition true, and then calls Notify.       *)
MakeTrue ==
  /\ ~truth
  /\ truth' = TRUE
  /\ UNCHANGED <<notes, pqVars, sinks, buf, pc, notify, bounds>>

Notify ==
  /\ truth
  /\ notes < MaxNotes
  /\ notes' = notes + 1
  /\ queue' = IF open /\ connected THEN Append(queue, TRUE) ELSE queue
  /\ UNCHANGED <<truth, open, connected, sinks, buf, pc, notify, bounds>>

(* pq.Listener: a broken connection delivers nothing; once it is back the  *)
(* listener has resumed its channels and says so with a nil notification.  *)
Disconnect ==
  /\ connected
  /\ breaks < MaxBreaks
  /\ breaks' = breaks + 1
  /\ connected' = FALSE
  /\ UNCHANGED <<dbVars, open, queue, sinks, buf, pc, notify, fails>>

Reconnect ==
  /\ ~connected
  /\ connected' = TRUE
  /\ queue' = Append(queue, FALSE)
  /\ UNCHANGED <<dbVars, open, sinks, buf, pc, notify, bounds>>

-----------------------------------------------------------------------------
(* newConditionNotifier: bus.Listen, and start to watch. Opening a channel *)
(* that is open already is an error to pq.Listener.                        *)
Listen(l) ==
  /\ pc[l] = "off"
  /\ connected
  /\ sinks = {} => ~open
  /\ open' = TRUE
  /\ sinks' = sinks \cup {l}
  /\ buf' = [buf EXCEPT ![l] = {}]
  /\ notify' = [notify EXCEPT ![l] = FALSE]
  /\ pc' = [pc EXCEPT ![l] = "check"]
  /\ UNCHANGED <<dbVars, connected, queue, bounds>>

(* A send on the sink, which does not block: if one is buffered, the new   *)
(* one is dropped.                                                         *)
Offer(b, v) == IF b = {} THEN {v} ELSE b

(* dispatchNotifications, for one of pq.Listener.Notify.                   *)
DispatchNotesOnly ==
  /\ queue # <<>>
  /\ queue' = Tail(queue)
  /\ buf' = [l \in Listener |-> IF l \in sinks /\ Head(queue) THEN Offer(buf[l], TRUE) ELSE buf[l]]
  /\ UNCHANGED <<dbVars, open, connected, sinks, pc, notify, bounds>>

Dispatch ==
  /\ queue # <<>>
  /\ queue' = Tail(queue)
  /\ buf' = [l \in Listener |-> IF l \in sinks THEN Offer(buf[l], Head(queue)) ELSE buf[l]]
  /\ UNCHANGED <<dbVars, open, connected, sinks, pc, notify, bounds>>

(* conditionNotifier.watch: evaluate the condition, and say so if it       *)
(* holds; after an error try again.                                        *)
CheckForgotten(l) ==
  /\ pc[l] = "check"
  /\ pc' = [pc EXCEPT ![l] = "wait"]
  /\ UNCHANGED <<dbVars, pqVars, sinks, buf, notify, bounds>>

Check(l) ==
  /\ pc[l] = "check"
  /\ pc' = [pc EXCEPT ![l] = "wait"]
  /\ notify' = [notify EXCEPT ![l] = @ \/ truth]
  /\ UNCHANGED <<dbVars, pqVars, sinks, buf, bounds>>

CheckFails(l) ==
  /\ pc[l] = "check"
  /\ fails < MaxFails
  /\ fails' = fails + 1
  /\ UNCHANGED <<dbVars, pqVars, sinks, buf, pc, notify, breaks>>

(* ...then wait on the sink: a notification is passed on as it is, after a *)
(* reconnection the condition is evaluated again.                          *)
Receive(l) ==
  /\ pc[l] = "wait"
  /\ \E v \in buf[l] :
       IF v THEN notify' = [notify EXCEPT ![l] = TRUE] /\ pc' = pc
            ELSE pc' = [pc EXCEPT ![l] = "check"] /\ notify' = notify
  /\ buf' = [buf EXCEPT ![l] = {}]
  /\ UNCHANGED <<dbVars, pqVars, sinks, bounds>>

(* The owner of the notifier receives from Notify() and acts...            *)
Wake(l) ==
  /\ Watching(l)
  /\ notify[l]
  /\ pc' = [pc EXCEPT ![l] = "woken"]
  /\ notify' = [notify EXCEPT ![l] = FALSE]
  /\ UNCHANGED <<dbVars, pqVars, sinks, buf, bounds>>

(* ...and closes the notifier, then or before it was woken: bus.Unlisten   *)
(* removes the sink...                                                     *)
Unlisten(l) ==
  /\ pc[l] \in {"check", "wait", "woken"}
  /\ sinks' = sinks \ {l}
  /\ pc' = [pc EXCEPT ![l] = IF sinks = {l} THEN "unlisten" ELSE "off"]
  /\ UNCHANGED <<dbVars, pqVars, buf, notify, bounds>>

(* ...and, if it was the last, the channel.                                *)
PqUnlisten(l) ==
  /\ pc[l] = "unlisten"
  /\ open' = FALSE
  /\ pc' = [pc EXCEPT ![l] = "off"]
  /\ UNCHANGED <<dbVars, connected, queue, sinks, buf, notify, bounds>>

Next ==
  \/ MakeTrue \/ Notify \/ Disconnect \/ Reconnect \/ Dispatch
  \/ \E l \in Listener :
       \/ Listen(l) \/ Check(l) \/ CheckFails(l) \/ Receive(l) \/ Wake(l)
       \/ Unlisten(l) \/ PqUnlisten(l)

Spec == Init /\ [][Next]_vars

(* The goroutines of the bus and the notifiers run on, and pq reconnects.  *)
Fairness ==
  /\ WF_vars(Reconnect) /\ WF_vars(Dispatch)
  /\ \A l \in Listener : WF_vars(Check(l)) /\ WF_vars(Receive(l)) /\ WF_vars(Wake(l))

FairSpec == Spec /\ Fairness

-----------------------------------------------------------------------------
TypeOK ==
  /\ truth \in BOOLEAN
  /\ notes \in 0..MaxNotes
  /\ open \in BOOLEAN /\ connected \in BOOLEAN
  /\ queue \in Seq(BOOLEAN)
  /\ sinks \in SUBSET Listener
  /\ buf \in [Listener -> {{}, {TRUE}, {FALSE}}]
  /\ pc \in [Listener -> PC]
  /\ notify \in [Listener -> BOOLEAN]
  /\ breaks \in 0..MaxBreaks /\ fails \in 0..MaxFails

(* Sinks are only registered for a channel that the connection listens on, *)
(* although Unlisten closes it after it released the mutex.                *)
SinksAreHeard == sinks # {} => open

(* No lost wake-up: once the condition was announced, a watcher that has   *)
(* nothing to wait for was told; a notification dropped because one was    *)
(* buffered already, or lost with the connection, is always made up for.   *)
NoLostWakeup ==
  \A l \in Listener :
    (notes > 0 /\ pc[l] = "wait" /\ buf[l] = {} /\ queue = <<>> /\ connected) => notify[l]

(* Nobody is woken for a condition that does not hold.                     *)
NoFalseAlarm == \A l \in Listener : (notify[l] \/ pc[l] = "woken") => truth

(* Once announced, the condition reaches everyone who watches and goes on  *)
(* watching.                                                               *)
WatchersAreWoken ==
  \A l \in Listener : (notes > 0 /\ Watching(l)) ~> ~Watching(l)
=============================================================================
