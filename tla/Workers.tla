------------------------------- MODULE Workers -------------------------------
(***************************************************************************)
(* The rows of the workers table and everything that changes their state:  *)
(* registration and heartbeats (db/worker_factory.go), the API's land,     *)
(* retire, prune and delete (db/worker.go), and the worker collector       *)
(* (db/worker_lifecycle.go, gc/workercollector.go).                        *)
(*                                                                         *)
(* A row is its state, whether it has an address, and its expiry.          *)
(* Removing a row cascades to the containers and volumes of the worker:    *)
(* the modules that have those extend this one.                            *)
(***************************************************************************)
EXTENDS Naturals

CONSTANT Worker

VARIABLES
  wstate,   \* workers.state, or "absent"
  addr,     \* addr and baggageclaim_url are not NULL
  expires   \* workers.expires: "null", "ahead" of NOW() or "past"

workerVars == <<wstate, addr, expires>>

WorkerState == {"absent", "running", "stalled", "landing", "landed", "retiring"}

WorkersTypeOK ==
  /\ wstate \in [Worker -> WorkerState]
  /\ addr \in [Worker -> BOOLEAN]
  /\ expires \in [Worker -> {"null", "ahead", "past"}]

Present(w) == wstate[w] # "absent"

(* Some workers heartbeat, others have stalled.                            *)
WorkersInit ==
  /\ wstate \in [Worker -> {"running", "stalled"}]
  /\ addr = [w \in Worker |-> wstate[w] = "running"]
  /\ expires = [w \in Worker |-> IF wstate[w] = "running" THEN "ahead" ELSE "null"]

(* SaveWorker inserts the row or overwrites it, its state included: a      *)
(* registration carries no state, which means running.                     *)
SaveWorker(w) ==
  /\ wstate' = [wstate EXCEPT ![w] = "running"]
  /\ addr' = [addr EXCEPT ![w] = TRUE]
  /\ expires' = [expires EXCEPT ![w] = "ahead"]

(* HeartbeatWorker renews the expiry. The states of a worker that is being *)
(* drained survive, any other becomes running; a landed worker gets no     *)
(* address.                                                                *)
HeartbeatWorker(w) ==
  /\ Present(w)
  /\ wstate' = [wstate EXCEPT ![w] = IF @ \in {"landing", "landed", "retiring"} THEN @ ELSE "running"]
  /\ addr' = [addr EXCEPT ![w] = wstate[w] # "landed"]
  /\ expires' = [expires EXCEPT ![w] = "ahead"]

Land(w) ==
  /\ Present(w)
  /\ wstate' = [wstate EXCEPT ![w] = IF @ = "landed" THEN @ ELSE "landing"]
  /\ UNCHANGED <<addr, expires>>

Retire(w) ==
  /\ Present(w)
  /\ wstate' = [wstate EXCEPT ![w] = "retiring"]
  /\ UNCHANGED <<addr, expires>>

(* The row goes.                                                           *)
Remove(ws) ==
  /\ wstate' = [w \in Worker |-> IF w \in ws THEN "absent" ELSE wstate[w]]
  /\ addr' = [w \in Worker |-> addr[w] /\ w \notin ws]
  /\ expires' = [w \in Worker |-> IF w \in ws THEN "null" ELSE expires[w]]

Prune(w) ==
  /\ wstate[w] \notin {"absent", "running"}
  /\ Remove({w})

Delete(w) ==
  /\ Present(w)
  /\ Remove({w})

(* The ttl of the last heartbeat passes.                                   *)
Expire(w) ==
  /\ expires[w] = "ahead"
  /\ expires' = [expires EXCEPT ![w] = "past"]
  /\ UNCHANGED <<wstate, addr>>

-----------------------------------------------------------------------------
(* The worker collector's three statements. `busy` are the workers with a  *)
(* container of an unfinished build that must not be interrupted.          *)
StallUnresponsiveWorkers ==
  LET late == {w \in Worker : wstate[w] = "running" /\ expires[w] = "past"}
  IN  /\ late # {}
      /\ wstate' = [w \in Worker |-> IF w \in late THEN "stalled" ELSE wstate[w]]
      /\ addr' = [w \in Worker |-> addr[w] /\ w \notin late]
      /\ expires' = [w \in Worker |-> IF w \in late THEN "null" ELSE expires[w]]

FinishedRetiring(busy) == {w \in Worker : wstate[w] = "retiring"} \ busy

DeleteFinishedRetiringWorkers(busy) ==
  /\ FinishedRetiring(busy) # {}
  /\ Remove(FinishedRetiring(busy))

LandFinishedLandingWorkers(busy) ==
  LET done == {w \in Worker : wstate[w] = "landing"} \ busy
  IN  /\ done # {}
      /\ wstate' = [w \in Worker |-> IF w \in done THEN "landed" ELSE wstate[w]]
      /\ addr' = [w \in Worker |-> addr[w] /\ w \notin done]
      /\ UNCHANGED expires
=============================================================================
