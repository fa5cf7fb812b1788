----------------------------- MODULE MCScheduler -----------------------------
(* Scheduler for TLC: what the jobs' configurations are.                    *)
EXTENDS Scheduler, TLC

(* The jobs in some order.                                                  *)
JobIds == CHOOSE f \in [Job -> 1..Cardinality(Job)] : \A j, k \in Job : f[j] = f[k] => j = k

(* max_in_flight: 1 for every job, which is then its own serial group.      *)
AtMostOne == [j \in Job |-> 1]
OwnGroup == [j \in Job |-> {j}]

(* serial_groups: [g] for every job.                                        *)
OneGroup == [j \in Job |-> {"g"}]

(* serial_groups: [g] for every job but one, which has no limit.            *)
Free == CHOOSE j \in Job : TRUE
AllButOneGroup == [j \in Job |-> IF j = Free THEN {} ELSE {"g"}]
AllButOneAtMostOne == [j \in Job |-> IF j = Free THEN 0 ELSE 1]

Symmetry == Permutations(Runner) \cup Permutations(Trigger)
=============================================================================
