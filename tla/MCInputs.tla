------------------------------ MODULE MCInputs -------------------------------
(* Inputs for TLC: two resources, two upstream jobs.                        *)
EXTENDS Inputs

Input(name, res, passed, every, pinned) ==
  [name |-> name, res |-> res, job |-> "down", passed |-> passed, every |-> every, pinned |-> pinned]

Row(res, order) == [res |-> res, order |-> order, enabled |-> TRUE]
MCFirstRows == <<Row("x", 1), Row("x", 2), Row("y", 1), Row("y", 2)>>

(* Two builds of a, which has both resources, one of b, which may have one. *)
MCFirstBuilds == [b \in 1..3 |-> [job |-> IF b = 3 THEN "b" ELSE "a", status |-> "succeeded"]]
Out(ids, b) == {[id |-> id, build |-> b] : id \in ids}
MCFirstOutputs == {Out({1, 3}, 1) \cup Out({2, 3}, 2) \cup Out(zs, 3) : zs \in {{2}, {1, 3}}}

MCConfigs ==
  {<<Input("i", "x", {"a"}, TRUE, 0), Input("k", "y", {"a", "b"}, FALSE, 0)>>,
   <<Input("i", "x", {"a", "b"}, FALSE, 0), Input("k", "y", {"a"}, FALSE, 0)>>,
   <<Input("i", "x", {}, FALSE, 1), Input("k", "y", {}, TRUE, 0)>>}

PinnedConfigs ==
  {<<Input("i", "x", {"a"}, FALSE, 1)>>}
=============================================================================
