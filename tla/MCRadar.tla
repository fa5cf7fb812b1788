------------------------------ MODULE MCRadar --------------------------------
(* Radar for TLC: two goroutines of a runner and a request.                 *)
EXTENDS Radar

Goroutine(of, kind, nr) == [atc |-> "atc", of |-> of, kind |-> kind, nr |-> nr]

MCScanner == {Goroutine("res", "runner", 1), Goroutine("type", "runner", 1), Goroutine("res", "request", 1)}
Twice == {Goroutine("res", "runner", 1), Goroutine("res", "runner", 2), Goroutine("type", "runner", 1)}
=============================================================================
