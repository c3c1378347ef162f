----------------------------- MODULE MCActionStore -----------------------------
(* Instances of ActionStore for TLC: the time-outs keep the order they have *)
(* in the code (2 < 3 < 10 < 15 minutes) in as few ticks as possible.       *)
EXTENDS ActionStore

CONSTANTS a1, a2, i1, i2

TwoActions == {a1, a2}
OneAction == {a1}
OneIncident == {i1}
BothOfOne == [a \in Actions |-> i1]
=============================================================================
