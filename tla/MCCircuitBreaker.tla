--------------------------- MODULE MCCircuitBreaker ---------------------------
(* Instances of CircuitBreaker for TLC. *)
EXTENDS CircuitBreaker

CONSTANTS c1, c2, c3

ThreeCallers == {c1, c2, c3}
TwoCallers == {c1, c2}
=============================================================================
