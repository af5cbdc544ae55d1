--------------------------- MODULE MCCircuitBreaker ---------------------------
(* Model-checking values for CircuitBreaker. *)
EXTENDS CircuitBreaker

CONSTANTS c1, c2, c3

MCCalls == {c1, c2, c3}
==============================================================================
