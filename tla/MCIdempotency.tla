---------------------------- MODULE MCIdempotency ----------------------------
(* Model-checking values for Idempotency. *)
EXTENDS Idempotency

CONSTANTS r1, r2, r3, b1, b2

MCRequests == {r1, r2, r3}
MCBodies == {b1, b2}
MCBad == {b2}
==============================================================================
