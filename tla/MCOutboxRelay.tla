---------------------------- MODULE MCOutboxRelay ----------------------------
(* Model-checking values for OutboxRelay. *)
EXTENDS OutboxRelay

CONSTANTS r1, r2

MCRelays == {r1, r2}

\* Every row in an aggregate of its own, or all rows in one aggregate.
MCOwnKey == [e \in Rows |-> e]
MCSameKey == [e \in Rows |-> 1]
==============================================================================
