---------------------------- MODULE MCRetryLadder ----------------------------
(* Model-checking values for RetryLadder. *)
EXTENDS RetryLadder

CONSTANTS counters, cascade, e1, w1, w2

\* Two groups with an instance each.
MCGroups == {counters, cascade}
MCConsumers == {w1, w2}
MCGroupOf == [w \in MCConsumers |-> IF w = w1 THEN counters ELSE cascade]
MCEvents == {e1}
MCPartitionOf == [e \in MCEvents |-> 0]
==============================================================================
