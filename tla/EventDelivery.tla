---------------------------- MODULE EventDelivery ----------------------------
(***************************************************************************)
(* What the outbox promises the rest of the platform, with no relay in     *)
(* sight.  A row that was committed with its transaction may be delivered  *)
(* to Kafka any number of times; it is retired either as done, and then it *)
(* has been delivered, or as quarantined.  As long as the outbox is        *)
(* orderly, that verdict is final: it is given once, of a row without one, *)
(* and nobody sends the row afterwards, for the first time or again.       *)
(* When a publish has outlived its lease the outbox is not orderly any     *)
(* more, and all that is left is that a row which is done was delivered    *)
(* and that nothing but committed rows is sent or retired.                 *)
(* OutboxRelay implements this module.                                     *)
(***************************************************************************)
CONSTANT Rows           \* outbox rows, by id

VARIABLES
    committed,          \* rows whose transaction committed
    delivered,          \* rows of which the broker holds at least one copy
    done,               \* rows recorded as published
    quarantined,        \* rows recorded as poisoned
    orderly             \* no publish has outlived its lease

deliveryVars == <<committed, delivered, done, quarantined, orderly>>

Init ==
    /\ committed = {}
    /\ delivered = {}
    /\ done = {}
    /\ quarantined = {}
    /\ orderly = TRUE

Retired == done \union quarantined

\* The producing transaction commits: row and state change in one step.
Commit(e) ==
    /\ e \in Rows \ committed
    /\ committed' = committed \union {e}
    /\ UNCHANGED <<delivered, done, quarantined, orderly>>

\* Some committed rows reach the broker (for the first time, or again).
Deliver(S) ==
    /\ S \subseteq committed
    /\ orderly => S \intersect Retired = {}
    /\ delivered' = delivered \union S
    /\ UNCHANGED <<committed, done, quarantined, orderly>>

\* Rows are retired: P was delivered, Q is given up.
Retire(P, Q) ==
    /\ P \subseteq delivered
    /\ Q \subseteq committed
    /\ orderly => /\ P \intersect Q = {}
                  /\ (P \union Q) \intersect Retired = {}
    /\ done' = done \union P
    /\ quarantined' = quarantined \union Q
    /\ UNCHANGED <<committed, delivered, orderly>>

\* A publish outlives its lease.
Overrun ==
    /\ orderly' = FALSE
    /\ UNCHANGED <<committed, delivered, done, quarantined>>

Next ==
    \/ \E e \in Rows : Commit(e)
    \/ \E S \in SUBSET Rows : Deliver(S)
    \/ \E P, Q \in SUBSET Rows : Retire(P, Q)
    \/ Overrun

Spec == Init /\ [][Next]_deliveryVars
==============================================================================
