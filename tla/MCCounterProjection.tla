------------------------- MODULE MCCounterProjection -------------------------
(* Model-checking values for CounterProjection. *)
EXTENDS CounterProjection

CONSTANTS alice, bob, carol

MCTwo == {alice, bob}
MCTwoOldest == <<alice, bob>>
MCThree == {alice, bob, carol}
MCThreeOldest == <<carol, alice, bob>>
==============================================================================
