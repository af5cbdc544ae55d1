--------------------------- MODULE MCGraphRelations ---------------------------
(* Model-checking values for GraphRelations. *)
EXTENDS GraphRelations

CONSTANTS alice, bob, s1, s2

MCUsers == {alice, bob}
MCSessions == {s1, s2}
===============================================================================
