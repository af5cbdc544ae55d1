------------------------------ MODULE MCSessions ------------------------------
(* Model-checking values for Sessions. *)
EXTENDS Sessions

CONSTANTS alice, s1, s2, m1, r1, r2, w1, w2

MCUsers == {alice}
MCSids == {s1, s2}
MCMail == {m1}
MCReqs == {r1, r2}
MCWorkers == {w1, w2}
===============================================================================
