------------------------------- MODULE MCPosts -------------------------------
(* Model-checking values for Posts. *)
EXTENDS Posts, TLC

CONSTANTS alice, bob, p1, p2, p3, s1, s2, r1, r2, c1, c2

MCUsers == {alice, bob}
MCIds == {p1, p2, p3}
MCSessions == {s1, s2}
MCReplicas == {r1, r2}
MCConns == {c1, c2}

\* No property says anything of liveness.
Symmetry == Permutations(MCSessions) \union Permutations(MCReplicas) \union Permutations(MCConns)
===============================================================================
