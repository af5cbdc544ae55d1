---------------------------- MODULE MCCascadeJobs ----------------------------
(* Model-checking values for CascadeJobs. *)
EXTENDS CascadeJobs

CONSTANTS u1, u2, w1, w2

MCUsers == {u1, u2}
MCOneUser == {u1}
MCWorkers == {w1, w2}

Row(t, a, b) == [table |-> t, from |-> a, to |-> b]

\* Two follows of u1, one of them with u2, and a block; a late mute of u1.  A
\* tick deletes one row of each table.
Others == "another user"
MCLate == {Row("mutes", u1, Others)}
MCEdges == MCLate \union
    {Row("follows", u1, Others), Row("follows", u2, u1), Row("blocks", Others, u1)}

\* One follow, which is deleted in the first tick.
MCFewEdges == {Row("follows", u1, Others)}
MCNone == {}
===============================================================================
