------------------------------ MODULE MCTimeline ------------------------------
(* Model-checking values for Timeline. *)
EXTENDS Timeline

CONSTANTS ann, ben, cat

MCUsers == {ann, ben, cat}
MCReaders == {ann}
MCWritten == <<cat, cat>>
MCAuthors == {ann, cat}
MCMayFollow == ({ann, ben} \X {cat}) \union {<<ann, ben>>}
===============================================================================
