--------------------------- MODULE MCNotifications ---------------------------
(* Model-checking values for Notifications. *)
EXTENDS Notifications, TLC

CONSTANTS c1, c2, e1, e2, e3, ann, ben, me

MCConsumers == {c1, c2}
MCEvents == {e1, e2, e3}
MCActorOf == e1 :> ann @@ e2 :> ann @@ e3 :> ben
MCGroupOf == e1 :> "like" @@ e2 :> "like" @@ e3 :> "follow"
MCSymmetry == Permutations(MCConsumers)
===============================================================================
