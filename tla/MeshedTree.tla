----------------------------- MODULE MeshedTree -----------------------------
(***************************************************************************)
(* What the join protocol promises, without its messages: every leaf is    *)
(* the root of a tree of VIDs, and a switch obtains a VID on one of its    *)
(* ports only by extending, with the neighbour's port number, a VID that   *)
(* the neighbour one tier below has, or had before it was restarted.       *)
(***************************************************************************)
EXTENDS Trees

Init == granted = [q \in Port |-> {}]

Next == \E q \in Port : \E V \in SUBSET Extensions(q) : Grant(q, V)

Spec == Init /\ [][Next]_granted
=============================================================================
