------------------------------ MODULE Barrier ------------------------------
(***************************************************************************)
(* A barrier that a set of processes passes once: nobody leaves it before  *)
(* everybody has arrived.                                                  *)
(***************************************************************************)
CONSTANT Procs

VARIABLES arrived, left

vars == <<arrived, left>>

Init == arrived = {} /\ left = {}

Arrive(p) == arrived' = arrived \cup {p} /\ UNCHANGED left

Leave(p) == arrived = Procs /\ left' = left \cup {p} /\ UNCHANGED arrived

Next == \E p \in Procs : Arrive(p) \/ Leave(p)

Spec == Init /\ [][Next]_vars
=============================================================================
