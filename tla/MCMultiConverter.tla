------------------------- MODULE MCMultiConverter -------------------------
(* Instances of MultiConverter for TLC.  Two users: one runs the clients   *)
(* one by one, the other runs two of them at once, may kill the first and  *)
(* may stop the server.                                                    *)
EXTENDS MultiConverter

CONSTANTS c1, c2, none

Patient == [atOnce |-> 1, killed |-> {}, interrupts |-> FALSE]
Hasty == [atOnce |-> 2, killed |-> {c1}, interrupts |-> TRUE]

AnyUser == {Patient, Hasty}
PatientUser == {Patient}
=============================================================================
