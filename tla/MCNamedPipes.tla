--------------------------- MODULE MCNamedPipes ---------------------------
(* Instances of NamedPipes for TLC.  Four users: one runs the clients one  *)
(* by one with amounts of one length, one does so with the shorter amount  *)
(* last or first, one does so too but may kill the first client, asks for  *)
(* an unknown currency with the second and may stop the server, and one    *)
(* does all that with both clients at once.                                *)
EXTENDS NamedPipes

CONSTANTS c1, c2

Same == [c \in Clients |-> IF c = c1 THEN <<5>> ELSE <<7>>]
Shorter == [c \in Clients |-> IF c = c1 THEN <<1, 0>> ELSE <<7>>]

Patient == [amount |-> Same, atOnce |-> 1, killed |-> {}, unknown |-> {},
            interrupts |-> FALSE]
Frugal == [Patient EXCEPT !.amount = Shorter]
Rough == [Frugal EXCEPT !.killed = {c1}, !.unknown = {c2}, !.interrupts = TRUE]
Hasty == [Rough EXCEPT !.atOnce = 2]

AnyUser == {Patient, Frugal, Rough, Hasty}
AnyDigit == {0, 1, 5, 7}
=============================================================================
