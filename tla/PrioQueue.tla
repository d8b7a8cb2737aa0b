----------------------------- MODULE PrioQueue -----------------------------
(***************************************************************************)
(* What a message queue promises to the processes that share it: a message *)
(* is kept from its sending to the one reception that takes it, at most    *)
(* MAX_MSG of them are kept, and a reception takes one of the messages of  *)
(* the highest priority.  Nothing is said of the order of messages of one  *)
(* priority.                                                               *)
(***************************************************************************)
EXTENDS Integers, Sequences, FiniteSets

CONSTANTS Prios, MAX_MSG

VARIABLES
  pending,   \* the messages sent and not yet received
  received   \* the messages received, in order

vars == <<pending, received>>

Init == pending = {} /\ received = <<>>

(* Messages are numbered in the order of their sending.                    *)
Send ==
  /\ Cardinality(pending) < MAX_MSG
  /\ \E x \in Prios :
       pending' = pending \cup
         {[seq |-> Cardinality(pending) + Len(received) + 1, prio |-> x]}
  /\ UNCHANGED received

Receive ==
  \E m \in pending :
    /\ \A other \in pending : other.prio <= m.prio
    /\ pending' = pending \ {m}
    /\ received' = Append(received, m)

Next == Send \/ Receive

Spec == Init /\ [][Next]_vars
=============================================================================
