---------------------------- MODULE MCMyQueue ----------------------------
(* Instances of MyQueue for TLC: the processes are model values.           *)
EXTENDS MyQueue, TLC

CONSTANTS s1, s2, r1, r2, sub, nopid

(* Processes of one role are interchangeable.                              *)
Symmetry == Permutations({s1, s2}) \cup Permutations({r1, r2})
=============================================================================
