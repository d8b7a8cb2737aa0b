----------------------------- MODULE MCFicindex -----------------------------
(* Two processes and two files: one process may copy one file into the     *)
(* other while the second process uses either.  A file found at first      *)
(* holds two different records.                                            *)
EXTENDS Ficindex, TLC

CONSTANTS p1, p2, file1, file2, v, w

TwoRecords == {<<v, w>>}

SomeFileUnmixed == mixed # Files

Symmetry == Permutations({p1, p2}) \cup Permutations({file1, file2})
=============================================================================
