---------------------------- MODULE MCCellList ----------------------------
(* Instances of CellList for TLC.  Strings are the messages the tests of   *)
(* the library send, a text and its NUL.                                   *)
EXTENDS CellList

CONSTANTS a, nul, garbage

Strings == {<<nul>>, <<a, nul>>}
=============================================================================
