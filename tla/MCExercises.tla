---------------------------- MODULE MCExercises ----------------------------
(***************************************************************************)
(* Exercises for TLC.                                                      *)
(***************************************************************************)
EXTENDS Exercises

(* The candidates 0 to 4 of decoder are enough to include its solution.    *)
MCPasses == [p \in {"arbreCreation", "creeNProcess", "waitFilsQuelconque", "waitTousFils",
                    "decoder", "mainConverters", "passageDonnee", "spy", "fork_exec"} |->
              CASE p = "decoder" -> 5 [] p = "fork_exec" -> 1 [] OTHER -> 3]
=============================================================================
