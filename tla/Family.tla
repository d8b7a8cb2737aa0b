------------------------------- MODULE Family -------------------------------
(***************************************************************************)
(* The programs of TME2 and TME3 that fork and wait: arbreCreation,        *)
(* creeNProcess, creeProcessWait (its choices 1 and 2; 3 makes the calls of *)
(* 2), decoder, mainConverters, passageDonnee, spy and fork-exec.  They have *)
(* one shape: a loop that forks, then calls of wait; what differs is written *)
(* in the operators AfterFork, AfterFail, Newborn, AfterLoop and Enough.   *)
(* A step is one call of fork, wait, exec or exit.                         *)
(***************************************************************************)
EXTENDS Integers, Sequences, FiniteSets, MagicSquare

CONSTANTS
  Passes,     \* Passes[program]: passes of its loop (bound: commands of spy)
  ForkFails   \* bound: calls of fork that fail

Programs == {"arbreCreation", "creeNProcess", "waitFilsQuelconque", "waitTousFils",
             "decoder", "mainConverters", "passageDonnee", "spy", "fork_exec"}

(* The table of waitFilsQuelconque has a second element, arbreCreation     *)
(* calls wait more often than it forks, and fork-exec forks once.          *)
PassesAssumption ==
  /\ Passes \in [Programs -> Nat \ {0}] /\ ForkFails \in Nat
  /\ Passes["waitFilsQuelconque"] > 1
  /\ Passes["arbreCreation"] < 11
  /\ Passes["fork_exec"] = 1

VARIABLES
  prog,       \* the program that runs
  proc,       \* proc[p]: where process p stands, its father, its loop index,
              \* its exit code, and its table of pids (copied by fork)
  failed,     \* calls of fork that failed
  status,     \* decoder: the status that wait fills in
  nbsolution, \* decoder: sum of the exit codes
  printed     \* passageDonnee: the table the last process displays

vars == <<prog, proc, failed, status, nbsolution, printed>>

Main == 0
Nobody == -1   \* what fork and wait return when they fail; also the father
               \* of an orphan

Pids == DOMAIN proc
NbFils == Passes[prog]

(* status is read before any wait has filled it in when every fork failed: *)
(* it holds any value.                                                     *)
Init ==
  /\ prog \in Programs
  /\ proc = [p \in {Main} |->
               [at |-> "fork", father |-> Nobody, i |-> 0, code |-> 0, tab |-> <<>>]]
  /\ failed = 0
  /\ status \in IF prog = "decoder" THEN {0, 1} ELSE {0}
  /\ nbsolution = 0
  /\ printed = <<>>

at(p, l) == proc[p].at = l
Goto(r, l) == [r EXCEPT !.at = l]
ExitWith(r, code) == [r EXCEPT !.at = "exit", !.code = code]
Children(p) == {c \in Pids : proc[c].father = p /\ ~at(c, "reaped")}

(* creeNProcess runs its loop twice, first the iterative, then the         *)
(* recursive function.                                                     *)
Last == IF prog = "creeNProcess" THEN 2 * NbFils ELSE NbFils

Next1(r, pid) == [r EXCEPT !.i = @ + 1,
                           !.tab = IF prog = "waitFilsQuelconque" THEN Append(@, pid) ELSE @]

(* Mistake: a father of passageDonnee does not wait for its child.         *)
AfterForkNoWait(r, pid) ==
  IF prog = "passageDonnee" THEN Goto(r, "exit") ELSE Next1(r, pid)

(* The father after fork has returned pid.                                 *)
AfterFork(r, pid) ==
  IF r.at = "chain" THEN Goto(r, "exit")
  ELSE IF prog \in {"passageDonnee", "spy", "fork_exec"}
         THEN Goto([r EXCEPT !.i = @ + 1], "wait")
         ELSE Next1(r, pid)

(* Only creeNProcess_it looks at the failure; the others take -1 for the   *)
(* pid of a child.                                                         *)
AfterFail(r) ==
  IF prog = "creeNProcess" /\ r.i < NbFils THEN ExitWith(r, 1) ELSE AfterFork(r, Nobody)

(* The child: a copy of its father r.                                      *)
Newborn(r) ==
  CASE prog = "arbreCreation" /\ r.at = "fork" -> Goto(r, "chain")
    [] prog = "arbreCreation" /\ r.at = "chain" -> [r EXCEPT !.code = @ + 1]
    [] prog \in {"creeNProcess", "waitFilsQuelconque"} -> ExitWith(r, 0)
    [] prog \in {"waitTousFils", "mainConverters"} -> ExitWith(r, 1)
    [] prog = "decoder" -> ExitWith(r, solve(r.i))
    [] prog = "passageDonnee" -> [r EXCEPT !.at = "record", !.code = 2]
    [] prog \in {"spy", "fork_exec"} -> Goto(r, "exec")

(* A child of arbreCreation forks while j < i, its child goes on; i is     *)
(* proc[p].i, j is proc[p].code.                                           *)
Forking(p) ==
  \/ at(p, "fork") /\ proc[p].i < Last
  \/ at(p, "chain") /\ proc[p].code < proc[p].i

Fork(p) ==
  LET c == Cardinality(Pids) IN
  /\ Forking(p)
  /\ proc' = [q \in Pids \cup {c} |->
                CASE q = c -> [Newborn(proc[p]) EXCEPT !.father = p]
                  [] q = p -> AfterFork(proc[p], c)
                  [] OTHER -> proc[q]]
  /\ UNCHANGED <<prog, failed, status, nbsolution, printed>>

ForkFail(p) ==
  /\ Forking(p) /\ failed < ForkFails
  /\ proc' = [proc EXCEPT ![p] = AfterFail(@)]
  /\ failed' = failed + 1
  /\ UNCHANGED <<prog, status, nbsolution, printed>>

(* Where the end of the loop leads: the last process of passageDonnee      *)
(* displays its table, spy meets the end of its input, creeNProcess does   *)
(* not wait.                                                               *)
AfterLoop ==
  IF prog \in {"passageDonnee", "spy", "creeNProcess"} THEN "exit" ELSE "wait"

EndLoop(p) ==
  /\ \/ at(p, "fork") /\ (proc[p].i = Last \/ prog = "spy")
     \/ at(p, "chain") /\ ~Forking(p)
  /\ proc' = [proc EXCEPT ![p] = IF at(p, "chain") THEN Goto(@, "exit")
                                 ELSE [@ EXCEPT !.at = AfterLoop, !.i = 0]]
  /\ printed' = IF prog = "passageDonnee" THEN proc[p].tab ELSE printed
  /\ UNCHANGED <<prog, failed, status, nbsolution>>

(* A child of passageDonnee writes its pid and its father's.               *)
Record(p) ==
  /\ at(p, "record")
  /\ proc' = [proc EXCEPT ![p].tab = Append(@, [fils |-> p, pere |-> proc[p].father]),
                          ![p].i = @ + 1, ![p].at = "fork"]
  /\ UNCHANGED <<prog, failed, status, nbsolution, printed>>

(* The command runs to its end; without it the child of spy ends, the one  *)
(* of fork-exec goes on as its father does.                                *)
Exec(p) ==
  /\ at(p, "exec")
  /\ \E next \in {"exit"} \cup (IF prog = "fork_exec" THEN {"wait"} ELSE {}) :
        proc' = [proc EXCEPT ![p] = Goto(@, next)]
  /\ UNCHANGED <<prog, failed, status, nbsolution, printed>>

(* Mistake: one call of wait is missing.                                   *)
EnoughOneLess(r, pid) == r.i + 1 >= NbFils - 1

(* Does the father stop waiting when wait returns pid?                     *)
Enough(r, pid) ==
  CASE prog = "arbreCreation" -> pid = Nobody \/ r.i + 1 = 11
    [] prog = "mainConverters" -> pid = Nobody
    [] prog = "waitFilsQuelconque" -> pid = r.tab[2]
    [] prog \in {"waitTousFils", "decoder"} -> r.i + 1 = NbFils
    [] OTHER -> TRUE

AfterWait(r, pid) ==
  CASE prog = "spy" -> Goto(r, "fork")
    [] prog = "arbreCreation" /\ pid = Nobody -> ExitWith(r, 2)
    [] OTHER -> [r EXCEPT !.i = @ + 1, !.at = IF Enough(r, pid) THEN "exit" ELSE "wait"]

Reap(p, c) == c \in Children(p) /\ at(c, "zombie")

(* decoder adds the status whether wait has filled it in or failed.        *)
Wait(p) ==
  /\ at(p, "wait")
  /\ \/ \E c \in Pids :
          /\ Reap(p, c)
          /\ status' = proc[c].code
          /\ proc' = [proc EXCEPT ![c] = Goto(@, "reaped"), ![p] = AfterWait(@, c)]
     \/ /\ Children(p) = {}
        /\ proc' = [proc EXCEPT ![p] = AfterWait(@, Nobody)]
        /\ UNCHANGED status
  /\ nbsolution' = IF prog = "decoder" THEN nbsolution + status' ELSE nbsolution
  /\ UNCHANGED <<prog, failed, printed>>

(* The children that are left are nobody's.                                *)
Exit(p) ==
  /\ at(p, "exit")
  /\ proc' = [c \in Pids |-> IF c = p THEN Goto(proc[c], "zombie")
                            ELSE IF c \in Children(p) THEN [proc[c] EXCEPT !.father = Nobody]
                            ELSE proc[c]]
  /\ UNCHANGED <<prog, failed, status, nbsolution, printed>>

Step(p) ==
  \/ Fork(p) \/ ForkFail(p) \/ EndLoop(p) \/ Record(p) \/ Exec(p) \/ Wait(p) \/ Exit(p)

Next == \E p \in Pids : Step(p)

Spec == Init /\ [][Next]_vars

(* Processes are scheduled and commands end; no program loops for ever, so *)
(* fairness of the whole is fairness of each process.                      *)
FairSpec == Spec /\ WF_vars(Next)

-----------------------------------------------------------------------------
(***************************************************************************)
(* Properties                                                              *)
(***************************************************************************)
Ended == at(Main, "zombie")
Made == Cardinality(Pids)

(* When every fork succeeds: arbreCreation makes seven processes in all    *)
(* and its father exits with 2, since it waits for more children than its  *)
(* three (README of TME2, answer to exercise 3); the others make a child   *)
(* per pass, spy one per command.                                          *)
AsManyAsAsked ==
  Ended /\ failed = 0 =>
    IF prog = "arbreCreation"
      THEN /\ proc[Main].code = 2
           /\ (\A p \in Pids : at(p, "zombie") \/ at(p, "reaped"))
                => Made = 1 + NbFils + (NbFils * (NbFils - 1)) \div 2
      ELSE Made = 1 + Last \/ (prog = "spy" /\ Made <= 1 + NbFils)

(* decoder counts the solutions, one child per candidate, when every fork  *)
(* succeeds; each fork that fails makes it count a status twice, at most   *)
(* (unless all fail: the status it then counts was never filled in).       *)
SolutionsCounted ==
  Ended /\ prog = "decoder" =>
    LET solutions == Cardinality(Solutions \cap 0 .. NbFils - 1) IN
    /\ failed = 0 => nbsolution = solutions
    /\ failed < NbFils => nbsolution <= solutions + failed

(* The table of passageDonnee is the chain of the processes, from the main *)
(* one to the one that displays it: a father waits, so getppid never names *)
(* another.                                                                *)
ChainDisplayed ==
  \A k \in 1 .. Len(printed) :
    printed[k] = [fils |-> k, pere |-> IF k = 1 THEN Main ELSE printed[k - 1].fils]

(* Each program of TME2 and TME3 makes, counts and displays what its       *)
(* exercise asks, whatever the order in which its children end.            *)
FamilyOutcome == AsManyAsAsked /\ SolutionsCounted /\ ChainDisplayed

(* spy runs one command at a time.  Except arbreCreation, creeNProcess and *)
(* waitFilsQuelconque, no program ends before its children, even after a   *)
(* fork that failed; waitFilsQuelconque ends after its second child, or    *)
(* after all of them if that one was not made.                             *)
NoneLeft ==
  /\ prog = "spy" => Cardinality(Children(Main)) <= 1
  /\ prog \in {"waitTousFils", "decoder", "mainConverters", "passageDonnee", "spy", "fork_exec"}
       => \A c \in Pids \ {Main} : proc[c].father # Nobody
  /\ Ended /\ prog = "waitFilsQuelconque" =>
       LET second == proc[Main].tab[2] IN
       IF second # Nobody THEN at(second, "reaped")
       ELSE \A c \in Pids \ {Main} : at(c, "reaped")

(* Every program ends, whichever calls of fork fail.                       *)
FamilyEnds == <>Ended
=============================================================================
