------------------------------ MODULE SpyBatch ------------------------------
(***************************************************************************)
(* TME4's spy (src/spy.c), a layer above the shell: it forks a child per   *)
(* command, keeps the children suspended until NBUF commands have been     *)
(* entered, then lets them all run and waits for their ends before it      *)
(* reads the next command.  SIGUSR1 is blocked in every process but inside *)
(* sigsuspend.                                                             *)
(***************************************************************************)
EXTENDS Integers, FiniteSets

CONSTANTS
  NBUF,       \* size of a batch (4 in the code)
  Commands,   \* bound: commands the user enters
  ForkFails   \* bound: calls of fork that fail

Slots == 0 .. NBUF - 1

CountsAssumption == NBUF \in Nat \ {0} /\ Commands \in Nat /\ ForkFails \in Nat

VARIABLES
  father,   \* where spy stands
  nbf,      \* its index into pid
  child,    \* the process of each slot of pid
  pending,  \* the slots whose process has SIGUSR1 pending
  entered,  \* commands read so far
  failed    \* calls of fork that failed

vars == <<father, nbf, child, pending, entered, failed>>

ChildStates == {"none", "forked", "suspended", "exec", "zombie"}

Init ==
  /\ father = "read"
  /\ nbf = 0
  /\ child = [s \in Slots |-> "none"]
  /\ pending = {}
  /\ entered = 0
  /\ failed = 0

(* A command is read, and the next step is fork.                           *)
ReadCommand ==
  /\ father = "read" /\ entered < Commands
  /\ entered' = entered + 1
  /\ father' = "fork"
  /\ UNCHANGED <<nbf, child, pending, failed>>

(* End of the input, or an error of read: spy ends as it stands.           *)
Eof ==
  /\ father = "read"
  /\ father' = "exit"
  /\ UNCHANGED <<nbf, child, pending, entered, failed>>

Fork ==
  /\ father = "fork"
  /\ child' = [child EXCEPT ![nbf] = "forked"]
  /\ IF nbf < NBUF - 1
       THEN nbf' = nbf + 1 /\ father' = "read"
       ELSE nbf' = 0 /\ father' = "kill"
  /\ UNCHANGED <<pending, entered, failed>>

(* Without a child the slot is kept for the next command.                  *)
ForkFail ==
  /\ father = "fork" /\ failed < ForkFails
  /\ failed' = failed + 1
  /\ father' = "read"
  /\ UNCHANGED <<nbf, child, pending, entered>>

(* Mistake: SIGUSR1 is not blocked, a child that does not wait yet uses it *)
(* up in its handler.                                                      *)
KillUnmasked ==
  /\ father = "kill"
  /\ pending' = IF child[nbf] = "suspended" THEN pending \cup {nbf} ELSE pending
  /\ IF nbf < NBUF - 1
       THEN nbf' = nbf + 1 /\ father' = "kill"
       ELSE nbf' = 0 /\ father' = "waitpid"
  /\ UNCHANGED <<child, entered, failed>>

Kill ==
  /\ father = "kill"
  /\ pending' = pending \cup {nbf}
  /\ IF nbf < NBUF - 1
       THEN nbf' = nbf + 1 /\ father' = "kill"
       ELSE nbf' = 0 /\ father' = "waitpid"
  /\ UNCHANGED <<child, entered, failed>>

(* Mistake: one child is waited for.                                       *)
WaitpidOnce ==
  /\ father = "waitpid" /\ child[nbf] = "zombie"
  /\ child' = [child EXCEPT ![nbf] = "none"]
  /\ nbf' = 0 /\ father' = "read"
  /\ UNCHANGED <<pending, entered, failed>>

(* The children are waited for in the order of their slots; then the words *)
(* of the last command are freed and a new batch begins.                   *)
Waitpid ==
  /\ father = "waitpid" /\ child[nbf] = "zombie"
  /\ child' = [child EXCEPT ![nbf] = "none"]
  /\ IF nbf < NBUF - 1
       THEN nbf' = nbf + 1 /\ father' = "waitpid"
       ELSE nbf' = 0 /\ father' = "read"
  /\ UNCHANGED <<pending, entered, failed>>

Suspend(s) ==
  /\ child[s] = "forked"
  /\ child' = [child EXCEPT ![s] = "suspended"]
  /\ UNCHANGED <<father, nbf, pending, entered, failed>>

(* Mistake: the child goes on without its signal.                          *)
WakeUnasked(s) ==
  /\ child[s] = "suspended"
  /\ child' = [child EXCEPT ![s] = "exec"]
  /\ pending' = pending \ {s}
  /\ UNCHANGED <<father, nbf, entered, failed>>

Wake(s) ==
  /\ child[s] = "suspended" /\ s \in pending
  /\ child' = [child EXCEPT ![s] = "exec"]
  /\ pending' = pending \ {s}
  /\ UNCHANGED <<father, nbf, entered, failed>>

(* The command ends, or exec fails and the child exits.                    *)
End(s) ==
  /\ child[s] = "exec"
  /\ child' = [child EXCEPT ![s] = "zombie"]
  /\ UNCHANGED <<father, nbf, pending, entered, failed>>

Father == ReadCommand \/ Eof \/ Fork \/ ForkFail \/ Kill \/ Waitpid
Busy == Fork \/ Kill \/ Waitpid

Child(s) == Suspend(s) \/ Wake(s) \/ End(s)

Next == Father \/ \E s \in Slots : Child(s)

Spec == Init /\ [][Next]_vars

(* Processes are scheduled and commands end; the user may type nothing.    *)
FairSpec == Spec /\ WF_vars(Busy) /\ \A s \in Slots : WF_vars(Child(s))

-----------------------------------------------------------------------------
(***************************************************************************)
(* Properties                                                              *)
(***************************************************************************)
(* tme4.html, exercise 7: the commands of a batch begin once NBUF commands *)
(* have been entered.                                                      *)
BatchTogether ==
  [][\A s \in Slots : child[s] = "suspended" /\ child'[s] = "exec"
       => /\ father \in {"kill", "waitpid"}
          /\ entered - failed >= NBUF
          /\ (entered - failed) % NBUF = 0]_vars

(* tme4.html, exercise 7: all the children have ended when the next batch  *)
(* is prepared, so a slot of pid is never taken from a living child: the   *)
(* slots from nbf on are empty, those before it wait for their signal.     *)
BatchesApart ==
  father \in {"read", "fork", "exit"} =>
    \A s \in Slots : IF s < nbf THEN child[s] \in {"forked", "suspended"} ELSE child[s] = "none"

(* A complete batch runs to its end and spy reads again, even when the     *)
(* signals arrive before the children wait for them.                       *)
BatchEnds == father = "kill" ~> father = "read"
=============================================================================
