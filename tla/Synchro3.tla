------------------------------ MODULE Synchro3 ------------------------------
(***************************************************************************)
(* TME5's synchro3 (src/synchro3.c): a father and two children meet        *)
(* between calcul_1 and calcul_2, by signals only.  Every signal is        *)
(* blocked except inside sigsuspend, so a signal sent early stays pending; *)
(* a signal already pending is merged with the next one of its number.     *)
(***************************************************************************)
EXTENDS Integers

Children == {0, 1}
Father == 2
Procs == Children \cup {Father}
Signals == {"SIGUSR1", "SIGUSR2"}

VARIABLES
  pc,        \* where each process stands
  pending,   \* the signals pending for each process
  handled    \* the signals the father has a handler for; the children have
             \* inherited the one of SIGUSR1

vars == <<pc, pending, handled>>

Init ==
  /\ pc = [p \in Procs |-> IF p = Father THEN "fork_0" ELSE "unborn"]
  /\ pending = [p \in Procs |-> {}]
  /\ handled = {"SIGUSR1"}

at(p, l) == pc[p] = l
Move(p, here, next) == at(p, here) /\ pc' = [pc EXCEPT ![p] = next]

Send(p, sig) == pending' = [pending EXCEPT ![p] = @ \cup {sig}] /\ UNCHANGED handled

(* sigsuspend with every signal but sig blocked: without a handler the     *)
(* signal would end the process.                                           *)
Sigsuspend(p, here, sig, next) ==
  /\ sig \in pending[p]
  /\ Move(p, here, IF sig \in handled THEN next ELSE "killed")
  /\ pending' = [pending EXCEPT ![p] = @ \ {sig}]
  /\ UNCHANGED handled

Fork(k) ==
  /\ at(Father, IF k = 0 THEN "fork_0" ELSE "fork_1")
  /\ pc' = [pc EXCEPT ![k] = "calcul_1",
                      ![Father] = IF k = 0 THEN "fork_1" ELSE "calcul_1"]
  /\ UNCHANGED <<pending, handled>>

(* The two steps of calcul_1: its loop, and the line that tells its end.   *)
Calcul1(p) ==
  /\ \/ Move(p, "calcul_1", "fin_calcul_1")
     \/ Move(p, "fin_calcul_1", IF p = Father THEN "suspend_1" ELSE "kill")
  /\ UNCHANGED <<pending, handled>>

(* Mistake: both children send the same signal.                            *)
ChildKillSame(k) == Move(k, "kill", "suspend") /\ Send(Father, "SIGUSR1")

ChildKill(k) ==
  Move(k, "kill", "suspend") /\ Send(Father, IF k = 0 THEN "SIGUSR1" ELSE "SIGUSR2")

ChildSuspend(k) == Sigsuspend(k, "suspend", "SIGUSR1", "calcul_2")

FatherSuspend1 == Sigsuspend(Father, "suspend_1", "SIGUSR1", "sigaction")

(* Mistake: the second child is not waited for.                            *)
SuspendOnce == Move(Father, "sigaction", "kill_0") /\ UNCHANGED <<pending, handled>>

Sigaction ==
  /\ Move(Father, "sigaction", "suspend_2")
  /\ handled' = handled \cup {"SIGUSR2"}
  /\ UNCHANGED pending

FatherSuspend2 == Sigsuspend(Father, "suspend_2", "SIGUSR2", "kill_0")

FatherKill(k) ==
  /\ Move(Father, IF k = 0 THEN "kill_0" ELSE "kill_1",
                  IF k = 0 THEN "kill_1" ELSE "calcul_2")
  /\ Send(k, "SIGUSR1")

(* The line that tells the beginning of calcul_2, and its loop.            *)
Calcul2(p) ==
  /\ Move(p, "calcul_2", "loop_2") \/ Move(p, "loop_2", "done")
  /\ UNCHANGED <<pending, handled>>

Step(p) ==
  \/ Calcul1(p) \/ Calcul2(p)
  \/ p \in Children /\ (ChildKill(p) \/ ChildSuspend(p))
  \/ /\ p = Father
     /\ \/ \E k \in Children : Fork(k) \/ FatherKill(k)
        \/ FatherSuspend1 \/ Sigaction \/ FatherSuspend2

Next == \E p \in Procs : Step(p)

Spec == Init /\ [][Next]_vars

(* The three processes are scheduled, and calcul_1 and calcul_2 end.       *)
FairSpec == Spec /\ \A p \in Procs : WF_vars(Step(p))

-----------------------------------------------------------------------------
(***************************************************************************)
(* Properties                                                              *)
(***************************************************************************)
(* No process begins calcul_2 before the three have ended calcul_1.        *)
Meeting == INSTANCE Barrier
  WITH arrived <- {p \in Procs : pc[p] \notin {"fork_0", "fork_1", "unborn", "calcul_1",
                                              "fin_calcul_1"}},
       left <- {p \in Procs : pc[p] \in {"calcul_2", "loop_2", "done"}}

MeetingSpec == Meeting!Spec

(* No signal is lost, whenever the children send theirs: the three         *)
(* processes end (README of TME5, answer to exercise 3: two signals of     *)
(* different numbers are needed).                                          *)
Termination == <>(\A p \in Procs : at(p, "done"))
=============================================================================
