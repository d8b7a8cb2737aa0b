--------------------------- MODULE ProgramProofs ---------------------------
(***************************************************************************)
(* The smaller programs of the repository for any values of their          *)
(* constants.  The theorems concern one program each and its own           *)
(* specification, which the behaviours of module Exercises obey            *)
(* (EachProgram).                                                          *)
(***************************************************************************)
EXTENDS Exercises, Integers, Sequences, FiniteSets, FiniteSetTheorems, SequenceTheorems,
        WellFoundedInduction, TLAPS

-----------------------------------------------------------------------------
(* A behaviour of Exercises is one of each program: the program chosen     *)
(* makes its steps, the others none.  The theorems below therefore hold of *)
(* the specification that TLC checks.                                      *)
THEOREM EachProgram ==
  Spec => Syn!Spec /\ Batch!Spec /\ Cap!Spec /\ Mul!Spec /\ Acc!Spec /\ Con!Spec
             /\ Sig!Spec /\ Fam!Spec
<1>1. Init => Syn!Init /\ Batch!Init /\ Cap!Init /\ Mul!Init /\ Acc!Init /\ Con!Init
                /\ Sig!Init /\ Fam!Init
  BY DEF Init
<1> DEFINE Mine == {"Synchro3", "SpyBatch", "Capitalize", "SignalConverter", "Accountant",
                    "Lists", "SignalPrograms", "Family"}
<1>2. ASSUME [Next]_vars, NEW p \in Mine,
             ~ (program = "Synchro3" /\ p = "Synchro3" /\ Syn!Next),
             ~ (program = "SpyBatch" /\ p = "SpyBatch" /\ Batch!Next),
             ~ (program = "Capitalize" /\ p = "Capitalize" /\ Cap!Next),
             ~ (program = "SignalConverter" /\ p = "SignalConverter" /\ Mul!Next),
             ~ (program = "Accountant" /\ p = "Accountant" /\ Acc!Next),
             ~ (program = "Lists" /\ p = "Lists" /\ Con!Next),
             ~ (program = "SignalPrograms" /\ p = "SignalPrograms" /\ Sig!Next),
             ~ (program = "Family" /\ p = "Family" /\ Fam!Next)
      PROVE  Still(p)
  <2>1. CASE UNCHANGED vars
    BY <1>2, <2>1 DEF vars, Still
  <2>2. ASSUME NEW r \in Programs, r # p, \A q \in Programs \ {r} : Still(q)
        PROVE  Still(p)
    BY <1>2, <2>2 DEF Programs
  <2> QED
    BY <1>2, <2>1, <2>2
    DEF Next, RunSynchro3, RunSpyBatch, RunCapitalize, RunFamily, RunSignalPrograms,
        RunAccountant, RunLists, RunSignalConverter, Run, Programs
<1>3. [Next]_vars => [Syn!Next]_(Syn!vars)
  BY <1>2 DEF Still, synchro3, Syn!vars
<1>4. [Next]_vars => [Batch!Next]_(Batch!vars)
  BY <1>2 DEF Still, spy, Batch!vars
<1>5. [Next]_vars => [Cap!Next]_(Cap!vars)
  BY <1>2 DEF Still, capitalize, Cap!vars, Cap!semaphores, Cap!rest
<1>6. [Next]_vars => [Mul!Next]_(Mul!vars)
  BY <1>2 DEF Still, converter, Mul!vars, Mul!children
<1>7. [Next]_vars => [Acc!Next]_(Acc!vars)
  BY <1>2 DEF Still, accountant, Acc!vars
<1>8. [Next]_vars => [Con!Next]_(Con!vars)
  BY <1>2 DEF Still, lists, Con!vars, Con!list, Con!stack
<1>9. [Next]_vars => [Sig!Next]_(Sig!vars)
  BY <1>2 DEF Still, signals, Sig!vars
<1>10. [Next]_vars => [Fam!Next]_(Fam!vars)
  BY <1>2 DEF Still, family, Fam!vars
<1> QED
  BY <1>1, <1>3, <1>4, <1>5, <1>6, <1>7, <1>8, <1>9, <1>10, PTL
  DEF Spec, Syn!Spec, Batch!Spec, Cap!Spec, Mul!Spec, Acc!Spec, Con!Spec, Sig!Spec, Fam!Spec

-----------------------------------------------------------------------------
(* TME5, synchro3: a signal for the father tells that its child has ended  *)
(* calcul_1, a signal for a child that the father knows it of both.        *)

Arrived(p) == pc_3[p] \notin {"fork_0", "fork_1", "unborn", "calcul_1", "fin_calcul_1"}
Left(p) == pc_3[p] \in {"calcul_2", "loop_2", "done"}

SynType ==
  /\ DOMAIN pc_3 = {0, 1, 2}
  /\ DOMAIN pending_3 = {0, 1, 2}
  /\ "SIGUSR1" \in handled

(* Where the father stands once it knows of the first child, of both, once *)
(* it has told the first child, and both.                                  *)
KnowsFirst == {"sigaction", "suspend_2", "kill_0", "kill_1", "calcul_2", "loop_2", "done"}
KnowsBoth == {"kill_0", "kill_1", "calcul_2", "loop_2", "done"}
ToldFirst == {"kill_1", "calcul_2", "loop_2", "done"}
ToldBoth == {"calcul_2", "loop_2", "done"}

SynInv ==
  /\ SynType
  /\ pc_3[2] = "fork_0" => pc_3[0] = "unborn"
  /\ pc_3[2] \in {"fork_0", "fork_1"} => pc_3[1] = "unborn"
  /\ "SIGUSR1" \in pending_3[2] => Arrived(0)
  /\ "SIGUSR2" \in pending_3[2] => Arrived(1)
  /\ pc_3[2] \in KnowsFirst => Arrived(0)
  /\ pc_3[2] \in KnowsBoth => Arrived(1)
  /\ pc_3[2] \in {"suspend_2"} \cup KnowsBoth => "SIGUSR2" \in handled
  /\ "SIGUSR1" \in pending_3[0] \/ Left(0) => pc_3[2] \in ToldFirst
  /\ "SIGUSR1" \in pending_3[1] \/ Left(1) => pc_3[2] \in ToldBoth

LEMMA SynProcs == Syn!Procs = {0, 1, 2} /\ Syn!Children = {0, 1} /\ Syn!Father = 2
BY DEF Syn!Procs, Syn!Children, Syn!Father

LEMMA SynInit == Syn!Init => SynInv
<1> SUFFICES ASSUME Syn!Init PROVE SynInv
  OBVIOUS
<1>1. /\ pc_3 = [p \in {0, 1, 2} |-> IF p = 2 THEN "fork_0" ELSE "unborn"]
      /\ pending_3 = [p \in {0, 1, 2} |-> {}] /\ handled = {"SIGUSR1"}
  BY SynProcs DEF Syn!Init
<1>2. pc_3[0] = "unborn" /\ pc_3[1] = "unborn" /\ pc_3[2] = "fork_0"
  BY <1>1
<1>3. pending_3[0] = {} /\ pending_3[1] = {} /\ pending_3[2] = {}
  BY <1>1
<1>4. SynType
  BY <1>1 DEF SynType
<1> QED
  BY <1>2, <1>3, <1>4 DEF SynInv, Arrived, Left, KnowsFirst, KnowsBoth, ToldFirst, ToldBoth

(* The steps of synchro3, place by place.                                  *)
Moves(p, here, there) == pc_3[p] = here /\ pc_3' = [pc_3 EXCEPT ![p] = there]
Sends(p, sig) == pending_3' = [pending_3 EXCEPT ![p] = @ \cup {sig}] /\ handled' = handled
Takes(p, sig) ==
  sig \in pending_3[p] /\ pending_3' = [pending_3 EXCEPT ![p] = @ \ {sig}] /\ handled' = handled
Silent == pending_3' = pending_3 /\ handled' = handled

SynSteps ==
  \/ \E p \in {0, 1, 2} : /\ Silent
                          /\ \/ Moves(p, "calcul_1", "fin_calcul_1")
                             \/ p = 2 /\ Moves(p, "fin_calcul_1", "suspend_1")
                             \/ p # 2 /\ Moves(p, "fin_calcul_1", "kill")
                             \/ Moves(p, "calcul_2", "loop_2")
                             \/ Moves(p, "loop_2", "done")
  \/ Moves(0, "kill", "suspend") /\ Sends(2, "SIGUSR1")
  \/ Moves(1, "kill", "suspend") /\ Sends(2, "SIGUSR2")
  \/ \E p \in {0, 1} : Moves(p, "suspend", "calcul_2") /\ Takes(p, "SIGUSR1")
  \/ /\ pc_3[2] = "fork_0" /\ Silent
     /\ pc_3' = [pc_3 EXCEPT ![0] = "calcul_1", ![2] = "fork_1"]
  \/ /\ pc_3[2] = "fork_1" /\ Silent
     /\ pc_3' = [pc_3 EXCEPT ![1] = "calcul_1", ![2] = "calcul_1"]
  \/ Moves(2, "suspend_1", "sigaction") /\ Takes(2, "SIGUSR1")
  \/ Moves(2, "sigaction", "suspend_2") /\ handled' = handled \cup {"SIGUSR2"} /\ pending_3' = pending_3
  \/ Moves(2, "suspend_2", "kill_0") /\ Takes(2, "SIGUSR2")
  \/ Moves(2, "kill_0", "kill_1") /\ Sends(0, "SIGUSR1")
  \/ Moves(2, "kill_1", "calcul_2") /\ Sends(1, "SIGUSR1")

LEMMA SynNext == SynInv /\ Syn!Next => SynSteps
<1> SUFFICES ASSUME SynInv, Syn!Next PROVE SynSteps
  OBVIOUS
<1> USE SynProcs
<1>1. PICK p \in {0, 1, 2} : Syn!Step(p)
  BY DEF Syn!Next
<1>2. CASE Syn!Calcul1(p) \/ Syn!Calcul2(p)
  BY <1>2 DEF Syn!Calcul1, Syn!Calcul2, Syn!Move, Syn!at, SynSteps, Moves, Silent
<1>3. CASE p \in {0, 1} /\ Syn!ChildKill(p)
  BY <1>3 DEF Syn!ChildKill, Syn!Send, Syn!Move, Syn!at, SynSteps, Moves, Sends
<1>4. CASE p \in {0, 1} /\ Syn!ChildSuspend(p)
  <2>1. "SIGUSR1" \in handled
    BY DEF SynInv, SynType
  <2> QED
    BY <1>4, <2>1 DEF Syn!ChildSuspend, Syn!Sigsuspend, Syn!Move, Syn!at, SynSteps, Moves, Takes
<1>5. ASSUME NEW k \in {0, 1}, Syn!Fork(k)
      PROVE  SynSteps
  BY <1>5 DEF Syn!Fork, Syn!at, SynSteps, Silent
<1>6. ASSUME NEW k \in {0, 1}, Syn!FatherKill(k)
      PROVE  SynSteps
  BY <1>6 DEF Syn!FatherKill, Syn!Send, Syn!Move, Syn!at, SynSteps, Moves, Sends
<1>7. CASE Syn!FatherSuspend1
  <2>1. "SIGUSR1" \in handled
    BY DEF SynInv, SynType
  <2> QED
    BY <1>7, <2>1 DEF Syn!FatherSuspend1, Syn!Sigsuspend, Syn!Move, Syn!at, SynSteps, Moves, Takes
<1>8. CASE Syn!Sigaction
  BY <1>8 DEF Syn!Sigaction, Syn!Move, Syn!at, SynSteps, Moves
<1>9. CASE Syn!FatherSuspend2
  <2>1. pc_3[2] = "suspend_2" => "SIGUSR2" \in handled
    BY DEF SynInv
  <2> QED
    BY <1>9, <2>1 DEF Syn!FatherSuspend2, Syn!Sigsuspend, Syn!Move, Syn!at, SynSteps, Moves, Takes
<1> QED
  BY <1>1, <1>2, <1>3, <1>4, <1>5, <1>6, <1>7, <1>8, <1>9 DEF Syn!Step

(* What a step leaves in the three places.                                 *)
LEMMA SynPlaces ==
  ASSUME SynType, NEW p \in {0, 1, 2}
  PROVE  /\ \A here, there :
              Moves(p, here, there) =>
                pc_3'[p] = there /\ \A q \in {0, 1, 2} \ {p} : pc_3'[q] = pc_3[q]
         /\ \A sig : Sends(p, sig) =>
              /\ pending_3'[p] = pending_3[p] \cup {sig}
              /\ \A q \in {0, 1, 2} \ {p} : pending_3'[q] = pending_3[q]
         /\ \A sig : Takes(p, sig) =>
              /\ pending_3'[p] = pending_3[p] \ {sig}
              /\ \A q \in {0, 1, 2} \ {p} : pending_3'[q] = pending_3[q]
BY DEF SynType, Moves, Sends, Takes

LEMMA SynTypeKept == SynType /\ SynSteps => SynType'
BY DEF SynType, SynSteps, Moves, Sends, Takes, Silent

LEMMA SynKept == SynInv /\ [Syn!Next]_Syn!vars => SynInv'
<1> SUFFICES ASSUME SynInv, [Syn!Next]_Syn!vars PROVE SynInv'
  OBVIOUS
<1> USE DEF Arrived, Left, KnowsFirst, KnowsBoth, ToldFirst, ToldBoth
<1>1. SynType
  BY DEF SynInv
<1>2. CASE UNCHANGED Syn!vars
  BY <1>2 DEF Syn!vars, SynInv, SynType
<1>3. CASE SynSteps
  <2>1. SynType'
    BY <1>1, <1>3, SynTypeKept
  <2>2. ASSUME NEW p \in {0, 1, 2}, Silent,
               \/ Moves(p, "calcul_1", "fin_calcul_1")
               \/ p = 2 /\ Moves(p, "fin_calcul_1", "suspend_1")
               \/ p # 2 /\ Moves(p, "fin_calcul_1", "kill")
               \/ Moves(p, "calcul_2", "loop_2")
               \/ Moves(p, "loop_2", "done")
        PROVE  SynInv'
    BY <1>1, <2>1, <2>2, SynPlaces DEF SynInv, Silent, Moves
  <2>3. CASE Moves(0, "kill", "suspend") /\ Sends(2, "SIGUSR1")
    <3>1. pc_3'[0] = "suspend" /\ pc_3'[1] = pc_3[1] /\ pc_3'[2] = pc_3[2]
      BY <1>1, <2>3 DEF Moves, Sends, Takes, Silent, SynType
    <3>2. pending_3'[0] = pending_3[0] /\ pending_3'[1] = pending_3[1] /\ pending_3'[2] = pending_3[2] \cup {"SIGUSR1"}
      BY <1>1, <2>3 DEF Moves, Sends, Takes, Silent, SynType
    <3> QED
      BY <2>1, <2>3, <3>1, <3>2 DEF SynInv, Moves, Takes, Sends
  <2>4. CASE Moves(1, "kill", "suspend") /\ Sends(2, "SIGUSR2")
    BY <1>1, <2>1, <2>4, SynPlaces DEF SynInv, Moves, Sends
  <2>5. ASSUME NEW p \in {0, 1}, Moves(p, "suspend", "calcul_2"), Takes(p, "SIGUSR1")
        PROVE  SynInv'
    BY <1>1, <2>1, <2>5, SynPlaces DEF SynInv, Moves, Takes
  <2>6. CASE pc_3[2] = "fork_0" /\ Silent /\ pc_3' = [pc_3 EXCEPT ![0] = "calcul_1", ![2] = "fork_1"]
    <3>1. pc_3'[0] = "calcul_1" /\ pc_3'[1] = pc_3[1] /\ pc_3'[2] = "fork_1"
      BY <1>1, <2>6 DEF SynType
    <3> QED
      BY <2>1, <2>6, <3>1 DEF SynInv, Silent
  <2>7. CASE pc_3[2] = "fork_1" /\ Silent /\ pc_3' = [pc_3 EXCEPT ![1] = "calcul_1", ![2] = "calcul_1"]
    <3>1. pc_3'[0] = pc_3[0] /\ pc_3'[1] = "calcul_1" /\ pc_3'[2] = "calcul_1"
      BY <1>1, <2>7 DEF SynType
    <3> QED
      BY <2>1, <2>7, <3>1 DEF SynInv, Silent
  <2>8. CASE Moves(2, "suspend_1", "sigaction") /\ Takes(2, "SIGUSR1")
    <3>1. pc_3'[0] = pc_3[0] /\ pc_3'[1] = pc_3[1] /\ pc_3'[2] = "sigaction"
      BY <1>1, <2>8 DEF Moves, Sends, Takes, Silent, SynType
    <3>2. pending_3'[0] = pending_3[0] /\ pending_3'[1] = pending_3[1] /\ pending_3'[2] = pending_3[2] \ {"SIGUSR1"}
      BY <1>1, <2>8 DEF Moves, Sends, Takes, Silent, SynType
    <3> QED
      BY <2>1, <2>8, <3>1, <3>2 DEF SynInv, Moves, Takes
  <2>9. CASE /\ Moves(2, "sigaction", "suspend_2")
             /\ handled' = handled \cup {"SIGUSR2"} /\ pending_3' = pending_3
    <3>1. pc_3'[0] = pc_3[0] /\ pc_3'[1] = pc_3[1] /\ pc_3'[2] = "suspend_2"
      BY <1>1, <2>9 DEF Moves, Sends, Takes, Silent, SynType
    <3>2. pending_3'[0] = pending_3[0] /\ pending_3'[1] = pending_3[1] /\ pending_3'[2] = pending_3[2]
      BY <1>1, <2>9 DEF Moves, Sends, Takes, Silent, SynType
    <3> QED
      BY <2>1, <2>9, <3>1, <3>2 DEF SynInv, Moves, Takes, Sends
  <2>10. CASE Moves(2, "suspend_2", "kill_0") /\ Takes(2, "SIGUSR2")
    <3>1. pc_3'[0] = pc_3[0] /\ pc_3'[1] = pc_3[1] /\ pc_3'[2] = "kill_0"
      BY <1>1, <2>10 DEF Moves, Sends, Takes, Silent, SynType
    <3>2. pending_3'[0] = pending_3[0] /\ pending_3'[1] = pending_3[1] /\ pending_3'[2] = pending_3[2] \ {"SIGUSR2"}
      BY <1>1, <2>10 DEF Moves, Sends, Takes, Silent, SynType
    <3> QED
      BY <2>1, <2>10, <3>1, <3>2 DEF SynInv, Moves, Takes, Sends
  <2>11. CASE Moves(2, "kill_0", "kill_1") /\ Sends(0, "SIGUSR1")
    <3>1. pc_3'[0] = pc_3[0] /\ pc_3'[1] = pc_3[1] /\ pc_3'[2] = "kill_1"
      BY <1>1, <2>11 DEF Moves, Sends, Takes, Silent, SynType
    <3>2. pending_3'[0] = pending_3[0] \cup {"SIGUSR1"} /\ pending_3'[1] = pending_3[1] /\ pending_3'[2] = pending_3[2]
      BY <1>1, <2>11 DEF Moves, Sends, Takes, Silent, SynType
    <3> QED
      BY <2>1, <2>11, <3>1, <3>2 DEF SynInv, Moves, Takes, Sends
  <2>12. CASE Moves(2, "kill_1", "calcul_2") /\ Sends(1, "SIGUSR1")
    <3>1. pc_3'[0] = pc_3[0] /\ pc_3'[1] = pc_3[1] /\ pc_3'[2] = "calcul_2"
      BY <1>1, <2>12 DEF Moves, Sends, Takes, Silent, SynType
    <3>2. pending_3'[0] = pending_3[0] /\ pending_3'[1] = pending_3[1] \cup {"SIGUSR1"} /\ pending_3'[2] = pending_3[2]
      BY <1>1, <2>12 DEF Moves, Sends, Takes, Silent, SynType
    <3> QED
      BY <2>1, <2>12, <3>1, <3>2 DEF SynInv, Moves, Takes, Sends
  <2> QED
    BY <1>3, <2>2, <2>3, <2>4, <2>5, <2>6, <2>7, <2>8, <2>9, <2>10, <2>11, <2>12 DEF SynSteps
<1> QED
  BY <1>2, <1>3, SynNext

(* A step of synchro3 lets one process arrive, or one process leave once   *)
(* the three have arrived, or is none of the barrier's business.           *)
LEMMA SynStepMeets == SynInv /\ [Syn!Next]_Syn!vars => [Syn!Meeting!Next]_Syn!Meeting!vars
<1> SUFFICES ASSUME SynInv, [Syn!Next]_Syn!vars
             PROVE  [Syn!Meeting!Next]_Syn!Meeting!vars
  OBVIOUS
<1> DEFINE A == {p \in {0, 1, 2} : Arrived(p)}
           L == {p \in {0, 1, 2} : Left(p)}
<1>1. SynType
  BY DEF SynInv
<1>2. SUFFICES \/ UNCHANGED <<A, L>>
               \/ \E p \in {0, 1, 2} : \/ A' = A \cup {p} /\ UNCHANGED L
                                       \/ A = {0, 1, 2} /\ L' = L \cup {p} /\ UNCHANGED A
  BY SynProcs DEF Syn!Meeting!Next, Syn!Meeting!vars, Syn!Meeting!Arrive, Syn!Meeting!Leave,
                  Arrived, Left
<1>3. CASE UNCHANGED Syn!vars
  <2>1. pc_3' = pc_3
    BY <1>3 DEF Syn!vars
  <2> QED
    BY <2>1 DEF Arrived, Left
<1>4. ASSUME \A q \in {0, 1, 2} : Arrived(q)' <=> Arrived(q),
             \A q \in {0, 1, 2} : Left(q)' <=> Left(q)
      PROVE  UNCHANGED <<A, L>>
  BY <1>4
<1>5. ASSUME NEW p \in {0, 1, 2}, Moves(p, "fin_calcul_1", "suspend_1")
                                  \/ Moves(p, "fin_calcul_1", "kill")
      PROVE  A' = A \cup {p} /\ UNCHANGED L
  <2>1. \A q \in {0, 1, 2} : Arrived(q)' <=> Arrived(q) \/ q = p
    BY <1>1, <1>5, SynPlaces DEF Arrived
  <2>2. \A q \in {0, 1, 2} : Left(q)' <=> Left(q)
    BY <1>1, <1>5, SynPlaces DEF Left, Moves
  <2> QED
    BY <2>1, <2>2
<1>6. ASSUME NEW p \in {0, 1, 2}, Moves(p, "suspend", "calcul_2") \/ Moves(p, "kill_1", "calcul_2"),
             Arrived(0), Arrived(1), Arrived(2)
      PROVE  A = {0, 1, 2} /\ L' = L \cup {p} /\ UNCHANGED A
  <2>1. \A q \in {0, 1, 2} : Left(q)' <=> Left(q) \/ q = p
    BY <1>1, <1>6, SynPlaces DEF Left
  <2>2. \A q \in {0, 1, 2} : Arrived(q)' <=> Arrived(q)
    BY <1>1, <1>6, SynPlaces DEF Arrived, Moves
  <2> QED
    BY <1>6, <2>1, <2>2
<1>7. ASSUME NEW p \in {0, 1, 2}, NEW here, NEW there, Moves(p, here, there),
             \/ here = "calcul_1" /\ there = "fin_calcul_1"
             \/ here = "calcul_2" /\ there = "loop_2"
             \/ here = "loop_2" /\ there = "done"
             \/ here = "kill" /\ there = "suspend"
             \/ here = "suspend_1" /\ there = "sigaction"
             \/ here = "sigaction" /\ there = "suspend_2"
             \/ here = "suspend_2" /\ there = "kill_0"
             \/ here = "kill_0" /\ there = "kill_1"
      PROVE  UNCHANGED <<A, L>>
  <2>1. pc_3[p] = here /\ pc_3'[p] = there /\ \A q \in {0, 1, 2} \ {p} : pc_3'[q] = pc_3[q]
    <3>1. \A h, t : Moves(p, h, t) => pc_3'[p] = t /\ \A q \in {0, 1, 2} \ {p} : pc_3'[q] = pc_3[q]
      BY <1>1, SynPlaces
    <3> QED
      BY <1>7, <3>1 DEF Moves
  <2>2. \A q \in {0, 1, 2} : Arrived(q)' <=> Arrived(q)
    BY <1>7, <2>1 DEF Arrived
  <2>3. \A q \in {0, 1, 2} : Left(q)' <=> Left(q)
    BY <1>7, <2>1 DEF Left
  <2> QED
    BY <1>4, <2>2, <2>3
<1>8. CASE SynSteps
  <2>1. ASSUME pc_3[2] = "fork_0", pc_3' = [pc_3 EXCEPT ![0] = "calcul_1", ![2] = "fork_1"]
        PROVE  UNCHANGED <<A, L>>
    <3>1. pc_3[0] = "unborn" /\ pc_3'[0] = "calcul_1" /\ pc_3'[1] = pc_3[1] /\ pc_3'[2] = "fork_1"
      BY <1>1, <2>1 DEF SynInv, SynType
    <3> QED
      BY <1>4, <2>1, <3>1 DEF Arrived, Left
  <2>2. ASSUME pc_3[2] = "fork_1", pc_3' = [pc_3 EXCEPT ![1] = "calcul_1", ![2] = "calcul_1"]
        PROVE  UNCHANGED <<A, L>>
    <3>1. pc_3[1] = "unborn" /\ pc_3'[0] = pc_3[0] /\ pc_3'[1] = "calcul_1" /\ pc_3'[2] = "calcul_1"
      BY <1>1, <2>2 DEF SynInv, SynType
    <3> QED
      BY <1>4, <2>2, <3>1 DEF Arrived, Left
  <2>3. ASSUME NEW p \in {0, 1}, Moves(p, "suspend", "calcul_2"), Takes(p, "SIGUSR1")
        PROVE  Arrived(0) /\ Arrived(1) /\ Arrived(2)
    <3>1. "SIGUSR1" \in pending_3[p]
      BY <2>3 DEF Takes
    <3>2. pc_3[2] \in ToldFirst
      BY <3>1 DEF SynInv, ToldFirst, ToldBoth
    <3> QED
      BY <3>2 DEF SynInv, KnowsFirst, KnowsBoth, ToldFirst, Arrived
  <2>4. ASSUME Moves(2, "kill_1", "calcul_2")
        PROVE  Arrived(0) /\ Arrived(1) /\ Arrived(2)
    BY <2>4 DEF SynInv, KnowsFirst, KnowsBoth, Arrived, Moves
  <2> HIDE DEF A, L
  <2> DEFINE Goes == \/ UNCHANGED <<A, L>>
                       \/ \E p \in {0, 1, 2} : \/ A' = A \cup {p} /\ UNCHANGED L
                                               \/ A = {0, 1, 2} /\ L' = L \cup {p} /\ UNCHANGED A
  <2>5. ASSUME NEW p \in {0, 1, 2}, \/ Moves(p, "calcul_1", "fin_calcul_1")
                                    \/ Moves(p, "fin_calcul_1", "suspend_1")
                                    \/ Moves(p, "fin_calcul_1", "kill")
                                    \/ Moves(p, "calcul_2", "loop_2")
                                    \/ Moves(p, "loop_2", "done")
        PROVE  Goes
    BY <1>5, <1>7, <2>5
  <2>6. ASSUME NEW p \in {0, 1, 2}, \/ Moves(p, "kill", "suspend")
                                    \/ Moves(p, "suspend_1", "sigaction")
                                    \/ Moves(p, "sigaction", "suspend_2")
                                    \/ Moves(p, "suspend_2", "kill_0")
                                    \/ Moves(p, "kill_0", "kill_1")
        PROVE  Goes
    BY <1>7, <2>6
  <2>7. ASSUME NEW p \in {0, 1}, Moves(p, "suspend", "calcul_2"), Takes(p, "SIGUSR1")
        PROVE  Goes
    BY <1>6, <2>3, <2>7
  <2>8. ASSUME Moves(2, "kill_1", "calcul_2")
        PROVE  Goes
    BY <1>6, <2>4, <2>8
  <2> HIDE DEF Goes
  <2>9. Goes
    BY <1>8, <2>1, <2>2, <2>5, <2>6, <2>7, <2>8 DEF SynSteps, Goes
  <2> QED
    BY <2>9 DEF Goes
<1> QED
  BY <1>3, <1>8, SynNext

(* Nobody begins calcul_2 before the three have ended calcul_1: the kills  *)
(* and the sigsuspends of synchro3 implement the barrier, however the      *)
(* processes are scheduled and whichever signals wait.                     *)
THEOREM Synchro3Meets == Syn!Spec => MeetingSpec
<1>1. Syn!Init => Syn!Meeting!Init
  <2> SUFFICES ASSUME Syn!Init PROVE Syn!Meeting!Init
    OBVIOUS
  <2>1. pc_3 = [p \in {0, 1, 2} |-> IF p = 2 THEN "fork_0" ELSE "unborn"]
    BY SynProcs DEF Syn!Init
  <2>2. \A p \in {0, 1, 2} : pc_3[p] \in {"fork_0", "unborn"}
    BY <2>1
  <2> QED
    BY <2>2, SynProcs DEF Syn!Meeting!Init
<1> QED
  BY <1>1, SynInit, SynKept, SynStepMeets, PTL DEF MeetingSpec, Syn!Spec, Syn!MeetingSpec, Syn!Meeting!Spec

-----------------------------------------------------------------------------
(* TME4, spy: what the commands entered make of the slots of pid.          *)

Waiting == {"forked", "suspended"}
Alive == {"forked", "suspended", "exec", "zombie"}
Gathering == {"read", "fork", "exit"}

(* The commands entered are those of the batches before and of the slots   *)
(* below nbf, and the one that spy is about to fork.                       *)
Count ==
  \E q \in Nat :
    /\ father_b \in {"read", "exit"} => entered - failed_b = q * NBUF + nbf
    /\ father_b = "fork" => entered - failed_b = q * NBUF + nbf + 1
    /\ father_b \in {"kill", "waitpid"} => entered - failed_b = q * NBUF /\ q # 0

BatchInv ==
  /\ NBUF \in Nat \ {0}
  /\ father_b \in Gathering \cup {"kill", "waitpid"}
  /\ nbf \in 0 .. NBUF - 1
  /\ DOMAIN child_b = 0 .. NBUF - 1
  /\ pending_b \in SUBSET (0 .. NBUF - 1)
  /\ entered \in Nat /\ failed_b \in Nat
  /\ Count
  /\ \A s \in 0 .. NBUF - 1 :
       /\ s \in pending_b => child_b[s] \in Waiting
       /\ father_b \in Gathering =>
            s \notin pending_b /\ IF s < nbf THEN child_b[s] \in Waiting ELSE child_b[s] = "none"
       /\ father_b = "kill" =>
            IF s < nbf THEN child_b[s] \in Alive ELSE child_b[s] \in Waiting /\ s \notin pending_b
       /\ father_b = "waitpid" =>
            IF s < nbf THEN child_b[s] = "none" ELSE child_b[s] \in Alive

LEMMA Multiple ==
  ASSUME NEW n \in Nat \ {0}, NEW q \in Nat
  PROVE  (q * n) % n = 0 /\ (q # 0 => q * n >= n) /\ (q + 1) * n = q * n + n /\ q * n \in Nat
<1>1. (q + 1) * n = q * n + n /\ q * n \in Nat
  OBVIOUS
<1>2. q # 0 => q * n >= n
  OBVIOUS
<1>3. (q * n) % n = 0
  OBVIOUS
<1> QED
  BY <1>1, <1>2, <1>3
LEMMA BatchStarts == Batch!CountsAssumption /\ Batch!Init => BatchInv
<1> SUFFICES ASSUME Batch!CountsAssumption, Batch!Init PROVE BatchInv
  OBVIOUS
<1>1. /\ father_b = "read" /\ nbf = 0 /\ pending_b = {} /\ entered = 0 /\ failed_b = 0
      /\ child_b = [s \in 0 .. NBUF - 1 |-> "none"]
  BY DEF Batch!Init, Batch!Slots
<1>2. NBUF \in Nat \ {0}
  BY DEF Batch!CountsAssumption
<1>3. Count
  <2>1. entered - failed_b = 0 * NBUF + nbf
    BY <1>1, <1>2
  <2> QED
    BY <1>1, <2>1 DEF Count
<1>4. \A s \in 0 .. NBUF - 1 : child_b[s] = "none" /\ s \notin pending_b /\ ~(s < nbf)
  BY <1>1, <1>2
<1> QED
  BY <1>1, <1>2, <1>3, <1>4 DEF BatchInv, Gathering, Waiting

LEMMA BatchKept == BatchInv /\ [Batch!Next]_Batch!vars => BatchInv'
<1> SUFFICES ASSUME BatchInv, [Batch!Next]_Batch!vars PROVE BatchInv'
  OBVIOUS
<1> DEFINE Slots == 0 .. NBUF - 1
<1>1. Batch!Slots = Slots
  BY DEF Batch!Slots
<1>2. /\ NBUF \in Nat \ {0} /\ nbf \in Slots /\ DOMAIN child_b = Slots /\ pending_b \in SUBSET Slots
      /\ entered \in Nat /\ failed_b \in Nat
  BY DEF BatchInv
<1>3. PICK q \in Nat :
        /\ father_b \in {"read", "exit"} => entered - failed_b = q * NBUF + nbf
        /\ father_b = "fork" => entered - failed_b = q * NBUF + nbf + 1
        /\ father_b \in {"kill", "waitpid"} => entered - failed_b = q * NBUF /\ q # 0
  BY DEF BatchInv, Count
<1>4. PICK b \in Nat : b = q * NBUF
  BY <1>2, Multiple
<1>5. (q + 1) * NBUF = b + NBUF /\ q + 1 \in Nat /\ q + 1 # 0
  BY <1>2, <1>4, Multiple
<1>6. ASSUME NEW s \in Slots
      PROVE  /\ s \in pending_b => child_b[s] \in Waiting
             /\ father_b \in Gathering =>
                  s \notin pending_b /\ IF s < nbf THEN child_b[s] \in Waiting ELSE child_b[s] = "none"
             /\ father_b = "kill" =>
                  IF s < nbf THEN child_b[s] \in Alive ELSE child_b[s] \in Waiting /\ s \notin pending_b
             /\ father_b = "waitpid" =>
                  IF s < nbf THEN child_b[s] = "none" ELSE child_b[s] \in Alive
  BY DEF BatchInv
<1>7. CASE Batch!ReadCommand
  <2>1. /\ father_b = "read" /\ father_b' = "fork" /\ entered' = entered + 1
        /\ nbf' = nbf /\ child_b' = child_b /\ pending_b' = pending_b /\ failed_b' = failed_b
    BY <1>7 DEF Batch!ReadCommand
  <2>2. entered' - failed_b' = q * NBUF + nbf' + 1
    BY <1>2, <1>3, <1>4, <2>1
  <2>3. Count'
    BY <2>1, <2>2 DEF Count
  <2> QED
    BY <1>2, <1>6, <2>1, <2>3 DEF BatchInv, Gathering
<1>8. CASE Batch!Eof
  <2>1. /\ father_b = "read" /\ father_b' = "exit" /\ entered' = entered
        /\ nbf' = nbf /\ child_b' = child_b /\ pending_b' = pending_b /\ failed_b' = failed_b
    BY <1>8 DEF Batch!Eof
  <2>2. Count'
    BY <1>3, <2>1 DEF Count
  <2> QED
    BY <1>2, <1>6, <2>1, <2>2 DEF BatchInv, Gathering
<1>9. CASE Batch!Fork
  <2>1. /\ father_b = "fork" /\ child_b' = [child_b EXCEPT ![nbf] = "forked"]
        /\ entered' = entered /\ pending_b' = pending_b /\ failed_b' = failed_b
        /\ IF nbf < NBUF - 1 THEN nbf' = nbf + 1 /\ father_b' = "read"
                             ELSE nbf' = 0 /\ father_b' = "kill"
    BY <1>9 DEF Batch!Fork
  <2>2. DOMAIN child_b' = Slots /\ child_b'[nbf] = "forked" /\ \A s \in Slots : s # nbf => child_b'[s] = child_b[s]
    BY <1>2, <2>1
  <2>3. \A s \in Slots : s \notin pending_b
    BY <1>6, <2>1 DEF Gathering
  <2>4. CASE nbf < NBUF - 1
    <3>1. nbf' = nbf + 1 /\ father_b' = "read" /\ nbf' \in Slots
      BY <1>2, <2>1, <2>4
    <3>2. entered' - failed_b' = q * NBUF + nbf'
      BY <1>2, <1>3, <1>4, <2>1, <3>1
    <3>3. Count'
      BY <3>1, <3>2 DEF Count
    <3>4. \A s \in Slots : IF s < nbf' THEN child_b'[s] \in Waiting ELSE child_b'[s] = "none"
      <4> SUFFICES ASSUME NEW s \in Slots
                   PROVE  IF s < nbf' THEN child_b'[s] \in Waiting ELSE child_b'[s] = "none"
        OBVIOUS
      <4>1. CASE s = nbf
        BY <1>2, <2>2, <3>1, <4>1 DEF Waiting
      <4>2. CASE s # nbf
        <5>1. s < nbf' <=> s < nbf
          BY <1>2, <3>1, <4>2
        <5> QED
          BY <1>6, <2>1, <2>2, <4>2, <5>1 DEF Gathering
      <4> QED
        BY <4>1, <4>2
    <3> QED
      BY <1>2, <2>1, <2>2, <2>3, <3>1, <3>3, <3>4 DEF BatchInv, Gathering
  <2>5. CASE ~(nbf < NBUF - 1)
    <3>1. nbf' = 0 /\ father_b' = "kill" /\ 0 \in Slots /\ nbf = NBUF - 1
      BY <1>2, <2>1, <2>5
    <3>2. entered' - failed_b' = (q + 1) * NBUF
      BY <1>2, <1>3, <1>4, <1>5, <2>1, <3>1
    <3>3. Count'
      BY <1>5, <3>1, <3>2 DEF Count
    <3>4. \A s \in Slots : child_b'[s] \in Waiting
      <4> SUFFICES ASSUME NEW s \in Slots PROVE child_b'[s] \in Waiting
        OBVIOUS
      <4>1. s = nbf \/ s < nbf
        BY <1>2, <3>1
      <4> QED
        BY <1>6, <2>1, <2>2, <4>1 DEF Gathering, Waiting
    <3> QED
      BY <1>2, <2>1, <2>2, <2>3, <3>1, <3>3, <3>4 DEF BatchInv, Gathering
  <2> QED
    BY <2>4, <2>5
<1>10. CASE Batch!ForkFail
  <2>1. /\ father_b = "fork" /\ father_b' = "read" /\ entered' = entered /\ failed_b' = failed_b + 1
        /\ nbf' = nbf /\ child_b' = child_b /\ pending_b' = pending_b
    BY <1>10 DEF Batch!ForkFail
  <2>2. entered' - failed_b' = q * NBUF + nbf'
    BY <1>2, <1>3, <1>4, <2>1
  <2>3. Count'
    BY <2>1, <2>2 DEF Count
  <2> QED
    BY <1>2, <1>6, <2>1, <2>3 DEF BatchInv, Gathering
<1>11. CASE Batch!Kill
  <2>1. /\ father_b = "kill" /\ pending_b' = pending_b \cup {nbf}
        /\ entered' = entered /\ child_b' = child_b /\ failed_b' = failed_b
        /\ IF nbf < NBUF - 1 THEN nbf' = nbf + 1 /\ father_b' = "kill"
                             ELSE nbf' = 0 /\ father_b' = "waitpid"
    BY <1>11 DEF Batch!Kill
  <2>2. nbf' \in Slots /\ father_b' \in {"kill", "waitpid"}
    BY <1>2, <2>1
  <2>3. Count'
    BY <1>3, <2>1, <2>2 DEF Count
  <2>4. child_b[nbf] \in Waiting /\ Waiting \subseteq Alive
    BY <1>2, <1>6, <2>1 DEF Waiting, Alive
  <2>5. ASSUME NEW s \in Slots
        PROVE  /\ s \in pending_b' => child_b[s] \in Waiting
               /\ father_b' = "kill" =>
                    IF s < nbf' THEN child_b[s] \in Alive ELSE child_b[s] \in Waiting /\ s \notin pending_b'
               /\ father_b' = "waitpid" => child_b[s] \in Alive
    <3>1. nbf < NBUF - 1 => (s < nbf' <=> s < nbf \/ s = nbf)
      BY <1>2, <2>1
    <3>2. ~(s < nbf') => s \in Slots /\ (s \in pending_b' <=> s = nbf \/ s \in pending_b)
      BY <2>1
    <3> QED
      BY <1>2, <1>6, <2>1, <2>4, <3>1, <3>2 DEF Waiting, Alive
  <2>6. ASSUME NEW s \in Slots PROVE ~(s < 0)
    BY <1>2
  <2> QED
    BY <1>2, <2>1, <2>2, <2>3, <2>5, <2>6 DEF BatchInv, Gathering
<1>12. CASE Batch!Waitpid
  <2>1. /\ father_b = "waitpid" /\ child_b[nbf] = "zombie" /\ child_b' = [child_b EXCEPT ![nbf] = "none"]
        /\ entered' = entered /\ pending_b' = pending_b /\ failed_b' = failed_b
        /\ IF nbf < NBUF - 1 THEN nbf' = nbf + 1 /\ father_b' = "waitpid"
                             ELSE nbf' = 0 /\ father_b' = "read"
    BY <1>12 DEF Batch!Waitpid
  <2>2. nbf' \in Slots /\ father_b' \in {"waitpid", "read"} /\ (father_b' = "read" => nbf' = 0)
    BY <1>2, <2>1
  <2>3. Count'
    <3>1. CASE father_b' = "waitpid"
      BY <1>3, <2>1, <3>1 DEF Count
    <3>2. CASE father_b' = "read"
      <4>1. entered' - failed_b' = q * NBUF + nbf'
        BY <1>2, <1>3, <1>4, <2>1, <2>2, <3>2
      <4> QED
        BY <3>2, <4>1 DEF Count
    <3> QED
      BY <2>2, <3>1, <3>2
  <2>4. DOMAIN child_b' = Slots /\ child_b'[nbf] = "none" /\ \A s \in Slots : s # nbf => child_b'[s] = child_b[s]
    BY <1>2, <2>1
  <2>5. ASSUME NEW s \in Slots
        PROVE  /\ s \in pending_b => child_b'[s] \in Waiting
               /\ father_b' = "read" => s \notin pending_b /\ child_b'[s] = "none"
               /\ father_b' = "waitpid" => IF s < nbf' THEN child_b'[s] = "none" ELSE child_b'[s] \in Alive
    <3>1. nbf < NBUF - 1 => (s < nbf' <=> s < nbf \/ s = nbf)
      BY <1>2, <2>1
    <3>2. ~(nbf < NBUF - 1) => s < nbf \/ s = nbf
      BY <1>2
    <3>3. s < nbf \/ s = nbf => s \notin pending_b /\ child_b'[s] = "none"
      BY <1>6, <2>1, <2>4 DEF Waiting
    <3> QED
      BY <1>2, <1>6, <2>1, <2>4, <3>1, <3>2, <3>3 DEF Waiting, Alive
  <2>6. ASSUME NEW s \in Slots PROVE ~(s < 0)
    BY <1>2
  <2> QED
    BY <1>2, <2>1, <2>2, <2>3, <2>4, <2>5, <2>6 DEF BatchInv, Gathering
<1>13. ASSUME NEW s \in Slots, Batch!Child(s)
       PROVE  BatchInv'
  <2>1. /\ father_b' = father_b /\ nbf' = nbf /\ entered' = entered /\ failed_b' = failed_b
        /\ \/ child_b[s] = "forked" /\ child_b' = [child_b EXCEPT ![s] = "suspended"] /\ pending_b' = pending_b
           \/ /\ child_b[s] = "suspended" /\ s \in pending_b
              /\ child_b' = [child_b EXCEPT ![s] = "exec"] /\ pending_b' = pending_b \ {s}
           \/ child_b[s] = "exec" /\ child_b' = [child_b EXCEPT ![s] = "zombie"] /\ pending_b' = pending_b
    BY <1>13 DEF Batch!Child, Batch!Suspend, Batch!Wake, Batch!End
  <2>2. Count'
    BY <1>3, <2>1 DEF Count
  <2>3. DOMAIN child_b' = Slots /\ \A t \in Slots : t # s => child_b'[t] = child_b[t]
    BY <1>2, <2>1
  <2>4. /\ child_b[s] = "forked" => child_b'[s] = "suspended" /\ pending_b' = pending_b
        /\ child_b[s] = "suspended" => child_b'[s] = "exec" /\ s \in pending_b /\ pending_b' = pending_b \ {s}
        /\ child_b[s] = "exec" => child_b'[s] = "zombie" /\ pending_b' = pending_b
        /\ child_b[s] \in {"forked", "suspended", "exec"}
    BY <1>2, <2>1
  <2>5. pending_b' \in SUBSET Slots
    BY <1>2, <2>1
  <2>6. ASSUME NEW t \in Slots
        PROVE  /\ t \in pending_b' => child_b'[t] \in Waiting
               /\ father_b \in Gathering =>
                    t \notin pending_b' /\ IF t < nbf THEN child_b'[t] \in Waiting ELSE child_b'[t] = "none"
               /\ father_b = "kill" =>
                    IF t < nbf THEN child_b'[t] \in Alive ELSE child_b'[t] \in Waiting /\ t \notin pending_b'
               /\ father_b = "waitpid" =>
                    IF t < nbf THEN child_b'[t] = "none" ELSE child_b'[t] \in Alive
    <3>1. CASE t # s
      <4>1. child_b'[t] = child_b[t] /\ (t \in pending_b' <=> t \in pending_b)
        BY <2>1, <2>3, <3>1
      <4> QED
        BY <1>6, <4>1
    <3>2. CASE t = s
      BY <1>6, <2>4, <3>2 DEF Waiting, Alive
    <3> QED
      BY <3>1, <3>2
  <2> QED
    BY <1>2, <2>1, <2>2, <2>3, <2>5, <2>6 DEF BatchInv, Gathering
<1>14. CASE UNCHANGED Batch!vars
  <2>1. /\ father_b' = father_b /\ nbf' = nbf /\ entered' = entered /\ failed_b' = failed_b
        /\ child_b' = child_b /\ pending_b' = pending_b
    BY <1>14 DEF Batch!vars
  <2> QED
    BY <2>1 DEF BatchInv, Count
<1> QED
  BY <1>1, <1>7, <1>8, <1>9, <1>10, <1>11, <1>12, <1>13, <1>14 DEF Batch!Next, Batch!Father

(* While spy fills the slots of pid, those from nbf on are empty and those *)
(* before it hold children that still wait: no slot is taken from a living *)
(* child, whatever forks fail and however fast the commands end.           *)
THEOREM BatchesDoNotMix ==
  ASSUME Batch!CountsAssumption
  PROVE  Batch!Spec => []BatchesApart
<1>1. BatchInv => BatchesApart
  BY DEF BatchesApart, BatchInv, Batch!BatchesApart, Batch!Slots, Gathering, Waiting
<1> QED
  BY <1>1, BatchStarts, BatchKept, PTL DEF Batch!Spec

(* A command begins only once a whole batch of NBUF commands has been      *)
(* entered, and never while spy reads the next batch.                      *)
THEOREM BatchesStartTogether ==
  ASSUME Batch!CountsAssumption
  PROVE  Batch!Spec => BatchTogether
<1>1. ASSUME BatchInv, [Batch!Next]_Batch!vars, NEW s \in Batch!Slots,
             child_b[s] = "suspended", child_b'[s] = "exec"
      PROVE  /\ father_b \in {"kill", "waitpid"}
             /\ entered - failed_b >= NBUF
             /\ (entered - failed_b) % NBUF = 0
  <2>1. s \in pending_b
    <3>1. DOMAIN child_b = 0 .. NBUF - 1 /\ s \in 0 .. NBUF - 1 /\ nbf \in 0 .. NBUF - 1
      BY <1>1 DEF BatchInv, Batch!Slots
    <3>2. ~ UNCHANGED child_b
      BY <1>1
    <3>3. CASE Batch!Fork
      BY <1>1, <3>1, <3>3 DEF Batch!Fork
    <3>4. CASE Batch!Waitpid
      BY <1>1, <3>1, <3>4 DEF Batch!Waitpid
    <3>5. ASSUME NEW t \in Batch!Slots, Batch!Child(t)
          PROVE  s \in pending_b
      BY <1>1, <3>1, <3>5 DEF Batch!Child, Batch!Suspend, Batch!Wake, Batch!End, Batch!Slots
    <3> QED
      BY <1>1, <3>2, <3>3, <3>4, <3>5
      DEF Batch!Next, Batch!Father, Batch!ReadCommand, Batch!Eof, Batch!ForkFail, Batch!Kill,
          Batch!vars
  <2>2. father_b \in {"kill", "waitpid"} /\ NBUF \in Nat \ {0}
    BY <1>1, <2>1 DEF BatchInv, Gathering, Batch!Slots
  <2>3. PICK q \in Nat : entered - failed_b = q * NBUF /\ q # 0
    BY <1>1, <2>2 DEF BatchInv, Count
  <2>4. (q * NBUF) % NBUF = 0 /\ q * NBUF >= NBUF
    BY <2>2, <2>3, Multiple
  <2> QED
    BY <2>2, <2>3, <2>4
<1>2. BatchInv /\ [Batch!Next]_Batch!vars =>
        [\A s \in Batch!Slots : child_b[s] = "suspended" /\ child_b'[s] = "exec"
           => /\ father_b \in {"kill", "waitpid"}
              /\ entered - failed_b >= NBUF
              /\ (entered - failed_b) % NBUF = 0]_Batch!vars
  BY <1>1
<1> QED
  BY <1>2, BatchStarts, BatchKept, PTL DEF Batch!Spec, BatchTogether, Batch!BatchTogether
-----------------------------------------------------------------------------
(* TME8, multi_converter: where each child stands in the current request,  *)
(* and how many of them have told their father.                            *)

Answer(k) == [child |-> k, request |-> current]

Unasked(k) == pc_m[k] = "read" /\ tube[k] = <<>> /\ tuber[k] = <<>>
Asked(k) == pc_m[k] = "read" /\ tube[k] = <<current>> /\ tuber[k] = <<>>
Works(k) == pc_m[k] \in {"kill", "write"} /\ tube[k] = <<>> /\ tuber[k] = <<>> /\ work[k] = current
Answered(k) == pc_m[k] = "read" /\ tube[k] = <<>> /\ tuber[k] = <<Answer(k)>>
Serves(k) == Asked(k) \/ Works(k) \/ Answered(k)

(* The children that have told their father of the request.                *)
Told(k) == pc_m[k] = "write" \/ tuber[k] # <<>>
Tellers == {k \in 0 .. NB_CONVERTERS - 1 : Told(k)}

MulType ==
  /\ NB_CONVERTERS \in Nat \ {0}
  /\ i_m \in 0 .. NB_CONVERTERS - 1
  /\ asked \in Nat /\ current \in Nat /\ nbsigusr \in Nat /\ pending_m \in BOOLEAN
  /\ father_m \in {"read", "send", "check", "pause", "paused", "result", "astray"}
  /\ DOMAIN pc_m = 0 .. NB_CONVERTERS - 1 /\ DOMAIN work = 0 .. NB_CONVERTERS - 1
  /\ DOMAIN tube = 0 .. NB_CONVERTERS - 1 /\ DOMAIN tuber = 0 .. NB_CONVERTERS - 1

(* Each child serves the current request from the write of Distribute to   *)
(* the read of its result.                                                 *)
Stage ==
  father_m # "astray" =>
    \A k \in 0 .. NB_CONVERTERS - 1 :
      /\ father_m = "read" => Unasked(k)
      /\ father_m = "send" => IF k < i_m THEN Serves(k) ELSE Unasked(k)
      /\ father_m \in {"check", "pause", "paused"} => Serves(k)
      /\ father_m = "result" => IF k < i_m THEN Unasked(k) ELSE Serves(k)

Replies ==
  /\ reply \in Seq([child : 0 .. NB_CONVERTERS - 1, request : Nat])
  /\ \A n \in 1 .. Len(reply) : reply[n] = [child |-> n - 1, request |-> current]
  /\ father_m = "read" => Len(reply) = (IF current > 0 THEN NB_CONVERTERS ELSE 0)
  /\ father_m \in {"send", "check", "pause", "paused"} => reply = <<>>
  /\ father_m = "result" => Len(reply) = i_m

(* For the first request: as many signals as children, at most.            *)
Signals ==
  /\ father_m \in {"read", "check", "pause", "paused"} => i_m = 0
  /\ asked # current => father_m = "read"
  /\ asked \in {current, current + 1}
  /\ current = 0 => father_m = "read" /\ ~pending_m /\ nbsigusr = 0
  /\ current = 1 =>
       /\ father_m # "astray"
       /\ father_m \in {"send", "check", "pause", "paused"} =>
            nbsigusr + (IF pending_m THEN 1 ELSE 0) <= Cardinality(Tellers)
       /\ father_m = "result" =>
            ~pending_m /\ \A k \in 0 .. NB_CONVERTERS - 1 : k >= i_m => Told(k)
       /\ father_m = "read" => ~pending_m

MulInv == MulType /\ Stage /\ Replies /\ Signals

LEMMA MulStarts == Mul!CountsAssumption /\ Mul!Init => MulInv
<1> SUFFICES ASSUME Mul!CountsAssumption, Mul!Init PROVE MulInv
  OBVIOUS
<1>1. /\ father_m = "read" /\ i_m = 0 /\ nbsigusr = 0 /\ pending_m = FALSE /\ asked = 0 /\ current = 0
      /\ reply = <<>> /\ NB_CONVERTERS \in Nat \ {0}
  BY DEF Mul!Init, Mul!CountsAssumption
<1>2. /\ pc_m = [k \in 0 .. NB_CONVERTERS - 1 |-> "read"]
      /\ tube = [k \in 0 .. NB_CONVERTERS - 1 |-> <<>>]
      /\ tuber = [k \in 0 .. NB_CONVERTERS - 1 |-> <<>>]
      /\ work = [k \in 0 .. NB_CONVERTERS - 1 |-> 0]
  BY DEF Mul!Init, Mul!Converters
<1>3. MulType
  BY <1>1, <1>2 DEF MulType
<1>4. Stage
  BY <1>1, <1>2 DEF Stage, Unasked
<1>5. Replies
  BY <1>1 DEF Replies
<1>6. Signals
  BY <1>1 DEF Signals
<1> QED
  BY <1>3, <1>4, <1>5, <1>6 DEF MulInv
LEMMA TellersCounted ==
  ASSUME NB_CONVERTERS \in Nat \ {0}
  PROVE  /\ Cardinality(Tellers) \in Nat /\ Cardinality(Tellers) <= NB_CONVERTERS
         /\ Cardinality(Tellers) = NB_CONVERTERS => \A k \in 0 .. NB_CONVERTERS - 1 : Told(k)
         /\ \A k \in 0 .. NB_CONVERTERS - 1 :
              ~Told(k) => Cardinality(Tellers \cup {k}) = Cardinality(Tellers) + 1
<1> DEFINE C == 0 .. NB_CONVERTERS - 1
<1>1. IsFiniteSet(C) /\ Cardinality(C) = NB_CONVERTERS
  <2>1. \A a, b \in Int : IsFiniteSet(a .. b) /\ Cardinality(a .. b) = IF a > b THEN 0 ELSE b - a + 1
    BY FS_Interval
  <2>2. 0 \in Int /\ NB_CONVERTERS - 1 \in Int /\ ~(0 > NB_CONVERTERS - 1)
        /\ NB_CONVERTERS - 1 - 0 + 1 = NB_CONVERTERS
    OBVIOUS
  <2> QED
    BY <2>1, <2>2
<1>2. Tellers \subseteq C
  BY DEF Tellers
<1> HIDE DEF C
<1>3. IsFiniteSet(Tellers) /\ Cardinality(Tellers) \in Nat
  BY <1>1, <1>2, FS_Subset, FS_CardinalityType
<1>4. Cardinality(Tellers) <= Cardinality(C) /\ (Cardinality(Tellers) = Cardinality(C) => Tellers = C)
  BY <1>1, <1>2, FS_Subset
<1>5. Tellers = C => \A k \in C : Told(k)
  BY DEF Tellers
<1>6. \A k \in C : ~Told(k) => k \notin Tellers
  BY DEF Tellers
<1>7. \A k \in C : ~Told(k) => Cardinality(Tellers \cup {k}) = Cardinality(Tellers) + 1
  BY <1>3, <1>6, FS_AddElement
<1> QED
  BY <1>1, <1>3, <1>4, <1>5, <1>7 DEF C

(* The father's steps, but Deliver.                                        *)
LEMMA MulFather ==
  ASSUME MulInv, Mul!ClientRequest \/ Mul!Father
  PROVE  MulInv'
<1> DEFINE C == 0 .. NB_CONVERTERS - 1
<1>1. /\ NB_CONVERTERS \in Nat \ {0} /\ i_m \in C /\ asked \in Nat /\ current \in Nat /\ nbsigusr \in Nat
      /\ pending_m \in BOOLEAN
      /\ DOMAIN pc_m = C /\ DOMAIN work = C /\ DOMAIN tube = C /\ DOMAIN tuber = C
  BY DEF MulInv, MulType
<1>2. Stage /\ Replies /\ Signals
  BY DEF MulInv
<1>3. CASE Mul!ClientRequest
  <2>1. /\ father_m = "read" /\ asked = current /\ asked' = asked + 1 /\ father_m' = father_m /\ i_m' = i_m
        /\ nbsigusr' = nbsigusr /\ pending_m' = pending_m /\ current' = current /\ pc_m' = pc_m
        /\ tube' = tube /\ tuber' = tuber /\ work' = work /\ reply' = reply
    BY <1>3 DEF Mul!ClientRequest, Mul!Idle, Mul!children
  <2>2. MulType'
    BY <2>1 DEF MulInv, MulType
  <2>3. Stage'
    BY <1>2, <2>1 DEF Stage, Unasked
  <2>4. Replies'
    BY <1>2, <2>1 DEF Replies
  <2>5. Signals'
    BY <1>1, <1>2, <2>1 DEF Signals
  <2> QED
    BY <2>2, <2>3, <2>4, <2>5 DEF MulInv
<1>4. CASE Mul!ReadRequest
  <2>1. /\ father_m = "read" /\ asked # current /\ current' = asked /\ asked' = asked /\ father_m' = "send"
        /\ i_m' = i_m /\ nbsigusr' = nbsigusr /\ pending_m' = pending_m /\ pc_m' = pc_m
        /\ tube' = tube /\ tuber' = tuber /\ work' = work /\ reply' = <<>>
    BY <1>4 DEF Mul!ReadRequest, Mul!children
  <2>2. i_m = 0 /\ asked = current + 1
    BY <1>2, <2>1 DEF Signals
  <2>3. MulType'
    BY <2>1 DEF MulInv, MulType
  <2>4. Stage'
    <3>1. \A k \in C : Unasked(k)' /\ ~(k < i_m')
      BY <1>1, <1>2, <2>1, <2>2 DEF Stage, Unasked
    <3> QED
      BY <2>1, <3>1 DEF Stage
  <2>5. Replies'
    BY <2>1 DEF Replies
  <2>6. Signals'
    <3>1. Cardinality(Tellers)' \in Nat
      <4>1. Tellers' = Tellers
        BY <2>1 DEF Tellers, Told
      <4> QED
        BY <1>1, <4>1, TellersCounted
    <3>2. current' = 1 => ~pending_m' /\ nbsigusr' = 0
      BY <1>1, <1>2, <2>1, <2>2 DEF Signals
    <3>3. current' # 0
      BY <1>1, <2>1, <2>2
    <3>4. current' = 1 => nbsigusr' + (IF pending_m' THEN 1 ELSE 0) <= Cardinality(Tellers)'
      BY <3>1, <3>2
    <3> QED
      BY <1>1, <2>1, <2>2, <3>3, <3>4 DEF Signals
  <2> QED
    BY <2>3, <2>4, <2>5, <2>6 DEF MulInv
<1>5. CASE Mul!Distribute
  <2>1. /\ father_m = "send" /\ tube' = [tube EXCEPT ![i_m] = Append(@, current)]
        /\ i_m' = (IF i_m + 1 = NB_CONVERTERS THEN 0 ELSE i_m + 1)
        /\ father_m' = (IF i_m + 1 = NB_CONVERTERS THEN "check" ELSE "send")
        /\ nbsigusr' = nbsigusr /\ pending_m' = pending_m /\ asked' = asked /\ current' = current
        /\ pc_m' = pc_m /\ tuber' = tuber /\ work' = work /\ reply' = reply
    BY <1>5 DEF Mul!Distribute, Mul!Last
  <2>2. i_m' \in C /\ DOMAIN tube' = C
    BY <1>1, <2>1
  <2>3. MulType'
    BY <1>1, <2>1, <2>2 DEF MulType
  <2>4. Unasked(i_m)
    BY <1>1, <1>2, <2>1 DEF Stage
  <2>5. ASSUME NEW k \in C
        PROVE  IF k <= i_m THEN Serves(k)' ELSE Unasked(k)'
    <3>1. CASE k = i_m
      <4>1. tube'[k] = Append(<<>>, current)
        BY <1>1, <2>1, <2>4, <3>1 DEF Unasked
      <4>2. Asked(k)'
        BY <2>1, <2>4, <3>1, <4>1 DEF Asked, Unasked
      <4> QED
        BY <1>1, <3>1, <4>2 DEF Serves
    <3>2. CASE k # i_m
      <4>1. tube'[k] = tube[k] /\ (k <= i_m <=> k < i_m)
        BY <1>1, <2>1, <3>2
      <4>2. IF k < i_m THEN Serves(k) ELSE Unasked(k)
        BY <1>2, <2>1 DEF Stage
      <4> QED
        BY <2>1, <4>1, <4>2 DEF Serves, Asked, Works, Answered, Answer, Unasked
    <3> QED
      BY <3>1, <3>2
  <2>6. Stage'
    <3>1. i_m + 1 = NB_CONVERTERS => \A k \in C : k <= i_m
      BY <1>1
    <3>2. i_m + 1 # NB_CONVERTERS => \A k \in C : k < i_m' <=> k <= i_m
      BY <1>1, <2>1
    <3> QED
      BY <2>1, <2>5, <3>1, <3>2 DEF Stage
  <2>7. Replies'
    BY <1>2, <2>1 DEF Replies
  <2>8. Signals'
    <3>1. Tellers' = Tellers
      BY <2>1 DEF Tellers, Told
    <3> QED
      BY <1>1, <1>2, <2>1, <3>1 DEF Signals
  <2> QED
    BY <2>3, <2>6, <2>7, <2>8 DEF MulInv
<1>6. CASE Mul!Check
  <2>1. /\ father_m = "check" /\ father_m' = (IF nbsigusr # NB_CONVERTERS THEN "pause" ELSE "result")
        /\ i_m' = i_m /\ nbsigusr' = nbsigusr /\ pending_m' = pending_m /\ asked' = asked
        /\ current' = current /\ pc_m' = pc_m /\ tube' = tube /\ tuber' = tuber /\ work' = work
        /\ reply' = reply
    BY <1>6 DEF Mul!Check, Mul!children
  <2>2. i_m = 0
    BY <1>2, <2>1 DEF Signals
  <2>3. MulType'
    BY <2>1 DEF MulInv, MulType
  <2>4. Stage'
    <3>1. \A k \in C : Serves(k)' /\ ~(k < i_m')
      BY <1>1, <1>2, <2>1, <2>2 DEF Stage, Serves, Asked, Works, Answered, Answer
    <3> QED
      BY <2>1, <3>1 DEF Stage
  <2>5. Replies'
    <3>1. reply = <<>> /\ Len(reply) = 0
      BY <1>2, <2>1 DEF Replies
    <3> QED
      BY <1>2, <2>1, <2>2, <3>1 DEF Replies
  <2>6. Signals'
    <3>1. Tellers' = Tellers /\ \A k \in C : Told(k)' <=> Told(k)
      BY <2>1 DEF Tellers, Told
    <3>2. current = 1 /\ father_m' = "result" => ~pending_m /\ \A k \in C : Told(k)
      BY <1>1, <1>2, <2>1, TellersCounted DEF Signals
    <3> QED
      BY <1>1, <1>2, <2>1, <2>2, <3>1, <3>2 DEF Signals
  <2> QED
    BY <2>3, <2>4, <2>5, <2>6 DEF MulInv
<1>7. CASE Mul!Pause
  <2>1. /\ father_m = "pause" /\ father_m' = "paused"
        /\ i_m' = i_m /\ nbsigusr' = nbsigusr /\ pending_m' = pending_m /\ asked' = asked
        /\ current' = current /\ pc_m' = pc_m /\ tube' = tube /\ tuber' = tuber /\ work' = work
        /\ reply' = reply
    BY <1>7 DEF Mul!Pause, Mul!children
  <2>2. MulType'
    BY <2>1 DEF MulInv, MulType
  <2>3. Stage'
    BY <1>2, <2>1 DEF Stage, Serves, Asked, Works, Answered, Answer
  <2>4. Replies'
    BY <1>2, <2>1 DEF Replies
  <2>5. Signals'
    <3>1. Tellers' = Tellers
      BY <2>1 DEF Tellers, Told
    <3> QED
      BY <1>2, <2>1, <3>1 DEF Signals
  <2> QED
    BY <2>2, <2>3, <2>4, <2>5 DEF MulInv
<1>8. CASE Mul!Result
  <2>1. /\ father_m = "result" /\ tuber[i_m] # <<>>
        /\ reply' = Append(reply, Head(tuber[i_m])) /\ tuber' = [tuber EXCEPT ![i_m] = Tail(@)]
        /\ i_m' = (IF i_m + 1 = NB_CONVERTERS THEN 0 ELSE i_m + 1)
        /\ father_m' = (IF i_m + 1 = NB_CONVERTERS THEN "read" ELSE "result")
        /\ nbsigusr' = nbsigusr /\ pending_m' = pending_m /\ asked' = asked /\ current' = current
        /\ pc_m' = pc_m /\ tube' = tube /\ work' = work
    BY <1>8 DEF Mul!Result, Mul!Last
  <2>2. i_m' \in C /\ DOMAIN tuber' = C
    BY <1>1, <2>1
  <2>3. MulType'
    BY <1>1, <2>1, <2>2 DEF MulType
  <2>4. Answered(i_m)
    <3>1. Serves(i_m)
      BY <1>1, <1>2, <2>1 DEF Stage
    <3> QED
      BY <2>1, <3>1 DEF Serves, Asked, Works
  <2>5. Head(tuber[i_m]) = Answer(i_m) /\ Tail(tuber[i_m]) = <<>>
    <3>1. \A e : Head(<<e>>) = e /\ Tail(<<e>>) = <<>>
      OBVIOUS
    <3> QED
      BY <2>4, <3>1 DEF Answered
  <2>6. ASSUME NEW k \in C
        PROVE  IF k <= i_m THEN Unasked(k)' ELSE Serves(k)'
    <3>1. CASE k = i_m
      BY <1>1, <2>1, <2>4, <2>5, <3>1 DEF Unasked, Answered
    <3>2. CASE k # i_m
      <4>1. tuber'[k] = tuber[k] /\ (k <= i_m <=> k < i_m)
        BY <1>1, <2>1, <3>2
      <4>2. IF k < i_m THEN Unasked(k) ELSE Serves(k)
        BY <1>2, <2>1 DEF Stage
      <4> QED
        BY <2>1, <4>1, <4>2 DEF Serves, Asked, Works, Answered, Answer, Unasked
    <3> QED
      BY <3>1, <3>2
  <2>7. Stage'
    <3>1. i_m + 1 = NB_CONVERTERS => \A k \in C : k <= i_m
      BY <1>1
    <3>2. i_m + 1 # NB_CONVERTERS => \A k \in C : k < i_m' <=> k <= i_m
      BY <1>1, <2>1
    <3> QED
      BY <2>1, <2>6, <3>1, <3>2 DEF Stage
  <2>8. Replies'
    <3> DEFINE R == [child : C, request : Nat]
    <3>1. reply \in Seq(R) /\ Len(reply) = i_m
      BY <1>2, <2>1 DEF Replies
    <3>2. Answer(i_m) \in R
      BY <1>1 DEF Answer
    <3>3. /\ reply' \in Seq(R) /\ Len(reply') = i_m + 1 /\ reply'[i_m + 1] = Answer(i_m)
          /\ \A n \in 1 .. i_m : reply'[n] = reply[n]
      <4>1. reply' = Append(reply, Answer(i_m))
        BY <2>1, <2>5
      <4> HIDE DEF R
      <4> QED
        BY <1>1, <3>1, <3>2, <4>1
    <3>4. \A n \in 1 .. i_m + 1 : reply'[n] = [child |-> n - 1, request |-> current]
      <4> SUFFICES ASSUME NEW n \in 1 .. i_m + 1
                   PROVE  reply'[n] = [child |-> n - 1, request |-> current]
        OBVIOUS
      <4>1. CASE n = i_m + 1
        <5>1. n - 1 = i_m
          BY <1>1, <4>1
        <5> QED
          BY <3>3, <4>1, <5>1 DEF Answer
      <4>2. CASE n # i_m + 1
        <5>1. n \in 1 .. i_m
          BY <1>1, <4>2
        <5> QED
          BY <1>2, <3>1, <3>3, <5>1 DEF Replies
      <4> QED
        BY <4>1, <4>2
    <3>5. current > 0
      BY <1>1, <1>2, <2>1 DEF Signals
    <3> QED
      BY <1>1, <2>1, <3>3, <3>4, <3>5 DEF Replies
  <2>9. Signals'
    <3>1. current # 0
      BY <1>2, <2>1 DEF Signals
    <3>2. current = 1 => ~pending_m /\ \A k \in C : k >= i_m => Told(k)
      BY <1>2, <2>1 DEF Signals
    <3>3. \A k \in C : k # i_m => (Told(k)' <=> Told(k))
      BY <1>1, <2>1 DEF Told
    <3>4. current = 1 /\ i_m + 1 # NB_CONVERTERS => \A k \in C : k >= i_m' => Told(k)'
      BY <1>1, <2>1, <3>2, <3>3
    <3>5. asked \in {current, current + 1} /\ (asked # current => father_m = "read")
      BY <1>2 DEF Signals
    <3> QED
      BY <1>1, <2>1, <3>1, <3>2, <3>4, <3>5 DEF Signals
  <2> QED
    BY <2>3, <2>7, <2>8, <2>9 DEF MulInv
<1> QED
  BY <1>3, <1>4, <1>5, <1>6, <1>7, <1>8 DEF Mul!Father
(* A signal that comes during a read does not belong to the first request. *)
LEMMA MulDeliver ==
  ASSUME MulInv, Mul!Deliver
  PROVE  MulInv'
<1>1. Stage /\ Replies /\ Signals /\ MulType
  BY DEF MulInv
<1>2. /\ pending_m /\ pending_m' = FALSE /\ nbsigusr' = nbsigusr + 1
      /\ i_m' = i_m /\ asked' = asked /\ current' = current /\ pc_m' = pc_m /\ tube' = tube
      /\ tuber' = tuber /\ work' = work /\ reply' = reply
      /\ \/ father_m' = IF father_m = "paused" THEN "check" ELSE father_m
         \/ father_m' = "astray" /\ (\/ father_m = "read" /\ asked = current
                                     \/ father_m = "result" /\ tuber[i_m] = <<>>)
  BY DEF Mul!Deliver, Mul!children, Mul!InRead, Mul!Idle
<1>3. MulType'
  BY <1>1, <1>2 DEF MulType
<1>4. Stage'
  BY <1>1, <1>2 DEF Stage, Unasked, Serves, Asked, Works, Answered, Answer
<1>5. Replies'
  BY <1>1, <1>2 DEF Replies
<1>6. current # 0
  BY <1>1, <1>2 DEF Signals
<1>7. current = 1 => father_m \in {"send", "check", "pause", "paused"} /\ father_m' # "astray"
  BY <1>1, <1>2 DEF Signals, MulType
<1>8. Signals'
  <2>1. Tellers' = Tellers /\ Cardinality(Tellers) \in Nat
    <3>1. Tellers' = Tellers
      BY <1>2 DEF Tellers, Told
    <3> QED
      BY <1>1, <3>1, TellersCounted DEF MulType
  <2>2. current = 1 => nbsigusr' + (IF pending_m' THEN 1 ELSE 0) <= Cardinality(Tellers)'
    <3>1. current = 1 => nbsigusr + 1 <= Cardinality(Tellers)
      BY <1>1, <1>2, <1>7 DEF Signals
    <3>2. (IF pending_m' THEN 1 ELSE 0) = 0 /\ nbsigusr \in Nat
      BY <1>1, <1>2 DEF MulType
    <3> QED
      BY <1>2, <2>1, <3>1, <3>2
  <2>3. father_m' \in {"read", "check", "pause", "paused"} => i_m' = 0
    BY <1>1, <1>2 DEF Signals
  <2>4. asked' \in {current', current' + 1} /\ (asked' # current' => father_m' = "read")
    BY <1>1, <1>2 DEF Signals
  <2>5. current' = 1 => father_m' \in {"send", "check", "pause", "paused"}
    BY <1>2, <1>7
  <2> QED
    BY <1>2, <1>6, <2>2, <2>3, <2>4, <2>5 DEF Signals
<1> QED
  BY <1>3, <1>4, <1>5, <1>8 DEF MulInv

LEMMA MulChild ==
  ASSUME MulInv, NEW k \in Mul!Converters, Mul!Child(k)
  PROVE  MulInv'
<1> DEFINE C == 0 .. NB_CONVERTERS - 1
<1>1. Stage /\ Replies /\ Signals /\ MulType /\ k \in C
  BY DEF MulInv, Mul!Converters
<1>2. /\ NB_CONVERTERS \in Nat \ {0} /\ DOMAIN pc_m = C /\ DOMAIN work = C /\ DOMAIN tube = C
      /\ DOMAIN tuber = C /\ i_m \in C /\ nbsigusr \in Nat
  BY <1>1 DEF MulType
<1>3. /\ father_m' = father_m /\ i_m' = i_m /\ asked' = asked /\ current' = current /\ nbsigusr' = nbsigusr
      /\ reply' = reply
  BY DEF Mul!Child, Mul!ChildRead, Mul!ChildKill, Mul!ChildWrite
<1>4. \/ /\ pc_m[k] = "read" /\ tube[k] # <<>> /\ work' = [work EXCEPT ![k] = Head(tube[k])]
         /\ tube' = [tube EXCEPT ![k] = Tail(@)] /\ pc_m' = [pc_m EXCEPT ![k] = "kill"]
         /\ tuber' = tuber /\ pending_m' = pending_m
      \/ /\ pc_m[k] = "kill" /\ pending_m' = TRUE /\ pc_m' = [pc_m EXCEPT ![k] = "write"]
         /\ tube' = tube /\ tuber' = tuber /\ work' = work
      \/ /\ pc_m[k] = "write" /\ pc_m' = [pc_m EXCEPT ![k] = "read"]
         /\ tuber' = [tuber EXCEPT ![k] = Append(@, [child |-> k, request |-> work[k]])]
         /\ tube' = tube /\ work' = work /\ pending_m' = pending_m
  BY DEF Mul!Child, Mul!ChildRead, Mul!ChildKill, Mul!ChildWrite
<1>5. /\ DOMAIN pc_m' = C /\ DOMAIN work' = C /\ DOMAIN tube' = C /\ DOMAIN tuber' = C
      /\ \A l \in C : l # k => /\ pc_m'[l] = pc_m[l] /\ tube'[l] = tube[l] /\ tuber'[l] = tuber[l]
                               /\ work'[l] = work[l]
  BY <1>2, <1>4
<1>6. MulType'
  <2>1. pending_m' \in BOOLEAN
    BY <1>1, <1>4 DEF MulType
  <2> QED
    BY <1>1, <1>3, <1>5, <2>1 DEF MulType
<1>7. Replies'
  BY <1>1, <1>3 DEF Replies
<1>8. ~Unasked(k)
  BY <1>4 DEF Unasked
<1>9. ASSUME Serves(k)
      PROVE  /\ Serves(k)'
             /\ pc_m[k] # "kill" => (Told(k)' <=> Told(k)) /\ pending_m' = pending_m
             /\ pc_m[k] = "kill" => ~Told(k) /\ Told(k)'
  <2>1. CASE pc_m[k] = "read"
    <3>1. tube[k] = <<current>> /\ tuber[k] = <<>>
      BY <1>4, <1>9, <2>1 DEF Serves, Asked, Works, Answered
    <3>2. Head(tube[k]) = current /\ Tail(tube[k]) = <<>>
      <4>1. \A e : Head(<<e>>) = e /\ Tail(<<e>>) = <<>>
        OBVIOUS
      <4> QED
        BY <3>1, <4>1
    <3>3. pc_m'[k] = "kill" /\ tube'[k] = <<>> /\ work'[k] = current /\ tuber'[k] = <<>>
          /\ pending_m' = pending_m
      BY <1>1, <1>2, <1>4, <2>1, <3>1, <3>2
    <3> QED
      BY <1>3, <2>1, <3>1, <3>3 DEF Serves, Works, Told
  <2>2. CASE pc_m[k] = "kill"
    <3>1. tube[k] = <<>> /\ tuber[k] = <<>> /\ work[k] = current
      BY <1>9, <2>2 DEF Serves, Asked, Works, Answered
    <3>2. pc_m'[k] = "write" /\ tube'[k] = <<>> /\ tuber'[k] = <<>> /\ work'[k] = current
      BY <1>1, <1>2, <1>4, <2>2, <3>1
    <3> QED
      BY <1>3, <2>2, <3>1, <3>2 DEF Serves, Works, Told
  <2>3. CASE pc_m[k] = "write"
    <3>1. tube[k] = <<>> /\ tuber[k] = <<>> /\ work[k] = current
      BY <1>9, <2>3 DEF Serves, Asked, Works, Answered
    <3>2. Append(<<>>, Answer(k)) = <<Answer(k)>> /\ <<Answer(k)>> # <<>>
      OBVIOUS
    <3>3. pc_m'[k] = "read" /\ tube'[k] = <<>> /\ tuber'[k] = <<Answer(k)>> /\ pending_m' = pending_m
      BY <1>1, <1>2, <1>4, <2>3, <3>1, <3>2 DEF Answer
    <3> QED
      BY <1>3, <2>3, <3>2, <3>3 DEF Serves, Answered, Answer, Told
  <2> QED
    BY <1>4, <2>1, <2>2, <2>3
<1>10. father_m # "astray" => Serves(k)
  BY <1>1, <1>2, <1>8 DEF Stage, MulType
<1>11. Stage'
  <2> SUFFICES ASSUME father_m # "astray", NEW l \in C
               PROVE  /\ father_m = "read" => Unasked(l)'
                      /\ father_m = "send" => IF l < i_m THEN Serves(l)' ELSE Unasked(l)'
                      /\ father_m \in {"check", "pause", "paused"} => Serves(l)'
                      /\ father_m = "result" => IF l < i_m THEN Unasked(l)' ELSE Serves(l)'
    BY <1>3 DEF Stage
  <2>1. /\ father_m = "read" => Unasked(l)
        /\ father_m = "send" => IF l < i_m THEN Serves(l) ELSE Unasked(l)
        /\ father_m \in {"check", "pause", "paused"} => Serves(l)
        /\ father_m = "result" => IF l < i_m THEN Unasked(l) ELSE Serves(l)
    BY <1>1 DEF Stage
  <2>2. CASE l = k
    BY <1>8, <1>9, <1>10, <2>1, <2>2
  <2>3. CASE l # k
    <3>1. (Unasked(l)' <=> Unasked(l)) /\ (Serves(l)' <=> Serves(l))
      BY <1>3, <1>5, <2>3 DEF Unasked, Serves, Asked, Works, Answered, Answer
    <3> QED
      BY <2>1, <3>1
  <2> QED
    BY <2>2, <2>3
<1>12. current # 0
  BY <1>1, <1>8 DEF Stage, Signals
<1>13. ASSUME current = 1
       PROVE  /\ father_m \in {"send", "check", "pause", "paused"} =>
                   nbsigusr + (IF pending_m' THEN 1 ELSE 0) <= Cardinality(Tellers)'
              /\ father_m = "result" => ~pending_m' /\ \A l \in C : l >= i_m => Told(l)'
              /\ father_m # "read"
  <2>1. father_m # "astray" /\ Serves(k) /\ pending_m \in BOOLEAN
    BY <1>1, <1>10, <1>13 DEF Signals, MulType
  <2>2. \A l \in C : l # k => (Told(l)' <=> Told(l))
    BY <1>5 DEF Told
  <2>3. father_m # "read"
    BY <1>1, <1>8 DEF Stage
  <2>4. CASE pc_m[k] # "kill"
    <3>1. \A l \in C : Told(l)' <=> Told(l)
      BY <1>9, <2>1, <2>2, <2>4
    <3>2. pending_m' = pending_m
      BY <1>9, <2>1, <2>4
    <3>3. Tellers' = Tellers
      BY <3>1 DEF Tellers
    <3> QED
      BY <1>1, <1>13, <2>3, <3>1, <3>2, <3>3 DEF Signals
  <2>5. CASE pc_m[k] = "kill"
    <3>1. ~Told(k) /\ Told(k)'
      BY <1>9, <2>1, <2>5
    <3>2. Tellers' = Tellers \cup {k}
      BY <1>1, <2>2, <3>1 DEF Tellers
    <3>3. Cardinality(Tellers)' = Cardinality(Tellers) + 1 /\ Cardinality(Tellers) \in Nat
      BY <1>1, <1>2, <3>1, <3>2, TellersCounted
    <3>4. father_m # "result"
      <4>1. father_m = "result" => k >= i_m
        BY <1>1, <1>2, <1>8 DEF Stage
      <4> QED
        BY <1>1, <1>13, <3>1, <4>1 DEF Signals
    <3>5. father_m \in {"send", "check", "pause", "paused"} => nbsigusr <= Cardinality(Tellers)
      <4>1. father_m \in {"send", "check", "pause", "paused"} =>
              nbsigusr + (IF pending_m THEN 1 ELSE 0) <= Cardinality(Tellers)
        BY <1>1, <1>13 DEF Signals
      <4> QED
        BY <1>2, <2>1, <3>3, <4>1
    <3>6. (IF pending_m' THEN 1 ELSE 0) \in {0, 1}
      OBVIOUS
    <3> QED
      BY <1>2, <2>3, <3>3, <3>4, <3>5, <3>6
  <2> QED
    BY <2>4, <2>5
<1>14. Signals'
  <2>1. /\ father_m' \in {"read", "check", "pause", "paused"} => i_m' = 0
        /\ asked' # current' => father_m' = "read"
        /\ asked' \in {current', current' + 1}
        /\ current = 1 => father_m # "astray"
    BY <1>1, <1>3 DEF Signals
  <2> QED
    BY <1>3, <1>12, <1>13, <2>1 DEF Signals
<1> QED
  BY <1>6, <1>7, <1>11, <1>14 DEF MulInv

LEMMA MulKept == MulInv /\ [Mul!Next]_Mul!vars => MulInv'
<1> SUFFICES ASSUME MulInv, [Mul!Next]_Mul!vars PROVE MulInv'
  OBVIOUS
<1>1. CASE UNCHANGED Mul!vars
  <2>1. /\ father_m' = father_m /\ pc_m' = pc_m /\ i_m' = i_m /\ nbsigusr' = nbsigusr /\ pending_m' = pending_m
        /\ asked' = asked /\ current' = current /\ tube' = tube /\ tuber' = tuber /\ work' = work
        /\ reply' = reply
    BY <1>1 DEF Mul!vars, Mul!children
  <2>2. Tellers' = Tellers /\ \A k \in 0 .. NB_CONVERTERS - 1 : Told(k)' <=> Told(k)
    BY <2>1 DEF Tellers, Told
  <2>3. MulType' /\ Replies'
    BY <2>1 DEF MulInv, MulType, Replies
  <2>4. Stage'
    BY <2>1 DEF MulInv, Stage, Unasked, Serves, Asked, Works, Answered, Answer
  <2>5. Signals'
    BY <2>1, <2>2 DEF MulInv, Signals
  <2> QED
    BY <2>3, <2>4, <2>5 DEF MulInv
<1> QED
  BY <1>1, MulFather, MulDeliver, MulChild DEF Mul!Next

(* As long as no read fails, what the client gets is one result per child  *)
(* for its own request, in the order of the currencies, however late the   *)
(* children write after their signals (lines 132-141 of multi_converter).  *)
THEOREM RepliesAreWhole ==
  ASSUME Mul!CountsAssumption
  PROVE  Mul!Spec => []WholeReply
<1>1. MulInv => WholeReply
  BY DEF WholeReply, MulInv, Replies, MulType, Mul!WholeReply, Mul!Idle
<1> QED
  BY <1>1, MulStarts, MulKept, PTL DEF Mul!Spec

(* For the first request no signal comes during a read of the father: the  *)
(* signals counted and the pending one are no more than the children that  *)
(* have sent theirs, so all have when the loop on pause is left (line 127).*)
THEOREM FirstReadsUninterrupted ==
  ASSUME Mul!CountsAssumption
  PROVE  Mul!Spec => []ReadsUninterrupted
<1>1. MulInv => ReadsUninterrupted
  <2>1. MulInv /\ current <= 1 => current = 0 \/ current = 1
    BY DEF MulInv, MulType
  <2> QED
    BY <2>1 DEF MulInv, Signals, ReadsUninterrupted, Mul!ReadsUninterrupted
<1> QED
  BY <1>1, MulStarts, MulKept, PTL DEF Mul!Spec
-----------------------------------------------------------------------------
(* TME9, capitalize: whose turn it is, and what is in the segment then.    *)

One(P) == IF P THEN 1 ELSE 0

(* The segment belongs to one process at most.                             *)
Turn ==
  /\ smutexf \in Nat /\ smutexp \in Nat
  /\ smutexf + smutexp + One(child_c \in {"scan", "post"}) + One(father_c = "print") <= 1

UpperChars == {Cap!Upper(c) : c \in Chars}

CapType ==
  /\ SIZE \in Nat \ {0}
  /\ sp \in Seq(Chars) /\ found \in Seq(Chars) /\ Len(found) <= SIZE
  /\ input \in Seq(Seq(Chars)) /\ typed \in Seq(Seq(Chars))
  /\ displayed \in Seq(Seq(UpperChars))
  /\ i_c \in Nat

(* The last word read is in the segment, and its line is being displayed.  *)
Segment ==
  /\ sp = IF typed = <<>> THEN found ELSE Cap!Truncated(typed[Len(typed)])
  /\ father_c = "print" => i_c <= Len(sp) /\ line = [k \in 1 .. i_c |-> Cap!Upper(sp[k])]

(* No line is displayed twice before the end of the input.                 *)
Pace ==
  /\ smutexf > 0 \/ child_c = "scan" =>
       /\ Len(typed) <= Len(displayed)
       /\ input # <<>> => Len(typed) = Len(displayed)
  /\ child_c = "post" \/ smutexp > 0 \/ father_c = "print" =>
       /\ Len(typed) <= Len(displayed) + 1
       /\ input # <<>> => Len(typed) = Len(displayed) + 1

CapInv == Turn /\ CapType /\ Segment /\ Pace /\ Cap!LinesAreWords

(* A word cut to SIZE.                                                     *)
LEMMA CutWord ==
  ASSUME SIZE \in Nat \ {0}, NEW w \in Seq(Chars)
  PROVE  /\ Cap!Truncated(w) \in Seq(Chars)
         /\ Len(Cap!Truncated(w)) <= SIZE
         /\ Len(w) <= SIZE => Cap!Truncated(w) = w
<1>1. CASE Len(w) > SIZE
  <2>1. \A b \in 1 .. SIZE : w[b] \in Chars
    BY <1>1
  <2>2. SubSeq(w, 1, SIZE) \in Seq(Chars) /\ Len(SubSeq(w, 1, SIZE)) = IF 1 <= SIZE THEN SIZE - 1 + 1 ELSE 0
    BY <2>1, SubSeqProperties
  <2> QED
    BY <1>1, <2>2 DEF Cap!Truncated
<1>2. CASE ~(Len(w) > SIZE)
  BY <1>2 DEF Cap!Truncated
<1> QED
  BY <1>1, <1>2

(* The line of a word.                                                     *)
LEMMA LineOf ==
  ASSUME NEW w \in Seq(Chars)
  PROVE  /\ Cap!UpperWord(w) = [k \in 1 .. Len(w) |-> Cap!Upper(w[k])]
         /\ Cap!UpperWord(w) \in Seq(UpperChars)
<1>1. DOMAIN w = 1 .. Len(w) /\ Len(w) \in Nat /\ \A k \in 1 .. Len(w) : w[k] \in Chars
  OBVIOUS
<1>2. \A k \in 1 .. Len(w) : Cap!Upper(w[k]) \in UpperChars
  BY <1>1 DEF UpperChars
<1>3. Cap!UpperWord(w) = [k \in 1 .. Len(w) |-> Cap!Upper(w[k])]
  BY <1>1 DEF Cap!UpperWord
<1>4. Cap!UpperWord(w) \in [1 .. Len(w) -> UpperChars]
  BY <1>2, <1>3
<1> QED
  BY <1>1, <1>3, <1>4, SeqDef

LEMMA CapStarts == Cap!BoundsAssumption /\ Cap!Init => CapInv
<1> SUFFICES ASSUME Cap!BoundsAssumption, Cap!Init PROVE CapInv
  OBVIOUS
<1>1. SIZE \in Nat \ {0} /\ MaxTyped \in Nat /\ MaxLength \in Nat \ {0}
  BY DEF Cap!BoundsAssumption
<1>2. /\ child_c = "wait" /\ father_c = "start" /\ smutexf = 1 /\ smutexp = 0 /\ sp = found
      /\ i_c = 0 /\ typed = <<>> /\ displayed = <<>>
      /\ found \in {<<>>} \cup {Cap!Truncated(w) : w \in Cap!Word} /\ input \in Cap!Inputs
  BY DEF Cap!Init
<1>3. Cap!Word \subseteq Seq(Chars)
  <2> SUFFICES ASSUME NEW w \in Cap!Word PROVE w \in Seq(Chars)
    OBVIOUS
  <2>1. PICK n \in 1 .. MaxLength : w \in [1 .. n -> Chars]
    BY DEF Cap!Word
  <2> QED
    BY <1>1, <2>1, SeqDef
<1>4. input \in Seq(Seq(Chars))
  <2>1. PICK n \in 0 .. MaxTyped : input \in [1 .. n -> Cap!Word]
    BY <1>2 DEF Cap!Inputs
  <2>2. input \in [1 .. n -> Seq(Chars)] /\ n \in Nat
    BY <1>1, <1>3, <2>1
  <2> QED
    BY <2>2, SeqDef
<1>5. found \in Seq(Chars) /\ Len(found) <= SIZE
  <2>1. CASE found = <<>>
    BY <1>1, <2>1
  <2>2. CASE found \in {Cap!Truncated(w) : w \in Cap!Word}
    <3>1. PICK w \in Cap!Word : found = Cap!Truncated(w)
      BY <2>2
    <3> QED
      BY <1>1, <1>3, <3>1, CutWord
  <2> QED
    BY <1>2, <2>1, <2>2
<1>6. Turn
  BY <1>2 DEF Turn, One
<1>7. CapType
  BY <1>1, <1>2, <1>4, <1>5 DEF CapType
<1>8. Segment /\ Pace /\ Cap!LinesAreWords
  BY <1>2 DEF Segment, Pace, Cap!LinesAreWords
<1> QED
  BY <1>6, <1>7, <1>8 DEF CapInv
(* Whoever has the segment has it alone.                                   *)
LEMMA Alone ==
  ASSUME Turn
  PROVE  /\ smutexf > 0 => smutexf = 1 /\ smutexp = 0 /\ child_c \notin {"scan", "post"} /\ father_c # "print"
         /\ smutexp > 0 => smutexp = 1 /\ smutexf = 0 /\ child_c \notin {"scan", "post"} /\ father_c # "print"
         /\ child_c \in {"scan", "post"} => smutexf = 0 /\ smutexp = 0 /\ father_c # "print"
         /\ father_c = "print" => smutexf = 0 /\ smutexp = 0 /\ child_c \notin {"scan", "post"}
BY DEF Turn, One

(* A function on 1 .. n + 1 that agrees with a sequence of length n is that *)
(* sequence with its last value appended.                                  *)
LEMMA AppendIs ==
  ASSUME NEW S, NEW q \in Seq(S), NEW e \in S, NEW n \in Nat, NEW t \in [1 .. n -> S],
         n = Len(q) + 1, t[n] = e, \A k \in 1 .. Len(q) : t[k] = q[k]
  PROVE  Append(q, e) = t
<1>1. /\ Append(q, e) \in Seq(S) /\ Len(Append(q, e)) = Len(q) + 1
      /\ \A k \in 1 .. Len(q) : Append(q, e)[k] = q[k]
      /\ Append(q, e)[Len(q) + 1] = e
  BY AppendProperties
<1>2. t \in Seq(S) /\ Len(t) = n
  BY SeqDef
<1>3. \A k \in 1 .. n : k = n \/ k \in 1 .. Len(q)
  BY LenProperties
<1>4. \A k \in 1 .. n : Append(q, e)[k] = t[k]
  BY <1>1, <1>3
<1> QED
  BY <1>1, <1>2, <1>4, SeqEqual

LEMMA CapKept == CapInv /\ [Cap!Next]_Cap!vars => CapInv'
<1> SUFFICES ASSUME CapInv, [Cap!Next]_Cap!vars PROVE CapInv'
  OBVIOUS
<1>1. Turn /\ CapType /\ Segment /\ Pace /\ Cap!LinesAreWords
  BY DEF CapInv
<1>2. /\ SIZE \in Nat \ {0} /\ sp \in Seq(Chars) /\ found \in Seq(Chars) /\ Len(found) <= SIZE
      /\ input \in Seq(Seq(Chars)) /\ typed \in Seq(Seq(Chars))
      /\ displayed \in Seq(Seq(UpperChars)) /\ i_c \in Nat
  BY <1>1 DEF CapType
<1>3. Len(typed) \in Nat /\ Len(displayed) \in Nat /\ Len(sp) \in Nat
  BY <1>2
<1>4. /\ smutexf > 0 => smutexf = 1 /\ smutexp = 0 /\ child_c \notin {"scan", "post"} /\ father_c # "print"
      /\ smutexp > 0 => smutexp = 1 /\ smutexf = 0 /\ child_c \notin {"scan", "post"} /\ father_c # "print"
      /\ child_c \in {"scan", "post"} => smutexf = 0 /\ smutexp = 0 /\ father_c # "print"
      /\ father_c = "print" => smutexf = 0 /\ smutexp = 0 /\ child_c \notin {"scan", "post"}
  BY <1>1, Alone
<1>5. smutexf \in Nat /\ smutexp \in Nat
  BY <1>1 DEF Turn
<1>6. CASE Cap!ChildWait
  <2>1. /\ child_c = "wait" /\ smutexf > 0 /\ smutexf' = smutexf - 1 /\ child_c' = "scan"
        /\ father_c' = father_c /\ smutexp' = smutexp /\ sp' = sp /\ i_c' = i_c /\ line' = line
        /\ input' = input /\ typed' = typed /\ displayed' = displayed /\ found' = found
    BY <1>6 DEF Cap!ChildWait, Cap!rest
  <2>2. Turn'
    BY <1>4, <1>5, <2>1 DEF Turn, One
  <2>3. CapType' /\ Segment' /\ Pace' /\ Cap!LinesAreWords'
    BY <1>1, <1>4, <2>1 DEF CapType, Segment, Pace, Cap!LinesAreWords
  <2> QED
    BY <2>2, <2>3 DEF CapInv
<1>7. CASE Cap!ChildScan
  <2>1. /\ child_c = "scan" /\ child_c' = "post" /\ father_c' = father_c /\ smutexf' = smutexf
        /\ smutexp' = smutexp /\ i_c' = i_c /\ line' = line /\ displayed' = displayed /\ found' = found
    BY <1>7 DEF Cap!ChildScan, Cap!rest, Cap!semaphores
  <2>2. Turn'
    BY <1>1, <2>1 DEF Turn, One
  <2>3. father_c # "print" /\ smutexf = 0 /\ smutexp = 0
    BY <1>4, <2>1
  <2>4. CASE input = <<>>
    <3>1. sp' = Cap!Truncated(sp) /\ input' = input /\ typed' = typed
      BY <1>7, <2>4 DEF Cap!ChildScan
    <3>2. Len(sp) <= SIZE
      <4>1. typed # <<>> => typed[Len(typed)] \in Seq(Chars)
        BY <1>2, <1>3
      <4> QED
        BY <1>1, <1>2, <4>1, CutWord DEF Segment
    <3>3. sp' = sp
      BY <1>2, <3>1, <3>2, CutWord
    <3>4. CapType' /\ Segment' /\ Cap!LinesAreWords'
      BY <1>1, <2>1, <2>3, <3>1, <3>3 DEF CapType, Segment, Cap!LinesAreWords
    <3>5. Pace'
      BY <1>1, <1>3, <2>1, <2>3, <2>4, <3>1 DEF Pace
    <3> QED
      BY <2>2, <3>4, <3>5 DEF CapInv
  <2>5. CASE input # <<>>
    <3>1. sp' = Cap!Truncated(Head(input)) /\ input' = Tail(input) /\ typed' = Append(typed, Head(input))
      BY <1>7, <2>5 DEF Cap!ChildScan
    <3>2. Head(input) \in Seq(Chars) /\ Tail(input) \in Seq(Seq(Chars))
      BY <1>2, <2>5, HeadTailProperties
    <3>3. PICK w \in Seq(Chars) : w = Head(input)
      BY <3>2
    <3>4. /\ typed' \in Seq(Seq(Chars)) /\ Len(typed') = Len(typed) + 1 /\ typed'[Len(typed) + 1] = w
          /\ \A k \in 1 .. Len(typed) : typed'[k] = typed[k]
      BY <1>2, <3>1, <3>3
    <3>5. typed' # <<>>
      BY <1>3, <3>4
    <3>6. sp' \in Seq(Chars)
      BY <1>2, <3>1, <3>2, CutWord
    <3>7. Len(typed) = Len(displayed)
      BY <1>1, <2>1, <2>5 DEF Pace
    <3>8. CapType'
      BY <1>2, <2>1, <3>1, <3>2, <3>4, <3>6 DEF CapType
    <3>9. Segment'
      BY <2>1, <2>3, <3>1, <3>3, <3>4, <3>5 DEF Segment
    <3>10. Pace'
      BY <1>3, <2>1, <2>3, <3>4, <3>7 DEF Pace
    <3>11. Cap!LinesAreWords'
      <4> SUFFICES ASSUME NEW k \in 1 .. Len(displayed)
                   PROVE  displayed[k] =
                            IF typed' = <<>> THEN Cap!UpperWord(found)
                            ELSE Cap!UpperWord(Cap!Truncated(
                                   typed'[IF k <= Len(typed') THEN k ELSE Len(typed')]))
        BY <2>1 DEF Cap!LinesAreWords
      <4>1. typed # <<>> /\ k <= Len(typed) /\ k <= Len(typed')
        BY <1>3, <3>4, <3>7
      <4>2. displayed[k] = Cap!UpperWord(Cap!Truncated(typed[k]))
        BY <1>1, <4>1 DEF Cap!LinesAreWords
      <4>3. typed'[k] = typed[k]
        BY <1>3, <3>4, <4>1
      <4> QED
        BY <3>5, <4>1, <4>2, <4>3
    <3> QED
      BY <2>2, <3>8, <3>9, <3>10, <3>11 DEF CapInv
  <2> QED
    BY <2>4, <2>5
<1>8. CASE Cap!ChildPost
  <2>1. /\ child_c = "post" /\ smutexp' = smutexp + 1 /\ child_c' = "wait"
        /\ father_c' = father_c /\ smutexf' = smutexf /\ sp' = sp /\ i_c' = i_c /\ line' = line
        /\ input' = input /\ typed' = typed /\ displayed' = displayed /\ found' = found
    BY <1>8 DEF Cap!ChildPost, Cap!rest
  <2>2. Turn'
    BY <1>4, <2>1 DEF Turn, One
  <2>3. CapType' /\ Segment' /\ Cap!LinesAreWords'
    BY <1>1, <2>1 DEF CapType, Segment, Cap!LinesAreWords
  <2>4. Pace'
    BY <1>1, <1>4, <2>1 DEF Pace
  <2> QED
    BY <2>2, <2>3, <2>4 DEF CapInv
<1>9. CASE Cap!FatherSigaction \/ Cap!Interrupt \/ Cap!ChildKilled \/ Cap!sigint_handler
           \/ UNCHANGED Cap!vars
  <2>1. /\ father_c' = father_c \/ father_c' \in {"wait", "over"}
        /\ child_c' = child_c \/ child_c' = "over"
        /\ smutexf' = smutexf /\ smutexp' = smutexp /\ sp' = sp /\ i_c' = i_c /\ line' = line
        /\ input' = input /\ typed' = typed /\ displayed' = displayed /\ found' = found
    BY <1>9 DEF Cap!FatherSigaction, Cap!Interrupt, Cap!ChildKilled, Cap!sigint_handler, Cap!vars,
                Cap!rest, Cap!semaphores
  <2>2. Turn'
    <3>1. /\ One(child_c \in {"scan", "post"})' <= One(child_c \in {"scan", "post"})
          /\ One(father_c = "print")' <= One(father_c = "print")
          /\ One(child_c \in {"scan", "post"})' \in {0, 1} /\ One(child_c \in {"scan", "post"}) \in {0, 1}
          /\ One(father_c = "print")' \in {0, 1} /\ One(father_c = "print") \in {0, 1}
      BY <2>1 DEF One
    <3> HIDE DEF One
    <3> QED
      BY <1>1, <2>1, <3>1 DEF Turn
  <2>3. CapType' /\ Segment' /\ Cap!LinesAreWords'
    BY <1>1, <2>1 DEF CapType, Segment, Cap!LinesAreWords
  <2>4. Pace'
    BY <1>1, <2>1 DEF Pace
  <2> QED
    BY <2>2, <2>3, <2>4 DEF CapInv
<1>10. CASE Cap!FatherWait
  <2>1. /\ father_c = "wait" /\ smutexp > 0 /\ smutexp' = smutexp - 1 /\ father_c' = "print"
        /\ i_c' = 0 /\ line' = <<>> /\ child_c' = child_c /\ smutexf' = smutexf /\ sp' = sp
        /\ input' = input /\ typed' = typed /\ displayed' = displayed /\ found' = found
    BY <1>10 DEF Cap!FatherWait, Cap!rest
  <2>2. Turn'
    BY <1>4, <2>1 DEF Turn, One
  <2>3. CapType' /\ Cap!LinesAreWords'
    BY <1>1, <2>1 DEF CapType, Cap!LinesAreWords
  <2>4. Segment'
    BY <1>1, <1>3, <2>1 DEF Segment
  <2>5. Pace'
    BY <1>1, <1>4, <2>1 DEF Pace
  <2> QED
    BY <2>2, <2>3, <2>4, <2>5 DEF CapInv
<1>11. CASE Cap!FatherPrint
  <2>1. /\ father_c = "print" /\ i_c < Len(sp) /\ line' = Append(line, Cap!Upper(sp[i_c + 1])) /\ i_c' = i_c + 1
        /\ father_c' = father_c /\ child_c' = child_c /\ smutexf' = smutexf /\ smutexp' = smutexp
        /\ sp' = sp /\ input' = input /\ typed' = typed /\ displayed' = displayed /\ found' = found
    BY <1>11 DEF Cap!FatherPrint, Cap!rest, Cap!semaphores
  <2>2. Turn' /\ CapType' /\ Pace' /\ Cap!LinesAreWords'
    BY <1>1, <2>1 DEF Turn, One, CapType, Pace, Cap!LinesAreWords
  <2>3. Segment'
    <3>1. line = [k \in 1 .. i_c |-> Cap!Upper(sp[k])]
      BY <1>1, <2>1 DEF Segment
    <3>2. \A k \in 1 .. i_c + 1 : Cap!Upper(sp[k]) \in UpperChars
      <4>1. \A k \in 1 .. i_c + 1 : k \in 1 .. Len(sp)
        BY <1>2, <1>3, <2>1
      <4>2. \A k \in 1 .. Len(sp) : sp[k] \in Chars
        BY <1>2, LenProperties
      <4> QED
        BY <4>1, <4>2 DEF UpperChars
    <3>3. line \in Seq(UpperChars) /\ Len(line) = i_c
      <4>1. \A k \in 1 .. i_c : k \in 1 .. i_c + 1
        BY <1>2
      <4>2. line \in [1 .. i_c -> UpperChars]
        BY <3>1, <3>2, <4>1
      <4> QED
        BY <1>2, <3>1, <4>2, SeqDef
    <3>4. line' = [k \in 1 .. i_c + 1 |-> Cap!Upper(sp[k])]
      <4> DEFINE next == [k \in 1 .. i_c + 1 |-> Cap!Upper(sp[k])]
      <4>1. next \in [1 .. i_c + 1 -> UpperChars]
        BY <3>2
      <4>2. i_c + 1 \in Nat /\ i_c + 1 \in 1 .. i_c + 1 /\ \A k \in 1 .. i_c : k \in 1 .. i_c + 1
        BY <1>2
      <4>3. Cap!Upper(sp[i_c + 1]) \in UpperChars /\ next[i_c + 1] = Cap!Upper(sp[i_c + 1])
        BY <3>2, <4>2
      <4>4. \A k \in 1 .. i_c : next[k] = line[k]
        BY <3>1, <4>2
      <4> HIDE DEF next
      <4> QED
        <5>1. \A q \in Seq(UpperChars) : \A e \in UpperChars :
                \A n \in Nat : \A t \in [1 .. n -> UpperChars] :
                  n = Len(q) + 1 /\ t[n] = e /\ (\A k \in 1 .. Len(q) : t[k] = q[k])
                  => Append(q, e) = t
          BY AppendIs
        <5>2. Append(line, Cap!Upper(sp[i_c + 1])) = next
          BY <3>3, <4>1, <4>2, <4>3, <4>4, <5>1
        <5> QED
          BY <2>1, <5>2 DEF next
    <3>5. i_c + 1 <= Len(sp)
      BY <1>2, <1>3, <2>1
    <3> QED
      BY <1>1, <2>1, <3>4, <3>5 DEF Segment
  <2> QED
    BY <2>2, <2>3 DEF CapInv
<1>12. CASE Cap!FatherEnd
  <2>1. /\ father_c = "print" /\ i_c = Len(sp) /\ displayed' = Append(displayed, line)
        /\ smutexf' = smutexf + 1 /\ father_c' = "wait" /\ child_c' = child_c /\ smutexp' = smutexp
        /\ sp' = sp /\ i_c' = i_c /\ line' = line
        /\ input' = input /\ typed' = typed /\ found' = found
    BY <1>12 DEF Cap!FatherEnd, Cap!rest
  <2>2. Turn'
    BY <1>4, <2>1 DEF Turn, One
  <2>3. line = Cap!UpperWord(sp) /\ line \in Seq(UpperChars)
    BY <1>1, <1>2, <2>1, LineOf DEF Segment
  <2>4. /\ displayed' \in Seq(Seq(UpperChars)) /\ Len(displayed') = Len(displayed) + 1
        /\ displayed'[Len(displayed) + 1] = line
        /\ \A k \in 1 .. Len(displayed) : displayed'[k] = displayed[k]
    BY <1>2, <2>1, <2>3
  <2>5. CapType'
    BY <1>1, <2>1, <2>4 DEF CapType
  <2>6. Segment'
    BY <1>1, <2>1 DEF Segment
  <2>7. Len(typed) <= Len(displayed) + 1
    BY <1>1, <2>1 DEF Pace
  <2>8. Pace'
    BY <1>1, <1>4, <2>1, <2>4 DEF Pace
  <2>9. Cap!LinesAreWords'
    <3> SUFFICES ASSUME NEW k \in 1 .. Len(displayed) + 1
                 PROVE  displayed'[k] =
                          IF typed = <<>> THEN Cap!UpperWord(found)
                          ELSE Cap!UpperWord(Cap!Truncated(
                                 typed[IF k <= Len(typed) THEN k ELSE Len(typed)]))
      BY <2>1, <2>4 DEF Cap!LinesAreWords
    <3>1. CASE k = Len(displayed) + 1
      <4>1. (IF k <= Len(typed) THEN k ELSE Len(typed)) = Len(typed)
        BY <1>3, <2>7, <3>1
      <4> QED
        BY <1>1, <2>3, <2>4, <3>1, <4>1 DEF Segment
    <3>2. CASE k # Len(displayed) + 1
      <4>1. k \in 1 .. Len(displayed)
        BY <1>3, <3>2
      <4> QED
        BY <1>1, <2>4, <4>1 DEF Cap!LinesAreWords
    <3> QED
      BY <3>1, <3>2
  <2> QED
    BY <2>2, <2>5, <2>6, <2>8, <2>9 DEF CapInv
<1> QED
  BY <1>6, <1>7, <1>8, <1>9, <1>10, <1>11, <1>12 DEF Cap!Next, Cap!Child, Cap!Father

(* The lines displayed are the words typed, each once and in order, and    *)
(* after the end of the input the last one, or what an earlier run left in *)
(* the segment: the two semaphores keep the father's characters and the    *)
(* child's words apart, and a Ctrl-C never garbles or repeats a line.      *)
THEOREM LinesComeOutRight ==
  ASSUME Cap!BoundsAssumption
  PROVE  Cap!Spec => []LinesAreWords
<1>1. CapInv => LinesAreWords
  BY DEF CapInv, LinesAreWords
<1> QED
  BY <1>1, CapStarts, CapKept, PTL DEF Cap!Spec

-----------------------------------------------------------------------------
(* TME4, accountant: sums over the signals.  The fold of the community     *)
(* modules is a function on the subsets of S, defined by recursion; f is   *)
(* what is summed.                                                         *)

Chosen(T) == CHOOSE x \in T : TRUE
IsSum(h, f, S) ==
  h = [T \in SUBSET S |-> IF T = {} THEN 0 ELSE f[Chosen(T)] + h[T \ {Chosen(T)}]]
SumOf(f, S) == (CHOOSE h : IsSum(h, f, S))[S]

LEMMA SumIsFold == \A f, S : Acc!MapThenSumSet(LAMBDA s : f[s], S) = SumOf(f, S)
BY DEF SumOf, Acc!MapThenSumSet, Acc!MapThenFoldSet, IsSum, Chosen

Below == {ss \in Nat \X Nat : ss[1] < ss[2]}

(* A set of natural numbers has a least element.                           *)
LEMMA Least ==
  ASSUME NEW T, T \subseteq Nat, T # {}
  PROVE  \E m \in T : \A n \in T : m <= n
<1>1. IsWellFoundedOn(Below, Nat)
  BY NatLessThanWellFounded DEF OpToRel, Below
<1>2. PICK m \in T : \A n \in T : ~(<<n, m>> \in Below)
  BY <1>1, WFMin
<1>3. \A n \in Nat : n < m => <<n, m>> \in Below
  BY DEF Below
<1>4. \A n \in T : ~(n < m)
  BY <1>2, <1>3, Zenon
<1> QED
  BY <1>4

(* What holds of a set when it holds of its subsets without an element     *)
(* holds of every finite set.                                              *)
LEMMA Smallest ==
  ASSUME NEW S, IsFiniteSet(S), NEW Bad, Bad \subseteq SUBSET S, Bad # {}
  PROVE  \E T \in Bad : \A x \in T : T \ {x} \notin Bad
<1> DEFINE Sizes == {n \in Nat : \E T \in Bad : IsFiniteSet(T) /\ Cardinality(T) = n}
<1>1. \A T \in Bad : IsFiniteSet(T) /\ Cardinality(T) \in Nat
  BY FS_Subset, FS_CardinalityType
<1>2. Sizes # {} /\ Sizes \subseteq Nat
  BY <1>1
<1> HIDE DEF Sizes
<1>3. PICK m \in Sizes : \A n \in Sizes : m <= n
  BY <1>2, Least
<1> USE DEF Sizes
<1>4. PICK T \in Bad : IsFiniteSet(T) /\ Cardinality(T) = m
  OBVIOUS
<1>5. ASSUME NEW x \in T, T \ {x} \in Bad PROVE FALSE
  <2>1. IsFiniteSet(T \ {x}) /\ Cardinality(T \ {x}) = m - 1
    BY <1>4, FS_RemoveElement
  <2>2. m - 1 \in Sizes
    BY <1>1, <1>5, <2>1
  <2> QED
    BY <1>2, <1>3, <2>2
<1> QED
  BY <1>5

LEMMA ChosenIn == \A T : T # {} => Chosen(T) \in T
BY DEF Chosen

Sums(h, f, S) ==
  \A T \in SUBSET S : h[T] = IF T = {} THEN 0 ELSE f[Chosen(T)] + h[T \ {Chosen(T)}]
SumsUpTo(n, h, f, S) ==
  \A T \in SUBSET S : Cardinality(T) <= n =>
    h[T] = IF T = {} THEN 0 ELSE f[Chosen(T)] + h[T \ {Chosen(T)}]

(* A function that sums exists: the sums over the sets of at most n        *)
(* elements give those over the sets of n + 1.                             *)
LEMMA SumExists ==
  ASSUME NEW S, IsFiniteSet(S), NEW f \in [S -> Nat]
  PROVE  \E h : IsSum(h, f, S)
<1> DEFINE Missing == {n \in Nat : ~ \E h : SumsUpTo(n, h, f, S)}
<1>1. \A T \in SUBSET S : /\ IsFiniteSet(T) /\ Cardinality(T) \in Nat
                          /\ Cardinality(T) = 0 => T = {}
                          /\ Cardinality(T) <= Cardinality(S) /\ Cardinality(S) \in Nat
  BY FS_Subset, FS_CardinalityType, FS_EmptySet
<1>2. \A T \in SUBSET S : T # {} =>
        /\ T \ {Chosen(T)} \in SUBSET S
        /\ Cardinality(T \ {Chosen(T)}) = Cardinality(T) - 1
  BY <1>1, ChosenIn, FS_RemoveElement
<1>3. Missing = {}
  <2> SUFFICES ASSUME Missing # {} PROVE FALSE
    OBVIOUS
  <2>1. Missing \subseteq Nat
    OBVIOUS
  <2> HIDE DEF Missing
  <2>2. PICK n \in Missing : \A k \in Missing : n <= k
    BY <2>1, Least
  <2> USE DEF Missing
  <2>3. n # 0
    <3>1. SumsUpTo(0, [T \in SUBSET S |-> 0], f, S)
      BY <1>1 DEF SumsUpTo
    <3> QED
      BY <3>1
  <2>4. n - 1 \in Nat /\ n - 1 \notin Missing
    BY <2>1, <2>2, <2>3
  <2>5. PICK h : SumsUpTo(n - 1, h, f, S)
    BY <2>4
  <2> DEFINE g == [T \in SUBSET S |->
                     IF Cardinality(T) <= n - 1 THEN h[T]
                     ELSE f[Chosen(T)] + h[T \ {Chosen(T)}]]
  <2>6. ASSUME NEW T \in SUBSET S, Cardinality(T) <= n
        PROVE  g[T] = IF T = {} THEN 0 ELSE f[Chosen(T)] + g[T \ {Chosen(T)}]
    <3>1. CASE T = {}
      <4>1. Cardinality(T) <= n - 1
        BY <2>4, <3>1, FS_EmptySet
      <4> QED
        BY <2>5, <3>1, <4>1 DEF SumsUpTo
    <3>2. CASE T # {}
      <4>1. g[T \ {Chosen(T)}] = h[T \ {Chosen(T)}]
        <5>1. Cardinality(T \ {Chosen(T)}) <= n - 1
          BY <1>1, <1>2, <2>1, <2>6, <3>2
        <5> QED
          BY <1>2, <3>2, <5>1
      <4>2. CASE Cardinality(T) <= n - 1
        BY <2>5, <3>2, <4>1, <4>2 DEF SumsUpTo
      <4> QED
        BY <3>2, <4>1, <4>2
    <3> QED
      BY <3>1, <3>2
  <2>7. SumsUpTo(n, g, f, S)
    BY <2>6 DEF SumsUpTo
  <2> QED
    BY <2>2, <2>7
<1>4. PICK h : SumsUpTo(Cardinality(S), h, f, S)
  BY <1>1, <1>3
<1>5. \A T \in SUBSET S : h[T] = IF T = {} THEN 0 ELSE f[Chosen(T)] + h[T \ {Chosen(T)}]
  BY <1>1, <1>4 DEF SumsUpTo
<1> DEFINE g == [T \in SUBSET S |-> h[T]]
<1>6. IsSum(g, f, S)
  BY <1>2, <1>5 DEF IsSum
<1> QED
  BY <1>6

LEMMA SumIs ==
  ASSUME NEW S, IsFiniteSet(S), NEW f \in [S -> Nat]
  PROVE  \E h : SumOf(f, S) = h[S] /\ Sums(h, f, S)
<1>1. PICK h : h = CHOOSE k : IsSum(k, f, S)
  OBVIOUS
<1>2. IsSum(h, f, S)
  BY <1>1, SumExists
<1>3. SumOf(f, S) = h[S]
  BY <1>1 DEF SumOf
<1> QED
  BY <1>2, <1>3 DEF IsSum, Sums

(* Nothing summed is zero, and one more of an element is one more in all.  *)
LEMMA SumZero ==
  ASSUME NEW S, IsFiniteSet(S)
  PROVE  SumOf([s \in S |-> 0], S) = 0
<1>0. PICK f \in [S -> Nat] : f = [s \in S |-> 0]
  OBVIOUS
<1>1. PICK h : SumOf(f, S) = h[S] /\ Sums(h, f, S)
  BY SumIs
<1> DEFINE Bad == {T \in SUBSET S : h[T] # 0}
<1>2. ASSUME NEW T \in Bad, \A x \in T : T \ {x} \notin Bad PROVE FALSE
  <2>1. T # {}
    BY <1>1 DEF Sums
  <2>2. Chosen(T) \in T /\ Chosen(T) \in S
    BY <2>1, ChosenIn
  <2>3. h[T \ {Chosen(T)}] = 0
    BY <1>2, <2>2
  <2>4. h[T] = f[Chosen(T)] + h[T \ {Chosen(T)}] /\ f[Chosen(T)] = 0
    BY <1>0, <1>1, <2>1, <2>2 DEF Sums
  <2> QED
    BY <2>3, <2>4
<1>3. Bad = {}
  <2>1. Bad \subseteq SUBSET S
    OBVIOUS
  <2> HIDE DEF Bad
  <2> QED
    BY <1>2, <2>1, Smallest
<1>4. h[S] = 0
  BY <1>3
<1> QED
  BY <1>0, <1>1, <1>4

LEMMA SumMore ==
  ASSUME NEW S, IsFiniteSet(S), NEW f \in [S -> Nat], NEW g \in [S -> Nat], NEW e \in S,
         g[e] = f[e] + 1, \A x \in S \ {e} : g[x] = f[x]
  PROVE  SumOf(f, S) \in Nat /\ SumOf(g, S) = SumOf(f, S) + 1
<1>1. PICK h : SumOf(f, S) = h[S] /\ Sums(h, f, S)
  BY SumIs
<1>2. PICK k : SumOf(g, S) = k[S] /\ Sums(k, g, S)
  BY SumIs
<1> DEFINE Holds(T) == h[T] \in Nat /\ k[T] = h[T] + (IF e \in T THEN 1 ELSE 0)
           Bad == {T \in SUBSET S : ~ Holds(T)}
<1> HIDE DEF Holds
<1>3. ASSUME NEW T \in Bad, \A x \in T : T \ {x} \notin Bad PROVE FALSE
  <2>1. T # {}
    <3>1. T = {} => h[T] = 0 /\ k[T] = 0 /\ e \notin T
      BY <1>1, <1>2 DEF Sums
    <3> QED
      BY <1>3, <3>1 DEF Holds
  <2>2. PICK x \in T : x = Chosen(T)
    BY <2>1, ChosenIn
  <2>3. PICK U \in SUBSET S : U = T \ {x} /\ Holds(U)
    BY <1>3, <2>2
  <2>4. h[T] = f[x] + h[U] /\ k[T] = g[x] + k[U]
    BY <1>1, <1>2, <2>1, <2>2, <2>3 DEF Sums
  <2>5. f[x] \in Nat /\ g[x] = f[x] + (IF x = e THEN 1 ELSE 0)
    <3>1. x \in S
      BY <2>2
    <3> QED
      BY <3>1
  <2>6. x = e => e \in T /\ e \notin U
    BY <2>3
  <2>7. x # e => (e \in T <=> e \in U)
    BY <2>3
  <2> HIDE DEF Bad
  <2>8. Holds(T)
    <3>1. PICK m \in Nat : m = h[U]
      BY <2>3 DEF Holds
    <3>2. k[U] = m + (IF e \in U THEN 1 ELSE 0)
      BY <2>3, <3>1 DEF Holds
    <3>3. PICK n \in Nat : n = f[x]
      BY <2>5
    <3>4. h[T] = n + m /\ k[T] = n + (IF x = e THEN 1 ELSE 0) + (m + (IF e \in U THEN 1 ELSE 0))
      BY <2>4, <2>5, <3>1, <3>2, <3>3
    <3> QED
      BY <2>6, <2>7, <3>4 DEF Holds
  <2> QED
    BY <1>3, <2>8 DEF Bad
<1>4. Bad = {}
  <2>1. Bad \subseteq SUBSET S
    OBVIOUS
  <2> HIDE DEF Bad
  <2> QED
    BY <1>3, <2>1, Smallest
<1>5. Holds(S)
  BY <1>4
<1> QED
  BY <1>1, <1>2, <1>5 DEF Holds

-----------------------------------------------------------------------------
(* The stack of handlers: an entry is added, taken off or changed at its   *)
(* end, and the entries of a kind are counted accordingly.                 *)

Entry == [sig : Sigs, at : {"load", "store", "count", "test"}, reg : Nat]
Held(stk, W) == {k \in 1 .. Len(stk) : stk[k] \in W}

LEMMA HeldFinite ==
  ASSUME NEW stk \in Seq(Entry), NEW W
  PROVE  IsFiniteSet(Held(stk, W)) /\ Cardinality(Held(stk, W)) \in Nat
<1>1. Held(stk, W) \subseteq 1 .. Len(stk) /\ Len(stk) \in Nat
  BY DEF Held
<1>2. IsFiniteSet(1 .. Len(stk))
  BY <1>1, FS_Interval
<1> QED
  BY <1>1, <1>2, FS_Subset, FS_CardinalityType

LEMMA HeldPush ==
  ASSUME NEW stk \in Seq(Entry), NEW e \in Entry, NEW W
  PROVE  Cardinality(Held(Append(stk, e), W)) = Cardinality(Held(stk, W)) + One(e \in W)
<1>1. PICK n \in Nat : n = Len(stk)
  OBVIOUS
<1>2. PICK A : A = Held(stk, W) /\ IsFiniteSet(A) /\ Cardinality(A) \in Nat
  BY HeldFinite
<1>3. n + 1 \notin A
  BY <1>1, <1>2 DEF Held
<1>4. /\ Len(Append(stk, e)) = n + 1
      /\ \A k \in 1 .. n : Append(stk, e)[k] = stk[k]
      /\ Append(stk, e)[n + 1] = e
  BY <1>1
<1>5. CASE e \in W
  <2>1. Held(Append(stk, e), W) = A \cup {n + 1}
    BY <1>1, <1>2, <1>4, <1>5 DEF Held
  <2> QED
    BY <1>2, <1>3, <1>5, <2>1, FS_AddElement DEF One
<1>6. CASE e \notin W
  <2>1. Held(Append(stk, e), W) = A
    BY <1>1, <1>2, <1>4, <1>6 DEF Held
  <2> QED
    BY <1>2, <1>6, <2>1 DEF One
<1> QED
  BY <1>5, <1>6

LEMMA PopTop ==
  ASSUME NEW stk \in Seq(Entry), stk # <<>>
  PROVE  \E low \in Seq(Entry), e \in Entry :
           /\ low = SubSeq(stk, 1, Len(stk) - 1) /\ e = stk[Len(stk)]
           /\ stk = Append(low, e)
           /\ Len(low) = Len(stk) - 1
           /\ \A k \in 1 .. Len(low) : low[k] = stk[k]
<1>1. PICK n \in Nat : n = Len(stk) /\ n # 0
  BY EmptySeq
<1>2. PICK low : low = SubSeq(stk, 1, n - 1)
  OBVIOUS
<1>3. low \in Seq(Entry) /\ Len(low) = n - 1 /\ \A k \in 1 .. n - 1 : low[k] = stk[k]
  BY <1>1, <1>2, SubSeqProperties
<1>4. PICK e \in Entry : e = stk[n]
  BY <1>1
<1>5. /\ Append(low, e) \in Seq(Entry) /\ Len(Append(low, e)) = n
      /\ \A k \in 1 .. n : Append(low, e)[k] = stk[k]
  BY <1>1, <1>3, <1>4
<1>6. stk = Append(low, e)
  BY <1>1, <1>5, SeqEqual
<1> QED
  BY <1>1, <1>2, <1>3, <1>4, <1>6

(* A signal has at most one handler on the stack: its own is blocked.      *)
OneEach(stk) == \A j, k \in 1 .. Len(stk) : stk[j].sig = stk[k].sig => j = k

Open(s) == {x \in Entry : x.sig = s /\ x.at \in {"load", "store", "count"}}
Adding == {x \in Entry : x.at \in {"load", "store"}}

AccType ==
  /\ IsFiniteSet(Sigs) /\ SIGINT \in Sigs /\ MAX_INTR \in Nat \ {0}
  /\ pending_a \subseteq Sigs
  /\ stack \in Seq(Entry)
  /\ cpt2 \in Nat /\ compteur \in [Sigs -> Nat] /\ delivered \in [Sigs -> Nat]
  /\ nested \in BOOLEAN /\ over \in {"no", "killed", "displayed"}

(* The last SIGINT that is counted is the one whose handler, or one above  *)
(* it, ends the program.                                                   *)
LastIntr ==
  /\ compteur[SIGINT] <= MAX_INTR
  /\ over = "displayed" => compteur[SIGINT] = MAX_INTR
  /\ over = "no" /\ compteur[SIGINT] = MAX_INTR =>
       \E k \in 1 .. Len(stack) : stack[k].sig = SIGINT /\ stack[k].at = "test"

Counted ==
  \A s \in Sigs : compteur[s] + Cardinality(Held(stack, Open(s))) = delivered[s]

(* Until a handler is interrupted inside its increment, only the last      *)
(* handler can be there, and what it has read is the total.                *)
Total ==
  ~ nested =>
    /\ \A k \in 1 .. Len(stack) - 1 : stack[k].at # "store"
    /\ \A k \in 1 .. Len(stack) : stack[k].at = "store" => stack[k].reg = cpt2
    /\ cpt2 + Cardinality(Held(stack, Adding)) = SumOf(delivered, Sigs)

AccInv == AccType /\ OneEach(stack) /\ LastIntr /\ Counted /\ Total

(* Cardinality is the same operator in the instance.                       *)
LEMMA SameSize == \A S : Acc!Cardinality(S) = Cardinality(S)
BY DEF Acc!Cardinality, Cardinality

LEMMA AccStarts == Acc!CountsAssumption /\ Acc!Init => AccInv
<1> SUFFICES ASSUME Acc!CountsAssumption, Acc!Init PROVE AccInv
  OBVIOUS
<1>1. AccType /\ Len(stack) = 0
  <2>1. stack \in Seq(Entry) /\ Len(stack) = 0
    BY DEF Acc!Init
  <2>2. compteur \in [Sigs -> Nat] /\ delivered \in [Sigs -> Nat]
    BY DEF Acc!Init
  <2>3. IsFiniteSet(Sigs)
    BY DEF Acc!CountsAssumption, Acc!IsFiniteSet, IsFiniteSet
  <2> QED
    BY <2>1, <2>2, <2>3 DEF Acc!CountsAssumption, Acc!Init, AccType
<1>2. \A W : Held(stack, W) = {}
  BY <1>1 DEF Held
<1>3. \A W : Cardinality(Held(stack, W)) = 0
  BY <1>2, FS_EmptySet
<1>4. SumOf(delivered, Sigs) = 0
  BY <1>1, SumZero DEF Acc!Init, AccType
<1>5. OneEach(stack) /\ LastIntr
  BY <1>1 DEF Acc!Init, AccType, OneEach, LastIntr
<1>6. Counted
  <2>1. ASSUME NEW s \in Sigs
        PROVE  compteur[s] = 0 /\ delivered[s] = 0 /\ Cardinality(Held(stack, Open(s))) = 0
    BY <1>3 DEF Acc!Init
  <2> QED
    BY <2>1 DEF Counted
<1>7. Total
  <2>1. Cardinality(Held(stack, Adding)) = 0 /\ cpt2 = 0
    BY <1>3 DEF Acc!Init
  <2> QED
    BY <1>1, <1>4, <2>1 DEF Total
<1> QED
  BY <1>1, <1>5, <1>6, <1>7 DEF AccInv

(* The last handler goes on: only its own entry changes.                   *)
LastIs(new, e, stk) ==
  /\ new \in Seq(Entry) /\ Len(new) = Len(stk) /\ OneEach(new)
  /\ new[Len(stk)] = e /\ \A k \in 1 .. Len(stk) - 1 : new[k] = stk[k]
  /\ \A W : Cardinality(Held(new, W)) + One(stk[Len(stk)] \in W)
             = Cardinality(Held(stk, W)) + One(e \in W)

LEMMA Swapped ==
  ASSUME NEW stk \in Seq(Entry), stk # <<>>, NEW e \in Entry, e.sig = stk[Len(stk)].sig,
         OneEach(stk), NEW new, new = Append(SubSeq(stk, 1, Len(stk) - 1), e)
  PROVE  LastIs(new, e, stk)
<1>1. PICK low \in Seq(Entry), t \in Entry :
        /\ low = SubSeq(stk, 1, Len(stk) - 1) /\ t = stk[Len(stk)]
        /\ stk = Append(low, t)
        /\ Len(low) = Len(stk) - 1
        /\ \A k \in 1 .. Len(low) : low[k] = stk[k]
  BY PopTop
<1>2. PICK n \in Nat : n = Len(low) /\ Len(stk) = n + 1
  BY <1>1
<1>3. new = Append(low, e)
  BY <1>1
<1>4. /\ new \in Seq(Entry) /\ Len(new) = n + 1
      /\ new[n + 1] = e /\ \A k \in 1 .. n : new[k] = stk[k]
  BY <1>1, <1>2, <1>3
<1>5. \A k \in 1 .. n + 1 : new[k].sig = stk[k].sig
  BY <1>2, <1>4
<1>6. OneEach(new)
  BY <1>2, <1>4, <1>5 DEF OneEach
<1>7. ASSUME NEW W
      PROVE  Cardinality(Held(new, W)) + One(t \in W)
               = Cardinality(Held(stk, W)) + One(e \in W)
  <2>1. PICK c \in Nat : c = Cardinality(Held(low, W))
    BY HeldFinite
  <2>2. Cardinality(Held(new, W)) = c + One(e \in W)
    BY <1>3, <2>1, HeldPush
  <2>3. Cardinality(Held(stk, W)) = c + One(t \in W)
    BY <1>1, <2>1, HeldPush
  <2> QED
    BY <2>1, <2>2, <2>3 DEF One
<1> QED
  BY <1>1, <1>2, <1>4, <1>6, <1>7 DEF LastIs

(* The same of the stack of the program.                                   *)
LEMMA StackSwapped ==
  ASSUME stack \in Seq(Entry), stack # <<>>, OneEach(stack),
         NEW e \in Entry, e.sig = stack[Len(stack)].sig,
         stack' = Append(SubSeq(stack, 1, Len(stack) - 1), e)
  PROVE  /\ stack' \in Seq(Entry) /\ Len(stack') = Len(stack) /\ OneEach(stack')
         /\ stack'[Len(stack)] = e /\ \A k \in 1 .. Len(stack) - 1 : stack'[k] = stack[k]
         /\ \A W : Cardinality(Held(stack', W)) + One(stack[Len(stack)] \in W)
                    = Cardinality(Held(stack, W)) + One(e \in W)
<1>1. PICK stk, new : stk \in Seq(Entry) /\ stk = stack /\ new = stack'
  OBVIOUS
<1>2. /\ stk # <<>> /\ OneEach(stk) /\ e.sig = stk[Len(stk)].sig
      /\ new = Append(SubSeq(stk, 1, Len(stk) - 1), e)
  BY <1>1
<1>3. LastIs(new, e, stk)
  BY <1>1, <1>2, Swapped
<1> QED
  BY <1>1, <1>3 DEF LastIs

LEMMA AccKept == AccInv /\ [Acc!Next]_(Acc!vars) => AccInv'
<1> SUFFICES ASSUME AccInv, [Acc!Next]_(Acc!vars) PROVE AccInv'
  OBVIOUS
<1>1. AccType /\ OneEach(stack) /\ LastIntr /\ Counted /\ Total
  BY DEF AccInv
<1> DEFINE cur == stack[Len(stack)]
<1>2. ASSUME UNCHANGED <<stack, cpt2, compteur, delivered, nested, over>>,
             pending_a' \subseteq Sigs
      PROVE  AccInv'
  BY <1>1, <1>2 DEF AccInv, AccType, OneEach, LastIntr, Counted, Total
<1>3. CASE UNCHANGED Acc!vars
  BY <1>1, <1>2, <1>3 DEF Acc!vars, AccType
<1>4. CASE Acc!Install
  BY <1>1, <1>2, <1>4 DEF Acc!Install, AccType
<1>5. ASSUME NEW s \in Sigs, Acc!Send(s) PROVE AccInv'
  BY <1>1, <1>2, <1>5 DEF Acc!Send, AccType
<1>6. ASSUME NEW s \in Sigs, Acc!Deliver(s), ~ s < nb PROVE AccInv'
  BY <1>1, <1>6 DEF Acc!Deliver, AccInv, AccType, OneEach, LastIntr, Counted, Total
<1>7. ASSUME NEW s \in Sigs, Acc!Deliver(s), s < nb PROVE AccInv'
  <2>1. PICK e \in Entry : e = [sig |-> s, at |-> "load", reg |-> 0]
    BY DEF Entry
  <2>2. /\ over = "no" /\ pending_a' \subseteq pending_a /\ stack' = Append(stack, e)
        /\ delivered' = [delivered EXCEPT ![s] = @ + 1]
        /\ nested' = (nested \/ (stack # <<>> /\ cur.at = "store"))
        /\ UNCHANGED <<cpt2, compteur, over>>
    BY <1>7, <2>1 DEF Acc!Deliver, Acc!Handling, Acc!Top
  <2>3. \A k \in 1 .. Len(stack) : stack[k].sig # s
    BY <1>7 DEF Acc!Deliver, Acc!Running
  <2>4. PICK n \in Nat : n = Len(stack)
    BY <1>1 DEF AccType
  <2>5. /\ stack' \in Seq(Entry) /\ Len(stack') = n + 1 /\ stack'[n + 1] = e
        /\ \A k \in 1 .. n : stack'[k] = stack[k]
    BY <1>1, <2>2, <2>4 DEF AccType
  <2>6. \A W : Cardinality(Held(stack', W)) = Cardinality(Held(stack, W)) + One(e \in W)
    BY <1>1, <2>2, HeldPush DEF AccType
  <2>7. AccType'
    BY <1>1, <2>2, <2>5 DEF AccType
  <2>8. OneEach(stack')
    BY <1>1, <2>1, <2>3, <2>4, <2>5 DEF OneEach
  <2>9. LastIntr'
    BY <1>1, <2>2, <2>4, <2>5 DEF LastIntr
  <2>10. Counted'
    <3>1. SUFFICES ASSUME NEW t \in Sigs
                   PROVE  compteur'[t] + Cardinality(Held(stack', Open(t))) = delivered'[t]
      BY DEF Counted
    <3>2. One(e \in Open(t)) = IF t = s THEN 1 ELSE 0
      BY <2>1 DEF One, Open
    <3>3. PICK c, m, d \in Nat :
            /\ c = Cardinality(Held(stack, Open(t))) /\ m = compteur[t] /\ d = delivered[t]
      BY <1>1, HeldFinite DEF AccType
    <3>4. m + c = d
      BY <1>1, <3>3 DEF Counted
    <3>5. delivered'[t] = d + (IF t = s THEN 1 ELSE 0)
      BY <1>1, <2>2, <3>3 DEF AccType
    <3>6. Cardinality(Held(stack', Open(t))) = c + (IF t = s THEN 1 ELSE 0)
      BY <2>6, <3>2, <3>3
    <3> QED
      BY <2>2, <3>3, <3>4, <3>5, <3>6
  <2>11. Total'
    <3>1. SUFFICES ASSUME ~ nested' PROVE Total'
      BY DEF Total
    <3>2. ~ nested /\ (n # 0 => stack[n].at # "store")
      BY <1>1, <2>2, <2>4, <3>1 DEF AccType
    <3>3. \A k \in 1 .. n : stack'[k].at # "store"
      BY <1>1, <2>4, <2>5, <3>2 DEF Total
    <3>4. e.at = "load" /\ One(e \in Adding) = 1
      BY <2>1 DEF One, Adding
    <3>5. PICK c, m \in Nat : c = Cardinality(Held(stack, Adding)) /\ m = cpt2
      BY <1>1, HeldFinite DEF AccType
    <3>6. Cardinality(Held(stack', Adding)) = c + 1
      BY <2>6, <3>4, <3>5
    <3>7. m + c = SumOf(delivered, Sigs)
      BY <1>1, <3>2, <3>5 DEF Total
    <3>8. SumOf(delivered', Sigs) = SumOf(delivered, Sigs) + 1
      <4>1. PICK f \in [Sigs -> Nat], g \in [Sigs -> Nat] :
              /\ f = delivered /\ g = delivered'
              /\ g[s] = f[s] + 1 /\ \A x \in Sigs \ {s} : g[x] = f[x]
        BY <1>1, <2>2, <2>7 DEF AccType
      <4>2. IsFiniteSet(Sigs)
        BY <1>1 DEF AccType
      <4> QED
        BY <4>1, <4>2, SumMore
    <3>9. cpt2' + Cardinality(Held(stack', Adding)) = SumOf(delivered', Sigs)
      BY <2>2, <3>5, <3>6, <3>7, <3>8
    <3> QED
      BY <2>4, <2>5, <3>3, <3>4, <3>9 DEF Total
  <2> QED
    BY <2>7, <2>8, <2>9, <2>10, <2>11 DEF AccInv
<1>8. ASSUME NEW l, Acc!Handling(l)
      PROVE  /\ over = "no" /\ stack # <<>> /\ cur \in Entry /\ cur.at = l /\ Len(stack) \in Nat \ {0}
             /\ cur.sig \in Sigs /\ cur.reg \in Nat
  <2>1. stack \in Seq(Entry) /\ stack # <<>> /\ over = "no" /\ cur.at = l
    BY <1>1, <1>8 DEF AccType, Acc!Handling, Acc!Top
  <2>2. Len(stack) \in Nat \ {0}
    BY <2>1, EmptySeq
  <2>3. cur \in Entry
    BY <2>1, <2>2
  <2> QED
    BY <2>1, <2>2, <2>3 DEF Entry
<1>9. CASE Acc!Load
  <2>1. PICK e \in Entry : e = [cur EXCEPT !.at = "store", !.reg = cpt2]
    BY <1>1, <1>8, <1>9 DEF Acc!Load, Entry, AccType
  <2>2. /\ over = "no" /\ stack # <<>> /\ cur \in Entry /\ cur.at = "load"
        /\ e.sig = cur.sig /\ e.at = "store" /\ e.reg = cpt2
    BY <1>8, <1>9, <2>1 DEF Acc!Load, Entry
  <2>3. /\ stack' = Append(SubSeq(stack, 1, Len(stack) - 1), e)
        /\ UNCHANGED <<pending_a, cpt2, compteur, delivered, nested, over>>
    BY <1>9, <2>1 DEF Acc!Load, Acc!Top, Acc!Pop
  <2>4. /\ stack' \in Seq(Entry) /\ Len(stack') = Len(stack) /\ OneEach(stack')
        /\ stack'[Len(stack)] = e /\ \A k \in 1 .. Len(stack) - 1 : stack'[k] = stack[k]
        /\ \A W : Cardinality(Held(stack', W)) + One(cur \in W)
                   = Cardinality(Held(stack, W)) + One(e \in W)
    BY <1>1, <2>2, <2>3, StackSwapped DEF AccType
  <2>5. AccType'
    BY <1>1, <2>3, <2>4 DEF AccType
  <2>6. LastIntr'
    BY <1>1, <2>2, <2>3, <2>4 DEF LastIntr, AccType
  <2>7. Counted'
    <3>1. \A s : One(cur \in Open(s)) = One(e \in Open(s))
      BY <2>2 DEF One, Open
    <3>2. \A s : Cardinality(Held(stack', Open(s))) = Cardinality(Held(stack, Open(s)))
      BY <1>1, <2>4, <3>1, HeldFinite DEF AccType, One
    <3> QED
      BY <1>1, <2>3, <3>2 DEF Counted
  <2>8. Total'
    <3>1. One(cur \in Adding) = 1 /\ One(e \in Adding) = 1
      BY <2>2 DEF One, Adding
    <3>2. Cardinality(Held(stack', Adding)) = Cardinality(Held(stack, Adding))
      BY <1>1, <2>4, <3>1, HeldFinite DEF AccType
    <3>3. PICK n \in Nat \ {0} : n = Len(stack)
      BY <1>8, <1>9 DEF Acc!Load
    <3> QED
      BY <1>1, <2>2, <2>3, <2>4, <3>2, <3>3 DEF Total
  <2> QED
    BY <2>4, <2>5, <2>6, <2>7, <2>8 DEF AccInv
<1>10. CASE Acc!Store
  <2>1. PICK e \in Entry : e = [cur EXCEPT !.at = "count"]
    BY <1>1, <1>8, <1>10 DEF Acc!Store, Entry, AccType
  <2>2. /\ over = "no" /\ stack # <<>> /\ cur \in Entry /\ cur.at = "store"
        /\ e.sig = cur.sig /\ e.at = "count" /\ e.reg = cur.reg /\ cur.reg \in Nat
    BY <1>8, <1>10, <2>1 DEF Acc!Store, Entry
  <2>3. /\ stack' = Append(SubSeq(stack, 1, Len(stack) - 1), e)
        /\ cpt2' = cur.reg + 1
        /\ UNCHANGED <<pending_a, compteur, delivered, nested, over>>
    BY <1>10, <2>1 DEF Acc!Store, Acc!Top, Acc!Pop
  <2>4. /\ stack' \in Seq(Entry) /\ Len(stack') = Len(stack) /\ OneEach(stack')
        /\ stack'[Len(stack)] = e /\ \A k \in 1 .. Len(stack) - 1 : stack'[k] = stack[k]
        /\ \A W : Cardinality(Held(stack', W)) + One(cur \in W)
                   = Cardinality(Held(stack, W)) + One(e \in W)
    BY <1>1, <2>2, <2>3, StackSwapped DEF AccType
  <2>5. AccType'
    BY <1>1, <2>2, <2>3, <2>4 DEF AccType
  <2>6. LastIntr'
    BY <1>1, <2>2, <2>3, <2>4 DEF LastIntr, AccType
  <2>7. Counted'
    <3>1. \A s : One(cur \in Open(s)) = One(e \in Open(s))
      BY <2>2 DEF One, Open
    <3>2. \A s : Cardinality(Held(stack', Open(s))) = Cardinality(Held(stack, Open(s)))
      BY <1>1, <2>4, <3>1, HeldFinite DEF AccType, One
    <3> QED
      BY <1>1, <2>3, <3>2 DEF Counted
  <2>8. Total'
    <3>1. One(cur \in Adding) = 1 /\ One(e \in Adding) = 0
      BY <2>2 DEF One, Adding
    <3>2. PICK n \in Nat \ {0} : n = Len(stack)
      BY <1>8, <1>10 DEF Acc!Store
    <3>3. PICK c, d \in Nat :
            c = Cardinality(Held(stack, Adding)) /\ d = Cardinality(Held(stack', Adding))
      BY <1>1, <2>4, HeldFinite DEF AccType
    <3>4. d + 1 = c
      BY <2>4, <3>1, <3>3
    <3>5. SUFFICES ASSUME ~ nested PROVE Total'
      BY <2>3 DEF Total
    <3>6. /\ \A k \in 1 .. n - 1 : stack[k].at # "store"
          /\ cur.reg = cpt2 /\ cpt2 + c = SumOf(delivered, Sigs)
      BY <1>1, <2>2, <3>2, <3>3, <3>5 DEF Total
    <3>7. \A k \in 1 .. n : stack'[k].at # "store"
      BY <2>2, <2>4, <3>2, <3>6
    <3>8. cpt2' + d = SumOf(delivered, Sigs)
      BY <1>1, <2>3, <3>3, <3>4, <3>6 DEF AccType
    <3> QED
      BY <2>3, <2>4, <3>2, <3>3, <3>7, <3>8 DEF Total
  <2> QED
    BY <2>4, <2>5, <2>6, <2>7, <2>8 DEF AccInv
<1>11. CASE Acc!Count
  <2>1. PICK e \in Entry : e = [cur EXCEPT !.at = "test"]
    BY <1>1, <1>8, <1>11 DEF Acc!Count, Entry, AccType
  <2>2. /\ over = "no" /\ stack # <<>> /\ cur \in Entry /\ cur.at = "count"
        /\ e.sig = cur.sig /\ e.at = "test" /\ e.reg = cur.reg /\ cur.sig \in Sigs
    BY <1>8, <1>11, <2>1 DEF Acc!Count, Entry
  <2>3. /\ stack' = Append(SubSeq(stack, 1, Len(stack) - 1), e)
        /\ compteur' = [compteur EXCEPT ![cur.sig] = @ + 1]
        /\ UNCHANGED <<pending_a, cpt2, delivered, nested, over>>
    BY <1>11, <2>1 DEF Acc!Count, Acc!Top, Acc!Pop
  <2>4. /\ stack' \in Seq(Entry) /\ Len(stack') = Len(stack) /\ OneEach(stack')
        /\ stack'[Len(stack)] = e /\ \A k \in 1 .. Len(stack) - 1 : stack'[k] = stack[k]
        /\ \A W : Cardinality(Held(stack', W)) + One(cur \in W)
                   = Cardinality(Held(stack, W)) + One(e \in W)
    BY <1>1, <2>2, <2>3, StackSwapped DEF AccType
  <2>5. AccType'
    BY <1>1, <2>2, <2>3, <2>4 DEF AccType
  <2>6. PICK n \in Nat \ {0} : n = Len(stack)
    BY <1>8, <1>11 DEF Acc!Count
  <2>7. LastIntr'
    <3>1. CASE cur.sig = SIGINT
      <4>1. ~ \E k \in 1 .. n : stack[k].sig = SIGINT /\ stack[k].at = "test"
        BY <1>1, <2>2, <2>6, <3>1 DEF OneEach
      <4>2. PICK m \in Nat : m = compteur[SIGINT] /\ m < MAX_INTR
        BY <1>1, <2>2, <2>6, <4>1 DEF LastIntr, AccType
      <4>3. compteur'[SIGINT] = m + 1
        BY <1>1, <2>3, <3>1, <4>2 DEF AccType
      <4>4. stack'[n].sig = SIGINT /\ stack'[n].at = "test"
        BY <2>2, <2>4, <2>6, <3>1
      <4> QED
        BY <1>1, <2>2, <2>3, <2>4, <2>6, <4>2, <4>3, <4>4 DEF LastIntr, AccType
    <3>2. CASE cur.sig # SIGINT
      <4>1. compteur'[SIGINT] = compteur[SIGINT]
        BY <1>1, <2>3, <3>2 DEF AccType
      <4> QED
        BY <1>1, <2>2, <2>3, <2>4, <2>6, <3>2, <4>1 DEF LastIntr
    <3> QED
      BY <3>1, <3>2
  <2>8. Counted'
    <3>1. SUFFICES ASSUME NEW t \in Sigs
                   PROVE  compteur'[t] + Cardinality(Held(stack', Open(t))) = delivered'[t]
      BY DEF Counted
    <3>2. One(cur \in Open(t)) = (IF t = cur.sig THEN 1 ELSE 0) /\ One(e \in Open(t)) = 0
      BY <2>2 DEF One, Open
    <3>3. PICK c, f, m \in Nat :
            /\ c = Cardinality(Held(stack, Open(t))) /\ f = Cardinality(Held(stack', Open(t)))
            /\ m = compteur[t]
      BY <1>1, <2>4, HeldFinite DEF AccType
    <3>4. m + c = delivered[t]
      BY <1>1, <3>3 DEF Counted
    <3>5. compteur'[t] = m + (IF t = cur.sig THEN 1 ELSE 0)
      BY <1>1, <2>3, <3>3 DEF AccType
    <3>6. f + (IF t = cur.sig THEN 1 ELSE 0) = c
      BY <2>4, <3>2, <3>3
    <3> QED
      BY <2>3, <3>3, <3>4, <3>5, <3>6
  <2>9. Total'
    <3>1. One(cur \in Adding) = 0 /\ One(e \in Adding) = 0
      BY <2>2 DEF One, Adding
    <3>2. Cardinality(Held(stack', Adding)) = Cardinality(Held(stack, Adding))
      BY <1>1, <2>4, <3>1, HeldFinite DEF AccType
    <3> QED
      BY <1>1, <2>2, <2>3, <2>4, <2>6, <3>2 DEF Total
  <2> QED
    BY <2>4, <2>5, <2>7, <2>8, <2>9 DEF AccInv
<1>12. CASE Acc!Test
  <2>1. /\ over = "no" /\ stack # <<>> /\ cur \in Entry /\ cur.at = "test"
        /\ UNCHANGED <<pending_a, cpt2, compteur, delivered, nested>>
    BY <1>8, <1>12 DEF Acc!Test
  <2>2. CASE Acc!Enough
    BY <1>1, <1>12, <2>1, <2>2
    DEF Acc!Test, Acc!Enough, AccInv, AccType, OneEach, LastIntr, Counted, Total
  <2>3. CASE ~ Acc!Enough
    <3>1. PICK low \in Seq(Entry), t \in Entry :
            /\ low = SubSeq(stack, 1, Len(stack) - 1) /\ t = cur
            /\ stack = Append(low, t)
            /\ Len(low) = Len(stack) - 1
            /\ \A k \in 1 .. Len(low) : low[k] = stack[k]
      BY <1>1, <2>1, PopTop DEF AccType
    <3>2. stack' = low /\ over' = over
      BY <1>12, <2>3, <3>1 DEF Acc!Test, Acc!Pop
    <3>3. PICK n \in Nat : n = Len(low) /\ Len(stack) = n + 1
      BY <3>1
    <3>4. \A W : t \notin W => Cardinality(Held(low, W)) = Cardinality(Held(stack, W))
      <4>1. ASSUME NEW W, t \notin W
            PROVE  Cardinality(Held(low, W)) = Cardinality(Held(stack, W))
        <5>1. Cardinality(Held(stack, W)) = Cardinality(Held(low, W)) + One(t \in W)
          BY <3>1, HeldPush
        <5>2. Cardinality(Held(low, W)) \in Nat
          BY HeldFinite
        <5> QED
          BY <4>1, <5>1, <5>2 DEF One
      <4> QED
        BY <4>1
    <3>5. t \notin Adding /\ \A s : t \notin Open(s)
      BY <2>1, <3>1 DEF Adding, Open
    <3>6. AccType' /\ OneEach(stack')
      <4>1. OneEach(low)
        <5>1. ASSUME NEW j \in 1 .. n, NEW k \in 1 .. n, low[j].sig = low[k].sig
              PROVE  j = k
          <6>1. /\ stack[j].sig = stack[k].sig
                /\ j \in 1 .. Len(stack) /\ k \in 1 .. Len(stack)
            BY <3>1, <3>3, <5>1
          <6> QED
            BY <1>1, <6>1 DEF OneEach
        <5> QED
          BY <3>3, <5>1 DEF OneEach
      <4> QED
        BY <1>1, <2>1, <3>2, <4>1 DEF AccType
    <3>7. LastIntr'
      BY <1>1, <2>1, <2>3, <3>2 DEF LastIntr, AccType, Acc!Enough
    <3>8. Counted'
      BY <1>1, <2>1, <3>2, <3>4, <3>5 DEF Counted
    <3>9. Total'
      <4>1. SUFFICES ASSUME ~ nested PROVE Total'
        BY <2>1 DEF Total
      <4>2. /\ \A k \in 1 .. n : stack[k].at # "store"
            /\ cpt2 + Cardinality(Held(stack, Adding)) = SumOf(delivered, Sigs)
        BY <1>1, <3>3, <4>1 DEF Total
      <4>3. Cardinality(Held(low, Adding)) = Cardinality(Held(stack, Adding))
        BY <3>4, <3>5
      <4>4. \A k \in 1 .. n : low[k].at # "store"
        BY <3>1, <3>3, <4>2
      <4> QED
        BY <2>1, <3>2, <3>3, <4>2, <4>3, <4>4 DEF Total
    <3> QED
      BY <3>6, <3>7, <3>8, <3>9 DEF AccInv
  <2> QED
    BY <2>2, <2>3
<1> QED
  BY <1>3, <1>4, <1>5, <1>6, <1>7, <1>9, <1>10, <1>11, <1>12 DEF Acc!Next

(* Whatever signals come and whichever handlers they interrupt, accountant *)
(* ends at MAX_INTR SIGINTs, each signal's counter is the number of its    *)
(* handlers that have counted, and the total is their sum unless a handler *)
(* came between the load and the store of another (line 19 of accountant). *)
THEOREM SignalsAreCounted ==
  ASSUME Acc!CountsAssumption
  PROVE  Acc!Spec => []Accounts
<1>1. AccInv => Accounts
  <2> SUFFICES ASSUME AccInv PROVE Accounts
    OBVIOUS
  <2>1. AccType /\ LastIntr /\ Counted /\ Total
    BY DEF AccInv
  <2>2. \A s \in Sigs : Acc!Uncounted(s) = Cardinality(Held(stack, Open(s)))
    <3>1. ASSUME NEW s \in Sigs
          PROVE  {k \in 1 .. Len(stack) : stack[k].sig = s /\ stack[k].at \in {"load", "store", "count"}}
                   = Held(stack, Open(s))
      <4>1. \A k \in 1 .. Len(stack) : stack[k] \in Entry
        BY <2>1 DEF AccType
      <4> QED
        BY <4>1 DEF Held, Open
    <3>2. \A s : Acc!Uncounted(s) = Cardinality({k \in 1 .. Len(stack) :
            stack[k].sig = s /\ stack[k].at \in {"load", "store", "count"}})
      BY SameSize DEF Acc!Uncounted
    <3> QED
      BY <3>1, <3>2
  <2>3. {k \in 1 .. Len(stack) : stack[k].at \in {"load", "store"}} = Held(stack, Adding)
    BY <2>1 DEF AccType, Held, Adding
  <2>4. Acc!MapThenSumSet(LAMBDA s : delivered[s], Sigs) = SumOf(delivered, Sigs)
    BY SumIsFold
  <2>5. \A s \in Sigs : compteur[s] + Acc!Uncounted(s) = delivered[s]
    BY <2>1, <2>2 DEF Counted
  <2> QED
    BY <2>1, <2>3, <2>4, <2>5, SameSize DEF Accounts, Acc!Accounts, LastIntr, Total
<1> QED
  BY <1>1, AccStarts, AccKept, PTL DEF Acc!Spec

-----------------------------------------------------------------------------
(* TME1, the queue and the stack: the elements held, the oldest first.     *)

ConType ==
  /\ STACK_SIZE \in Nat \ {0} /\ MaxIn \in Nat
  /\ container \in {"fifo", "stack"}
  /\ cell \in Seq([content : Nat, previous : Nat, next : Nat, live : BOOLEAN])
  /\ head \in Nat /\ taille \in Nat /\ tail \in Nat
  /\ contents \in [0 .. STACK_SIZE - 1 -> Nat] /\ top \in 0 .. STACK_SIZE
  /\ Len(in) <= MaxIn

(* The n-th element inserted is the number n; h are those inserted and not *)
(* taken, and those taken were taken once.                                 *)
HeldIs(h, i, o) ==
  /\ h \in Seq(Nat) /\ i \in Seq(Nat) /\ o \in Seq(Nat)
  /\ \A k \in 1 .. Len(i) : i[k] = k
  /\ \A k \in 1 .. Len(h) : h[k] \in 1 .. Len(i)
  /\ \A j, k \in 1 .. Len(h) : j < k => h[j] < h[k]
  /\ \A n \in 1 .. Len(i) :
       (\E k \in 1 .. Len(o) : o[k] = n) <=> (\A k \in 1 .. Len(h) : h[k] # n)
  /\ \A k \in 1 .. Len(o) : o[k] \in 1 .. Len(i)
  /\ \A j, k \in 1 .. Len(o) : o[j] = o[k] => j = k
  /\ Len(i) = Len(o) + Len(h)

(* Each cell holds its own number and leads to the one inserted before it. *)
InCells(h) ==
  /\ taille = Len(h) /\ Len(cell) = Len(in)
  /\ tail = IF h = <<>> THEN 0 ELSE h[Len(h)]
  /\ \A k \in 1 .. Len(h) : cell[h[k]].previous = IF k = 1 THEN 0 ELSE h[k - 1]
  /\ \A c \in 1 .. Len(cell) :
       /\ cell[c].content = c
       /\ cell[c].live <=> \E k \in 1 .. Len(h) : h[k] = c

InArray(h) ==
  /\ cell = <<>> /\ tail = 0 /\ taille = 0
  /\ top = Len(h)
  /\ \A k \in 1 .. Len(h) : contents[k - 1] = h[k]

Contains(h) ==
  HeldIs(h, in, out) /\ IF container = "fifo" THEN InCells(h) ELSE InArray(h)

ConInv == ConType /\ \E h : Contains(h)

LEMMA ConStarts == Con!BoundsAssumption /\ Con!Init => ConInv
<1> SUFFICES ASSUME Con!BoundsAssumption, Con!Init PROVE ConInv
  OBVIOUS
<1>1. cell = <<>> /\ in = <<>> /\ out = <<>> /\ tail = 0 /\ taille = 0 /\ top = 0
  BY DEF Con!Init, Con!NULL
<1>2. ConType
  BY <1>1 DEF Con!BoundsAssumption, Con!Init, Con!NULL, ConType
<1>3. Contains(<<>>)
  BY <1>1, <1>2 DEF Contains, HeldIs, InCells, InArray, ConType
<1> QED
  BY <1>2, <1>3 DEF ConInv

LEMMA Appended ==
  ASSUME NEW s \in Seq(Nat), NEW x \in Nat, NEW n \in Nat, n = Len(s), NEW t, t = Append(s, x)
  PROVE  /\ t \in Seq(Nat) /\ Len(t) = n + 1 /\ t[n + 1] = x
         /\ \A k \in 1 .. n : t[k] = s[k]
<1>1. /\ Append(s, x) \in Seq(Nat) /\ Len(Append(s, x)) = Len(s) + 1
      /\ \A k \in 1 .. Len(s) : Append(s, x)[k] = s[k]
      /\ Append(s, x)[Len(s) + 1] = x
  BY AppendProperties
<1> QED
  BY <1>1, Zenon

(* An element put in is the last one held, and the one taken out too.      *)
LEMMA HeldPut ==
  ASSUME NEW h, NEW i, NEW o, HeldIs(h, i, o)
  PROVE  HeldIs(Append(h, Len(i) + 1), Append(i, Len(i) + 1), o)
<1>1. PICK n \in Nat, m \in Nat, q \in Nat : n = Len(i) /\ m = Len(h) /\ q = Len(o)
  BY DEF HeldIs
<1>2. PICK g, j : g = Append(h, n + 1) /\ j = Append(i, n + 1)
  OBVIOUS
<1>3. /\ g \in Seq(Nat) /\ Len(g) = m + 1 /\ g[m + 1] = n + 1
      /\ \A k \in 1 .. m : g[k] = h[k]
  BY <1>1, <1>2, Appended DEF HeldIs
<1>4. /\ j \in Seq(Nat) /\ Len(j) = n + 1 /\ j[n + 1] = n + 1
      /\ \A k \in 1 .. n : j[k] = i[k]
  <2>1. i \in Seq(Nat) /\ n + 1 \in Nat
    BY DEF HeldIs
  <2> QED
    BY <1>1, <1>2, <2>1, Appended
<1>5. /\ \A k \in 1 .. n : i[k] = k
      /\ \A k \in 1 .. m : h[k] \in 1 .. n
      /\ \A k, l \in 1 .. m : k < l => h[k] < h[l]
      /\ \A x \in 1 .. n : (\E k \in 1 .. q : o[k] = x) <=> (\A k \in 1 .. m : h[k] # x)
      /\ \A k \in 1 .. q : o[k] \in 1 .. n
      /\ \A k, l \in 1 .. q : o[k] = o[l] => k = l
      /\ n = q + m /\ o \in Seq(Nat)
  BY <1>1 DEF HeldIs
<1>6. \A k \in 1 .. m + 1 : k \in 1 .. m \/ k = m + 1
  OBVIOUS
<1>7. \A x \in 1 .. n + 1 : x \in 1 .. n \/ x = n + 1
  OBVIOUS
<1>8. ASSUME NEW k \in 1 .. m + 1, NEW l \in 1 .. m + 1, k < l
      PROVE  g[k] < g[l]
  <2>1. k \in 1 .. m /\ g[k] = h[k] /\ h[k] \in 1 .. n
    BY <1>1, <1>3, <1>5, <1>8
  <2>2. CASE l = m + 1
    BY <1>1, <1>3, <2>1, <2>2
  <2>3. CASE l \in 1 .. m
    BY <1>3, <1>5, <1>8, <2>1, <2>3
  <2> QED
    BY <1>6, <2>2, <2>3
<1>9. ASSUME NEW x \in 1 .. n + 1
      PROVE  (\E k \in 1 .. q : o[k] = x) <=> (\A k \in 1 .. m + 1 : g[k] # x)
  <2>1. CASE x = n + 1
    BY <1>3, <1>5, <2>1
  <2>2. CASE x \in 1 .. n
    <3>1. (\A k \in 1 .. m : h[k] # x) <=> (\A k \in 1 .. m + 1 : g[k] # x)
      BY <1>3, <1>6, <2>2
    <3> QED
      BY <1>5, <2>2, <3>1
  <2> QED
    BY <1>7, <2>1, <2>2
<1>10. /\ \A k \in 1 .. n + 1 : j[k] = k
       /\ \A k \in 1 .. m + 1 : g[k] \in 1 .. n + 1
       /\ \A k \in 1 .. q : o[k] \in 1 .. n + 1
       /\ n + 1 = q + (m + 1)
  <2>1. \A k \in 1 .. n + 1 : j[k] = k
    BY <1>1, <1>4, <1>5, <1>7
  <2>2. \A k \in 1 .. m + 1 : g[k] \in 1 .. n + 1
    <3> SUFFICES ASSUME NEW k \in 1 .. m + 1 PROVE g[k] \in 1 .. n + 1
      OBVIOUS
    <3>1. CASE k = m + 1
      BY <1>1, <1>3, <3>1
    <3>2. CASE k \in 1 .. m
      <4>1. g[k] = h[k] /\ h[k] \in 1 .. n
        BY <1>3, <1>5, <3>2
      <4> QED
        BY <1>1, <4>1
    <3> QED
      BY <1>6, <3>1, <3>2
  <2>3. \A k \in 1 .. q : o[k] \in 1 .. n + 1
    BY <1>1, <1>5
  <2>4. n + 1 = q + (m + 1)
    BY <1>1, <1>5
  <2> QED
    BY <2>1, <2>2, <2>3, <2>4
<1>11. HeldIs(g, j, o)
  BY <1>1, <1>3, <1>4, <1>5, <1>8, <1>9, <1>10 DEF HeldIs
<1> QED
  BY <1>1, <1>2, <1>11

LEMMA HeldTaken ==
  ASSUME NEW h, NEW i, NEW o, HeldIs(h, i, o), h # <<>>
  PROVE  HeldIs(SubSeq(h, 1, Len(h) - 1), i, Append(o, h[Len(h)]))
<1>1. PICK n \in Nat, m \in Nat, q \in Nat : n = Len(i) /\ m = Len(h) /\ q = Len(o) /\ m # 0
  BY EmptySeq DEF HeldIs
<1>2. PICK g, p : g = SubSeq(h, 1, m - 1) /\ p = Append(o, h[m])
  OBVIOUS
<1>3. /\ g \in Seq(Nat) /\ Len(g) = m - 1 /\ \A k \in 1 .. m - 1 : g[k] = h[k]
  <2>1. \A k \in 1 .. m - 1 : h[k] \in Nat
    BY <1>1 DEF HeldIs
  <2>2. h \in Seq(Nat)
    BY DEF HeldIs
  <2> QED
    BY <1>1, <1>2, <2>1, <2>2, SubSeqProperties
<1>4. h[m] \in 1 .. n
  BY <1>1 DEF HeldIs
<1>5. /\ p \in Seq(Nat) /\ Len(p) = q + 1 /\ p[q + 1] = h[m]
      /\ \A k \in 1 .. q : p[k] = o[k]
  BY <1>1, <1>2, <1>4 DEF HeldIs
<1>6. /\ \A k \in 1 .. m : h[k] \in 1 .. n
      /\ \A k, l \in 1 .. m : k < l => h[k] < h[l]
      /\ \A x \in 1 .. n : (\E k \in 1 .. q : o[k] = x) <=> (\A k \in 1 .. m : h[k] # x)
      /\ \A k \in 1 .. q : o[k] \in 1 .. n
      /\ \A k, l \in 1 .. q : o[k] = o[l] => k = l
      /\ n = q + m
  BY <1>1 DEF HeldIs
<1>7. \A k \in 1 .. m : k \in 1 .. m - 1 \/ k = m
  BY <1>1
<1>8. \A k \in 1 .. q + 1 : k \in 1 .. q \/ k = q + 1
  OBVIOUS
<1>9. ASSUME NEW x \in 1 .. n
      PROVE  (\E k \in 1 .. q + 1 : p[k] = x) <=> (\A k \in 1 .. m - 1 : g[k] # x)
  <2>1. CASE x = h[m]
    <3>1. \A k \in 1 .. m - 1 : g[k] # x
      <4>1. \A k \in 1 .. m - 1 : k \in 1 .. m /\ k < m /\ h[k] \in 1 .. n
        BY <1>1, <1>6
      <4>2. m \in 1 .. m /\ h[m] \in Nat
        BY <1>1, <1>4
      <4>3. \A k \in 1 .. m - 1 : h[k] < h[m]
        BY <1>6, <4>1, <4>2
      <4> QED
        BY <1>3, <2>1, <4>1, <4>2, <4>3
    <3>2. q + 1 \in 1 .. q + 1
      OBVIOUS
    <3> QED
      BY <1>5, <2>1, <3>1, <3>2
  <2>2. CASE x # h[m]
    <3>1. (\E k \in 1 .. q + 1 : p[k] = x) <=> (\E k \in 1 .. q : o[k] = x)
      BY <1>5, <1>8, <2>2
    <3>2. (\A k \in 1 .. m - 1 : g[k] # x) <=> (\A k \in 1 .. m : h[k] # x)
      BY <1>1, <1>3, <1>7, <2>2
    <3> QED
      BY <1>6, <3>1, <3>2
  <2> QED
    BY <2>1, <2>2
<1>10. \A k, l \in 1 .. q + 1 : p[k] = p[l] => k = l
  <2>1. \A k \in 1 .. q : o[k] # h[m]
    <3>1. m \in 1 .. m
      BY <1>1
    <3> QED
      BY <1>4, <1>6, <3>1
  <2> QED
    BY <1>5, <1>6, <1>8, <2>1
<1>11. /\ \A k \in 1 .. m - 1 : g[k] \in 1 .. n
       /\ \A k, l \in 1 .. m - 1 : k < l => g[k] < g[l]
       /\ \A k \in 1 .. q + 1 : p[k] \in 1 .. n
       /\ n = (q + 1) + (m - 1)
  <2>1. \A k \in 1 .. m - 1 : k \in 1 .. m
    BY <1>1
  <2>2. \A k \in 1 .. m - 1 : g[k] \in 1 .. n
    BY <1>3, <1>6, <2>1
  <2>3. \A k, l \in 1 .. m - 1 : k < l => g[k] < g[l]
    BY <1>3, <1>6, <2>1
  <2>4. \A k \in 1 .. q + 1 : p[k] \in 1 .. n
    BY <1>4, <1>5, <1>6, <1>8
  <2>5. n = (q + 1) + (m - 1)
    BY <1>1, <1>6
  <2> QED
    BY <2>2, <2>3, <2>4, <2>5
<1>12. HeldIs(g, i, p)
  BY <1>1, <1>3, <1>5, <1>9, <1>10, <1>11 DEF HeldIs
<1> QED
  BY <1>1, <1>2, <1>12

Cell == [content : Nat, previous : Nat, next : Nat, live : BOOLEAN]

LEMMA QueueKeeps ==
  ASSUME ConInv, Con!queue PROVE ConInv'
<1>1. PICK h : Contains(h)
  BY DEF ConInv
<1>2. /\ HeldIs(h, in, out) /\ InCells(h) /\ ConType /\ container = "fifo"
      /\ h \in Seq(Nat) /\ in \in Seq(Nat)
  BY <1>1 DEF ConInv, Con!queue, Contains, HeldIs
<1>3. PICK m \in Nat, n \in Nat : m = Len(h) /\ n = Len(in)
  BY <1>2
<1>4. PICK g : g = Append(h, n + 1)
  OBVIOUS
<1>5. /\ g \in Seq(Nat) /\ Len(g) = m + 1 /\ g[m + 1] = n + 1
      /\ \A k \in 1 .. m : g[k] = h[k]
  BY <1>2, <1>3, <1>4, Appended
<1>6. HeldIs(g, in', out')
  <2>1. in' = Append(in, n + 1) /\ out' = out
    BY <1>3 DEF Con!queue, Con!Element
  <2>2. HeldIs(Append(h, n + 1), Append(in, n + 1), out)
    BY <1>2, <1>3, HeldPut
  <2> QED
    BY <1>4, <2>1, <2>2
<1>7. PICK c \in Cell :
        c = [content |-> n + 1, previous |-> tail,
             next |-> IF head = 0 THEN n + 1 ELSE head, live |-> TRUE]
  <2>1. tail \in Nat /\ (IF head = 0 THEN n + 1 ELSE head) \in Nat
    BY <1>2 DEF ConType
  <2>2. PICK f \in Nat : f = IF head = 0 THEN n + 1 ELSE head
    BY <2>1
  <2>3. [content |-> n + 1, previous |-> tail, next |-> f, live |-> TRUE] \in Cell
    BY <2>1 DEF Cell
  <2> QED
    BY <2>2, <2>3, Zenon
<1>8. Len(cell) = n /\ cell \in Seq(Cell)
  BY <1>2, <1>3 DEF InCells, ConType, Cell
<1>9. cell' = Append(cell, c)
  BY <1>3, <1>7, <1>8 DEF Con!queue, Con!Element, Con!NULL
<1>10. /\ cell' \in Seq(Cell) /\ Len(cell') = n + 1 /\ cell'[n + 1] = c
       /\ \A k \in 1 .. n : cell'[k] = cell[k]
  <2>1. /\ Append(cell, c) \in Seq(Cell) /\ Len(Append(cell, c)) = Len(cell) + 1
        /\ \A k \in 1 .. Len(cell) : Append(cell, c)[k] = cell[k]
        /\ Append(cell, c)[Len(cell) + 1] = c
    BY <1>7, <1>8, AppendProperties
  <2> QED
    BY <1>8, <1>9, <2>1, Zenon
<1>11. Len(in') = n + 1 /\ n + 1 <= MaxIn
  <2>1. in' = Append(in, n + 1) /\ n < MaxIn
    BY <1>3 DEF Con!queue, Con!Element
  <2>2. Len(in') = n + 1
    BY <1>2, <1>3, <2>1, Appended
  <2> QED
    BY <2>1, <2>2 DEF ConType, ConInv
<1>12. ConType'
  <2>1. /\ tail' = n + 1 /\ taille' = taille + 1 /\ head' = IF head = 0 THEN n + 1 ELSE head
        /\ container' = container /\ contents' = contents /\ top' = top
    BY <1>8 DEF Con!queue, Con!NULL, Con!stack
  <2> QED
    BY <1>2, <1>10, <1>11, <2>1 DEF ConType, Cell
<1>13. InCells(g)'
  <2>1. tail' = n + 1 /\ taille' = taille + 1
    BY <1>8 DEF Con!queue
  <2>2. /\ taille = m /\ tail = IF m = 0 THEN 0 ELSE h[m]
        /\ \A k \in 1 .. m : cell[h[k]].previous = IF k = 1 THEN 0 ELSE h[k - 1]
        /\ \A d \in 1 .. n :
             /\ cell[d].content = d
             /\ cell[d].live <=> \E k \in 1 .. m : h[k] = d
    BY <1>2, <1>3, <1>8, EmptySeq DEF InCells
  <2>3. \A k \in 1 .. m : h[k] \in 1 .. n
    BY <1>2, <1>3 DEF HeldIs
  <2>4. taille' = Len(g) /\ Len(cell') = Len(in')
    BY <1>5, <1>10, <1>11, <2>1, <2>2
  <2>5. tail' = IF g = <<>> THEN 0 ELSE g[Len(g)]
    BY <1>3, <1>5, <2>1, EmptySeq
  <2>6. ASSUME NEW k \in 1 .. Len(g)
        PROVE  cell'[g[k]].previous = IF k = 1 THEN 0 ELSE g[k - 1]
    <3>1. CASE k = m + 1
      <4>1. cell'[g[k]].previous = IF m = 0 THEN 0 ELSE h[m]
        BY <1>5, <1>7, <1>10, <2>2, <3>1
      <4>2. m # 0 => m \in 1 .. m
        BY <1>3
      <4> QED
        BY <1>3, <1>5, <3>1, <4>1, <4>2
    <3>2. CASE k \in 1 .. m
      <4>1. cell'[g[k]] = cell[h[k]]
        BY <1>5, <1>10, <2>3, <3>2
      <4>2. k # 1 => g[k - 1] = h[k - 1]
        BY <1>5, <3>2
      <4> QED
        BY <2>2, <3>2, <4>1, <4>2
    <3> QED
      BY <1>3, <1>5, <3>1, <3>2
  <2>7. ASSUME NEW d \in 1 .. Len(cell')
        PROVE  /\ cell'[d].content = d
               /\ cell'[d].live <=> \E k \in 1 .. Len(g) : g[k] = d
    <3>1. CASE d = n + 1
      <4>1. m + 1 \in 1 .. Len(g) /\ g[m + 1] = d
        BY <1>5, <3>1
      <4> QED
        BY <1>7, <1>10, <3>1, <4>1
    <3>2. CASE d \in 1 .. n
      <4>1. (\E k \in 1 .. Len(g) : g[k] = d) <=> \E k \in 1 .. m : h[k] = d
        <5>1. \A k \in 1 .. Len(g) : k \in 1 .. m \/ k = m + 1
          BY <1>5
        <5>2. \A k \in 1 .. m : k \in 1 .. Len(g)
          BY <1>5
        <5>3. d # n + 1
          BY <3>2
        <5> QED
          BY <1>5, <5>1, <5>2, <5>3
      <4> QED
        BY <1>10, <2>2, <3>2, <4>1
    <3> QED
      BY <1>10, <3>1, <3>2
  <2> QED
    BY <2>4, <2>5, <2>6, <2>7 DEF InCells
<1> QED
  BY <1>2, <1>6, <1>12, <1>13 DEF ConInv, Contains, Con!queue

LEMMA DequeueKeeps ==
  ASSUME ConInv, Con!dequeue PROVE ConInv'
<1>1. PICK h : Contains(h)
  BY DEF ConInv
<1>2. /\ HeldIs(h, in, out) /\ InCells(h) /\ ConType /\ container = "fifo"
      /\ h \in Seq(Nat) /\ in \in Seq(Nat)
  BY <1>1 DEF ConInv, Con!dequeue, Contains, HeldIs
<1>3. PICK m \in Nat, n \in Nat : m = Len(h) /\ n = Len(in)
  BY <1>2
<1>4. Len(cell) = n /\ cell \in Seq(Cell)
  BY <1>2, <1>3 DEF InCells, ConType, Cell
<1>5. m # 0 /\ h # <<>>
  BY <1>2, <1>3, EmptySeq DEF InCells, Con!dequeue
<1>6. /\ \A k \in 1 .. m : h[k] \in 1 .. n
      /\ \A j, k \in 1 .. m : j < k => h[j] < h[k]
  BY <1>2, <1>3 DEF HeldIs
<1>7. /\ taille = m /\ tail = h[m] /\ tail \in 1 .. n
      /\ \A k \in 1 .. m : cell[h[k]].previous = IF k = 1 THEN 0 ELSE h[k - 1]
      /\ \A d \in 1 .. n :
           /\ cell[d].content = d
           /\ cell[d].live <=> \E k \in 1 .. m : h[k] = d
  <2>1. m \in 1 .. m
    BY <1>5
  <2> QED
    BY <1>2, <1>3, <1>4, <1>5, <1>6, <2>1 DEF InCells
<1>8. PICK g : g = SubSeq(h, 1, m - 1)
  OBVIOUS
<1>9. g \in Seq(Nat) /\ Len(g) = m - 1 /\ \A k \in 1 .. m - 1 : g[k] = h[k]
  <2>1. \A k \in 1 .. m - 1 : h[k] \in Nat
    BY <1>6
  <2> QED
    BY <1>2, <1>5, <1>8, <2>1, SubSeqProperties
<1>10. HeldIs(g, in', out')
  <2>1. in' = in /\ out' = Append(out, h[m])
    BY <1>7 DEF Con!dequeue
  <2>2. HeldIs(SubSeq(h, 1, m - 1), in, Append(out, h[m]))
    BY <1>2, <1>3, <1>5, HeldTaken
  <2> QED
    BY <1>8, <2>1, <2>2
<1>11. PICK t \in 1 .. n : t = tail
  BY <1>7
<1>12. cell' = [cell EXCEPT ![t] = [cell[t] EXCEPT !.live = FALSE]]
  BY <1>11 DEF Con!dequeue
<1>13. /\ cell' \in Seq(Cell) /\ Len(cell') = n
       /\ \A d \in 1 .. n : /\ cell'[d].content = cell[d].content
                            /\ cell'[d].previous = cell[d].previous
                            /\ cell'[d].live = IF d = t THEN FALSE ELSE cell[d].live
  <2>1. cell[t] \in Cell
    BY <1>4, <1>11, ElementOfSeq
  <2>2. [cell[t] EXCEPT !.live = FALSE] \in Cell
    BY <2>1 DEF Cell
  <2>3. /\ cell' \in Seq(Cell) /\ Len(cell') = n
        /\ \A d \in 1 .. n : cell'[d] = IF d = t THEN [cell[t] EXCEPT !.live = FALSE] ELSE cell[d]
    BY <1>4, <1>11, <1>12, <2>2, ExceptSeq
  <2>4. ASSUME NEW d \in 1 .. n
        PROVE  /\ cell'[d].content = cell[d].content
               /\ cell'[d].previous = cell[d].previous
               /\ cell'[d].live = IF d = t THEN FALSE ELSE cell[d].live
    BY <2>1, <2>3 DEF Cell
  <2> QED
    BY <2>3, <2>4
<1>14. tail' = IF m = 1 THEN 0 ELSE h[m - 1]
  <2>1. m \in 1 .. m
    BY <1>5
  <2> QED
    BY <1>7, <2>1 DEF Con!dequeue, Con!Prec
<1>15. ConType'
  <2>1. tail' \in Nat /\ taille' \in Nat
    <3>1. taille' = m - 1
      BY <1>7 DEF Con!dequeue
    <3>2. m # 1 => h[m - 1] \in Nat
      BY <1>2, <1>3, <1>5
    <3> QED
      BY <1>5, <1>14, <3>1, <3>2
  <2> QED
    BY <1>2, <1>13, <2>1 DEF ConType, Cell, Con!dequeue, Con!stack
<1>16. InCells(g)'
  <2>1. taille' = Len(g) /\ Len(cell') = Len(in')
    BY <1>3, <1>7, <1>9, <1>13 DEF Con!dequeue
  <2>2. tail' = IF g = <<>> THEN 0 ELSE g[Len(g)]
    <3>1. (g = <<>>) <=> (m = 1)
      BY <1>5, <1>9, EmptySeq
    <3>2. m # 1 => m - 1 \in 1 .. m - 1
      BY <1>5
    <3> QED
      BY <1>9, <1>14, <3>1, <3>2
  <2>3. ASSUME NEW k \in 1 .. Len(g)
        PROVE  cell'[g[k]].previous = IF k = 1 THEN 0 ELSE g[k - 1]
    <3>1. k \in 1 .. m /\ k \in 1 .. m - 1 /\ (k # 1 => k - 1 \in 1 .. m - 1)
      BY <1>5, <1>9
    <3>2. g[k] = h[k] /\ h[k] \in 1 .. n
      BY <1>6, <1>9, <3>1
    <3>3. cell'[g[k]].previous = cell[h[k]].previous
      BY <1>13, <3>2
    <3>4. k # 1 => g[k - 1] = h[k - 1]
      BY <1>9, <3>1
    <3> QED
      BY <1>7, <3>1, <3>3, <3>4
  <2>4. ASSUME NEW d \in 1 .. Len(cell')
        PROVE  /\ cell'[d].content = d
               /\ cell'[d].live <=> \E k \in 1 .. Len(g) : g[k] = d
    <3>1. d \in 1 .. n
      BY <1>13
    <3>2. CASE d = t
      <4>1. \A k \in 1 .. m - 1 : k \in 1 .. m /\ k < m
        OBVIOUS
      <4>2. m \in 1 .. m
        BY <1>5
      <4>3. \A k \in 1 .. m - 1 : h[k] < h[m] /\ h[k] \in 1 .. n
        BY <1>6, <4>1, <4>2
      <4>4. h[m] = d
        BY <1>7, <1>11, <3>2
      <4>5. \A k \in 1 .. Len(g) : g[k] # d
        BY <1>9, <3>1, <4>3, <4>4
      <4> QED
        BY <1>7, <1>13, <3>1, <3>2, <4>5
    <3>3. CASE d # t
      <4>1. \A k \in 1 .. m : k \in 1 .. m - 1 \/ k = m
        BY <1>5
      <4>2. \A k \in 1 .. m - 1 : k \in 1 .. m
        OBVIOUS
      <4>3. h[m] # d
        BY <1>7, <1>11, <3>3
      <4>4. (\E k \in 1 .. m : h[k] = d) <=> \E k \in 1 .. m - 1 : g[k] = d
        BY <1>9, <4>1, <4>2, <4>3
      <4>5. cell'[d].live <=> cell[d].live
        BY <1>13, <3>1, <3>3
      <4>6. cell'[d].content = d
        BY <1>7, <1>13, <3>1
      <4>7. cell[d].live <=> \E k \in 1 .. m : h[k] = d
        BY <1>7, <3>1
      <4>8. Len(g) = m - 1
        BY <1>9
      <4> QED
        BY <4>4, <4>5, <4>6, <4>7, <4>8, Zenon
    <3> QED
      BY <3>2, <3>3
  <2> QED
    BY <2>1, <2>2, <2>3, <2>4 DEF InCells
<1> QED
  BY <1>2, <1>10, <1>15, <1>16 DEF ConInv, Contains, Con!dequeue

LEMMA PushKeeps ==
  ASSUME ConInv, Con!push PROVE ConInv'
<1>1. PICK h : Contains(h)
  BY DEF ConInv
<1>2. /\ HeldIs(h, in, out) /\ InArray(h) /\ ConType /\ container = "stack"
      /\ h \in Seq(Nat) /\ in \in Seq(Nat)
  BY <1>1 DEF ConInv, Con!push, Contains, HeldIs
<1>3. CASE top = STACK_SIZE
  <2>1. /\ cell' = cell /\ tail' = tail /\ taille' = taille /\ head' = head /\ top' = top
        /\ contents' = contents /\ in' = in /\ out' = out /\ container' = container
    BY <1>3 DEF Con!push, Con!list, Con!stack
  <2>2. ConType' /\ Contains(h)'
    BY <1>1, <1>2, <2>1 DEF ConType, Contains, HeldIs, InCells, InArray
  <2> QED
    BY <2>2 DEF ConInv
<1>4. CASE top # STACK_SIZE
  <2>1. PICK m \in Nat, n \in Nat : m = Len(h) /\ n = Len(in)
    BY <1>2
  <2>2. PICK g : g = Append(h, n + 1)
    OBVIOUS
  <2>3. /\ g \in Seq(Nat) /\ Len(g) = m + 1 /\ g[m + 1] = n + 1
        /\ \A k \in 1 .. m : g[k] = h[k]
    BY <1>2, <2>1, <2>2, Appended
  <2>4. /\ in' = Append(in, n + 1) /\ out' = out /\ container' = container
        /\ contents' = [contents EXCEPT ![top] = n + 1] /\ top' = top + 1
        /\ cell' = cell /\ tail' = tail /\ taille' = taille /\ head' = head
        /\ n < MaxIn
    BY <1>4, <2>1 DEF Con!push, Con!Element, Con!list
  <2>5. HeldIs(g, in', out')
    <3>1. HeldIs(Append(h, n + 1), Append(in, n + 1), out)
      BY <1>2, <2>1, HeldPut
    <3> QED
      BY <2>2, <2>4, <3>1
  <2>6. Len(in') = n + 1
    BY <1>2, <2>1, <2>4, Appended
  <2>7. top = m /\ m \in 0 .. STACK_SIZE - 1 /\ STACK_SIZE \in Nat
    BY <1>2, <1>4, <2>1 DEF InArray, ConType
  <2>8. ConType'
    BY <1>2, <2>4, <2>6, <2>7 DEF ConType
  <2>9. InArray(g)'
    <3>1. ASSUME NEW k \in 1 .. Len(g)
          PROVE  contents'[k - 1] = g[k]
      <4>1. contents \in [0 .. STACK_SIZE - 1 -> Nat]
        BY <1>2 DEF ConType
      <4>2. CASE k = m + 1
        BY <2>3, <2>4, <2>7, <4>1, <4>2
      <4>3. CASE k \in 1 .. m
        <5>1. contents[k - 1] = h[k] /\ k - 1 # m /\ k - 1 \in 0 .. STACK_SIZE - 1
          BY <1>2, <2>1, <2>7, <4>3 DEF InArray
        <5> QED
          BY <2>3, <2>4, <2>7, <4>1, <4>3, <5>1
      <4> QED
        BY <2>3, <4>2, <4>3
    <3>2. top' = Len(g)
      BY <2>3, <2>4, <2>7
    <3> QED
      BY <1>2, <2>4, <3>1, <3>2 DEF InArray
  <2> QED
    BY <1>2, <2>4, <2>5, <2>8, <2>9 DEF ConInv, Contains
<1> QED
  BY <1>3, <1>4

LEMMA PopKeeps ==
  ASSUME ConInv, Con!pop PROVE ConInv'
<1>1. PICK h : Contains(h)
  BY DEF ConInv
<1>2. /\ HeldIs(h, in, out) /\ InArray(h) /\ ConType /\ container = "stack"
      /\ h \in Seq(Nat) /\ in \in Seq(Nat)
  BY <1>1 DEF ConInv, Con!pop, Contains, HeldIs
<1>3. CASE top = 0
  <2>1. /\ cell' = cell /\ tail' = tail /\ taille' = taille /\ head' = head /\ top' = top
        /\ contents' = contents /\ in' = in /\ out' = out /\ container' = container
    BY <1>3 DEF Con!pop, Con!list, Con!stack
  <2>2. ConType' /\ Contains(h)'
    BY <1>1, <1>2, <2>1 DEF ConType, Contains, HeldIs, InCells, InArray
  <2> QED
    BY <2>2 DEF ConInv
<1>4. CASE top # 0
  <2>1. PICK m \in Nat : m = Len(h)
    BY <1>2
  <2>2. top = m /\ m # 0 /\ h # <<>> /\ contents[m - 1] = h[m]
    BY <1>2, <1>4, <2>1, EmptySeq DEF InArray
  <2>3. PICK g : g = SubSeq(h, 1, m - 1)
    OBVIOUS
  <2>4. g \in Seq(Nat) /\ Len(g) = m - 1 /\ \A k \in 1 .. m - 1 : g[k] = h[k]
    <3>1. \A k \in 1 .. m - 1 : h[k] \in Nat
      BY <1>2, <2>1
    <3> QED
      BY <1>2, <2>2, <2>3, <3>1, SubSeqProperties
  <2>5. /\ top' = m - 1 /\ out' = Append(out, h[m]) /\ contents' = contents
        /\ in' = in /\ container' = container
        /\ cell' = cell /\ tail' = tail /\ taille' = taille /\ head' = head
    BY <1>4, <2>2 DEF Con!pop, Con!list
  <2>6. HeldIs(g, in', out')
    <3>1. HeldIs(SubSeq(h, 1, m - 1), in, Append(out, h[m]))
      BY <1>2, <2>1, <2>2, HeldTaken
    <3> QED
      BY <2>3, <2>5, <3>1
  <2>7. ConType'
    BY <1>2, <2>2, <2>5 DEF ConType
  <2>8. InArray(g)'
    <3>1. \A k \in 1 .. m - 1 : contents[k - 1] = h[k]
      BY <1>2, <2>1 DEF InArray
    <3> QED
      BY <1>2, <2>4, <2>5, <3>1 DEF InArray
  <2> QED
    BY <1>2, <2>5, <2>6, <2>7, <2>8 DEF ConInv, Contains
<1> QED
  BY <1>3, <1>4

LEMMA ConKept ==
  ASSUME ConInv, [Con!Next]_Con!vars PROVE ConInv'
<1>1. CASE UNCHANGED Con!vars
  <2>1. /\ cell' = cell /\ tail' = tail /\ taille' = taille /\ head' = head /\ top' = top
        /\ contents' = contents /\ in' = in /\ out' = out /\ container' = container
    BY <1>1 DEF Con!vars, Con!list, Con!stack
  <2>2. PICK h : Contains(h)
    BY DEF ConInv
  <2>3. ConType' /\ Contains(h)'
    BY <2>1, <2>2 DEF ConInv, ConType, Contains, HeldIs, InCells, InArray
  <2> QED
    BY <2>3 DEF ConInv
<1> QED
  BY <1>1, QueueKeeps, DequeueKeeps, PushKeeps, PopKeeps DEF Con!Next

(* What defines the function met of Chain, and the one it defines.         *)
Meets(met) ==
  met = [k \in 0 .. MaxIn |->
           IF k = 0 THEN <<tail>>
           ELSE IF Con!Last(met[k - 1]) = Con!NULL THEN met[k - 1]
           ELSE Append(met[k - 1], cell[Con!Last(met[k - 1])].previous)]
Met == CHOOSE met : Meets(met)

LEMMA ChainMet == Con!Chain = Con!Front(Met[MaxIn])
BY DEF Con!Chain, Met, Meets

(* Only one function meets the cells, by induction on their number.        *)
LEMMA OneMeets ==
  ASSUME MaxIn \in Nat, NEW f, NEW g, Meets(f), Meets(g)
  PROVE  f = g
<1> DEFINE T == {k \in 0 .. MaxIn : f[k] # g[k]}
<1>1. ASSUME T # {} PROVE FALSE
  <2>1. T \subseteq Nat
    OBVIOUS
  <2>2. PICK m \in T : \A k \in T : m <= k
    BY <1>1, <2>1, Least
  <2>3. m \in 0 .. MaxIn /\ f[m] # g[m]
    OBVIOUS
  <2>4. m # 0 => f[m - 1] = g[m - 1]
    BY <2>2, <2>3
  <2>5. f[m] = IF m = 0 THEN <<tail>>
               ELSE IF Con!Last(f[m - 1]) = Con!NULL THEN f[m - 1]
               ELSE Append(f[m - 1], cell[Con!Last(f[m - 1])].previous)
    BY <2>3 DEF Meets
  <2>6. g[m] = IF m = 0 THEN <<tail>>
               ELSE IF Con!Last(g[m - 1]) = Con!NULL THEN g[m - 1]
               ELSE Append(g[m - 1], cell[Con!Last(g[m - 1])].previous)
    BY <2>3 DEF Meets
  <2> QED
    BY <2>3, <2>4, <2>5, <2>6
<1>2. \A k \in 0 .. MaxIn : f[k] = g[k]
  BY <1>1
<1> QED
  BY <1>2 DEF Meets

(* The elements in the order of extraction, as the cells lead to them.     *)
Threaded(h) ==
  /\ h \in Seq(Nat) /\ Len(h) <= MaxIn /\ MaxIn \in Nat
  /\ tail = IF h = <<>> THEN 0 ELSE h[Len(h)]
  /\ \A k \in 1 .. Len(h) :
       /\ h[k] # 0
       /\ cell[h[k]].previous = IF k = 1 THEN 0 ELSE h[k - 1]

(* The walk from the tail meets them, the newest first.                    *)
LEMMA ChainIs ==
  ASSUME NEW h, Threaded(h)
  PROVE  /\ Con!Chain \in Seq(Nat) /\ Len(Con!Chain) = Len(h)
         /\ \A k \in 1 .. Len(h) : Con!Chain[k] = h[Len(h) + 1 - k]
<1>1. PICK m \in Nat : m = Len(h) /\ m <= MaxIn /\ MaxIn \in Nat /\ h \in Seq(Nat)
  BY DEF Threaded
<1>2. PICK w : w = [j \in 1 .. m + 1 |-> IF j <= m THEN h[m + 1 - j] ELSE 0]
  OBVIOUS
<1>3. /\ w \in Seq(Nat) /\ Len(w) = m + 1 /\ w[m + 1] = 0
      /\ \A j \in 1 .. m : w[j] = h[m + 1 - j] /\ w[j] # 0
  <2>1. \A k \in 1 .. m : h[k] \in Nat /\ h[k] # 0
    BY <1>1 DEF Threaded
  <2>2. \A j \in 1 .. m : m + 1 - j \in 1 .. m
    OBVIOUS
  <2>3. \A j \in 1 .. m : h[m + 1 - j] \in Nat /\ h[m + 1 - j] # 0
    BY <2>1, <2>2
  <2> QED
    BY <1>2, <2>3
<1>4. w[1] = tail
  <2>1. (h = <<>>) <=> (m = 0)
    BY <1>1, EmptySeq DEF Threaded
  <2> QED
    BY <1>1, <1>3, <2>1 DEF Threaded
<1>5. \A j \in 1 .. m : cell[w[j]].previous = w[j + 1]
  <2> SUFFICES ASSUME NEW j \in 1 .. m PROVE cell[w[j]].previous = w[j + 1]
    OBVIOUS
  <2>1. PICK k \in 1 .. m : k = m + 1 - j
    OBVIOUS
  <2>2. cell[w[j]].previous = IF k = 1 THEN 0 ELSE h[k - 1]
    BY <1>1, <1>3, <2>1 DEF Threaded
  <2>3. CASE k = 1
    BY <1>3, <2>1, <2>2, <2>3
  <2>4. CASE k # 1
    <3>1. j + 1 \in 1 .. m /\ m + 1 - (j + 1) = k - 1
      BY <2>1, <2>4
    <3> QED
      BY <1>3, <2>2, <2>4, <3>1
  <2> QED
    BY <2>3, <2>4
<1> DEFINE f == [k \in 0 .. MaxIn |-> SubSeq(w, 1, IF k <= m THEN k + 1 ELSE m + 1)]
<1>6. \A n \in 1 .. m + 1 : /\ SubSeq(w, 1, n) \in Seq(Nat) /\ Len(SubSeq(w, 1, n)) = n
                            /\ \A j \in 1 .. n : SubSeq(w, 1, n)[j] = w[j]
  <2> SUFFICES ASSUME NEW n \in 1 .. m + 1
               PROVE  /\ SubSeq(w, 1, n) \in Seq(Nat) /\ Len(SubSeq(w, 1, n)) = n
                      /\ \A j \in 1 .. n : SubSeq(w, 1, n)[j] = w[j]
    OBVIOUS
  <2>1. \A j \in 1 .. n : w[j] \in Nat
    BY <1>3
  <2> QED
    BY <2>1, SubSeqProperties
<1>7. Meets(f)
  <2>1. ASSUME NEW k \in 0 .. MaxIn
        PROVE  f[k] = IF k = 0 THEN <<tail>>
                      ELSE IF Con!Last(f[k - 1]) = Con!NULL THEN f[k - 1]
                      ELSE Append(f[k - 1], cell[Con!Last(f[k - 1])].previous)
    <3>1. CASE k = 0
      <4>1. f[k] = SubSeq(w, 1, 1)
        BY <1>1, <3>1 DEF Threaded
      <4>2. tail \in Nat
        BY <1>3, <1>4
      <4>3. <<tail>> \in Seq(Nat) /\ Len(<<tail>>) = 1 /\ <<tail>>[1] = tail
        BY <4>2
      <4>4. /\ SubSeq(w, 1, 1) \in Seq(Nat) /\ Len(SubSeq(w, 1, 1)) = 1
            /\ SubSeq(w, 1, 1)[1] = w[1]
        BY <1>6
      <4>5. SubSeq(w, 1, 1) = <<tail>>
        <5>1. PICK p, q : p = SubSeq(w, 1, 1) /\ q = <<tail>>
          OBVIOUS
        <5>2. /\ p \in Seq(Nat) /\ Len(p) = 1 /\ p[1] = tail
              /\ q \in Seq(Nat) /\ Len(q) = 1 /\ q[1] = tail
          BY <1>4, <4>3, <4>4, <5>1
        <5>3. p = q
          BY <5>2, SeqEqual
        <5> QED
          BY <5>1, <5>3
      <4> QED
        BY <3>1, <4>1, <4>5
    <3>2. CASE k # 0 /\ k <= m
      <4>1. f[k - 1] = SubSeq(w, 1, k) /\ f[k] = SubSeq(w, 1, k + 1)
        <5>1. k - 1 \in 0 .. MaxIn /\ k - 1 <= m /\ (k - 1) + 1 = k
          BY <1>1, <3>2
        <5> QED
          BY <3>2, <5>1
      <4>2. PICK s \in Seq(Nat) : s = SubSeq(w, 1, k)
        <5>1. k \in 1 .. m + 1
          BY <3>2
        <5> QED
          BY <1>6, <5>1, Zenon
      <4>3. Len(s) = k /\ \A j \in 1 .. k : s[j] = w[j]
        <5>1. k \in 1 .. m + 1
          BY <3>2
        <5> QED
          BY <1>6, <4>2, <5>1, Zenon
      <4>4. s[k] # 0 /\ cell[s[k]].previous = w[k + 1] /\ w[k + 1] \in Nat
        BY <1>3, <1>5, <3>2, <4>3
      <4>5. Append(s, w[k + 1]) = SubSeq(w, 1, k + 1)
        <5>1. PICK t : t = Append(s, w[k + 1])
          OBVIOUS
        <5>2. /\ t \in Seq(Nat) /\ Len(t) = k + 1 /\ t[k + 1] = w[k + 1]
              /\ \A j \in 1 .. k : t[j] = s[j]
          BY <4>3, <4>4, <5>1, Appended
        <5>3. \A j \in 1 .. k + 1 : t[j] = w[j]
          BY <4>3, <5>2
        <5>4. PICK u : u = SubSeq(w, 1, k + 1)
          OBVIOUS
        <5>5. u \in Seq(Nat) /\ Len(u) = k + 1 /\ \A j \in 1 .. k + 1 : u[j] = w[j]
          <6>1. k + 1 \in 1 .. m + 1
            BY <3>2
          <6> QED
            BY <1>6, <5>4, <6>1, Zenon
        <5>6. t = u
          BY <5>2, <5>3, <5>5, SeqEqual
        <5> QED
          BY <5>1, <5>4, <5>6
      <4>6. Con!Last(f[k - 1]) = s[k] /\ Con!Last(f[k - 1]) # Con!NULL
        BY <4>1, <4>2, <4>3, <4>4 DEF Con!Last, Con!NULL
      <4> QED
        BY <3>2, <4>1, <4>2, <4>4, <4>5, <4>6
    <3>3. CASE k # 0 /\ ~(k <= m)
      <4>1. f[k - 1] = SubSeq(w, 1, m + 1) /\ f[k] = SubSeq(w, 1, m + 1)
        <5>1. k - 1 \in 0 .. MaxIn /\ (k - 1 <= m => k - 1 = m)
          BY <1>1, <3>3
        <5> QED
          BY <3>3, <5>1
      <4>2. Con!Last(f[k - 1]) = Con!NULL
        <5>1. m + 1 \in 1 .. m + 1
          OBVIOUS
        <5>2. Len(SubSeq(w, 1, m + 1)) = m + 1 /\ SubSeq(w, 1, m + 1)[m + 1] = w[m + 1]
          BY <1>6, <5>1
        <5> QED
          BY <1>3, <4>1, <5>2 DEF Con!Last, Con!NULL
      <4> QED
        BY <3>3, <4>1, <4>2
    <3> QED
      BY <3>1, <3>2, <3>3
  <2>2. f = [k \in 0 .. MaxIn |->
               IF k = 0 THEN <<tail>>
               ELSE IF Con!Last(f[k - 1]) = Con!NULL THEN f[k - 1]
               ELSE Append(f[k - 1], cell[Con!Last(f[k - 1])].previous)]
    <3>1. PICK g : g = f
      OBVIOUS
    <3>2. \A k \in 0 .. MaxIn :
            g[k] = IF k = 0 THEN <<tail>>
                   ELSE IF Con!Last(g[k - 1]) = Con!NULL THEN g[k - 1]
                   ELSE Append(g[k - 1], cell[Con!Last(g[k - 1])].previous)
      <4> HIDE DEF f
      <4> QED
        BY <2>1, <3>1
    <3>3. g = [k \in 0 .. MaxIn |-> g[k]]
      BY <3>1
    <3>4. g = [k \in 0 .. MaxIn |->
                 IF k = 0 THEN <<tail>>
                 ELSE IF Con!Last(g[k - 1]) = Con!NULL THEN g[k - 1]
                 ELSE Append(g[k - 1], cell[Con!Last(g[k - 1])].previous)]
      BY <3>2, <3>3
    <3> HIDE DEF f
    <3> QED
      BY <3>1, <3>4
  <2> HIDE DEF f
  <2> QED
    BY <2>2 DEF Meets
<1>8. Met = f
  <2> HIDE DEF f
  <2>1. Meets(Met)
    BY <1>7, Zenon DEF Met
  <2> QED
    BY <1>1, <1>7, <2>1, OneMeets
<1>9. f[MaxIn] = SubSeq(w, 1, m + 1)
  BY <1>1 DEF Threaded
<1>10. PICK u \in Seq(Nat) :
         /\ u = SubSeq(w, 1, m + 1) /\ Len(u) = m + 1
         /\ \A j \in 1 .. m + 1 : u[j] = w[j]
  <2>1. m + 1 \in 1 .. m + 1
    OBVIOUS
  <2> QED
    BY <1>6, <2>1, Zenon
<1>11. Con!Chain = SubSeq(u, 1, m)
  <2>1. Con!Chain = Con!Front(u)
    <3> HIDE DEF f
    <3> QED
      BY <1>8, <1>9, <1>10, ChainMet
  <2> QED
    BY <1>10, <2>1 DEF Con!Front
<1>12. /\ SubSeq(u, 1, m) \in Seq(Nat) /\ Len(SubSeq(u, 1, m)) = m
       /\ \A j \in 1 .. m : SubSeq(u, 1, m)[j] = u[j]
  <2>1. \A j \in 1 .. m : u[j] \in Nat
    BY <1>10
  <2> QED
    BY <1>10, <2>1, SubSeqProperties
<1> QED
  BY <1>1, <1>3, <1>10, <1>11, <1>12

LEMMA ConChain ==
  ASSUME NEW h, Contains(h), ConType
  PROVE  IF container = "fifo"
         THEN Con!Chain \in Seq(Nat) /\ Len(Con!Chain) = Len(h)
              /\ \A k \in 1 .. Len(h) : Con!Chain[k] = h[Len(h) + 1 - k]
         ELSE Con!Chain = <<>>
<1>1. CASE container = "fifo"
  <2>1. HeldIs(h, in, out) /\ InCells(h)
    BY <1>1 DEF Contains
  <2>2. PICK m \in Nat, n \in Nat, q \in Nat : m = Len(h) /\ n = Len(in) /\ q = Len(out)
    BY <2>1 DEF HeldIs
  <2>3. m <= MaxIn /\ MaxIn \in Nat
    <3>1. n = q + m /\ n <= MaxIn /\ MaxIn \in Nat
      BY <2>1, <2>2 DEF HeldIs, ConType
    <3> QED
      BY <3>1
  <2>4. Threaded(h)
    BY <2>1, <2>2, <2>3 DEF Threaded, HeldIs, InCells
  <2> QED
    BY <1>1, <2>4, ChainIs
<1>2. CASE container # "fifo"
  <2>1. Threaded(<<>>)
    BY <1>2 DEF Contains, InArray, ConType, Threaded
  <2>2. Con!Chain \in Seq(Nat) /\ Len(Con!Chain) = 0
    BY <2>1, ChainIs
  <2> QED
    BY <1>2, <2>2, EmptySeq
<1> QED
  BY <1>1, <1>2

LEMMA ConToSet ==
  ASSUME NEW s \in Seq(Nat), NEW n \in Nat, Len(s) = n
  PROVE  Con!ToSet(s) = {s[k] : k \in 1 .. n}
<1>1. DOMAIN s = 1 .. n
  BY LenProperties
<1> QED
  BY <1>1, Zenon DEF Con!ToSet

LEMMA ConListWhole == ConInv => Con!ListWhole
<1> SUFFICES ASSUME ConInv PROVE Con!ListWhole
  OBVIOUS
<1>1. PICK h : Contains(h)
  BY DEF ConInv
<1>2. ConType /\ HeldIs(h, in, out) /\ h \in Seq(Nat)
  BY <1>1 DEF ConInv, Contains, HeldIs
<1>3. PICK c : c = Con!Chain
  OBVIOUS
<1>4. CASE container = "fifo"
  <2>1. PICK m \in Nat, n \in Nat : m = Len(h) /\ n = Len(in)
    BY <1>2 DEF HeldIs
  <2>2. c \in Seq(Nat) /\ Len(c) = m /\ \A k \in 1 .. m : c[k] = h[m + 1 - k]
    BY <1>1, <1>2, <1>3, <1>4, <2>1, ConChain
  <2>3. /\ taille = m /\ Len(cell) = n
        /\ \A d \in 1 .. n : cell[d].live <=> \E k \in 1 .. m : h[k] = d
    BY <1>1, <1>2, <1>4, <2>1 DEF Contains, InCells, HeldIs
  <2>4. /\ \A k \in 1 .. m : h[k] \in 1 .. n
        /\ \A j, k \in 1 .. m : j < k => h[j] < h[k]
    BY <1>2, <2>1 DEF HeldIs
  <2>5. \A k \in 1 .. m : m + 1 - k \in 1 .. m
    OBVIOUS
  <2>6. ASSUME NEW k \in 1 .. m
        PROVE  cell[c[k]].live /\ (k > 1 => c[k] < c[k - 1])
    <3>1. c[k] = h[m + 1 - k] /\ c[k] \in 1 .. n
      BY <2>2, <2>4, <2>5
    <3>2. cell[c[k]].live
      BY <2>3, <2>5, <3>1
    <3>3. ASSUME k > 1 PROVE c[k] < c[k - 1]
      <4>1. k - 1 \in 1 .. m /\ m + 1 - (k - 1) \in 1 .. m /\ m + 1 - k < m + 1 - (k - 1)
        BY <3>3
      <4>2. c[k - 1] = h[m + 1 - (k - 1)]
        BY <2>2, <4>1
      <4> QED
        BY <2>4, <2>5, <3>1, <4>1, <4>2
    <3> QED
      BY <3>2, <3>3
  <2>7. {d \in 1 .. n : cell[d].live} = Con!ToSet(c)
    <3>1. Con!ToSet(c) = {c[k] : k \in 1 .. m}
      BY <2>2, ConToSet
    <3>2. \A k \in 1 .. m : c[k] \in 1 .. n /\ cell[c[k]].live
      BY <2>2, <2>4, <2>5, <2>6
    <3>3. ASSUME NEW d \in 1 .. n, cell[d].live PROVE \E k \in 1 .. m : c[k] = d
      <4>1. PICK j \in 1 .. m : h[j] = d
        BY <2>3, <3>3
      <4>2. m + 1 - j \in 1 .. m /\ m + 1 - (m + 1 - j) = j
        OBVIOUS
      <4>3. c[m + 1 - j] = d
        BY <2>2, <4>1, <4>2
      <4> QED
        BY <4>2, <4>3
    <3> QED
      BY <3>1, <3>2, <3>3
  <2> QED
    BY <1>3, <2>2, <2>3, <2>6, <2>7 DEF Con!ListWhole
<1>5. CASE container # "fifo"
  <2>1. c = <<>>
    BY <1>1, <1>2, <1>3, <1>5, ConChain
  <2>2. cell = <<>> /\ taille = 0
    BY <1>1, <1>5 DEF Contains, InArray
  <2>3. Con!ToSet(c) = {}
    BY <2>1 DEF Con!ToSet
  <2> QED
    BY <1>3, <2>1, <2>2, <2>3 DEF Con!ListWhole
<1> QED
  BY <1>4, <1>5

LEMMA ConNothingLost == ConInv => Con!NothingLost
<1> SUFFICES ASSUME ConInv PROVE Con!NothingLost
  OBVIOUS
<1>1. PICK h : Contains(h)
  BY DEF ConInv
<1>2. ConType /\ HeldIs(h, in, out) /\ h \in Seq(Nat) /\ in \in Seq(Nat) /\ out \in Seq(Nat)
  BY <1>1 DEF ConInv, Contains, HeldIs
<1>3. PICK m \in Nat, n \in Nat, q \in Nat : m = Len(h) /\ n = Len(in) /\ q = Len(out)
  BY <1>2
<1>4. /\ \A k \in 1 .. n : in[k] = k
      /\ \A k \in 1 .. m : h[k] \in 1 .. n
      /\ \A j, k \in 1 .. m : j < k => h[j] < h[k]
      /\ \A x \in 1 .. n : (\E k \in 1 .. q : out[k] = x) <=> (\A k \in 1 .. m : h[k] # x)
      /\ \A k \in 1 .. q : out[k] \in 1 .. n
      /\ \A j, k \in 1 .. q : out[j] = out[k] => j = k
      /\ n = q + m
  BY <1>2, <1>3 DEF HeldIs
<1>5. m = IF container = "fifo" THEN taille ELSE top
  BY <1>1, <1>3 DEF Contains, InCells, InArray
<1> DEFINE held == Con!ToSet(in) \ Con!ToSet(out)
           newest == IF container = "fifo" THEN cell[tail].content ELSE contents[top - 1]
<1>6. held = {h[k] : k \in 1 .. m}
  <2>1. Con!ToSet(in) = {in[k] : k \in 1 .. n}
    BY <1>2, <1>3, ConToSet
  <2>2. Con!ToSet(out) = {out[k] : k \in 1 .. q}
    BY <1>2, <1>3, ConToSet
  <2>3. \A x \in 1 .. n : x \notin Con!ToSet(out) <=> \E k \in 1 .. m : h[k] = x
    BY <1>4, <2>2
  <2> QED
    BY <1>4, <2>1, <2>3
<1>7. ASSUME held # {} PROVE newest \in held /\ \A e \in held : e <= newest
  <2>1. m \in 1 .. m
    BY <1>6, <1>7
  <2>2. newest = h[m]
    <3>1. CASE container = "fifo"
      <4>1. tail = h[m] /\ Len(cell) = n /\ \A d \in 1 .. Len(cell) : cell[d].content = d
        <5>1. h # <<>>
          BY <1>3, <2>1
        <5> QED
          BY <1>1, <1>3, <3>1, <5>1 DEF Contains, InCells
      <4> QED
        BY <1>4, <2>1, <3>1, <4>1
    <3>2. CASE container # "fifo"
      BY <1>1, <1>3, <2>1, <3>2 DEF Contains, InArray
    <3> QED
      BY <3>1, <3>2
  <2>3. \A k \in 1 .. m : h[k] <= h[m]
    <3> SUFFICES ASSUME NEW k \in 1 .. m PROVE h[k] <= h[m]
      OBVIOUS
    <3>1. h[k] \in 1 .. n /\ h[m] \in 1 .. n /\ (k = m \/ k < m)
      BY <1>4, <2>1
    <3>2. k < m => h[k] < h[m]
      BY <1>4, <2>1
    <3> QED
      BY <3>1, <3>2
  <2> QED
    BY <1>6, <2>1, <2>2, <2>3
<1>8. \A j, k \in 1 .. q : j # k => out[j] # out[k]
  BY <1>4
<1>9. n - q = m
  BY <1>4
<1> QED
  BY <1>3, <1>5, <1>7, <1>8, <1>9 DEF Con!NothingLost

(* Whatever the calls, the list walked is made of the cells not freed, and *)
(* the list and the stack give each element once, the stack the newest it  *)
(* holds (queue, extract_tail, push and pop of TME1).                      *)
THEOREM ContainersLoseNothing ==
  ASSUME Con!BoundsAssumption
  PROVE  Con!Spec => []ContainersWhole
<1>1. ConInv => ContainersWhole
  BY ConListWhole, ConNothingLost DEF ContainersWhole, Con!ContainersWhole
<1> QED
  BY <1>1, ConStarts, ConKept, PTL DEF Con!Spec

-----------------------------------------------------------------------------
(* TME4 and TME5: programs that wait for signals.  What each knows, from   *)
(* the calls it has made, of its mask, its handlers and what is pending.   *)

Usual(s) == action[s] = "default"
Ready(s) == s \in pending_s

SigType ==
  /\ prog_s \in DOMAIN Sig!Code /\ pc_s \in Nat \ {0}
  /\ pending_s \subseteq Sig!Signals
  /\ action \in [Sig!Signals -> {"default", "ignored", "handler"}]
  /\ armed \in BOOLEAN /\ left \in BOOLEAN /\ late \in BOOLEAN
  /\ cpt \in Nat

(* No handler, no alarm: the first signal delivered ends the program.      *)
PlainInv ==
  /\ \A s \in Sig!Signals : Usual(s)
  /\ ~armed /\ ~Ready("ALRM") /\ ~Ready("CHLD")
  /\ prog_s = "init_sig_1" => pc_s = 1
  /\ prog_s \in {"init_sig_2", "voodoo"} => pc_s <= 2
  /\ prog_s = "pending_signals" =>
       /\ pc_s > 1 => "QUIT" \in mask
       /\ killed = "QUIT" => pc_s = 1

(* The alarm is ignored before it is set.                                  *)
IgnoresInv ==
  /\ Usual("INT") /\ Usual("QUIT") /\ ~Ready("ALRM") /\ ~Ready("CHLD")
  /\ pc_s <= 3 /\ (pc_s <= 2 => ~armed)
  /\ pc_s > 1 => action["ALRM"] = "ignored"

(* INT is ignored once handled, so that the second wait has no end.        *)
OnceInv ==
  /\ ~armed /\ ~Ready("ALRM") /\ ~Ready("CHLD")
  /\ pc_s <= 2 => \A s \in Sig!Signals : Usual(s)
  /\ pc_s > 1 => mask = Sig!Except("INT")
  /\ pc_s = 3 => action["INT"] \in {"handler", "ignored"}
  /\ action["INT"] = "ignored" => ~Ready("INT")
  /\ pc_s <= 4 /\ (pc_s = 4 => action["INT"] = "ignored")

(* The alarm has a handler before it is set.                               *)
RepeatsInv ==
  /\ ~Ready("CHLD")
  /\ pc_s <= 3 => ~armed /\ ~Ready("ALRM")
  /\ pc_s > 3 => action["ALRM"] = "handler"

(* INT is blocked until it is counted.                                     *)
CountsInv ==
  /\ ~armed /\ ~Ready("ALRM") /\ ~Ready("CHLD") /\ Usual("QUIT")
  /\ pc_s = 1 => mask = {} /\ (Ready("INT") => late)
  /\ pc_s \in 2 .. 4 => mask = {"INT", "QUIT"}
  /\ pc_s > 2 => action["INT"] = "handler"
  /\ pc_s > 4 => mask = {"QUIT"}
  /\ killed \in {"INT", "QUIT"} => pc_s = 1
  /\ ~late => cpt <= 1 /\ (cpt = 1 => pc_s > 4 /\ ~Ready("INT"))

(* All is blocked, but for the alarm while it is waited for.               *)
SleepInv ==
  /\ ~Ready("CHLD")
  /\ pc_s > 1 => mask = Sig!Signals
  /\ pc_s \notin 3 .. 4 => ~armed /\ ~Ready("ALRM")
  /\ armed => ~Ready("ALRM")
  /\ pc_s = 4 => action["ALRM"] = "handler"
  /\ ~left

(* The end of the child waits for the father.                              *)
WaitInv ==
  /\ ~armed /\ ~Ready("ALRM") /\ Usual("INT") /\ Usual("QUIT")
  /\ pc_s > 1 => action["CHLD"] = "handler"
  /\ pc_s > 2 => mask = {"CHLD"}
  /\ pc_s <= 3 => child_s = "none" /\ ~Ready("CHLD")
  /\ Ready("CHLD") => child_s = "zombie"
  /\ pc_s > 5 => child_s # "running"

Plain == {"init_sig_1", "init_sig_2", "voodoo", "pending_signals"}

SigInv ==
  /\ SigType /\ killed # "ALRM"
  /\ prog_s \notin {"voodoo", "mywait"} => child_s = "none"
  /\ prog_s \in Plain => PlainInv
  /\ prog_s = "init_sig_3" => IgnoresInv
  /\ prog_s = "init_sig_4" => OnceInv
  /\ prog_s = "init_sig_5" => RepeatsInv
  /\ prog_s = "pending_signals_2" => CountsInv
  /\ prog_s = "mysleep" => SleepInv
  /\ prog_s = "mywait" => WaitInv

LEMMA SigStarts == Sig!Init => SigInv
<1> SUFFICES ASSUME Sig!Init PROVE SigInv
  OBVIOUS
<1>1. /\ prog_s \in DOMAIN Sig!Code /\ pc_s = 1 /\ mask = {} /\ pending_s = {}
      /\ \A s \in Sig!Signals : Usual(s) /\ ~Ready(s)
      /\ ~Ready("ALRM") /\ ~Ready("CHLD") /\ ~Ready("INT")
      /\ action \in [Sig!Signals -> {"default", "ignored", "handler"}]
      /\ armed = FALSE /\ left = FALSE /\ late = FALSE
      /\ child_s = "none" /\ killed = "none" /\ cpt = 0
  BY DEF Sig!Init, Usual, Ready
<1>2. "INT" \in Sig!Signals /\ "QUIT" \in Sig!Signals
  BY DEF Sig!Signals
<1>3. SigType
  <2>1. pc_s \in Nat \ {0} /\ cpt \in Nat
    BY <1>1
  <2>2. armed \in BOOLEAN /\ left \in BOOLEAN /\ late \in BOOLEAN
    BY <1>1, Zenon
  <2>3. pending_s \subseteq Sig!Signals
    BY <1>1, Zenon
  <2> QED
    BY <1>1, <2>1, <2>2, <2>3, Zenon DEF SigType
<1>4. PlainInv /\ IgnoresInv /\ OnceInv /\ RepeatsInv
  BY <1>1, <1>2 DEF PlainInv, IgnoresInv, OnceInv, RepeatsInv, Usual
<1>5. CountsInv /\ SleepInv /\ WaitInv
  BY <1>1, <1>2 DEF CountsInv, SleepInv, WaitInv, Usual
<1> QED
  BY <1>1, <1>3, <1>4, <1>5 DEF SigInv

LEMMA SigOutcome == SigInv => SignalOutcome
<1> SUFFICES ASSUME SigInv PROVE SignalOutcome
  OBVIOUS
<1>1. Sig!NeverShown
  BY DEF SigInv, PlainInv, IgnoresInv, OnceInv, Plain, Sig!NeverShown
<1>2. Sig!PendingOnce
  BY DEF SigInv, SigType, PlainInv, CountsInv, Plain, Sig!PendingOnce
<1>3. Sig!SleepsWhole
  BY DEF SigInv, SigType, SleepInv, Sig!SleepsWhole
<1>4. Sig!WaitsForChild
  BY DEF SigInv, WaitInv, Sig!WaitsForChild
<1> QED
  BY <1>1, <1>2, <1>3, <1>4 DEF SignalOutcome, Sig!SignalOutcome

(* The next call of each program.                                          *)
Call == Sig!Code[prog_s][pc_s]
Calls(n, c) == pc_s = n /\ Call = c

LEMMA SigCalls ==
  ASSUME SigType, ~Sig!Over
  PROVE  /\ killed = "none"
         /\ prog_s = "init_sig_1" => Calls(1, <<"pause">>) \/ Calls(2, <<"pause">>)
         /\ prog_s = "init_sig_2" =>
              \/ Calls(1, <<"mask", Sig!Except("INT")>>)
              \/ Calls(2, <<"sigsuspend", Sig!Except("INT")>>)
              \/ Calls(3, <<"sigsuspend", Sig!Except("INT")>>)
         /\ prog_s = "init_sig_3" =>
              \/ Calls(1, <<"ignored", "ALRM">>) \/ Calls(2, <<"alarm">>)
              \/ Calls(3, <<"sigsuspend", {"INT"}>>)
         /\ prog_s = "init_sig_4" =>
              \/ Calls(1, <<"mask", Sig!Except("INT")>>) \/ Calls(2, <<"handler", "INT">>)
              \/ pc_s \in 3 .. 5 /\ Call = <<"sigsuspend", Sig!Except("INT")>>
         /\ prog_s = "init_sig_5" =>
              \/ Calls(1, <<"mask", {"QUIT", "CHLD"}>>) \/ Calls(2, <<"handler", "INT">>)
              \/ Calls(3, <<"handler", "ALRM">>) \/ Calls(4, <<"alarm">>)
              \/ Calls(5, <<"sigsuspend", {"QUIT", "CHLD"}>>)
         /\ prog_s = "voodoo" =>
              Calls(1, <<"fork">>) \/ Calls(2, <<"pause">>) \/ Calls(3, <<"pause">>)
         /\ prog_s = "pending_signals" =>
              \/ Calls(1, <<"mask", {"INT", "QUIT"}>>) \/ Calls(2, <<"sleep">>)
              \/ Calls(3, <<"mask", {"QUIT"}>>) \/ Calls(4, <<"sigpending">>)
         /\ prog_s = "pending_signals_2" =>
              \/ Calls(1, <<"mask", {"INT", "QUIT"}>>) \/ Calls(2, <<"handler", "INT">>)
              \/ Calls(3, <<"sleep">>) \/ Calls(4, <<"mask", {"QUIT"}>>)
              \/ Calls(5, <<"sigpending">>)
         /\ prog_s = "mysleep" =>
              \/ Calls(1, <<"mask", Sig!Signals>>) \/ Calls(2, <<"alarm">>)
              \/ Calls(3, <<"handler", "ALRM">>)
              \/ Calls(4, <<"sigsuspend", Sig!Except("ALRM")>>)
              \/ Calls(5, <<"alarm0">>) \/ Calls(6, <<"default", "ALRM">>)
         /\ prog_s = "mywait" =>
              \/ Calls(1, <<"handler", "CHLD">>) \/ Calls(2, <<"mask", {"CHLD"}>>)
              \/ Calls(3, <<"fork">>) \/ Calls(4, <<"sleep">>)
              \/ Calls(5, <<"sigsuspend", Sig!Except("CHLD")>>)
<1>0. killed = "none" /\ pc_s \in Nat \ {0} /\ ~(pc_s > Len(Sig!Code[prog_s]))
  BY DEF Sig!Over, SigType
<1>1. CASE prog_s = "init_sig_1"
  BY <1>0, <1>1 DEF Sig!Code, Sig!init_sig_1, Calls, Call
<1>2. CASE prog_s = "init_sig_2"
  BY <1>0, <1>2 DEF Sig!Code, Sig!init_sig_2, Calls, Call
<1>3. CASE prog_s = "init_sig_3"
  BY <1>0, <1>3 DEF Sig!Code, Sig!init_sig_3, Calls, Call
<1>4. CASE prog_s = "init_sig_4"
  BY <1>0, <1>4 DEF Sig!Code, Sig!init_sig_4, Calls, Call
<1>5. CASE prog_s = "init_sig_5"
  BY <1>0, <1>5 DEF Sig!Code, Sig!init_sig_5, Calls, Call
<1>6. CASE prog_s = "voodoo"
  BY <1>0, <1>6 DEF Sig!Code, Sig!voodoo, Calls, Call
<1>7. CASE prog_s = "pending_signals"
  BY <1>0, <1>7 DEF Sig!Code, Sig!pending_signals, Calls, Call
<1>8. CASE prog_s = "pending_signals_2"
  BY <1>0, <1>8 DEF Sig!Code, Sig!pending_signals_2, Calls, Call
<1>9. CASE prog_s = "mysleep"
  BY <1>0, <1>9 DEF Sig!Code, Sig!mysleep, Sig!MysleepMask, Calls, Call
<1>10. CASE prog_s = "mywait"
  <2>1. Sig!Code[prog_s] = Sig!mywait
    BY <1>10 DEF Sig!Code
  <2>2. pc_s \in 1 .. 5
    BY <1>0, <2>1 DEF Sig!mywait
  <2>3. Call = Sig!mywait[pc_s]
    BY <2>1 DEF Call
  <2>4. \/ Calls(1, <<"handler", "CHLD">>) \/ Calls(2, <<"mask", {"CHLD"}>>)
        \/ Calls(3, <<"fork">>) \/ Calls(4, <<"sleep">>)
        \/ Calls(5, <<"sigsuspend", Sig!Except("CHLD")>>)
    BY <2>2, <2>3 DEF Sig!mywait, Calls
  <2> QED
    BY <1>0, <1>10, <2>4
<1> QED
  BY <1>0, <1>1, <1>2, <1>3, <1>4, <1>5, <1>6, <1>7, <1>8, <1>9, <1>10, Zenon

(* A step of the programs: a call, an alarm that rings, the end of a child,*)
(* a signal delivered or sent.                                             *)
LEMMA SigSteps ==
  ASSUME Sig!Next
  PROVE  \/ Sig!Mask \/ Sig!Sigaction \/ Sig!Alarm \/ Sig!Fork \/ Sig!Sleep
         \/ Sig!Sigpending \/ Sig!Ring \/ Sig!ChildExit
         \/ (\E s \in Sig!Signals : Sig!Deliver(s))
         \/ (\E s \in {"INT", "QUIT"} : Sig!Send(s))
BY DEF Sig!Next, Sig!Run

LEMMA PlainKept ==
  ASSUME SigInv, prog_s \in Plain, Sig!Next
  PROVE  /\ PlainInv' /\ killed' # "ALRM"
         /\ prog_s \notin {"voodoo", "mywait"} => child_s' = "none"
<1>0. /\ PlainInv /\ SigType /\ killed # "ALRM"
      /\ prog_s \notin {"voodoo", "mywait"} => child_s = "none"
  BY DEF SigInv, Plain
<1>1. CASE Sig!Mask
  BY <1>0, <1>1, SigCalls
  DEF Sig!Mask, Sig!Doing, Sig!Arg, SigType, Plain, PlainInv, Calls, Call, Usual, Ready,
      Sig!Signals, Sig!Except
<1>2. CASE Sig!Sigaction
  BY <1>0, <1>2, SigCalls
  DEF Sig!Sigaction, Sig!Doing, Sig!Arg, SigType, Plain, PlainInv, Calls, Call, Usual,
      Ready, Sig!Signals, Sig!Except
<1>3. CASE Sig!Alarm
  BY <1>0, <1>3, SigCalls
  DEF Sig!Alarm, Sig!Doing, Sig!Arg, SigType, Plain, PlainInv, Calls, Call, Usual, Ready,
      Sig!Signals, Sig!Except
<1>4. CASE Sig!Fork
  BY <1>0, <1>4, SigCalls
  DEF Sig!Fork, Sig!Doing, Sig!Arg, SigType, Plain, PlainInv, Calls, Call, Usual, Ready,
      Sig!Signals, Sig!Except
<1>5. CASE Sig!Sleep
  BY <1>0, <1>5, SigCalls
  DEF Sig!Sleep, Sig!Doing, SigType, Plain, PlainInv, Calls, Call, Usual, Ready,
      Sig!Signals, Sig!Except
<1>6. CASE Sig!Sigpending
  BY <1>0, <1>6, SigCalls
  DEF Sig!Sigpending, Sig!Doing, SigType, Plain, PlainInv, Calls, Call, Usual, Ready,
      Sig!Signals, Sig!Except
<1>7. CASE Sig!Ring
  BY <1>0, <1>7, SigCalls
  DEF Sig!Ring, Sig!Generate, Sig!Ignored, SigType, Plain, PlainInv, Calls, Call, Usual,
      Ready, Sig!Signals, Sig!Except
<1>8. CASE Sig!ChildExit
  BY <1>0, <1>8
  DEF Sig!ChildExit, Sig!Generate, Sig!Ignored, SigType, Plain, PlainInv, Calls, Call,
      Usual, Ready, Sig!Signals, Sig!Except
<1>9. ASSUME NEW s \in Sig!Signals, Sig!Deliver(s)
      PROVE  /\ PlainInv' /\ killed' # "ALRM"
             /\ prog_s \notin {"voodoo", "mywait"} => child_s' = "none"
  BY <1>0, <1>9, SigCalls
  DEF Sig!Deliver, Sig!Blocked, Sig!Waiting, Sig!After, Sig!Doing, Sig!Arg, SigType,
      Plain, PlainInv, Calls, Call, Usual, Ready, Sig!Signals, Sig!Except
<1>10. ASSUME NEW s \in {"INT", "QUIT"}, Sig!Send(s)
      PROVE  /\ PlainInv' /\ killed' # "ALRM"
             /\ prog_s \notin {"voodoo", "mywait"} => child_s' = "none"
  BY <1>0, <1>10, SigCalls
  DEF Sig!Send, Sig!Generate, Sig!Ignored, SigType, Plain, PlainInv, Calls, Call, Usual,
      Ready, Sig!Signals, Sig!Except
<1> QED
  BY <1>1, <1>2, <1>3, <1>4, <1>5, <1>6, <1>7, <1>8, <1>9, <1>10, SigSteps, Zenon

LEMMA IgnoresKept ==
  ASSUME SigInv, prog_s = "init_sig_3", Sig!Next
  PROVE  /\ IgnoresInv' /\ killed' # "ALRM"
         /\ prog_s \notin {"voodoo", "mywait"} => child_s' = "none"
<1>0. /\ IgnoresInv /\ SigType /\ killed # "ALRM"
      /\ prog_s \notin {"voodoo", "mywait"} => child_s = "none"
  BY DEF SigInv
<1>1. CASE Sig!Mask
  BY <1>0, <1>1, SigCalls
  DEF Sig!Mask, Sig!Doing, Sig!Arg, SigType, IgnoresInv, Calls, Call, Usual, Ready,
      Sig!Signals, Sig!Except
<1>2. CASE Sig!Sigaction
  BY <1>0, <1>2, SigCalls
  DEF Sig!Sigaction, Sig!Doing, Sig!Arg, SigType, IgnoresInv, Calls, Call, Usual, Ready,
      Sig!Signals, Sig!Except
<1>3. CASE Sig!Alarm
  BY <1>0, <1>3, SigCalls
  DEF Sig!Alarm, Sig!Doing, Sig!Arg, SigType, IgnoresInv, Calls, Call, Usual, Ready,
      Sig!Signals, Sig!Except
<1>4. CASE Sig!Fork
  BY <1>0, <1>4, SigCalls
  DEF Sig!Fork, Sig!Doing, Sig!Arg, SigType, IgnoresInv, Calls, Call, Usual, Ready,
      Sig!Signals, Sig!Except
<1>5. CASE Sig!Sleep
  BY <1>0, <1>5, SigCalls
  DEF Sig!Sleep, Sig!Doing, SigType, IgnoresInv, Calls, Call, Usual, Ready, Sig!Signals,
      Sig!Except
<1>6. CASE Sig!Sigpending
  BY <1>0, <1>6, SigCalls
  DEF Sig!Sigpending, Sig!Doing, SigType, IgnoresInv, Calls, Call, Usual, Ready,
      Sig!Signals, Sig!Except
<1>7. CASE Sig!Ring
  BY <1>0, <1>7, SigCalls
  DEF Sig!Ring, Sig!Generate, Sig!Ignored, SigType, IgnoresInv, Calls, Call, Usual, Ready,
      Sig!Signals, Sig!Except
<1>8. CASE Sig!ChildExit
  BY <1>0, <1>8
  DEF Sig!ChildExit, Sig!Generate, Sig!Ignored, SigType, IgnoresInv, Calls, Call, Usual,
      Ready, Sig!Signals, Sig!Except
<1>9. ASSUME NEW s \in Sig!Signals, Sig!Deliver(s)
      PROVE  /\ IgnoresInv' /\ killed' # "ALRM"
             /\ prog_s \notin {"voodoo", "mywait"} => child_s' = "none"
  BY <1>0, <1>9, SigCalls
  DEF Sig!Deliver, Sig!Blocked, Sig!Waiting, Sig!After, Sig!Doing, Sig!Arg, SigType,
      IgnoresInv, Calls, Call, Usual, Ready, Sig!Signals, Sig!Except
<1>10. ASSUME NEW s \in {"INT", "QUIT"}, Sig!Send(s)
      PROVE  /\ IgnoresInv' /\ killed' # "ALRM"
             /\ prog_s \notin {"voodoo", "mywait"} => child_s' = "none"
  BY <1>0, <1>10, SigCalls
  DEF Sig!Send, Sig!Generate, Sig!Ignored, SigType, IgnoresInv, Calls, Call, Usual, Ready,
      Sig!Signals, Sig!Except
<1> QED
  BY <1>1, <1>2, <1>3, <1>4, <1>5, <1>6, <1>7, <1>8, <1>9, <1>10, SigSteps, Zenon

LEMMA OnceKept ==
  ASSUME SigInv, prog_s = "init_sig_4", Sig!Next
  PROVE  /\ OnceInv' /\ killed' # "ALRM"
         /\ prog_s \notin {"voodoo", "mywait"} => child_s' = "none"
<1>0. /\ OnceInv /\ SigType /\ killed # "ALRM"
      /\ prog_s \notin {"voodoo", "mywait"} => child_s = "none"
  BY DEF SigInv
<1>1. CASE Sig!Mask
  BY <1>0, <1>1, SigCalls
  DEF Sig!Mask, Sig!Doing, Sig!Arg, SigType, OnceInv, Calls, Call, Usual, Ready,
      Sig!Signals, Sig!Except
<1>2. CASE Sig!Sigaction
  BY <1>0, <1>2, SigCalls
  DEF Sig!Sigaction, Sig!Doing, Sig!Arg, SigType, OnceInv, Calls, Call, Usual, Ready,
      Sig!Signals, Sig!Except
<1>3. CASE Sig!Alarm
  BY <1>0, <1>3, SigCalls
  DEF Sig!Alarm, Sig!Doing, Sig!Arg, SigType, OnceInv, Calls, Call, Usual, Ready,
      Sig!Signals, Sig!Except
<1>4. CASE Sig!Fork
  BY <1>0, <1>4, SigCalls
  DEF Sig!Fork, Sig!Doing, Sig!Arg, SigType, OnceInv, Calls, Call, Usual, Ready,
      Sig!Signals, Sig!Except
<1>5. CASE Sig!Sleep
  BY <1>0, <1>5, SigCalls
  DEF Sig!Sleep, Sig!Doing, SigType, OnceInv, Calls, Call, Usual, Ready, Sig!Signals,
      Sig!Except
<1>6. CASE Sig!Sigpending
  BY <1>0, <1>6, SigCalls
  DEF Sig!Sigpending, Sig!Doing, SigType, OnceInv, Calls, Call, Usual, Ready, Sig!Signals,
      Sig!Except
<1>7. CASE Sig!Ring
  BY <1>0, <1>7, SigCalls
  DEF Sig!Ring, Sig!Generate, Sig!Ignored, SigType, OnceInv, Calls, Call, Usual, Ready,
      Sig!Signals, Sig!Except
<1>8. CASE Sig!ChildExit
  BY <1>0, <1>8
  DEF Sig!ChildExit, Sig!Generate, Sig!Ignored, SigType, OnceInv, Calls, Call, Usual,
      Ready, Sig!Signals, Sig!Except
<1>9. ASSUME NEW s \in Sig!Signals, Sig!Deliver(s)
      PROVE  /\ OnceInv' /\ killed' # "ALRM"
             /\ prog_s \notin {"voodoo", "mywait"} => child_s' = "none"
  BY <1>0, <1>9, SigCalls
  DEF Sig!Deliver, Sig!Blocked, Sig!Waiting, Sig!After, Sig!Doing, Sig!Arg, SigType,
      OnceInv, Calls, Call, Usual, Ready, Sig!Signals, Sig!Except
<1>10. ASSUME NEW s \in {"INT", "QUIT"}, Sig!Send(s)
      PROVE  /\ OnceInv' /\ killed' # "ALRM"
             /\ prog_s \notin {"voodoo", "mywait"} => child_s' = "none"
  BY <1>0, <1>10, SigCalls
  DEF Sig!Send, Sig!Generate, Sig!Ignored, SigType, OnceInv, Calls, Call, Usual, Ready,
      Sig!Signals, Sig!Except
<1> QED
  BY <1>1, <1>2, <1>3, <1>4, <1>5, <1>6, <1>7, <1>8, <1>9, <1>10, SigSteps, Zenon

LEMMA RepeatsKept ==
  ASSUME SigInv, prog_s = "init_sig_5", Sig!Next
  PROVE  /\ RepeatsInv' /\ killed' # "ALRM"
         /\ prog_s \notin {"voodoo", "mywait"} => child_s' = "none"
<1>0. /\ RepeatsInv /\ SigType /\ killed # "ALRM"
      /\ prog_s \notin {"voodoo", "mywait"} => child_s = "none"
  BY DEF SigInv
<1>1. CASE Sig!Mask
  BY <1>0, <1>1, SigCalls
  DEF Sig!Mask, Sig!Doing, Sig!Arg, SigType, RepeatsInv, Calls, Call, Usual, Ready,
      Sig!Signals, Sig!Except
<1>2. CASE Sig!Sigaction
  BY <1>0, <1>2, SigCalls
  DEF Sig!Sigaction, Sig!Doing, Sig!Arg, SigType, RepeatsInv, Calls, Call, Usual, Ready,
      Sig!Signals, Sig!Except
<1>3. CASE Sig!Alarm
  BY <1>0, <1>3, SigCalls
  DEF Sig!Alarm, Sig!Doing, Sig!Arg, SigType, RepeatsInv, Calls, Call, Usual, Ready,
      Sig!Signals, Sig!Except
<1>4. CASE Sig!Fork
  BY <1>0, <1>4, SigCalls
  DEF Sig!Fork, Sig!Doing, Sig!Arg, SigType, RepeatsInv, Calls, Call, Usual, Ready,
      Sig!Signals, Sig!Except
<1>5. CASE Sig!Sleep
  BY <1>0, <1>5, SigCalls
  DEF Sig!Sleep, Sig!Doing, SigType, RepeatsInv, Calls, Call, Usual, Ready, Sig!Signals,
      Sig!Except
<1>6. CASE Sig!Sigpending
  BY <1>0, <1>6, SigCalls
  DEF Sig!Sigpending, Sig!Doing, SigType, RepeatsInv, Calls, Call, Usual, Ready,
      Sig!Signals, Sig!Except
<1>7. CASE Sig!Ring
  BY <1>0, <1>7, SigCalls
  DEF Sig!Ring, Sig!Generate, Sig!Ignored, SigType, RepeatsInv, Calls, Call, Usual, Ready,
      Sig!Signals, Sig!Except
<1>8. CASE Sig!ChildExit
  BY <1>0, <1>8
  DEF Sig!ChildExit, Sig!Generate, Sig!Ignored, SigType, RepeatsInv, Calls, Call, Usual,
      Ready, Sig!Signals, Sig!Except
<1>9. ASSUME NEW s \in Sig!Signals, Sig!Deliver(s)
      PROVE  /\ RepeatsInv' /\ killed' # "ALRM"
             /\ prog_s \notin {"voodoo", "mywait"} => child_s' = "none"
  BY <1>0, <1>9, SigCalls
  DEF Sig!Deliver, Sig!Blocked, Sig!Waiting, Sig!After, Sig!Doing, Sig!Arg, SigType,
      RepeatsInv, Calls, Call, Usual, Ready, Sig!Signals, Sig!Except
<1>10. ASSUME NEW s \in {"INT", "QUIT"}, Sig!Send(s)
      PROVE  /\ RepeatsInv' /\ killed' # "ALRM"
             /\ prog_s \notin {"voodoo", "mywait"} => child_s' = "none"
  BY <1>0, <1>10, SigCalls
  DEF Sig!Send, Sig!Generate, Sig!Ignored, SigType, RepeatsInv, Calls, Call, Usual, Ready,
      Sig!Signals, Sig!Except
<1> QED
  BY <1>1, <1>2, <1>3, <1>4, <1>5, <1>6, <1>7, <1>8, <1>9, <1>10, SigSteps, Zenon

LEMMA CountsKept ==
  ASSUME SigInv, prog_s = "pending_signals_2", Sig!Next
  PROVE  /\ CountsInv' /\ killed' # "ALRM"
         /\ prog_s \notin {"voodoo", "mywait"} => child_s' = "none"
<1>0. /\ CountsInv /\ SigType /\ killed # "ALRM"
      /\ prog_s \notin {"voodoo", "mywait"} => child_s = "none"
  BY DEF SigInv
<1>1. CASE Sig!Mask
  BY <1>0, <1>1, SigCalls
  DEF Sig!Mask, Sig!Doing, Sig!Arg, SigType, CountsInv, Calls, Call, Usual, Ready,
      Sig!Signals, Sig!Except
<1>2. CASE Sig!Sigaction
  BY <1>0, <1>2, SigCalls
  DEF Sig!Sigaction, Sig!Doing, Sig!Arg, SigType, CountsInv, Calls, Call, Usual, Ready,
      Sig!Signals, Sig!Except
<1>3. CASE Sig!Alarm
  BY <1>0, <1>3, SigCalls
  DEF Sig!Alarm, Sig!Doing, Sig!Arg, SigType, CountsInv, Calls, Call, Usual, Ready,
      Sig!Signals, Sig!Except
<1>4. CASE Sig!Fork
  BY <1>0, <1>4, SigCalls
  DEF Sig!Fork, Sig!Doing, Sig!Arg, SigType, CountsInv, Calls, Call, Usual, Ready,
      Sig!Signals, Sig!Except
<1>5. CASE Sig!Sleep
  BY <1>0, <1>5, SigCalls
  DEF Sig!Sleep, Sig!Doing, SigType, CountsInv, Calls, Call, Usual, Ready, Sig!Signals,
      Sig!Except
<1>6. CASE Sig!Sigpending
  BY <1>0, <1>6, SigCalls
  DEF Sig!Sigpending, Sig!Doing, SigType, CountsInv, Calls, Call, Usual, Ready,
      Sig!Signals, Sig!Except
<1>7. CASE Sig!Ring
  BY <1>0, <1>7, SigCalls
  DEF Sig!Ring, Sig!Generate, Sig!Ignored, SigType, CountsInv, Calls, Call, Usual, Ready,
      Sig!Signals, Sig!Except
<1>8. CASE Sig!ChildExit
  BY <1>0, <1>8
  DEF Sig!ChildExit, Sig!Generate, Sig!Ignored, SigType, CountsInv, Calls, Call, Usual,
      Ready, Sig!Signals, Sig!Except
<1>9. ASSUME NEW s \in Sig!Signals, Sig!Deliver(s)
      PROVE  /\ CountsInv' /\ killed' # "ALRM"
             /\ prog_s \notin {"voodoo", "mywait"} => child_s' = "none"
  BY <1>0, <1>9, SigCalls
  DEF Sig!Deliver, Sig!Blocked, Sig!Waiting, Sig!After, Sig!Doing, Sig!Arg, SigType,
      CountsInv, Calls, Call, Usual, Ready, Sig!Signals, Sig!Except
<1>10. ASSUME NEW s \in {"INT", "QUIT"}, Sig!Send(s)
      PROVE  /\ CountsInv' /\ killed' # "ALRM"
             /\ prog_s \notin {"voodoo", "mywait"} => child_s' = "none"
  BY <1>0, <1>10, SigCalls
  DEF Sig!Send, Sig!Generate, Sig!Ignored, SigType, CountsInv, Calls, Call, Usual, Ready,
      Sig!Signals, Sig!Except
<1> QED
  BY <1>1, <1>2, <1>3, <1>4, <1>5, <1>6, <1>7, <1>8, <1>9, <1>10, SigSteps, Zenon

LEMMA SleepKept ==
  ASSUME SigInv, prog_s = "mysleep", Sig!Next
  PROVE  /\ SleepInv' /\ killed' # "ALRM"
         /\ prog_s \notin {"voodoo", "mywait"} => child_s' = "none"
<1>0. /\ SleepInv /\ SigType /\ killed # "ALRM"
      /\ prog_s \notin {"voodoo", "mywait"} => child_s = "none"
  BY DEF SigInv
<1>1. CASE Sig!Mask
  BY <1>0, <1>1, SigCalls
  DEF Sig!Mask, Sig!Doing, Sig!Arg, SigType, SleepInv, Calls, Call, Usual, Ready,
      Sig!Signals, Sig!Except
<1>2. CASE Sig!Sigaction
  BY <1>0, <1>2, SigCalls
  DEF Sig!Sigaction, Sig!Doing, Sig!Arg, SigType, SleepInv, Calls, Call, Usual, Ready,
      Sig!Signals, Sig!Except
<1>3. CASE Sig!Alarm
  BY <1>0, <1>3, SigCalls
  DEF Sig!Alarm, Sig!Doing, Sig!Arg, SigType, SleepInv, Calls, Call, Usual, Ready,
      Sig!Signals, Sig!Except
<1>4. CASE Sig!Fork
  BY <1>0, <1>4, SigCalls
  DEF Sig!Fork, Sig!Doing, Sig!Arg, SigType, SleepInv, Calls, Call, Usual, Ready,
      Sig!Signals, Sig!Except
<1>5. CASE Sig!Sleep
  BY <1>0, <1>5, SigCalls
  DEF Sig!Sleep, Sig!Doing, SigType, SleepInv, Calls, Call, Usual, Ready, Sig!Signals,
      Sig!Except
<1>6. CASE Sig!Sigpending
  BY <1>0, <1>6, SigCalls
  DEF Sig!Sigpending, Sig!Doing, SigType, SleepInv, Calls, Call, Usual, Ready,
      Sig!Signals, Sig!Except
<1>7. CASE Sig!Ring
  BY <1>0, <1>7, SigCalls
  DEF Sig!Ring, Sig!Generate, Sig!Ignored, SigType, SleepInv, Calls, Call, Usual, Ready,
      Sig!Signals, Sig!Except
<1>8. CASE Sig!ChildExit
  BY <1>0, <1>8
  DEF Sig!ChildExit, Sig!Generate, Sig!Ignored, SigType, SleepInv, Calls, Call, Usual,
      Ready, Sig!Signals, Sig!Except
<1>9. ASSUME NEW s \in Sig!Signals, Sig!Deliver(s)
      PROVE  /\ SleepInv' /\ killed' # "ALRM"
             /\ prog_s \notin {"voodoo", "mywait"} => child_s' = "none"
  BY <1>0, <1>9, SigCalls
  DEF Sig!Deliver, Sig!Blocked, Sig!Waiting, Sig!After, Sig!Doing, Sig!Arg, SigType,
      SleepInv, Calls, Call, Usual, Ready, Sig!Signals, Sig!Except
<1>10. ASSUME NEW s \in {"INT", "QUIT"}, Sig!Send(s)
      PROVE  /\ SleepInv' /\ killed' # "ALRM"
             /\ prog_s \notin {"voodoo", "mywait"} => child_s' = "none"
  BY <1>0, <1>10, SigCalls
  DEF Sig!Send, Sig!Generate, Sig!Ignored, SigType, SleepInv, Calls, Call, Usual, Ready,
      Sig!Signals, Sig!Except
<1> QED
  BY <1>1, <1>2, <1>3, <1>4, <1>5, <1>6, <1>7, <1>8, <1>9, <1>10, SigSteps, Zenon

LEMMA WaitKept ==
  ASSUME SigInv, prog_s = "mywait", Sig!Next
  PROVE  /\ WaitInv' /\ killed' # "ALRM"
         /\ prog_s \notin {"voodoo", "mywait"} => child_s' = "none"
<1>0. /\ WaitInv /\ SigType /\ killed # "ALRM"
      /\ prog_s \notin {"voodoo", "mywait"} => child_s = "none"
  BY DEF SigInv
<1>1. CASE Sig!Mask
  BY <1>0, <1>1, SigCalls
  DEF Sig!Mask, Sig!Doing, Sig!Arg, SigType, WaitInv, Calls, Call, Usual, Ready,
      Sig!Signals, Sig!Except, Sig!mywait
<1>2. CASE Sig!Sigaction
  BY <1>0, <1>2, SigCalls
  DEF Sig!Sigaction, Sig!Doing, Sig!Arg, SigType, WaitInv, Calls, Call, Usual, Ready,
      Sig!Signals, Sig!Except, Sig!mywait
<1>3. CASE Sig!Alarm
  BY <1>0, <1>3, SigCalls
  DEF Sig!Alarm, Sig!Doing, Sig!Arg, SigType, WaitInv, Calls, Call, Usual, Ready,
      Sig!Signals, Sig!Except, Sig!mywait
<1>4. CASE Sig!Fork
  BY <1>0, <1>4, SigCalls
  DEF Sig!Fork, Sig!Doing, Sig!Arg, SigType, WaitInv, Calls, Call, Usual, Ready,
      Sig!Signals, Sig!Except, Sig!mywait
<1>5. CASE Sig!Sleep
  BY <1>0, <1>5, SigCalls
  DEF Sig!Sleep, Sig!Doing, SigType, WaitInv, Calls, Call, Usual, Ready, Sig!Signals,
      Sig!Except, Sig!mywait
<1>6. CASE Sig!Sigpending
  BY <1>0, <1>6, SigCalls
  DEF Sig!Sigpending, Sig!Doing, SigType, WaitInv, Calls, Call, Usual, Ready, Sig!Signals,
      Sig!Except, Sig!mywait
<1>7. CASE Sig!Ring
  BY <1>0, <1>7, SigCalls
  DEF Sig!Ring, Sig!Generate, Sig!Ignored, SigType, WaitInv, Calls, Call, Usual, Ready,
      Sig!Signals, Sig!Except, Sig!mywait
<1>8. CASE Sig!ChildExit
  BY <1>0, <1>8
  DEF Sig!ChildExit, Sig!Generate, Sig!Ignored, SigType, WaitInv, Calls, Call, Usual,
      Ready, Sig!Signals, Sig!Except, Sig!mywait
<1>9. ASSUME NEW s \in Sig!Signals, Sig!Deliver(s)
      PROVE  /\ WaitInv' /\ killed' # "ALRM"
             /\ prog_s \notin {"voodoo", "mywait"} => child_s' = "none"
  BY <1>0, <1>9, SigCalls
  DEF Sig!Deliver, Sig!Blocked, Sig!Waiting, Sig!After, Sig!Doing, Sig!Arg, SigType,
      WaitInv, Calls, Call, Usual, Ready, Sig!Signals, Sig!Except
<1>10. ASSUME NEW s \in {"INT", "QUIT"}, Sig!Send(s)
      PROVE  /\ WaitInv' /\ killed' # "ALRM"
             /\ prog_s \notin {"voodoo", "mywait"} => child_s' = "none"
  BY <1>0, <1>10, SigCalls
  DEF Sig!Send, Sig!Generate, Sig!Ignored, SigType, WaitInv, Calls, Call, Usual, Ready,
      Sig!Signals, Sig!Except
<1> QED
  BY <1>1, <1>2, <1>3, <1>4, <1>5, <1>6, <1>7, <1>8, <1>9, <1>10, SigSteps, Zenon

LEMMA SigTypeKept ==
  ASSUME SigType, Sig!Next
  PROVE  SigType'
<1>0. "ALRM" \in Sig!Signals /\ "CHLD" \in Sig!Signals /\ prog_s' = prog_s
  BY SigSteps DEF Sig!Signals, Sig!Mask, Sig!Sigaction, Sig!Alarm, Sig!Fork, Sig!Sleep,
     Sig!Sigpending, Sig!Ring, Sig!ChildExit, Sig!Deliver, Sig!Send
<1>1. pc_s' \in Nat \ {0}
  <2>1. CASE Sig!Fork
    <3>1. Len(Sig!mywait) = 5 /\ (prog_s = "mywait" => Sig!Code[prog_s] = Sig!mywait)
      BY DEF Sig!mywait, Sig!Code
    <3> QED
      BY <2>1, <3>1 DEF Sig!Fork, SigType
  <2>2. CASE ~ Sig!Fork
    <3>1. pc_s' \in {pc_s, pc_s + 1}
      BY <2>2, SigSteps DEF Sig!Mask, Sig!Sigaction, Sig!Alarm, Sig!Sleep, Sig!Sigpending,
         Sig!Ring, Sig!ChildExit, Sig!Deliver, Sig!Send, Sig!After
    <3> QED
      BY <3>1 DEF SigType
  <2> QED
    BY <2>1, <2>2
<1>2. pending_s' \subseteq Sig!Signals
  BY <1>0, SigSteps DEF SigType, Sig!Signals, Sig!Mask, Sig!Sigaction, Sig!Alarm, Sig!Fork,
     Sig!Sleep, Sig!Sigpending, Sig!Ring, Sig!ChildExit, Sig!Generate, Sig!Deliver, Sig!Send
<1>3. action' \in [Sig!Signals -> {"default", "ignored", "handler"}]
  BY SigSteps DEF SigType, Sig!Mask, Sig!Sigaction, Sig!Alarm, Sig!Fork, Sig!Sleep,
     Sig!Sigpending, Sig!Ring, Sig!ChildExit, Sig!Deliver, Sig!Send
<1>4. armed' \in BOOLEAN /\ left' \in BOOLEAN /\ late' \in BOOLEAN
  BY SigSteps DEF SigType, Sig!Mask, Sig!Sigaction, Sig!Alarm, Sig!Fork, Sig!Sleep,
     Sig!Sigpending, Sig!Ring, Sig!ChildExit, Sig!Deliver, Sig!Send
<1>5. cpt' \in Nat
  <2>1. cpt' \in {cpt, cpt + 1}
    BY SigSteps DEF Sig!Mask, Sig!Sigaction, Sig!Alarm, Sig!Fork, Sig!Sleep, Sig!Sigpending,
       Sig!Ring, Sig!ChildExit, Sig!Deliver, Sig!Send
  <2> QED
    BY <2>1 DEF SigType
<1> QED
  BY <1>0, <1>1, <1>2, <1>3, <1>4, <1>5 DEF SigType

(* Each program keeps what it knows.                                       *)
LEMMA SigKept == SigInv /\ [Sig!Next]_(Sig!vars) => SigInv'
<1>1. ASSUME SigInv, UNCHANGED Sig!vars
      PROVE  SigInv'
  BY <1>1 DEF SigInv, SigType, Sig!vars, PlainInv, IgnoresInv, OnceInv, RepeatsInv, CountsInv,
     SleepInv, WaitInv, Usual, Ready
<1>2. ASSUME SigInv, Sig!Next
      PROVE  SigInv'
  <2>1. prog_s' = prog_s
    BY <1>2, SigSteps DEF Sig!Mask, Sig!Sigaction, Sig!Alarm, Sig!Fork, Sig!Sleep,
       Sig!Sigpending, Sig!Ring, Sig!ChildExit, Sig!Deliver, Sig!Send
  <2>2. SigType'
    BY <1>2, SigTypeKept DEF SigInv
  <2>3. prog_s \in Plain \cup {"init_sig_3", "init_sig_4", "init_sig_5", "pending_signals_2",
                               "mysleep", "mywait"}
    BY <1>2 DEF SigInv, SigType, Sig!Code, Plain
  <2>4. killed' # "ALRM" /\ (prog_s \notin {"voodoo", "mywait"} => child_s' = "none")
    BY <1>2, <2>3, PlainKept, IgnoresKept, OnceKept, RepeatsKept, CountsKept, SleepKept,
       WaitKept
  <2>5. /\ prog_s \in Plain => PlainInv'
        /\ prog_s = "init_sig_3" => IgnoresInv'
        /\ prog_s = "init_sig_4" => OnceInv'
        /\ prog_s = "init_sig_5" => RepeatsInv'
        /\ prog_s = "pending_signals_2" => CountsInv'
        /\ prog_s = "mysleep" => SleepInv'
        /\ prog_s = "mywait" => WaitInv'
    BY <1>2, PlainKept, IgnoresKept, OnceKept, RepeatsKept, CountsKept, SleepKept, WaitKept
  <2> QED
    BY <2>1, <2>2, <2>4, <2>5 DEF SigInv, Plain
<1> QED
  BY <1>1, <1>2

(* TME4 and TME5, whatever the user sends and when, and however the alarms *)
(* and the ends of children fall: no display behind a wait that no signal  *)
(* ends is reached; what is pending twice is delivered once; mysleep       *)
(* sleeps its whole time, and mywait returns once its child has ended.     *)
THEOREM SignalsBehave == Sig!Spec => []SignalOutcome
BY SigStarts, SigKept, SigOutcome, PTL DEF Sig!Spec

-----------------------------------------------------------------------------
(* TME2 and TME3: programs that fork and wait.                             *)

Born == Fam!Cardinality(DOMAIN proc)     \* processes made, and the next pid
Father == proc[0]
Kids == Fam!Children(0)
NPasses == Passes[prog_f]

Spots == {"fork", "chain", "record", "exec", "exit", "wait", "zombie", "reaped"}
Rows == [fils : Int, pere : Int]
Desc == [at : Spots, father : Int, i : Nat, code : Nat, tab : Seq(Int \cup Rows)]

FamType ==
  /\ prog_f \in Fam!Programs
  /\ Born \in Nat \ {0} /\ DOMAIN proc = 0 .. Born - 1
  /\ proc \in [DOMAIN proc -> Desc]
  /\ failed_f \in Nat /\ status \in Nat /\ nbsolution \in Nat

Same(p) == \A q \in DOMAIN proc \ {p} : proc'[q] = proc[q]
Quiet == /\ prog_f' = prog_f /\ Born' = Born /\ DOMAIN proc' = DOMAIN proc
         /\ DOMAIN proc' = 0 .. Born - 1 /\ proc' = [q \in DOMAIN proc' |-> proc'[q]]

(* What each call does, process by process.                                *)
Forks(p) ==
  /\ \/ proc[p].at = "fork" /\ proc[p].i < Fam!Last
     \/ proc[p].at = "chain" /\ proc[p].code < proc[p].i
  /\ prog_f' = prog_f /\ Born' = Born + 1 /\ DOMAIN proc' = 0 .. Born
  /\ DOMAIN proc' = DOMAIN proc \cup {Born} /\ proc' = [q \in DOMAIN proc' |-> proc'[q]]
  /\ proc'[p] = Fam!AfterFork(proc[p], Born)
  /\ proc'[Born] = [Fam!Newborn(proc[p]) EXCEPT !.father = p]
  /\ Same(p)
  /\ UNCHANGED <<failed_f, status, nbsolution, printed>>

FailsToFork(p) ==
  /\ \/ proc[p].at = "fork" /\ proc[p].i < Fam!Last
     \/ proc[p].at = "chain" /\ proc[p].code < proc[p].i
  /\ Quiet /\ Same(p) /\ proc'[p] = Fam!AfterFail(proc[p])
  /\ failed_f' = failed_f + 1
  /\ UNCHANGED <<status, nbsolution, printed>>

EndsLoop(p) ==
  /\ Quiet /\ Same(p)
  /\ \/ /\ proc[p].at = "fork" /\ (proc[p].i = Fam!Last \/ prog_f = "spy")
        /\ proc'[p] = [proc[p] EXCEPT !.at = Fam!AfterLoop, !.i = 0]
     \/ /\ proc[p].at = "chain" /\ ~(proc[p].code < proc[p].i)
        /\ proc'[p] = [proc[p] EXCEPT !.at = "exit"]
  /\ printed' = IF prog_f = "passageDonnee" THEN proc[p].tab ELSE printed
  /\ UNCHANGED <<failed_f, status, nbsolution>>

Records(p) ==
  /\ Quiet /\ Same(p) /\ proc[p].at = "record"
  /\ proc'[p] = [proc[p] EXCEPT !.tab = Append(@, [fils |-> p, pere |-> proc[p].father]),
                                !.i = @ + 1, !.at = "fork"]
  /\ UNCHANGED <<failed_f, status, nbsolution, printed>>

Execs(p) ==
  /\ Quiet /\ Same(p) /\ proc[p].at = "exec"
  /\ \/ proc'[p] = [proc[p] EXCEPT !.at = "exit"]
     \/ prog_f = "fork_exec" /\ proc'[p] = [proc[p] EXCEPT !.at = "wait"]
  /\ UNCHANGED <<failed_f, status, nbsolution, printed>>

Reaps(p, c) ==
  /\ Quiet /\ proc[p].at = "wait"
  /\ c \in Fam!Children(p) /\ proc[c].at = "zombie"
  /\ proc'[p] = Fam!AfterWait(proc[p], c)
  /\ proc'[c] = [proc[c] EXCEPT !.at = "reaped"]
  /\ \A q \in DOMAIN proc \ {p, c} : proc'[q] = proc[q]
  /\ status' = proc[c].code
  /\ nbsolution' = IF prog_f = "decoder" THEN nbsolution + proc[c].code ELSE nbsolution
  /\ UNCHANGED <<failed_f, printed>>

ReapsNone(p) ==
  /\ Quiet /\ Same(p) /\ proc[p].at = "wait"
  /\ Fam!Children(p) = {}
  /\ proc'[p] = Fam!AfterWait(proc[p], -1)
  /\ nbsolution' = IF prog_f = "decoder" THEN nbsolution + status ELSE nbsolution
  /\ UNCHANGED <<failed_f, status, printed>>

Exits(p) ==
  /\ Quiet /\ proc[p].at = "exit"
  /\ proc'[p] = [proc[p] EXCEPT !.at = "zombie"]
  /\ \A q \in Fam!Children(p) \ {p} : proc'[q] = [proc[q] EXCEPT !.father = -1]
  /\ \A q \in DOMAIN proc \ (Fam!Children(p) \cup {p}) : proc'[q] = proc[q]
  /\ UNCHANGED <<failed_f, status, nbsolution, printed>>

LEMMA SameCount == \A S : Fam!Cardinality(S) = Cardinality(S)
BY DEF Fam!Cardinality, Cardinality

LEMMA NamesOfFamily ==
  /\ Fam!Pids = DOMAIN proc /\ Fam!Main = 0 /\ Fam!Nobody = -1 /\ Fam!Made = Born
  /\ Fam!NbFils = NPasses
BY DEF Fam!Pids, Fam!Main, Fam!Nobody, Fam!Made, Born, Fam!NbFils, NPasses

LEMMA FamSteps ==
  ASSUME FamType, Fam!Next
  PROVE  \E p \in DOMAIN proc :
           \/ Forks(p) \/ FailsToFork(p) \/ EndsLoop(p) \/ Records(p) \/ Execs(p)
           \/ (\E c \in DOMAIN proc : Reaps(p, c)) \/ ReapsNone(p) \/ Exits(p)
<1>1. PICK p \in DOMAIN proc : Fam!Step(p)
  BY NamesOfFamily DEF Fam!Next
<1>2. DOMAIN proc = 0 .. Born - 1 /\ Born \in Nat \ {0} /\ proc = [q \in DOMAIN proc |-> proc[q]]
      /\ p \in DOMAIN proc /\ p \in Nat /\ \A q \in DOMAIN proc : proc[q] \in Desc
  BY DEF FamType
<1>3. DOMAIN proc' = DOMAIN proc => Born' = Born
  BY DEF Born
<1>4. CASE Fam!Fork(p)
  <2>1. proc' = [q \in DOMAIN proc \cup {Born} |->
                  CASE q = Born -> [Fam!Newborn(proc[p]) EXCEPT !.father = p]
                    [] q = p -> Fam!AfterFork(proc[p], Born)
                    [] OTHER -> proc[q]]
    BY <1>4, NamesOfFamily DEF Fam!Fork, Born
  <2>2. DOMAIN proc' = DOMAIN proc \cup {Born} /\ DOMAIN proc' = 0 .. Born
    BY <1>2, <2>1
  <2>3. Born' = Born + 1
    <3>1. 0 \in Int /\ Born \in Int /\ 0 <= Born
      BY <1>2
    <3>2. Cardinality(0 .. Born) = Born - 0 + 1
      BY <3>1, FS_Interval
    <3>3. Cardinality(0 .. Born) = Born + 1
      BY <3>1, <3>2
    <3>4. Born' = Fam!Cardinality(0 .. Born)
      BY <2>2, Zenon DEF Born
    <3> QED
      BY <3>3, <3>4, SameCount, Zenon
  <2>4. Born \notin DOMAIN proc /\ p # Born
    BY <1>2
  <2>5. /\ proc'[p] = Fam!AfterFork(proc[p], Born)
        /\ proc'[Born] = [Fam!Newborn(proc[p]) EXCEPT !.father = p]
        /\ Same(p)
    BY <1>2, <2>1, <2>4 DEF Same
  <2>6. Forks(p)
    BY <1>4, <2>2, <2>3, <2>5 DEF Forks, Fam!Fork, Fam!Forking, Fam!at
  <2> QED
    BY <2>6
<1>5. CASE Fam!ForkFail(p)
  <2>1. FailsToFork(p)
    BY <1>2, <1>3, <1>5
    DEF FailsToFork, Fam!ForkFail, Fam!Forking, Fam!at, Quiet, Same
  <2> QED
    BY <2>1
<1>6. CASE Fam!EndLoop(p)
  <2>1. EndsLoop(p)
    BY <1>2, <1>3, <1>6
    DEF EndsLoop, Fam!EndLoop, Fam!Forking, Fam!at, Fam!Goto, Quiet, Same
  <2> QED
    BY <2>1
<1>7. CASE Fam!Record(p)
  <2>1. Records(p)
    BY <1>2, <1>3, <1>7 DEF Records, Fam!Record, Fam!at, Quiet, Same, Desc
  <2> QED
    BY <2>1
<1>8. CASE Fam!Exec(p)
  <2>1. Execs(p)
    BY <1>2, <1>3, <1>8 DEF Execs, Fam!Exec, Fam!at, Fam!Goto, Quiet, Same
  <2> QED
    BY <2>1
<1>9. CASE Fam!Wait(p)
  <2>1. CASE Fam!Children(p) = {} /\ proc' = [proc EXCEPT ![p] = Fam!AfterWait(@, Fam!Nobody)]
             /\ UNCHANGED status
    <3>1. ReapsNone(p)
      BY <1>2, <1>3, <1>9, <2>1, NamesOfFamily DEF ReapsNone, Fam!Wait, Fam!at, Quiet, Same
    <3> QED
      BY <3>1
  <2>2. ASSUME NEW c \in DOMAIN proc, Fam!Reap(p, c), status' = proc[c].code,
               proc' = [proc EXCEPT ![c] = Fam!Goto(@, "reaped"), ![p] = Fam!AfterWait(@, c)]
        PROVE  Reaps(p, c)
    <3>1. c # p
      BY <1>9, <2>2 DEF Fam!Wait, Fam!Reap, Fam!at
    <3> QED
      BY <1>2, <1>3, <1>9, <2>2, <3>1
      DEF Reaps, Fam!Wait, Fam!Reap, Fam!at, Fam!Goto, Quiet
  <2> QED
    BY <1>9, <2>1, <2>2, NamesOfFamily DEF Fam!Wait
<1>10. CASE Fam!Exit(p)
  <2>1. proc' = [c \in DOMAIN proc |->
                  IF c = p THEN [proc[c] EXCEPT !.at = "zombie"]
                  ELSE IF c \in Fam!Children(p) THEN [proc[c] EXCEPT !.father = -1]
                  ELSE proc[c]]
    BY <1>10, NamesOfFamily, Zenon DEF Fam!Exit, Fam!Goto
  <2>2. Fam!Children(p) \subseteq DOMAIN proc
    BY NamesOfFamily DEF Fam!Children
  <2>3. /\ proc'[p] = [proc[p] EXCEPT !.at = "zombie"]
        /\ \A q \in Fam!Children(p) \ {p} : proc'[q] = [proc[q] EXCEPT !.father = -1]
        /\ \A q \in DOMAIN proc \ (Fam!Children(p) \cup {p}) : proc'[q] = proc[q]
    BY <1>2, <2>1, <2>2
  <2>4. DOMAIN proc' = DOMAIN proc
    BY <2>1
  <2>5. Exits(p)
    BY <1>2, <1>3, <1>10, <2>3, <2>4 DEF Exits, Fam!Exit, Fam!at, Quiet
  <2> QED
    BY <2>5
<1> QED
  BY <1>1, <1>4, <1>5, <1>6, <1>7, <1>8, <1>9, <1>10 DEF Fam!Step

(* TME2, decoder: the square has one sum when x = 3.                       *)
LEMMA SolveIs == \A x \in Int : Fam!solve(x) = IF x = 3 THEN 1 ELSE 0
<1> SUFFICES ASSUME NEW x \in Int PROVE Fam!solve(x) = IF x = 3 THEN 1 ELSE 0
  OBVIOUS
<1> DEFINE m == Fam!Square(x, 6 + x, 8 - x, x - 2, 4 + x)
<1>1. /\ m[<<0, 0>>] = 4 /\ m[<<0, 1>>] = x /\ m[<<0, 2>>] = 8
      /\ m[<<1, 0>>] = 6 + x /\ m[<<1, 1>>] = 8 - x /\ m[<<1, 2>>] = x - 2
      /\ m[<<2, 0>>] = 2 /\ m[<<2, 1>>] = 4 + x /\ m[<<2, 2>>] = 6
  BY DEF Fam!Square
<1> HIDE DEF m
<1>2. /\ Fam!sums(m)[0] = 12 + x /\ Fam!sums(m)[1] = 12 + x /\ Fam!sums(m)[2] = 12 + x
      /\ Fam!sums(m)[3] = 12 + x /\ Fam!sums(m)[4] = 12 + x /\ Fam!sums(m)[5] = 12 + x
      /\ Fam!sums(m)[6] = 18 - x /\ Fam!sums(m)[7] = 18 - x
  BY <1>1 DEF Fam!sums
<1>3. Fam!check(m) <=> x = 3
  BY <1>2 DEF Fam!check
<1> QED
  <2>1. /\ 4 + x + 8 - (4 + 2) = 6 + x /\ 4 + x + 8 - (2 + 6) = 4 + x
        /\ 4 + x + 8 - (8 + 6) = x - 2 /\ 4 + x + 8 - ((6 + x) + (x - 2)) = 8 - x
    OBVIOUS
  <2>2. Fam!solve(x) = IF Fam!check(m) THEN 1 ELSE 0
    BY <2>1 DEF Fam!solve, m
  <2> QED
    BY <1>3, <2>2

LEMMA SolutionsAre == Fam!Solutions = {3}
<1>1. ASSUME NEW x \in 0 .. 8, NEW b, NEW c, NEW d, NEW e,
             b \in 0 .. 9, c \in 0 .. 9, d \in 0 .. 9, e \in 0 .. 9
      PROVE  LET m == Fam!Square(x, b, c, d, e) IN
             /\ Fam!sums(m)[0] = 12 + x /\ Fam!sums(m)[1] = b + c + d
             /\ Fam!sums(m)[2] = 8 + e /\ Fam!sums(m)[3] = 6 + b
             /\ Fam!sums(m)[4] = x + c + e /\ Fam!sums(m)[5] = 14 + d
             /\ Fam!sums(m)[6] = 10 + c /\ Fam!sums(m)[7] = 10 + c
  <2> DEFINE m == Fam!Square(x, b, c, d, e)
  <2>1. /\ m[<<0, 0>>] = 4 /\ m[<<0, 1>>] = x /\ m[<<0, 2>>] = 8
        /\ m[<<1, 0>>] = b /\ m[<<1, 1>>] = c /\ m[<<1, 2>>] = d
        /\ m[<<2, 0>>] = 2 /\ m[<<2, 1>>] = e /\ m[<<2, 2>>] = 6
    BY DEF Fam!Square
  <2> HIDE DEF m
  <2>2. /\ Fam!sums(m)[0] = 12 + x /\ Fam!sums(m)[1] = b + c + d
        /\ Fam!sums(m)[2] = 8 + e /\ Fam!sums(m)[3] = 6 + b
        /\ Fam!sums(m)[4] = x + c + e /\ Fam!sums(m)[5] = 14 + d
        /\ Fam!sums(m)[6] = 10 + c /\ Fam!sums(m)[7] = 10 + c
    BY <1>1, <2>1 DEF Fam!sums
  <2> QED
    BY <2>2 DEF m
<1> DEFINE Magic(x, b, c, d, e) ==
      \A i, j \in 0 .. 7 : Fam!sums(Fam!Square(x, b, c, d, e))[i]
                             = Fam!sums(Fam!Square(x, b, c, d, e))[j]
<1>2. Magic(3, 9, 5, 1, 7)
  <2> DEFINE m == Fam!Square(3, 9, 5, 1, 7)
  <2>1. /\ Fam!sums(m)[0] = 15 /\ Fam!sums(m)[1] = 15 /\ Fam!sums(m)[2] = 15
        /\ Fam!sums(m)[3] = 15 /\ Fam!sums(m)[4] = 15 /\ Fam!sums(m)[5] = 15
        /\ Fam!sums(m)[6] = 15 /\ Fam!sums(m)[7] = 15
    BY <1>1
  <2> HIDE DEF m
  <2>2. \A i \in 0 .. 7 : Fam!sums(m)[i] = 15
    BY <2>1
  <2> QED
    BY <2>2 DEF m
<1>3. ASSUME NEW x \in 0 .. 8, NEW b \in 0 .. 9, NEW c \in 0 .. 9, NEW d \in 0 .. 9,
             NEW e \in 0 .. 9, Magic(x, b, c, d, e)
      PROVE  x = 3
  <2> DEFINE m == Fam!Square(x, b, c, d, e)
  <2>1. /\ Fam!sums(m)[0] = 12 + x /\ Fam!sums(m)[1] = b + c + d
        /\ Fam!sums(m)[2] = 8 + e /\ Fam!sums(m)[3] = 6 + b
        /\ Fam!sums(m)[5] = 14 + d /\ Fam!sums(m)[6] = 10 + c
    BY <1>1
  <2> HIDE DEF m
  <2>2. \A i, j \in 0 .. 7 : Fam!sums(m)[i] = Fam!sums(m)[j]
    BY <1>3 DEF m
  <2>3. /\ Fam!sums(m)[0] = Fam!sums(m)[1] /\ Fam!sums(m)[0] = Fam!sums(m)[3]
        /\ Fam!sums(m)[0] = Fam!sums(m)[5] /\ Fam!sums(m)[0] = Fam!sums(m)[6]
    BY <2>2
  <2> QED
    BY <2>1, <2>3
<1> HIDE DEF Magic
<1>4. Fam!Solutions = {x \in 0 .. 8 : \E b, c, d, e \in 0 .. 9 : Magic(x, b, c, d, e)}
  BY DEF Fam!Solutions, Magic
<1>5. 3 \in Fam!Solutions
  <2>1. 3 \in 0 .. 8 /\ 9 \in 0 .. 9 /\ 5 \in 0 .. 9 /\ 1 \in 0 .. 9 /\ 7 \in 0 .. 9
    OBVIOUS
  <2> QED
    BY <1>2, <1>4, <2>1, Zenon
<1>6. \A x \in Fam!Solutions : x = 3
  BY <1>3, <1>4, Zenon
<1> QED
  BY <1>5, <1>6, Zenon

LEMMA Fields ==
  ASSUME NEW r \in Desc
  PROVE  /\ r.at \in Spots /\ r.father \in Int /\ r.i \in Nat /\ r.code \in Nat
         /\ r.tab \in Seq(Int \cup Rows)
BY DEF Desc

LEMMA OneField ==
  ASSUME NEW r \in Desc
  PROVE  /\ \A l \in Spots : [r EXCEPT !.at = l] \in Desc /\ [r EXCEPT !.at = l].at = l
         /\ \A f \in Int : /\ [r EXCEPT !.father = f] \in Desc
                          /\ [r EXCEPT !.father = f].at = r.at
         /\ \A n \in Nat : [r EXCEPT !.i = n] \in Desc /\ [r EXCEPT !.i = n].at = r.at
         /\ \A n \in Nat : [r EXCEPT !.code = n] \in Desc /\ [r EXCEPT !.code = n].at = r.at
         /\ \A t \in Seq(Int \cup Rows) : /\ [r EXCEPT !.tab = t] \in Desc
                                         /\ [r EXCEPT !.tab = t].at = r.at
<1>1. \A l \in Spots : [r EXCEPT !.at = l] \in Desc /\ [r EXCEPT !.at = l].at = l
  BY DEF Desc
<1>2. \A f \in Int : [r EXCEPT !.father = f] \in Desc /\ [r EXCEPT !.father = f].at = r.at
  BY DEF Desc
<1>3. \A n \in Nat : [r EXCEPT !.i = n] \in Desc /\ [r EXCEPT !.i = n].at = r.at
  BY DEF Desc
<1>4. \A n \in Nat : [r EXCEPT !.code = n] \in Desc /\ [r EXCEPT !.code = n].at = r.at
  BY DEF Desc
<1>5. \A t \in Seq(Int \cup Rows) : /\ [r EXCEPT !.tab = t] \in Desc
                                   /\ [r EXCEPT !.tab = t].at = r.at
  BY DEF Desc
<1> QED
  BY <1>1, <1>2, <1>3, <1>4, <1>5

LEMMA TwoFields ==
  ASSUME NEW r \in Desc
  PROVE  /\ \A l \in Spots, n \in Nat :
              /\ [r EXCEPT !.i = n, !.at = l] \in Desc /\ [r EXCEPT !.i = n, !.at = l].at = l
              /\ [r EXCEPT !.at = l, !.i = n] \in Desc /\ [r EXCEPT !.at = l, !.i = n].at = l
              /\ /\ [r EXCEPT !.at = l, !.code = n] \in Desc
                 /\ [r EXCEPT !.at = l, !.code = n].at = l
         /\ \A l \in Spots, n \in Nat, t \in Seq(Int \cup Rows) :
              /\ [r EXCEPT !.i = n, !.tab = t] \in Desc
              /\ [r EXCEPT !.i = n, !.tab = t].at = r.at
              /\ [r EXCEPT !.tab = t, !.i = n, !.at = l] \in Desc
              /\ [r EXCEPT !.tab = t, !.i = n, !.at = l].at = l
<1> SUFFICES
      ASSUME NEW l \in Spots, NEW n \in Nat
      PROVE  /\ [r EXCEPT !.i = n, !.at = l] \in Desc /\ [r EXCEPT !.i = n, !.at = l].at = l
             /\ [r EXCEPT !.at = l, !.i = n] \in Desc /\ [r EXCEPT !.at = l, !.i = n].at = l
             /\ [r EXCEPT !.at = l, !.code = n] \in Desc
             /\ [r EXCEPT !.at = l, !.code = n].at = l
             /\ \A t \in Seq(Int \cup Rows) :
                  /\ [r EXCEPT !.i = n, !.tab = t] \in Desc
                  /\ [r EXCEPT !.i = n, !.tab = t].at = r.at
                  /\ [r EXCEPT !.tab = t, !.i = n, !.at = l] \in Desc
                  /\ [r EXCEPT !.tab = t, !.i = n, !.at = l].at = l
  BY Zenon
<1>1. /\ [r EXCEPT !.i = n, !.at = l] = [[r EXCEPT !.i = n] EXCEPT !.at = l]
      /\ [r EXCEPT !.at = l, !.i = n] = [[r EXCEPT !.at = l] EXCEPT !.i = n]
      /\ [r EXCEPT !.at = l, !.code = n] = [[r EXCEPT !.at = l] EXCEPT !.code = n]
  BY DEF Desc
<1>2. [r EXCEPT !.i = n, !.at = l] \in Desc /\ [r EXCEPT !.i = n, !.at = l].at = l
  <2>1. [r EXCEPT !.i = n] \in Desc /\ [r EXCEPT !.i = n].at = r.at
    BY OneField
  <2>2. [[r EXCEPT !.i = n] EXCEPT !.at = l] \in Desc
    BY <2>1, OneField
  <2>3. [[r EXCEPT !.i = n] EXCEPT !.at = l].at = l
    BY <2>1, OneField
  <2> QED
    BY <1>1, <2>2, <2>3
<1>3. [r EXCEPT !.at = l, !.i = n] \in Desc /\ [r EXCEPT !.at = l, !.i = n].at = l
  <2>1. [r EXCEPT !.at = l] \in Desc /\ [r EXCEPT !.at = l].at = l
    BY OneField
  <2>2. [[r EXCEPT !.at = l] EXCEPT !.i = n] \in Desc
    BY <2>1, OneField
  <2>3. [[r EXCEPT !.at = l] EXCEPT !.i = n].at = l
    BY <2>1, OneField
  <2> QED
    BY <1>1, <2>2, <2>3
<1>4. [r EXCEPT !.at = l, !.code = n] \in Desc /\ [r EXCEPT !.at = l, !.code = n].at = l
  <2>1. [r EXCEPT !.at = l] \in Desc /\ [r EXCEPT !.at = l].at = l
    BY OneField
  <2>2. [[r EXCEPT !.at = l] EXCEPT !.code = n] \in Desc
    BY <2>1, OneField
  <2>3. [[r EXCEPT !.at = l] EXCEPT !.code = n].at = l
    BY <2>1, OneField
  <2> QED
    BY <1>1, <2>2, <2>3
<1>5. ASSUME NEW t \in Seq(Int \cup Rows)
      PROVE  [r EXCEPT !.i = n, !.tab = t] \in Desc /\ [r EXCEPT !.i = n, !.tab = t].at = r.at
  <2>1. [r EXCEPT !.i = n] \in Desc /\ [r EXCEPT !.i = n].at = r.at
    BY OneField
  <2>2. [[r EXCEPT !.i = n] EXCEPT !.tab = t] \in Desc
    BY <2>1, OneField
  <2>3. [[r EXCEPT !.i = n] EXCEPT !.tab = t].at = r.at
    BY <2>1, OneField
  <2>4. [r EXCEPT !.i = n, !.tab = t] = [[r EXCEPT !.i = n] EXCEPT !.tab = t]
    BY DEF Desc
  <2> QED
    BY <2>2, <2>3, <2>4
<1>6. ASSUME NEW t \in Seq(Int \cup Rows)
      PROVE  /\ [r EXCEPT !.tab = t, !.i = n, !.at = l] \in Desc
             /\ [r EXCEPT !.tab = t, !.i = n, !.at = l].at = l
  <2>1. [r EXCEPT !.tab = t] \in Desc
    BY OneField
  <2>2. [[r EXCEPT !.tab = t] EXCEPT !.i = n] \in Desc
    BY <2>1, OneField
  <2>3. /\ [[[r EXCEPT !.tab = t] EXCEPT !.i = n] EXCEPT !.at = l] \in Desc
        /\ [[[r EXCEPT !.tab = t] EXCEPT !.i = n] EXCEPT !.at = l].at = l
    BY <2>2, OneField
  <2>4. [r EXCEPT !.tab = t, !.i = n, !.at = l]
           = [[[r EXCEPT !.tab = t] EXCEPT !.i = n] EXCEPT !.at = l]
    BY DEF Desc
  <2> QED
    BY <2>3, <2>4
<1> QED
  BY <1>2, <1>3, <1>4, <1>5, <1>6

LEMMA DescKept ==
  ASSUME NEW r \in Desc
  PROVE  /\ \A l \in Spots : [r EXCEPT !.at = l] \in Desc
         /\ \A f \in Int : [r EXCEPT !.father = f] \in Desc
         /\ \A c \in Int : Fam!AfterFork(r, c) \in Desc
         /\ Fam!AfterFail(r) \in Desc
         /\ \A c \in Int : Fam!AfterWait(r, c) \in Desc
<1>1. \A l \in Spots : [r EXCEPT !.at = l] \in Desc
  BY DEF Desc
<1>2. \A f \in Int : [r EXCEPT !.father = f] \in Desc
  BY DEF Desc
<1>3. ASSUME NEW c \in Int PROVE Fam!AfterFork(r, c) \in Desc
  <2>1. Append(r.tab, c) \in Seq(Int \cup Rows)
    BY DEF Desc
  <2>2. /\ [r EXCEPT !.i = @ + 1, !.tab = Append(@, c)] \in Desc
        /\ [r EXCEPT !.i = @ + 1, !.tab = @] \in Desc
        /\ [r EXCEPT !.i = @ + 1] \in Desc
    <3>1. r.i + 1 \in Nat /\ r.tab \in Seq(Int \cup Rows) /\ "exit" \in Spots
      BY Fields DEF Spots
    <3>2. [r EXCEPT !.i = @ + 1] \in Desc
      BY <3>1, OneField, Zenon
    <3>3. \A t \in Seq(Int \cup Rows) : [r EXCEPT !.i = @ + 1, !.tab = t] \in Desc
      BY <3>1, TwoFields, Zenon
    <3> QED
      BY <2>1, <3>1, <3>2, <3>3, Zenon
  <2>3. Fam!Next1(r, c) \in Desc
    BY <2>2 DEF Fam!Next1
  <2>4. \A q \in Desc : [q EXCEPT !.at = "exit"] \in Desc /\ [q EXCEPT !.at = "wait"] \in Desc
    BY DEF Desc, Spots
  <2> QED
    BY <2>2, <2>3, <2>4, Zenon DEF Fam!AfterFork, Fam!Goto
<1>4. Fam!AfterFail(r) \in Desc
  <2>1. Fam!Nobody \in Int
    BY NamesOfFamily
  <2> QED
    BY <1>3, <2>1 DEF Fam!AfterFail, Fam!ExitWith, Desc, Spots
<1>5. ASSUME NEW c \in Int PROVE Fam!AfterWait(r, c) \in Desc
  <2>1. /\ [r EXCEPT !.at = "fork"] \in Desc
        /\ [r EXCEPT !.at = "exit", !.code = 2] \in Desc
        /\ [r EXCEPT !.i = @ + 1, !.at = "exit"] \in Desc
        /\ [r EXCEPT !.i = @ + 1, !.at = "wait"] \in Desc
    <3>1. /\ r.i + 1 \in Nat /\ 2 \in Nat /\ r.tab \in Seq(Int \cup Rows)
          /\ "fork" \in Spots /\ "exit" \in Spots /\ "wait" \in Spots
      BY Fields DEF Spots
    <3>2. [r EXCEPT !.at = "fork"] \in Desc
      BY <3>1, OneField, Zenon
    <3>3. [r EXCEPT !.at = "exit", !.code = 2] \in Desc
      BY <3>1, TwoFields, Zenon
    <3>4. \A l \in Spots : [r EXCEPT !.i = @ + 1, !.at = l] \in Desc
      BY <3>1, TwoFields, Zenon
    <3> QED
      BY <3>1, <3>2, <3>3, <3>4, Zenon
  <2> QED
    BY <2>1 DEF Fam!AfterWait, Fam!Goto, Fam!ExitWith
<1> QED
  BY <1>1, <1>2, <1>3, <1>4, <1>5

(* Where the calls leave a process.                                        *)
LEMMA SpotsAfter ==
  ASSUME NEW r \in Desc
  PROVE  /\ \A c \in Int : Fam!AfterFork(r, c).at \in {r.at, "exit", "wait"}
         /\ Fam!AfterFail(r).at \in {r.at, "exit", "wait"}
         /\ \A c \in Int : Fam!AfterWait(r, c).at \in {"fork", "exit", "wait"}
<1>1. \A c \in Int : Fam!AfterFork(r, c).at \in {r.at, "exit", "wait"}
  BY DEF Fam!AfterFork, Fam!Next1, Fam!Goto, Desc
<1>2. Fam!AfterFail(r).at \in {r.at, "exit", "wait"}
  BY <1>1, NamesOfFamily DEF Fam!AfterFail, Fam!ExitWith, Desc
<1>3. \A c \in Int : Fam!AfterWait(r, c).at \in {"fork", "exit", "wait"}
  BY DEF Fam!AfterWait, Fam!Goto, Fam!ExitWith, Desc
<1> QED
  BY <1>1, <1>2, <1>3

LEMMA NewbornIs ==
  ASSUME NEW r \in Desc, prog_f \in Fam!Programs,
         r.at = "fork" \/ (r.at = "chain" /\ prog_f = "arbreCreation")
  PROVE  Fam!Newborn(r) \in Desc /\ (Fam!Newborn(r).at = "chain" => prog_f = "arbreCreation")
<1>1. Fam!solve(r.i) \in Nat
  BY SolveIs DEF Desc
<1>2. /\ [r EXCEPT !.at = "chain"] \in Desc /\ [r EXCEPT !.code = @ + 1] \in Desc
      /\ [r EXCEPT !.at = "exit", !.code = 0] \in Desc
      /\ [r EXCEPT !.at = "exit", !.code = 1] \in Desc
      /\ [r EXCEPT !.at = "exit", !.code = Fam!solve(r.i)] \in Desc
      /\ [r EXCEPT !.at = "record", !.code = 2] \in Desc
      /\ [r EXCEPT !.at = "exec"] \in Desc
  <2>1. /\ r.code + 1 \in Nat /\ 0 \in Nat /\ 1 \in Nat /\ 2 \in Nat
        /\ r.tab \in Seq(Int \cup Rows)
        /\ "chain" \in Spots /\ "exit" \in Spots /\ "record" \in Spots /\ "exec" \in Spots
    BY Fields DEF Spots
  <2>2. [r EXCEPT !.at = "chain"] \in Desc /\ [r EXCEPT !.at = "exec"] \in Desc
    BY <2>1, OneField, Zenon
  <2>3. [r EXCEPT !.code = @ + 1] \in Desc
    BY <2>1, OneField, Zenon
  <2>4. \A l \in Spots, n \in Nat : [r EXCEPT !.at = l, !.code = n] \in Desc
    BY TwoFields, Zenon
  <2>5. /\ [r EXCEPT !.at = "exit", !.code = 0] \in Desc
        /\ [r EXCEPT !.at = "exit", !.code = 1] \in Desc
        /\ [r EXCEPT !.at = "record", !.code = 2] \in Desc
    BY <2>1, <2>4, Zenon
  <2>6. [r EXCEPT !.at = "exit", !.code = Fam!solve(r.i)] \in Desc
    BY <1>1, <2>1, <2>4, Zenon
  <2> QED
    BY <2>2, <2>3, <2>5, <2>6, Zenon
<1>3. Fam!Newborn(r) \in Desc
  BY <1>2 DEF Fam!Newborn, Fam!Programs, Fam!Goto, Fam!ExitWith
<1>4. Fam!Newborn(r).at = "chain" => prog_f = "arbreCreation"
  BY <1>1 DEF Fam!Newborn, Fam!Programs, Fam!Goto, Fam!ExitWith, Desc
<1> QED
  BY <1>3, <1>4

(* Only arbreCreation has processes in a chain.                            *)
Chained == \A p \in DOMAIN proc : proc[p].at = "chain" => prog_f = "arbreCreation"

LEMMA FamTypeKept ==
  ASSUME FamType, Chained, Fam!Next
  PROVE  FamType' /\ Chained'
<1>1. PICK p \in DOMAIN proc :
           \/ Forks(p) \/ FailsToFork(p) \/ EndsLoop(p) \/ Records(p) \/ Execs(p)
           \/ (\E c \in DOMAIN proc : Reaps(p, c)) \/ ReapsNone(p) \/ Exits(p)
  BY FamSteps
<1>2. /\ \A q \in DOMAIN proc : proc[q] \in Desc /\ q \in Int
      /\ prog_f \in Fam!Programs /\ Born \in Nat \ {0} /\ DOMAIN proc = 0 .. Born - 1
      /\ failed_f \in Nat /\ status \in Nat /\ nbsolution \in Nat
      /\ Born \in Int /\ -1 \in Int
      /\ {"exit", "wait", "fork", "zombie", "reaped"} \subseteq Spots
  BY DEF FamType, Spots
<1>3. \/ Forks(p) /\ Born' = Born + 1 /\ DOMAIN proc' = 0 .. Born
      \/ Quiet
  BY <1>1 DEF Forks, FailsToFork, EndsLoop, Records, Execs, Reaps, ReapsNone, Exits
<1>4. prog_f' = prog_f /\ Born' \in Nat \ {0} /\ DOMAIN proc' = 0 .. Born' - 1
  BY <1>2, <1>3 DEF Quiet, Forks
<1>5. failed_f' \in Nat
  <2>1. failed_f' = failed_f \/ failed_f' = failed_f + 1
    BY <1>1 DEF Forks, FailsToFork, EndsLoop, Records, Execs, Reaps, ReapsNone, Exits
  <2> QED
    BY <1>2, <2>1
<1>6. status' \in Nat /\ nbsolution' \in Nat
  <2>1. \A c \in DOMAIN proc : proc[c].code \in Nat
    BY <1>2 DEF Desc
  <2>2. status' = status \/ \E c \in DOMAIN proc : status' = proc[c].code
    BY <1>1 DEF Forks, FailsToFork, EndsLoop, Records, Execs, Reaps, ReapsNone, Exits
  <2>3. \/ nbsolution' = nbsolution \/ nbsolution' = nbsolution + status
        \/ \E c \in DOMAIN proc : nbsolution' = nbsolution + proc[c].code
    BY <1>1 DEF Forks, FailsToFork, EndsLoop, Records, Execs, Reaps, ReapsNone, Exits
  <2> QED
    BY <1>2, <2>1, <2>2, <2>3
<1> DEFINE Fine(q) == proc'[q] \in Desc /\ (proc'[q].at = "chain" => prog_f = "arbreCreation")
<1>7. \A q \in DOMAIN proc : proc'[q] = proc[q] => Fine(q)
  BY <1>2 DEF Chained
<1>8. ASSUME NEW q \in DOMAIN proc, NEW r \in Desc, proc'[q] = r,
             r.at \in {proc[q].at, "exit", "wait", "fork", "zombie", "reaped"}
      PROVE  Fine(q)
  BY <1>8 DEF Chained
<1>9. \A q \in DOMAIN proc, l \in {"exit", "wait", "fork", "zombie", "reaped"} :
        [proc[q] EXCEPT !.at = l] \in Desc /\ [proc[q] EXCEPT !.at = l].at = l
  BY <1>2, OneField
<1> HIDE DEF Fine
<1>10. ASSUME Forks(p) PROVE \A q \in DOMAIN proc' : Fine(q)
  <2>1. Fine(p)
    <3>1. proc'[p] = Fam!AfterFork(proc[p], Born)
      BY <1>10 DEF Forks
    <3>2. Fam!AfterFork(proc[p], Born) \in Desc
      BY <1>2, DescKept, Zenon
    <3>3. Fam!AfterFork(proc[p], Born).at \in {proc[p].at, "exit", "wait", "fork"}
      BY <1>2, SpotsAfter
    <3> QED
      BY <1>8, <3>1, <3>2, <3>3
  <2>2. Fine(Born)
    <3>1. proc[p].at = "fork" \/ (proc[p].at = "chain" /\ prog_f = "arbreCreation")
      <4>1. proc[p].at = "fork" \/ proc[p].at = "chain"
        BY <1>10 DEF Forks
      <4> QED
        BY <1>1, <4>1 DEF Chained
    <3>2. /\ Fam!Newborn(proc[p]) \in Desc
          /\ Fam!Newborn(proc[p]).at = "chain" => prog_f = "arbreCreation"
      BY <1>2, <3>1, NewbornIs
    <3>3. /\ [Fam!Newborn(proc[p]) EXCEPT !.father = p] \in Desc
          /\ [Fam!Newborn(proc[p]) EXCEPT !.father = p].at = Fam!Newborn(proc[p]).at
      BY <1>2, <3>2, DescKept DEF Desc
    <3> QED
      BY <1>10, <3>2, <3>3 DEF Forks, Fine
  <2> QED
    BY <1>7, <1>10, <2>1, <2>2 DEF Forks, Same
<1>11. ASSUME FailsToFork(p) PROVE \A q \in DOMAIN proc' : Fine(q)
  <2>1. Fine(p)
    <3>1. proc'[p] = Fam!AfterFail(proc[p])
      BY <1>11 DEF FailsToFork
    <3>2. Fam!AfterFail(proc[p]) \in Desc
      BY <1>2, DescKept, Zenon
    <3>3. Fam!AfterFail(proc[p]).at \in {proc[p].at, "exit", "wait", "fork"}
      BY <1>2, SpotsAfter
    <3> QED
      BY <1>8, <3>1, <3>2, <3>3
  <2> QED
    BY <1>7, <1>11, <2>1 DEF FailsToFork, Same, Quiet
<1>12. ASSUME EndsLoop(p) PROVE \A q \in DOMAIN proc' : Fine(q)
  <2>1. Fam!AfterLoop \in {"exit", "wait"}
    BY DEF Fam!AfterLoop
  <2>2. /\ [proc[p] EXCEPT !.at = Fam!AfterLoop, !.i = 0] \in Desc
        /\ [proc[p] EXCEPT !.at = Fam!AfterLoop, !.i = 0].at = Fam!AfterLoop
    <3>1. PICK r \in Desc : r = proc[p]
      BY <1>2
    <3>2. r.tab \in Seq(Int \cup Rows) /\ Fam!AfterLoop \in Spots /\ 0 \in Nat
      BY <1>2, <2>1, <3>1, Fields
    <3>3. /\ [r EXCEPT !.at = Fam!AfterLoop, !.i = 0] \in Desc
          /\ [r EXCEPT !.at = Fam!AfterLoop, !.i = 0].at = Fam!AfterLoop
      <4>0. /\ [r EXCEPT !.at = Fam!AfterLoop] \in Desc
            /\ [r EXCEPT !.at = Fam!AfterLoop].at = Fam!AfterLoop
        BY <3>2, OneField, Zenon
      <4>1. PICK q \in Desc : q = [r EXCEPT !.at = Fam!AfterLoop] /\ q.at = Fam!AfterLoop
        BY <4>0, Zenon
      <4>2. [q EXCEPT !.i = 0] \in Desc /\ [q EXCEPT !.i = 0].at = Fam!AfterLoop
        BY <3>2, <4>1, OneField
      <4> QED
        BY <4>1, <4>2
    <3> QED
      BY <3>1, <3>3, Zenon
  <2>3. Fine(p)
    <3>1. \/ proc'[p] = [proc[p] EXCEPT !.at = Fam!AfterLoop, !.i = 0]
          \/ proc'[p] = [proc[p] EXCEPT !.at = "exit"]
      BY <1>12 DEF EndsLoop
    <3>2. CASE proc'[p] = [proc[p] EXCEPT !.at = Fam!AfterLoop, !.i = 0]
      BY <1>8, <2>1, <2>2, <3>2
    <3>3. CASE proc'[p] = [proc[p] EXCEPT !.at = "exit"]
      BY <1>8, <1>9, <3>3
    <3> QED
      BY <3>1, <3>2, <3>3
  <2> QED
    BY <1>7, <1>12, <2>3 DEF EndsLoop, Same, Quiet
<1>13. ASSUME Records(p) PROVE \A q \in DOMAIN proc' : Fine(q)
  <2>1. proc[p].father \in Int /\ p \in Int /\ proc[p].tab \in Seq(Int \cup Rows)
    BY <1>2 DEF Desc
  <2>2. [fils |-> p, pere |-> proc[p].father] \in Int \cup Rows
    BY <2>1 DEF Rows
  <2>3. Append(proc[p].tab, [fils |-> p, pere |-> proc[p].father]) \in Seq(Int \cup Rows)
    BY <2>1, <2>2
  <2> DEFINE t == Append(proc[p].tab, [fils |-> p, pere |-> proc[p].father])
  <2>4. proc[p].i + 1 \in Nat /\ proc[p] \in Desc /\ "fork" \in Spots
    BY <1>2, Fields
  <2>5. proc'[p] = [proc[p] EXCEPT !.tab = t, !.i = proc[p].i + 1, !.at = "fork"]
    BY <1>13 DEF Records
  <2> HIDE DEF t
  <2>6. /\ [proc[p] EXCEPT !.tab = t, !.i = proc[p].i + 1, !.at = "fork"] \in Desc
        /\ [proc[p] EXCEPT !.tab = t, !.i = proc[p].i + 1, !.at = "fork"].at = "fork"
    <3>1. t \in Seq(Int \cup Rows)
      BY <2>3, Zenon DEF t
    <3>2. PICK r \in Desc : r = proc[p]
      BY <2>4
    <3>3. PICK n \in Nat : n = proc[p].i + 1
      BY <2>4
    <3>4. /\ [r EXCEPT !.tab = t, !.i = n, !.at = "fork"] \in Desc
          /\ [r EXCEPT !.tab = t, !.i = n, !.at = "fork"].at = "fork"
      <4>1. PICK q \in Desc : q = [r EXCEPT !.tab = t]
        BY <3>1, OneField
      <4>2. PICK o \in Desc : o = [q EXCEPT !.i = n]
        BY <3>3, OneField
      <4>3. [o EXCEPT !.at = "fork"] \in Desc /\ [o EXCEPT !.at = "fork"].at = "fork"
        BY <2>4, <4>2, OneField
      <4> QED
        BY <4>1, <4>2, <4>3
    <3> QED
      BY <3>2, <3>3, <3>4, Zenon
  <2>7. Fine(p)
    BY <1>8, <2>5, <2>6
  <2> QED
    BY <1>7, <1>13, <2>7 DEF Records, Same, Quiet
<1>14. ASSUME Execs(p) PROVE \A q \in DOMAIN proc' : Fine(q)
  <2>1. \/ proc'[p] = [proc[p] EXCEPT !.at = "exit"]
        \/ proc'[p] = [proc[p] EXCEPT !.at = "wait"]
    BY <1>14 DEF Execs
  <2>2. Fine(p)
    BY <1>8, <1>9, <2>1
  <2> QED
    BY <1>7, <1>14, <2>2 DEF Execs, Same, Quiet
<1>15. ASSUME NEW c \in DOMAIN proc, Reaps(p, c) PROVE \A q \in DOMAIN proc' : Fine(q)
  <2>1. Fine(p)
    <3>1. proc'[p] = Fam!AfterWait(proc[p], c)
      BY <1>15 DEF Reaps
    <3>2. Fam!AfterWait(proc[p], c) \in Desc
      BY <1>2, DescKept, Zenon
    <3>3. Fam!AfterWait(proc[p], c).at \in {proc[p].at, "exit", "wait", "fork"}
      BY <1>2, SpotsAfter
    <3> QED
      BY <1>8, <3>1, <3>2, <3>3
  <2>2. Fine(c)
    <3>1. proc'[c] = [proc[c] EXCEPT !.at = "reaped"]
      BY <1>15 DEF Reaps
    <3> QED
      BY <1>8, <1>9, <3>1
  <2> QED
    BY <1>7, <1>15, <2>1, <2>2 DEF Reaps, Quiet
<1>16. ASSUME ReapsNone(p) PROVE \A q \in DOMAIN proc' : Fine(q)
  <2>1. Fine(p)
    <3>1. proc'[p] = Fam!AfterWait(proc[p], -1)
      BY <1>16 DEF ReapsNone
    <3>2. Fam!AfterWait(proc[p], -1) \in Desc
      BY <1>2, DescKept, Zenon
    <3>3. Fam!AfterWait(proc[p], -1).at \in {proc[p].at, "exit", "wait", "fork"}
      BY <1>2, SpotsAfter
    <3> QED
      BY <1>8, <3>1, <3>2, <3>3
  <2> QED
    BY <1>7, <1>16, <2>1 DEF ReapsNone, Same, Quiet
<1>17. ASSUME Exits(p) PROVE \A q \in DOMAIN proc' : Fine(q)
  <2>1. Fine(p)
    <3>1. proc'[p] = [proc[p] EXCEPT !.at = "zombie"]
      BY <1>17 DEF Exits
    <3> QED
      BY <1>8, <1>9, <3>1
  <2>2. ASSUME NEW q \in DOMAIN proc, q \in Fam!Children(p) \ {p} PROVE Fine(q)
    <3>1. -1 \in Int
      OBVIOUS
    <3>2. [proc[q] EXCEPT !.father = -1] \in Desc
      BY <1>2, <3>1, DescKept
    <3>3. [proc[q] EXCEPT !.father = -1].at = proc[q].at
      BY <1>2 DEF Desc
    <3> QED
      BY <1>8, <1>17, <2>2, <3>2, <3>3 DEF Exits
  <2> QED
    BY <1>7, <1>17, <2>1, <2>2 DEF Exits, Quiet
<1>18. \A q \in DOMAIN proc' : Fine(q)
  BY <1>1, <1>10, <1>11, <1>12, <1>13, <1>14, <1>15, <1>16, <1>17
<1>19. proc' \in [DOMAIN proc' -> Desc]
  <2>1. proc' = [q \in DOMAIN proc' |-> proc'[q]]
    BY <1>3 DEF Forks, Quiet
  <2> QED
    BY <1>18, <2>1 DEF Fine
<1> QED
  BY <1>2, <1>4, <1>5, <1>6, <1>18, <1>19 DEF FamType, Chained, Fine

(* A call leaves the father of the process that makes it.                  *)
LEMMA FatherKept ==
  ASSUME NEW r \in Desc
  PROVE  /\ \A c \in Int : Fam!AfterFork(r, c).father = r.father
         /\ Fam!AfterFail(r).father = r.father
         /\ \A c \in Int : Fam!AfterWait(r, c).father = r.father
<1>1. \A c \in Int : Fam!AfterFork(r, c).father = r.father
  BY DEF Fam!AfterFork, Fam!Next1, Fam!Goto, Desc
<1>2. Fam!AfterFail(r).father = r.father
  BY <1>1, NamesOfFamily DEF Fam!AfterFail, Fam!ExitWith, Desc
<1>3. \A c \in Int : Fam!AfterWait(r, c).father = r.father
  BY DEF Fam!AfterWait, Fam!Goto, Fam!ExitWith, Desc
<1> QED
  BY <1>1, <1>2, <1>3

LEMMA NewbornAt ==
  ASSUME NEW r \in Desc, prog_f \in Fam!Programs, r.at = "fork" \/ r.at = "chain"
  PROVE  Fam!Newborn(r).at \in {"chain", "exit", "record", "exec"}
BY DEF Fam!Newborn, Fam!Programs, Fam!Goto, Fam!ExitWith, Desc

LEMMA KidsAre == Kids = {c \in DOMAIN proc : proc[c].father = 0 /\ proc[c].at # "reaped"}
BY NamesOfFamily DEF Kids, Fam!Children, Fam!at

LEMMA KidsFinite ==
  ASSUME FamType
  PROVE  Kids \subseteq DOMAIN proc /\ IsFiniteSet(Kids) /\ Cardinality(Kids) \in Nat
<1>1. Kids \subseteq 0 .. Born - 1 /\ 0 \in Int /\ Born - 1 \in Int
  BY KidsAre DEF FamType
<1>2. IsFiniteSet(Kids)
  BY <1>1, FS_Interval, FS_Subset
<1> QED
  BY <1>2, KidsAre, FS_CardinalityType

Rooted == FamType /\ Chained /\ Father.father = -1

(* The children that the first process has not waited for, and what a call *)
(* of the process p changes.                                               *)
KidsStep(p) ==
  \/ Forks(p) /\ Kids' = IF p = 0 THEN Kids \cup {Born} ELSE Kids
  \/ FailsToFork(p) /\ Kids' = Kids
  \/ EndsLoop(p) /\ Kids' = Kids
  \/ Records(p) /\ Kids' = Kids
  \/ Execs(p) /\ Kids' = Kids
  \/ \E c \in DOMAIN proc \ {p} : /\ Reaps(p, c) /\ Kids' = Kids \ {c} /\ (p = 0 => c \in Kids)
                                  /\ proc[c].father = p
  \/ ReapsNone(p) /\ Kids' = Kids /\ (p = 0 => Kids = {})
  \/ Exits(p) /\ Kids' = IF p = 0 THEN {} ELSE Kids

LEMMA KidsSteps ==
  ASSUME Rooted, Fam!Next
  PROVE  Father'.father = -1 /\ \E p \in DOMAIN proc : KidsStep(p)
<1>1. PICK p \in DOMAIN proc :
           \/ Forks(p) \/ FailsToFork(p) \/ EndsLoop(p) \/ Records(p) \/ Execs(p)
           \/ (\E c \in DOMAIN proc : Reaps(p, c)) \/ ReapsNone(p) \/ Exits(p)
  BY FamSteps DEF Rooted
<1>2. /\ \A q \in DOMAIN proc : proc[q] \in Desc /\ q \in Int /\ q # -1
      /\ 0 \in DOMAIN proc /\ Born \notin DOMAIN proc /\ Born \in Int /\ -1 \in Int
      /\ prog_f \in Fam!Programs /\ proc[0].father = -1
  BY DEF FamType, Rooted, Father
<1>3. Kids' = {c \in DOMAIN proc' : proc'[c].father = 0 /\ proc'[c].at # "reaped"}
  BY DEF Kids, Fam!Children, Fam!Pids, Fam!at
<1>4. Fam!Children(p) = {c \in DOMAIN proc : proc[c].father = p /\ proc[c].at # "reaped"}
  BY NamesOfFamily DEF Fam!Children, Fam!at
<1>5. ASSUME Same(p), DOMAIN proc' = DOMAIN proc, proc[p].at # "reaped", proc'[p].at # "reaped",
             proc'[p].father = proc[p].father
      PROVE  Kids' = Kids /\ Father'.father = -1
  BY <1>2, <1>3, <1>5, KidsAre DEF Same, Father
<1>6. ASSUME Forks(p)
      PROVE  /\ Kids' = IF p = 0 THEN Kids \cup {Born} ELSE Kids
             /\ Father'.father = -1
  <2>1. /\ proc[p].at # "reaped" /\ proc'[p].at # "reaped"
        /\ proc'[p].father = proc[p].father
    BY <1>2, <1>6, SpotsAfter, FatherKept DEF Forks
  <2>2. proc'[Born].father = p /\ proc'[Born].at # "reaped"
    <3>1. proc[p].at = "fork" \/ (proc[p].at = "chain" /\ prog_f = "arbreCreation")
      <4>1. proc[p].at = "fork" \/ proc[p].at = "chain"
        BY <1>6 DEF Forks
      <4> QED
        BY <1>1, <4>1 DEF Chained, Rooted
    <3>2. PICK r \in Desc : r = Fam!Newborn(proc[p]) /\ r.at # "reaped"
      BY <1>2, <3>1, NewbornIs, NewbornAt
    <3>3. [r EXCEPT !.father = p].father = p /\ [r EXCEPT !.father = p].at = r.at
      BY DEF Desc
    <3> QED
      BY <1>6, <3>2, <3>3 DEF Forks
  <2>3. /\ DOMAIN proc' = DOMAIN proc \cup {Born}
        /\ \A q \in DOMAIN proc \ {p} : proc'[q] = proc[q]
    BY <1>6 DEF Forks, Same
  <2>4. \A q \in DOMAIN proc : q \in Kids' <=> q \in Kids
    BY <1>2, <1>3, <2>1, <2>3, KidsAre
  <2>5. Born \in Kids' <=> p = 0
    BY <1>2, <1>3, <2>2, <2>3
  <2>6. Kids' \subseteq DOMAIN proc \cup {Born} /\ Kids \subseteq DOMAIN proc
    BY <1>3, <2>3, KidsAre
  <2>7. Father'.father = -1
    BY <1>2, <2>1, <2>3 DEF Father
  <2> QED
    BY <2>4, <2>5, <2>6, <2>7
<1>7. ASSUME FailsToFork(p) PROVE Kids' = Kids /\ Father'.father = -1
  <2>1. proc[p].at # "reaped" /\ proc'[p].at # "reaped" /\ proc'[p].father = proc[p].father
    BY <1>2, <1>7, SpotsAfter, FatherKept DEF FailsToFork
  <2> QED
    BY <1>5, <1>7, <2>1 DEF FailsToFork, Quiet
<1>8. ASSUME EndsLoop(p) PROVE Kids' = Kids /\ Father'.father = -1
  <2>1. proc[p].at # "reaped" /\ proc'[p].at # "reaped" /\ proc'[p].father = proc[p].father
    BY <1>2, <1>8 DEF EndsLoop, Fam!AfterLoop, Desc
  <2> QED
    BY <1>5, <1>8, <2>1 DEF EndsLoop, Quiet
<1>9. ASSUME Records(p) PROVE Kids' = Kids /\ Father'.father = -1
  <2>1. proc[p].at # "reaped" /\ proc'[p].at # "reaped" /\ proc'[p].father = proc[p].father
    BY <1>2, <1>9 DEF Records, Desc
  <2> QED
    BY <1>5, <1>9, <2>1 DEF Records, Quiet
<1>10. ASSUME Execs(p) PROVE Kids' = Kids /\ Father'.father = -1
  <2>1. proc[p].at # "reaped" /\ proc'[p].at # "reaped" /\ proc'[p].father = proc[p].father
    BY <1>2, <1>10 DEF Execs, Desc
  <2> QED
    BY <1>5, <1>10, <2>1 DEF Execs, Quiet
<1>11. ASSUME NEW c \in DOMAIN proc, Reaps(p, c)
       PROVE  /\ Kids' = Kids \ {c} /\ (p = 0 => c \in Kids) /\ Father'.father = -1 /\ c # p
              /\ proc[c].father = p
  <2>1. /\ c # p /\ proc[p].at # "reaped" /\ proc'[p].at # "reaped"
        /\ proc'[p].father = proc[p].father
    BY <1>2, <1>11, SpotsAfter, FatherKept DEF Reaps
  <2>2. proc'[c].at = "reaped" /\ proc[c].at # "reaped" /\ proc[c].father = p
        /\ proc'[c].father = proc[c].father
    BY <1>2, <1>4, <1>11 DEF Reaps, Desc
  <2>3. DOMAIN proc' = DOMAIN proc /\ \A q \in DOMAIN proc \ {p, c} : proc'[q] = proc[q]
    BY <1>11 DEF Reaps, Quiet
  <2>4. Kids' = Kids \ {c} /\ (p = 0 => c \in Kids)
    BY <1>2, <1>3, <2>1, <2>2, <2>3, KidsAre
  <2> QED
    BY <1>2, <2>1, <2>2, <2>3, <2>4 DEF Father
<1>12. ASSUME ReapsNone(p) PROVE Kids' = Kids /\ Father'.father = -1 /\ (p = 0 => Kids = {})
  <2>1. proc[p].at # "reaped" /\ proc'[p].at # "reaped" /\ proc'[p].father = proc[p].father
    BY <1>2, <1>12, SpotsAfter, FatherKept DEF ReapsNone
  <2> QED
    BY <1>5, <1>12, <2>1 DEF ReapsNone, Quiet, Kids
<1>13. ASSUME Exits(p)
       PROVE  Kids' = (IF p = 0 THEN {} ELSE Kids) /\ Father'.father = -1
  <2>1. /\ DOMAIN proc' = DOMAIN proc /\ proc'[p].at = "zombie" /\ proc[p].at = "exit"
        /\ proc'[p].father = proc[p].father
    BY <1>2, <1>13 DEF Exits, Quiet, Desc
  <2>2. \A q \in Fam!Children(p) \ {p} : proc'[q].father = -1 /\ proc'[q].at = proc[q].at
    <3>1. \A r \in Desc : /\ [r EXCEPT !.father = -1].father = -1
                         /\ [r EXCEPT !.father = -1].at = r.at
      BY DEF Desc
    <3>2. \A q \in Fam!Children(p) \ {p} :
            q \in DOMAIN proc /\ proc'[q] = [proc[q] EXCEPT !.father = -1]
      BY <1>4, <1>13 DEF Exits
    <3>3. ASSUME NEW q \in Fam!Children(p) \ {p}
          PROVE  proc'[q].father = -1 /\ proc'[q].at = proc[q].at
      <4>1. PICK r \in Desc : r = proc[q] /\ proc'[q] = [r EXCEPT !.father = -1]
        BY <1>2, <3>2
      <4> QED
        BY <3>1, <4>1
    <3> QED
      BY <3>3
  <2>3. \A q \in DOMAIN proc \ (Fam!Children(p) \cup {p}) : proc'[q] = proc[q]
    BY <1>13 DEF Exits
  <2>4. Kids' = IF p = 0 THEN {} ELSE Kids
    BY <1>2, <1>3, <1>4, <2>1, <2>2, <2>3, KidsAre
  <2> QED
    BY <1>2, <1>4, <2>1, <2>3, <2>4 DEF Father
<1> QED
  BY <1>1, <1>6, <1>7, <1>8, <1>9, <1>10, <1>11, <1>12, <1>13 DEF KidsStep

(* Every program but arbreCreation and passageDonnee: one process forks.   *)
Flat == {"creeNProcess", "waitFilsQuelconque", "waitTousFils", "decoder", "mainConverters",
         "spy", "fork_exec"}

FlatInv ==
  /\ prog_f \in Flat
  /\ Father.at \in {"fork", "wait", "exit", "zombie"}
  /\ \A c \in DOMAIN proc \ {0} :
       /\ proc[c].at \in {"exec", "exit", "wait", "zombie", "reaped"}
       /\ proc[c].at = "wait" => prog_f = "fork_exec"
       /\ proc[c].father \in {0, -1}
       /\ Father.at # "zombie" => proc[c].father = 0
  /\ Father.at = "fork" \/ (prog_f = "spy" /\ Father.at = "wait") =>
       Born - 1 + failed_f = Father.i /\ Father.i <= Fam!Last
  /\ prog_f \notin {"spy", "creeNProcess"} /\ Father.at # "fork" => Born - 1 + failed_f = NPasses
  /\ prog_f = "creeNProcess" /\ Father.at # "fork" /\ failed_f = 0 => Born = 1 + Fam!Last
  /\ prog_f = "spy" => Born <= 1 + NPasses

(* A call of the father, or a step of a child.                             *)
FatherForks ==
  /\ Forks(0) /\ Kids' = Kids \cup {Born}
  /\ Father.at = "fork" /\ Father.i < Fam!Last
  /\ Father'.i = Father.i + 1
  /\ Father'.at = IF prog_f \in {"spy", "fork_exec"} THEN "wait" ELSE "fork"
  /\ proc'[Born].at = IF prog_f \in {"spy", "fork_exec"} THEN "exec" ELSE "exit"
  /\ proc'[Born].father = 0 /\ proc'[Born].i = Father.i

FatherFails ==
  /\ FailsToFork(0) /\ Kids' = Kids
  /\ Father.at = "fork" /\ Father.i < Fam!Last
  /\ \/ prog_f = "creeNProcess" /\ Father'.at = "exit"
     \/ /\ Father'.i = Father.i + 1
        /\ Father'.at = IF prog_f \in {"spy", "fork_exec"} THEN "wait" ELSE "fork"

FatherEndsLoop ==
  /\ EndsLoop(0) /\ Kids' = Kids
  /\ Father.at = "fork" /\ (Father.i = Fam!Last \/ prog_f = "spy")
  /\ Father'.at = (IF prog_f \in {"spy", "creeNProcess"} THEN "exit" ELSE "wait")
  /\ Father'.i = 0

FatherReaps(c) ==
  /\ Reaps(0, c) /\ c \in Kids /\ Kids' = Kids \ {c}
  /\ Father.at = "wait" /\ proc[c].at = "zombie" /\ proc'[c] = [proc[c] EXCEPT !.at = "reaped"]

FatherReapsNone == ReapsNone(0) /\ Kids' = Kids /\ Kids = {} /\ Father.at = "wait"

FatherExits == Exits(0) /\ Kids' = {} /\ Father.at = "exit" /\ Father'.at = "zombie"

ChildMoves(c) ==
  /\ Quiet /\ Same(c) /\ Kids' = Kids /\ Father' = Father
  /\ proc[c].at # "reaped" /\ proc'[c].at \in {"exit", "wait", "zombie"}
  /\ proc'[c].at = "wait" => prog_f = "fork_exec"
  /\ proc'[c].father = proc[c].father
  /\ prog_f # "fork_exec" => proc'[c].i = proc[c].i /\ proc'[c].code = proc[c].code
  /\ UNCHANGED <<failed_f, nbsolution, printed>>
  /\ prog_f # "fork_exec" => UNCHANGED status

LEMMA FlatMoves ==
  ASSUME Rooted, FlatInv, Fam!Next
  PROVE  /\ prog_f' = prog_f
         /\ \/ FatherForks \/ FatherFails \/ FatherEndsLoop
            \/ \E c \in DOMAIN proc \ {0} : FatherReaps(c)
            \/ FatherReapsNone \/ FatherExits
            \/ \E c \in DOMAIN proc \ {0} : ChildMoves(c)
<1>1. PICK p \in DOMAIN proc : KidsStep(p)
  BY KidsSteps
<1>2. /\ \A q \in DOMAIN proc : proc[q] \in Desc /\ q \in Int /\ q # -1
      /\ 0 \in DOMAIN proc /\ Born \notin DOMAIN proc /\ Born \in Int /\ -1 \in Int
      /\ prog_f \in Flat
  BY DEF FamType, Rooted, Father, FlatInv
<1>3. prog_f' = prog_f
  BY <1>1 DEF KidsStep, Forks, FailsToFork, EndsLoop, Records, Execs, Reaps, ReapsNone, Exits,
     Quiet
<1>4. CASE p = 0
  <2>1. Father \in Desc /\ Father.at \in {"fork", "wait", "exit", "zombie"} /\ Father = proc[0]
    BY <1>2 DEF FlatInv, Father
  <2>2. PICK r \in Desc : r = Father
    BY <2>1
  <2>3. ASSUME Forks(0), Kids' = Kids \cup {Born} PROVE FatherForks
    <3>1. Father'= Fam!AfterFork(r, Born) /\ Father.at = "fork" /\ Father.i < Fam!Last
      BY <2>1, <2>2, <2>3 DEF Forks, Father
    <3>2. Father'.i = Father.i + 1
          /\ Father'.at = IF prog_f \in {"spy", "fork_exec"} THEN "wait" ELSE "fork"
      BY <1>2, <2>2, <3>1 DEF Fam!AfterFork, Fam!Next1, Fam!Goto, Desc, Flat
    <3>3. proc'[Born] = [Fam!Newborn(r) EXCEPT !.father = 0]
      BY <2>1, <2>2, <2>3 DEF Forks
    <3>4. Fam!Newborn(r) \in Desc
      BY <1>2, <2>2, <3>1, NewbornIs DEF Rooted, FamType
    <3>5. Fam!Newborn(r).i = r.i
          /\ Fam!Newborn(r).at = IF prog_f \in {"spy", "fork_exec"} THEN "exec" ELSE "exit"
      BY <1>2, <2>2, <3>1 DEF Fam!Newborn, Flat, Fam!Goto, Fam!ExitWith, Desc
    <3>6. PICK b \in Desc : b = Fam!Newborn(r)
      BY <3>4
    <3>7. proc'[Born].at = b.at /\ proc'[Born].i = b.i /\ proc'[Born].father = 0
      BY <3>3, <3>6 DEF Desc
    <3> QED
      BY <2>2, <2>3, <3>1, <3>2, <3>5, <3>6, <3>7 DEF FatherForks
  <2>4. ASSUME FailsToFork(0), Kids' = Kids PROVE FatherFails
    <3>1. Father'= Fam!AfterFail(r) /\ Father.at = "fork" /\ Father.i < Fam!Last
      BY <2>1, <2>2, <2>4 DEF FailsToFork, Father
    <3>2. \/ prog_f = "creeNProcess" /\ Father'.at = "exit"
          \/ /\ Father'.i = Father.i + 1
             /\ Father'.at = IF prog_f \in {"spy", "fork_exec"} THEN "wait" ELSE "fork"
      BY <1>2, <2>2, <3>1, NamesOfFamily
      DEF Fam!AfterFail, Fam!ExitWith, Fam!AfterFork, Fam!Next1, Fam!Goto, Desc, Flat
    <3> QED
      BY <2>4, <3>1, <3>2 DEF FatherFails
  <2>5. ASSUME EndsLoop(0), Kids' = Kids PROVE FatherEndsLoop
    <3>1. /\ Father' = [r EXCEPT !.at = Fam!AfterLoop, !.i = 0]
          /\ Father.at = "fork" /\ (Father.i = Fam!Last \/ prog_f = "spy")
      BY <2>1, <2>2, <2>5 DEF EndsLoop, Father
    <3>2. Father'.i = 0
          /\ Father'.at = IF prog_f \in {"spy", "creeNProcess"} THEN "exit" ELSE "wait"
      BY <1>2, <2>2, <3>1 DEF Fam!AfterLoop, Desc, Flat
    <3> QED
      BY <2>5, <3>1, <3>2 DEF FatherEndsLoop
  <2>6. ~ Records(0) /\ ~ Execs(0)
    BY <2>1 DEF Records, Execs
  <2>7. ASSUME NEW c \in DOMAIN proc \ {0}, Reaps(0, c), Kids' = Kids \ {c}, c \in Kids
        PROVE  FatherReaps(c)
    BY <2>7 DEF FatherReaps, Reaps, Father
  <2>8. ASSUME ReapsNone(0), Kids' = Kids, Kids = {} PROVE FatherReapsNone
    BY <2>8 DEF FatherReapsNone, ReapsNone, Father
  <2>9. ASSUME Exits(0), Kids' = {} PROVE FatherExits
    <3>1. Father' = [r EXCEPT !.at = "zombie"] /\ Father.at = "exit"
      BY <2>1, <2>2, <2>9 DEF Exits, Father
    <3>2. Father'.at = "zombie"
      BY <3>1 DEF Desc
    <3> QED
      BY <2>9, <3>1, <3>2 DEF FatherExits
  <2> QED
    BY <1>1, <1>3, <1>4, <2>3, <2>4, <2>5, <2>6, <2>7, <2>8, <2>9 DEF KidsStep
<1>5. CASE p # 0
  <2>1. PICK r \in Desc : r = proc[p]
    BY <1>2
  <2>2. /\ r.at \in {"exec", "exit", "wait", "zombie", "reaped"}
        /\ r.at = "wait" => prog_f = "fork_exec"
        /\ r.father \in {0, -1}
    BY <1>5, <2>1 DEF FlatInv
  <2>3. ~ Forks(p) /\ ~ FailsToFork(p) /\ ~ EndsLoop(p) /\ ~ Records(p)
    BY <2>1, <2>2 DEF Forks, FailsToFork, EndsLoop, Records
  <2>4. ASSUME NEW c \in DOMAIN proc, proc[c].father = p PROVE FALSE
    BY <1>2, <1>5, <2>4 DEF FlatInv, Rooted, Father
  <2>5. Fam!Children(p) = {}
    BY <2>4, NamesOfFamily DEF Fam!Children
  <2>6. ASSUME Execs(p), Kids' = Kids PROVE ChildMoves(p)
    <3>1. proc'[p] = [r EXCEPT !.at = "exit"]
          \/ (prog_f = "fork_exec" /\ proc'[p] = [r EXCEPT !.at = "wait"])
      BY <2>1, <2>6 DEF Execs
    <3>2. /\ proc'[p].at \in {"exit", "wait"} /\ (proc'[p].at = "wait" => prog_f = "fork_exec")
          /\ proc'[p].father = r.father /\ proc'[p].i = r.i /\ proc'[p].code = r.code
      BY <3>1 DEF Desc
    <3>3. Father' = Father
      BY <1>2, <1>5, <2>6 DEF Execs, Same, Father
    <3> QED
      BY <2>1, <2>6, <3>2, <3>3 DEF Execs, ChildMoves
  <2>7. ASSUME ReapsNone(p), Kids' = Kids PROVE ChildMoves(p)
    <3>1. proc'[p] = Fam!AfterWait(r, -1) /\ r.at = "wait"
      BY <2>1, <2>7 DEF ReapsNone
    <3>2. prog_f = "fork_exec"
      BY <2>2, <3>1
    <3>3. proc'[p].at \in {"exit", "wait"} /\ proc'[p].father = r.father
      BY <3>1, <3>2 DEF Fam!AfterWait, Desc
    <3>4. Father' = Father
      BY <1>2, <1>5, <2>7 DEF ReapsNone, Same, Father
    <3> QED
      BY <2>1, <2>7, <3>1, <3>2, <3>3, <3>4 DEF ReapsNone, ChildMoves
  <2>8. ASSUME Exits(p), Kids' = Kids PROVE ChildMoves(p)
    <3>1. proc'[p] = [r EXCEPT !.at = "zombie"] /\ r.at = "exit"
      BY <2>1, <2>8 DEF Exits
    <3>2. /\ proc'[p].at = "zombie"
          /\ proc'[p].father = r.father /\ proc'[p].i = r.i /\ proc'[p].code = r.code
      BY <3>1 DEF Desc
    <3>3. Same(p)
      BY <2>5, <2>8 DEF Exits, Same
    <3>4. Father' = Father
      BY <1>2, <1>5, <3>3 DEF Same, Father
    <3> QED
      BY <2>1, <2>8, <3>1, <3>2, <3>3, <3>4 DEF Exits, ChildMoves
  <2> QED
    BY <1>1, <1>3, <1>5, <2>3, <2>4, <2>6, <2>7, <2>8 DEF KidsStep
<1> QED
  BY <1>4, <1>5

LEMMA PassesAre ==
  ASSUME Fam!PassesAssumption, prog_f \in Fam!Programs
  PROVE  /\ NPasses \in Nat \ {0}
         /\ Fam!Last = IF prog_f = "creeNProcess" THEN 2 * NPasses ELSE NPasses
         /\ prog_f = "fork_exec" => NPasses = 1
         /\ prog_f = "waitFilsQuelconque" => NPasses > 1
         /\ prog_f = "arbreCreation" => NPasses < 11
BY DEF Fam!PassesAssumption, NPasses, Fam!Last, Fam!NbFils

LEMMA FlatKept ==
  ASSUME Fam!PassesAssumption, Rooted, FlatInv, Fam!Next
  PROVE  FlatInv'
<1>1. /\ \A q \in DOMAIN proc : proc[q] \in Desc /\ q \in Int /\ q # -1
      /\ 0 \in DOMAIN proc /\ Born \notin DOMAIN proc /\ Born \in Nat /\ Father = proc[0]
      /\ failed_f \in Nat /\ Father.i \in Nat /\ Fam!Last \in Nat /\ NPasses \in Nat
  BY PassesAre, Fields DEF FamType, Rooted, Father
<1>2. /\ Fam!Last = IF prog_f = "creeNProcess" THEN 2 * NPasses ELSE NPasses
      /\ prog_f = "fork_exec" => NPasses = 1
      /\ prog_f \in Flat
  BY PassesAre DEF FlatInv, Rooted, FamType
<1>3. /\ prog_f' = prog_f /\ Fam!Last' = Fam!Last /\ NPasses' = NPasses
      /\ Father' = proc'[0]
  BY FlatMoves DEF Fam!Last, NPasses, Fam!NbFils, Father
<1> DEFINE Child(c) ==
      /\ proc'[c].at \in {"exec", "exit", "wait", "zombie", "reaped"}
      /\ proc'[c].at = "wait" => prog_f = "fork_exec"
      /\ proc'[c].father \in {0, -1}
      /\ Father'.at # "zombie" => proc'[c].father = 0
<1>4. /\ Father.at \in {"fork", "wait", "exit", "zombie"}
      /\ \A c \in DOMAIN proc \ {0} :
           /\ proc[c].at \in {"exec", "exit", "wait", "zombie", "reaped"}
           /\ proc[c].at = "wait" => prog_f = "fork_exec"
           /\ proc[c].father \in {0, -1}
           /\ Father.at # "zombie" => proc[c].father = 0
  BY DEF FlatInv
<1>5. CASE FatherForks
  <2>1. /\ Born' = Born + 1 /\ DOMAIN proc' = DOMAIN proc \cup {Born} /\ Same(0)
        /\ failed_f' = failed_f
    BY <1>5 DEF FatherForks, Forks
  <2>2. \A c \in DOMAIN proc' \ {0} : Child(c)
    BY <1>1, <1>4, <1>5, <2>1 DEF FatherForks, Same
  <2>3. Born' - 1 + failed_f' = Father'.i /\ Father'.i <= Fam!Last
    BY <1>1, <1>5, <2>1 DEF FatherForks, FlatInv
  <2>4. Father'.at \in {"fork", "wait"} /\ (Father'.at = "wait" => prog_f \in {"spy", "fork_exec"})
    BY <1>5 DEF FatherForks
  <2>5. prog_f = "fork_exec" => Born' - 1 + failed_f' = NPasses
    BY <1>1, <1>2, <1>5, <2>1, <2>3 DEF FatherForks, FlatInv
  <2>6. prog_f = "spy" => Born' <= 1 + NPasses
    BY <1>1, <1>2, <2>1, <2>3
  <2>7. failed_f' \in Nat
    BY <1>1, <2>1
  <2> QED
    BY <1>2, <1>3, <2>2, <2>3, <2>4, <2>5, <2>6 DEF FlatInv
<1>6. CASE FatherFails
  <2>1. /\ Born' = Born /\ DOMAIN proc' = DOMAIN proc /\ Same(0) /\ failed_f' = failed_f + 1
    BY <1>6 DEF FatherFails, FailsToFork, Quiet
  <2>2. \A c \in DOMAIN proc' \ {0} : Child(c)
    BY <1>1, <1>4, <1>6, <2>1 DEF FatherFails, Same
  <2>3. CASE prog_f = "creeNProcess" /\ Father'.at = "exit"
    <3>1. failed_f' # 0
      BY <1>1, <2>1
    <3> QED
      BY <1>2, <1>3, <2>2, <2>3, <3>1 DEF FlatInv
  <2>4. CASE /\ Father'.i = Father.i + 1
             /\ Father'.at = IF prog_f \in {"spy", "fork_exec"} THEN "wait" ELSE "fork"
    <3>1. Born' - 1 + failed_f' = Father'.i /\ Father'.i <= Fam!Last
      BY <1>1, <1>6, <2>1, <2>4 DEF FatherFails, FlatInv
    <3>2. prog_f = "fork_exec" => Born' - 1 + failed_f' = NPasses
      BY <1>1, <1>2, <1>6, <2>1, <3>1 DEF FatherFails, FlatInv
    <3>3. prog_f = "spy" => Born' <= 1 + NPasses
      BY <2>1 DEF FlatInv
    <3> QED
      BY <1>2, <1>3, <2>2, <2>4, <3>1, <3>2, <3>3 DEF FlatInv
  <2> QED
    BY <1>6, <2>3, <2>4 DEF FatherFails
<1>7. CASE FatherEndsLoop
  <2>1. /\ Born' = Born /\ DOMAIN proc' = DOMAIN proc /\ Same(0) /\ failed_f' = failed_f
    BY <1>7 DEF FatherEndsLoop, EndsLoop, Quiet
  <2>2. \A c \in DOMAIN proc' \ {0} : Child(c)
    BY <1>1, <1>4, <1>7, <2>1 DEF FatherEndsLoop, Same
  <2>3. /\ Father'.at \in {"exit", "wait"}
        /\ prog_f = "spy" => Father'.at = "exit"
        /\ prog_f # "spy" => Born' - 1 + failed_f' = Fam!Last
    BY <1>1, <1>7, <2>1 DEF FatherEndsLoop, FlatInv
  <2>4. prog_f # "spy" /\ failed_f' = 0 => Born' = 1 + Fam!Last
    BY <1>1, <2>1, <2>3
  <2>5. prog_f = "spy" => Born' <= 1 + NPasses
    BY <2>1 DEF FlatInv
  <2> QED
    BY <1>2, <1>3, <2>2, <2>3, <2>4, <2>5 DEF FlatInv
<1>8. ASSUME NEW c \in DOMAIN proc \ {0}, FatherReaps(c) PROVE FlatInv'
  <2>1. /\ Born' = Born /\ DOMAIN proc' = DOMAIN proc /\ failed_f' = failed_f
        /\ \A q \in DOMAIN proc \ {0, c} : proc'[q] = proc[q]
    BY <1>8 DEF FatherReaps, Reaps, Quiet
  <2>2. proc'[c].at = "reaped" /\ proc'[c].father = proc[c].father
    <3>1. \A r \in Desc : /\ [r EXCEPT !.at = "reaped"].at = "reaped"
                         /\ [r EXCEPT !.at = "reaped"].father = r.father
      BY DEF Desc
    <3>2. PICK r \in Desc : r = proc[c] /\ proc'[c] = [r EXCEPT !.at = "reaped"]
      BY <1>1, <1>8 DEF FatherReaps
    <3> QED
      BY <3>1, <3>2
  <2>3. /\ Father'.at \in {"fork", "exit", "wait"}
        /\ IF prog_f = "spy" THEN Father'.at = "fork" /\ Father'.i = Father.i
                             ELSE Father'.at # "fork"
    <3>1. PICK r \in Desc : r = Father /\ Father' = Fam!AfterWait(r, c)
      BY <1>1, <1>8 DEF FatherReaps, Reaps, Father
    <3> QED
      BY <1>1, <1>2, <3>1 DEF Fam!AfterWait, Fam!Goto, Desc, Flat
  <2>4. \A q \in DOMAIN proc' \ {0} : Child(q)
    <3>1. Child(c)
      BY <1>4, <1>8, <2>2, <2>3 DEF FatherReaps
    <3>2. ASSUME NEW q \in DOMAIN proc \ {0, c} PROVE Child(q)
      BY <1>4, <1>8, <2>1, <2>3, <3>2 DEF FatherReaps
    <3> QED
      BY <2>1, <3>1, <3>2
  <2>5. Father.at = "wait"
    BY <1>8 DEF FatherReaps
  <2> QED
    BY <1>2, <1>3, <2>1, <2>3, <2>4, <2>5 DEF FlatInv
<1>9. CASE FatherReapsNone
  <2>1. /\ Born' = Born /\ DOMAIN proc' = DOMAIN proc /\ Same(0) /\ failed_f' = failed_f
        /\ Father.at = "wait"
    BY <1>9 DEF FatherReapsNone, ReapsNone, Quiet
  <2>2. /\ Father'.at \in {"fork", "exit", "wait"}
        /\ IF prog_f = "spy" THEN Father'.at = "fork" /\ Father'.i = Father.i
                             ELSE Father'.at # "fork"
    <3>1. PICK r \in Desc : r = Father /\ Father' = Fam!AfterWait(r, -1)
      BY <1>1, <1>9 DEF FatherReapsNone, ReapsNone, Father
    <3> QED
      BY <1>1, <1>2, <3>1 DEF Fam!AfterWait, Fam!Goto, Fam!ExitWith, Desc, Flat
  <2>3. \A q \in DOMAIN proc' \ {0} : Child(q)
    BY <1>1, <1>4, <2>1, <2>2 DEF Same
  <2> QED
    BY <1>2, <1>3, <2>1, <2>2, <2>3 DEF FlatInv
<1>10. CASE FatherExits
  <2>1. /\ Born' = Born /\ DOMAIN proc' = DOMAIN proc /\ failed_f' = failed_f
        /\ Father.at = "exit" /\ Father'.at = "zombie"
    BY <1>10 DEF FatherExits, Exits, Quiet
  <2>2. ASSUME NEW q \in DOMAIN proc' \ {0} PROVE Child(q)
    <3>1. CASE q \in Fam!Children(0)
      <4>1. PICK r \in Desc : r = proc[q] /\ proc'[q] = [r EXCEPT !.father = -1]
        BY <1>1, <1>10, <2>1, <2>2, <3>1 DEF FatherExits, Exits
      <4>2. proc'[q].father = -1 /\ proc'[q].at = r.at
        BY <4>1 DEF Desc
      <4> QED
        BY <1>4, <2>1, <2>2, <4>1, <4>2
    <3>2. CASE q \notin Fam!Children(0)
      <4>1. proc'[q] = proc[q]
        BY <1>10, <2>1, <2>2, <3>2 DEF FatherExits, Exits
      <4> QED
        BY <1>4, <2>1, <2>2, <4>1
    <3> QED
      BY <3>1, <3>2
  <2> QED
    BY <1>2, <1>3, <2>1, <2>2 DEF FlatInv
<1>11. ASSUME NEW c \in DOMAIN proc \ {0}, ChildMoves(c) PROVE FlatInv'
  <2>1. /\ Born' = Born /\ DOMAIN proc' = DOMAIN proc /\ Same(c) /\ failed_f' = failed_f
        /\ Father' = Father
    BY <1>11 DEF ChildMoves, Quiet
  <2>2. \A q \in DOMAIN proc' \ {0} : Child(q)
    BY <1>1, <1>4, <1>11, <2>1 DEF ChildMoves, Same
  <2> QED
    BY <1>2, <1>3, <2>1, <2>2 DEF FlatInv
<1> QED
  BY <1>5, <1>6, <1>7, <1>8, <1>9, <1>10, <1>11, FlatMoves

(* The programs that wait for all their children.                          *)
Waiters == {"waitTousFils", "decoder", "mainConverters", "spy", "fork_exec"}

WaitersInv ==
  prog_f \in Waiters =>
    /\ Father.at \in {"exit", "zombie"} => Kids = {}
    /\ \A c \in DOMAIN proc \ {0} : proc[c].father = 0
    /\ prog_f \in {"spy", "fork_exec"} =>
         /\ Father.at = "fork" => Kids = {}
         /\ Father.at = "wait" => Kids \subseteq {Born - 1}
    /\ prog_f \in {"waitTousFils", "decoder"} =>
         /\ Father.at = "fork" => Cardinality(Kids) <= Father.i
         /\ Father.at = "wait" => Father.i < NPasses /\ Cardinality(Kids) <= NPasses - Father.i

(* What wait makes of the father of each of them.                          *)
LEMMA WaitersWait ==
  ASSUME NEW r \in Desc, NEW c \in Int, prog_f \in Waiters
  PROVE  /\ prog_f = "spy" => Fam!AfterWait(r, c).at = "fork"
         /\ prog_f = "fork_exec" => Fam!AfterWait(r, c).at = "exit"
         /\ prog_f = "mainConverters" =>
              Fam!AfterWait(r, c).at = IF c = -1 THEN "exit" ELSE "wait"
         /\ prog_f \in {"waitTousFils", "decoder"} =>
              /\ Fam!AfterWait(r, c).i = r.i + 1
              /\ Fam!AfterWait(r, c).at = IF r.i + 1 = NPasses THEN "exit" ELSE "wait"
BY NamesOfFamily DEF Fam!AfterWait, Fam!Enough, Fam!Goto, Desc, Waiters

LEMMA WaitersKept ==
  ASSUME Fam!PassesAssumption, Rooted, FlatInv, WaitersInv, Fam!Next
  PROVE  WaitersInv'
<1> SUFFICES ASSUME prog_f \in Waiters PROVE WaitersInv'
  BY FlatMoves DEF WaitersInv
<1>1. /\ \A q \in DOMAIN proc : proc[q] \in Desc /\ q \in Int /\ q # -1
      /\ 0 \in DOMAIN proc /\ Born \notin DOMAIN proc /\ Born \in Nat /\ Father = proc[0]
      /\ Father.i \in Nat /\ NPasses \in Nat \ {0}
      /\ Father \in Desc
  BY PassesAre, Fields DEF FamType, Rooted, Father
<1>2. Fam!Last = NPasses /\ (prog_f = "fork_exec" => NPasses = 1)
  BY PassesAre DEF Waiters, Rooted, FamType
<1>3. prog_f' = prog_f /\ NPasses' = NPasses /\ Father' = proc'[0]
  BY FlatMoves DEF NPasses, Father
<1>4. /\ Father.at \in {"exit", "zombie"} => Kids = {}
      /\ \A c \in DOMAIN proc \ {0} : proc[c].father = 0
      /\ prog_f \in {"spy", "fork_exec"} =>
           /\ Father.at = "fork" => Kids = {}
           /\ Father.at = "wait" => Kids \subseteq {Born - 1}
      /\ prog_f \in {"waitTousFils", "decoder"} =>
           /\ Father.at = "fork" => Cardinality(Kids) <= Father.i
           /\ Father.at = "wait" => /\ Father.i < NPasses
                                    /\ Cardinality(Kids) <= NPasses - Father.i
  BY DEF WaitersInv
<1>5. Kids \subseteq DOMAIN proc /\ IsFiniteSet(Kids) /\ Cardinality(Kids) \in Nat
  BY KidsFinite DEF Rooted
<1>6. CASE FatherForks
  <2>1. /\ Born' = Born + 1 /\ DOMAIN proc' = DOMAIN proc \cup {Born} /\ Same(0)
        /\ Kids' = Kids \cup {Born} /\ proc'[Born].father = 0
        /\ Father.at = "fork" /\ Father'.i = Father.i + 1
        /\ Father'.at = IF prog_f \in {"spy", "fork_exec"} THEN "wait" ELSE "fork"
    BY <1>6 DEF FatherForks, Forks
  <2>2. \A c \in DOMAIN proc' \ {0} : proc'[c].father = 0
    BY <1>1, <1>4, <2>1 DEF Same
  <2>3. Cardinality(Kids') = Cardinality(Kids) + 1
    BY <1>1, <1>5, <2>1, FS_AddElement
  <2>4. Kids' \subseteq {Born' - 1} \/ prog_f \notin {"spy", "fork_exec"}
    BY <1>1, <1>4, <2>1
  <2>5. prog_f \in {"waitTousFils", "decoder"} => Cardinality(Kids') <= Father'.i
    BY <1>1, <1>4, <1>5, <2>1, <2>3
  <2> QED
    BY <1>3, <2>1, <2>2, <2>4, <2>5 DEF WaitersInv
<1>7. CASE FatherFails
  <2>1. /\ Born' = Born /\ DOMAIN proc' = DOMAIN proc /\ Same(0) /\ Kids' = Kids
        /\ Father.at = "fork" /\ Father'.i = Father.i + 1
        /\ Father'.at = IF prog_f \in {"spy", "fork_exec"} THEN "wait" ELSE "fork"
    BY <1>7 DEF FatherFails, FailsToFork, Quiet, Waiters
  <2>2. \A c \in DOMAIN proc' \ {0} : proc'[c].father = 0
    BY <1>4, <2>1 DEF Same
  <2>3. prog_f \in {"waitTousFils", "decoder"} => Cardinality(Kids') <= Father'.i
    BY <1>1, <1>4, <1>5, <2>1
  <2>4. prog_f \in {"spy", "fork_exec"} => Kids' = {}
    BY <1>4, <2>1
  <2> QED
    BY <1>3, <2>1, <2>2, <2>3, <2>4 DEF WaitersInv
<1>8. CASE FatherEndsLoop
  <2>1. /\ Born' = Born /\ DOMAIN proc' = DOMAIN proc /\ Same(0) /\ Kids' = Kids
        /\ Father.at = "fork" /\ Father'.i = 0 /\ (Father.i = Fam!Last \/ prog_f = "spy")
        /\ Father'.at = IF prog_f = "spy" THEN "exit" ELSE "wait"
    BY <1>8 DEF FatherEndsLoop, EndsLoop, Quiet, Waiters
  <2>2. \A c \in DOMAIN proc' \ {0} : proc'[c].father = 0
    BY <1>4, <2>1 DEF Same
  <2>3. prog_f \in {"waitTousFils", "decoder"} =>
          Father'.i < NPasses /\ Cardinality(Kids') <= NPasses - Father'.i
    BY <1>1, <1>2, <1>4, <1>5, <2>1
  <2>4. prog_f \in {"spy", "fork_exec"} => Kids' = {}
    BY <1>4, <2>1
  <2> QED
    BY <1>3, <2>1, <2>2, <2>3, <2>4 DEF WaitersInv
<1>9. ASSUME NEW c \in DOMAIN proc \ {0}, FatherReaps(c) PROVE WaitersInv'
  <2>1. /\ Born' = Born /\ DOMAIN proc' = DOMAIN proc /\ Kids' = Kids \ {c} /\ c \in Kids
        /\ Father.at = "wait" /\ Father' = Fam!AfterWait(Father, c)
        /\ \A q \in DOMAIN proc \ {0, c} : proc'[q] = proc[q]
    BY <1>9 DEF FatherReaps, Reaps, Quiet, Father
  <2>2. proc'[c].father = proc[c].father
    <3>1. PICK r \in Desc : r = proc[c] /\ proc'[c] = [r EXCEPT !.at = "reaped"]
      BY <1>1, <1>9 DEF FatherReaps
    <3> QED
      BY <3>1 DEF Desc
  <2>3. \A q \in DOMAIN proc' \ {0} : proc'[q].father = 0
    BY <1>4, <2>1, <2>2
  <2>4. Cardinality(Kids') = Cardinality(Kids) - 1
    BY <1>5, <2>1, FS_RemoveElement
  <2>5. /\ prog_f = "spy" => Father'.at = "fork"
        /\ prog_f = "fork_exec" => Father'.at = "exit"
        /\ prog_f = "mainConverters" => Father'.at = "wait"
        /\ prog_f \in {"waitTousFils", "decoder"} =>
             /\ Father'.i = Father.i + 1
             /\ Father'.at = IF Father.i + 1 = NPasses THEN "exit" ELSE "wait"
    BY <1>1, <2>1, WaitersWait
  <2>6. prog_f \in {"spy", "fork_exec"} => Kids' = {}
    BY <1>4, <2>1
  <2>7. prog_f \in {"waitTousFils", "decoder"} =>
          /\ Cardinality(Kids') <= NPasses - Father'.i
          /\ Father'.at = "exit" => Cardinality(Kids') <= 0
          /\ Father'.at = "wait" => Father'.i < NPasses
    BY <1>1, <1>4, <1>5, <2>1, <2>4, <2>5
  <2>8. prog_f \in {"waitTousFils", "decoder"} /\ Father'.at = "exit" => Kids' = {}
    <3>1. IsFiniteSet(Kids') /\ Cardinality(Kids') \in Nat
      BY <1>5, <2>1, FS_RemoveElement, FS_CardinalityType
    <3>2. Cardinality(Kids') <= 0 => Cardinality(Kids') = 0
      BY <3>1
    <3> QED
      BY <2>7, <3>1, <3>2, FS_EmptySet
  <2>9. Father'.at \in {"fork", "exit", "wait"}
    BY <2>5 DEF Waiters
  <2> QED
    BY <1>3, <2>3, <2>5, <2>6, <2>7, <2>8, <2>9 DEF WaitersInv, Waiters
<1>10. CASE FatherReapsNone
  <2>1. /\ Born' = Born /\ DOMAIN proc' = DOMAIN proc /\ Kids' = Kids /\ Kids = {} /\ Same(0)
        /\ Father.at = "wait" /\ Father' = Fam!AfterWait(Father, -1)
    BY <1>10 DEF FatherReapsNone, ReapsNone, Quiet, Father
  <2>2. \A q \in DOMAIN proc' \ {0} : proc'[q].father = 0
    BY <1>4, <2>1 DEF Same
  <2>3. Cardinality(Kids') = 0
    BY <2>1, FS_EmptySet
  <2>4. prog_f \in {"waitTousFils", "decoder"} =>
             /\ Father'.i = Father.i + 1
             /\ Father'.at = IF Father.i + 1 = NPasses THEN "exit" ELSE "wait"
    BY <1>1, <2>1, WaitersWait
  <2>5. prog_f \in {"waitTousFils", "decoder"} =>
          /\ Cardinality(Kids') <= NPasses - Father'.i
          /\ Father'.at = "wait" => Father'.i < NPasses
          /\ Father'.at # "fork"
    BY <1>1, <1>4, <2>1, <2>3, <2>4
  <2> QED
    BY <1>3, <2>1, <2>2, <2>5 DEF WaitersInv
<1>11. CASE FatherExits
  <2>1. /\ Born' = Born /\ DOMAIN proc' = DOMAIN proc /\ Kids' = {} /\ Kids = {}
        /\ Father'.at = "zombie"
    BY <1>4, <1>11 DEF FatherExits, Exits, Quiet
  <2>2. \A q \in DOMAIN proc \ {0} : proc'[q] = proc[q]
    BY <1>11, <2>1 DEF FatherExits, Exits, Kids
  <2>3. \A q \in DOMAIN proc' \ {0} : proc'[q].father = 0
    BY <1>4, <2>1, <2>2
  <2> QED
    BY <1>3, <2>1, <2>3 DEF WaitersInv
<1>12. ASSUME NEW c \in DOMAIN proc \ {0}, ChildMoves(c) PROVE WaitersInv'
  <2>1. /\ Born' = Born /\ DOMAIN proc' = DOMAIN proc /\ Same(c) /\ Kids' = Kids
        /\ Father' = Father /\ proc'[c].father = proc[c].father
    BY <1>12 DEF ChildMoves, Quiet
  <2>2. \A q \in DOMAIN proc' \ {0} : proc'[q].father = 0
    BY <1>4, <2>1 DEF Same
  <2> QED
    BY <1>3, <1>4, <2>1, <2>2 DEF WaitersInv
<1> QED
  BY <1>6, <1>7, <1>8, <1>9, <1>10, <1>11, <1>12, FlatMoves

(* waitFilsQuelconque: what its table holds, and when it stops waiting.    *)
SecondDone ==
  IF Father.tab[2] # -1 THEN proc[Father.tab[2]].at = "reaped"
  ELSE \A c \in DOMAIN proc \ {0} : proc[c].at = "reaped"

AnyInv ==
  prog_f = "waitFilsQuelconque" =>
    /\ \A k \in 1 .. Len(Father.tab) :
         Father.tab[k] = -1 \/ Father.tab[k] \in DOMAIN proc \ {0}
    /\ Len(Father.tab) = IF Father.at = "fork" THEN Father.i ELSE NPasses
    /\ Father.at \in {"exit", "zombie"} => SecondDone

LEMMA AnyKept ==
  ASSUME Fam!PassesAssumption, Rooted, FlatInv, AnyInv, Fam!Next
  PROVE  AnyInv'
<1> SUFFICES ASSUME prog_f = "waitFilsQuelconque" PROVE AnyInv'
  BY FlatMoves DEF AnyInv
<1>1. /\ \A q \in DOMAIN proc : proc[q] \in Desc /\ q \in Int /\ q # -1
      /\ 0 \in DOMAIN proc /\ Born \notin DOMAIN proc /\ Born \in Nat \ {0} /\ Father = proc[0]
      /\ Father.i \in Nat /\ NPasses \in Nat /\ NPasses > 1
      /\ Father \in Desc /\ Father.tab \in Seq(Int \cup Rows)
  BY PassesAre, Fields DEF FamType, Rooted, Father
<1>2. Fam!Last = NPasses
  BY PassesAre DEF Rooted, FamType
<1>3. prog_f' = prog_f /\ NPasses' = NPasses /\ Father' = proc'[0]
  BY FlatMoves DEF NPasses, Father
<1>4. /\ \A k \in 1 .. Len(Father.tab) :
           Father.tab[k] = -1 \/ Father.tab[k] \in DOMAIN proc \ {0}
      /\ Len(Father.tab) = IF Father.at = "fork" THEN Father.i ELSE NPasses
      /\ Father.at \in {"exit", "zombie"} => SecondDone
  BY DEF AnyInv
<1>5. ASSUME Father'.tab = Father.tab, DOMAIN proc' = DOMAIN proc
      PROVE  \A k \in 1 .. Len(Father'.tab) :
               Father'.tab[k] = -1 \/ Father'.tab[k] \in DOMAIN proc' \ {0}
  BY <1>4, <1>5
<1>6. ASSUME NEW t, t \in {-1, Born}, Father'.tab = Append(Father.tab, t),
             DOMAIN proc' = DOMAIN proc \cup {Born} \/ (t = -1 /\ DOMAIN proc' = DOMAIN proc)
      PROVE  /\ \A k \in 1 .. Len(Father'.tab) :
                  Father'.tab[k] = -1 \/ Father'.tab[k] \in DOMAIN proc' \ {0}
             /\ Len(Father'.tab) = Len(Father.tab) + 1
  <2>1. /\ Len(Father'.tab) = Len(Father.tab) + 1 /\ Len(Father.tab) \in Nat
        /\ Father'.tab[Len(Father.tab) + 1] = t
        /\ \A k \in 1 .. Len(Father.tab) : Father'.tab[k] = Father.tab[k]
    BY <1>1, <1>6
  <2>2. t = -1 \/ t \in DOMAIN proc' \ {0}
    BY <1>1, <1>6
  <2>3. ASSUME NEW k \in 1 .. Len(Father'.tab)
        PROVE  Father'.tab[k] = -1 \/ Father'.tab[k] \in DOMAIN proc' \ {0}
    <3>1. CASE k = Len(Father.tab) + 1
      BY <2>1, <2>2, <3>1
    <3>2. CASE k # Len(Father.tab) + 1
      <4>1. k \in 1 .. Len(Father.tab)
        BY <2>1, <2>3, <3>2
      <4> QED
        BY <1>4, <1>6, <2>1, <4>1
    <3> QED
      BY <3>1, <3>2
  <2> QED
    BY <2>1, <2>3
<1>7. CASE FatherForks
  <2>1. /\ Father' = Fam!AfterFork(Father, Born) /\ DOMAIN proc' = DOMAIN proc \cup {Born}
        /\ Father.at = "fork" /\ Father'.i = Father.i + 1 /\ Father'.at = "fork"
    BY <1>7 DEF FatherForks, Forks, Father
  <2>2. Father'.tab = Append(Father.tab, Born)
    BY <1>1, <2>1 DEF Fam!AfterFork, Fam!Next1, Desc
  <2> QED
    BY <1>3, <1>4, <1>6, <2>1, <2>2 DEF AnyInv
<1>8. CASE FatherFails
  <2>1. /\ Father' = Fam!AfterFork(Father, -1) /\ DOMAIN proc' = DOMAIN proc
        /\ Father.at = "fork" /\ Father'.i = Father.i + 1 /\ Father'.at = "fork"
    BY <1>8, NamesOfFamily DEF FatherFails, FailsToFork, Father, Quiet, Fam!AfterFail
  <2>2. Father'.tab = Append(Father.tab, -1)
    BY <1>1, <2>1 DEF Fam!AfterFork, Fam!Next1, Desc
  <2> QED
    BY <1>3, <1>4, <1>6, <2>1, <2>2 DEF AnyInv
<1>9. CASE FatherEndsLoop
  <2>1. /\ Father.at = "fork" /\ Father.i = NPasses /\ Father'.at = "wait"
        /\ DOMAIN proc' = DOMAIN proc
        /\ Father' = [Father EXCEPT !.at = Fam!AfterLoop, !.i = 0]
    BY <1>2, <1>9 DEF FatherEndsLoop, EndsLoop, Quiet, Father
  <2>2. Father'.tab = Father.tab
    BY <1>1, <2>1 DEF Desc
  <2> QED
    BY <1>3, <1>4, <1>5, <2>1, <2>2 DEF AnyInv
<1>10. ASSUME NEW c \in DOMAIN proc \ {0}, FatherReaps(c) PROVE AnyInv'
  <2>1. /\ DOMAIN proc' = DOMAIN proc /\ Father.at = "wait"
        /\ Father' = Fam!AfterWait(Father, c) /\ proc'[c] = [proc[c] EXCEPT !.at = "reaped"]
    BY <1>10 DEF FatherReaps, Reaps, Quiet, Father
  <2>2. Father'.tab = Father.tab /\ Father'.at = IF c = Father.tab[2] THEN "exit" ELSE "wait"
    BY <1>1, <2>1 DEF Fam!AfterWait, Fam!Enough, Desc
  <2>3. proc'[c].at = "reaped" /\ c # -1
    BY <1>1, <2>1 DEF Desc
  <2>4. Father'.at = "exit" => SecondDone'
    BY <2>2, <2>3 DEF SecondDone
  <2>5. Father'.at \in {"exit", "wait"}
    BY <2>2
  <2> QED
    BY <1>3, <1>4, <1>5, <2>1, <2>2, <2>4, <2>5 DEF AnyInv
<1>11. CASE FatherReapsNone
  <2>1. /\ DOMAIN proc' = DOMAIN proc /\ Father.at = "wait" /\ Kids = {} /\ Same(0)
        /\ Father' = Fam!AfterWait(Father, -1)
    BY <1>11 DEF FatherReapsNone, ReapsNone, Quiet, Father
  <2>2. Father'.tab = Father.tab /\ Father'.at = IF -1 = Father.tab[2] THEN "exit" ELSE "wait"
    BY <1>1, <2>1 DEF Fam!AfterWait, Fam!Enough, Desc
  <2>3. \A c \in DOMAIN proc \ {0} : proc[c].at = "reaped"
    BY <2>1, KidsAre DEF FlatInv
  <2>4. \A c \in DOMAIN proc' \ {0} : proc'[c].at = "reaped"
    BY <2>1, <2>3 DEF Same
  <2>5. Father'.at = "exit" => SecondDone'
    BY <2>2, <2>4 DEF SecondDone
  <2>6. Father'.at \in {"exit", "wait"}
    BY <2>2
  <2> QED
    BY <1>3, <1>4, <1>5, <2>1, <2>2, <2>5, <2>6 DEF AnyInv
<1>12. CASE FatherExits
  <2>1. /\ DOMAIN proc' = DOMAIN proc /\ Father.at = "exit" /\ Father'.at = "zombie"
        /\ Father' = [Father EXCEPT !.at = "zombie"]
    BY <1>12 DEF FatherExits, Exits, Quiet, Father
  <2>2. Father'.tab = Father.tab
    BY <1>1, <2>1 DEF Desc
  <2>3. ASSUME NEW q \in DOMAIN proc \ {0}, proc[q].at = "reaped" PROVE proc'[q].at = "reaped"
    <3>1. q \notin Fam!Children(0)
      BY <2>3, KidsAre DEF Kids
    <3> QED
      BY <1>12, <2>3, <3>1 DEF FatherExits, Exits
  <2>4. 2 \in 1 .. Len(Father.tab)
    BY <1>1, <1>4, <2>1
  <2>5. SecondDone'
    BY <1>4, <2>1, <2>2, <2>3, <2>4 DEF SecondDone
  <2> QED
    BY <1>3, <1>4, <1>5, <2>1, <2>2, <2>5 DEF AnyInv
<1>13. ASSUME NEW c \in DOMAIN proc \ {0}, ChildMoves(c) PROVE AnyInv'
  <2>1. /\ DOMAIN proc' = DOMAIN proc /\ Same(c) /\ Father' = Father /\ proc[c].at # "reaped"
    BY <1>13 DEF ChildMoves, Quiet
  <2>2. \A q \in DOMAIN proc : proc[q].at = "reaped" => proc'[q].at = "reaped"
    BY <2>1 DEF Same
  <2>3. Father.at \in {"exit", "zombie"} => 2 \in 1 .. Len(Father.tab)
    BY <1>1, <1>4
  <2>4. Father'.at \in {"exit", "zombie"} => SecondDone'
    BY <1>4, <2>1, <2>2, <2>3 DEF SecondDone
  <2> QED
    BY <1>3, <1>4, <1>5, <2>1, <2>4 DEF AnyInv
<1> QED
  BY <1>7, <1>8, <1>9, <1>10, <1>11, <1>12, <1>13, FlatMoves

(* decoder: the candidate 3 has been counted when its child has been       *)
(* waited for; a wait that finds no child counts the last status again.    *)
Tried == \E c \in DOMAIN proc \ {0} : proc[c].at = "reaped" /\ proc[c].i = 3
CountedUpTo(lost) == One(Tried) <= nbsolution /\ nbsolution <= One(Tried) + lost

DecInv ==
  prog_f = "decoder" =>
    /\ status \in {0, 1}
    /\ \A c \in DOMAIN proc \ {0} :
         /\ proc[c].code = IF proc[c].i = 3 THEN 1 ELSE 0
         /\ proc[c].i < NPasses
         /\ failed_f = 0 => proc[c].i = c - 1
    /\ \A c, d \in DOMAIN proc \ {0} : c # d => proc[c].i # proc[d].i
    /\ Father.at = "fork" =>
         /\ nbsolution = 0 /\ Kids = DOMAIN proc \ {0}
         /\ \A c \in DOMAIN proc \ {0} : proc[c].i < Father.i
    /\ Father.at = "wait" => CountedUpTo(Father.i - (Born - 1 - Cardinality(Kids)))
    /\ Father.at \in {"exit", "zombie"} => CountedUpTo(failed_f)

(* The children of a candidate: how they change.                           *)
Candidates ==
  /\ \A c \in DOMAIN proc \ {0} :
       /\ proc[c].code = IF proc[c].i = 3 THEN 1 ELSE 0
       /\ proc[c].i < NPasses
       /\ failed_f = 0 => proc[c].i = c - 1
  /\ \A c, d \in DOMAIN proc \ {0} : c # d => proc[c].i # proc[d].i

LEMMA CandidatesKept ==
  ASSUME Candidates, DOMAIN proc' = DOMAIN proc, NPasses' = NPasses, failed_f' = failed_f,
         \A c \in DOMAIN proc \ {0} : proc'[c].i = proc[c].i /\ proc'[c].code = proc[c].code
  PROVE  Candidates'
BY DEF Candidates

LEMMA DecKept ==
  ASSUME Fam!PassesAssumption, Rooted, FlatInv, WaitersInv, WaitersInv', DecInv, Fam!Next
  PROVE  DecInv'
<1> SUFFICES ASSUME prog_f = "decoder" PROVE DecInv'
  BY FlatMoves DEF DecInv
<1>1. /\ \A q \in DOMAIN proc : proc[q] \in Desc /\ q \in Int /\ q # -1
      /\ 0 \in DOMAIN proc /\ Born \notin DOMAIN proc /\ Born \in Nat \ {0} /\ Father = proc[0]
      /\ Father.i \in Nat /\ NPasses \in Nat \ {0} /\ failed_f \in Nat /\ nbsolution \in Nat
      /\ Father \in Desc /\ DOMAIN proc = 0 .. Born - 1
  BY PassesAre, Fields DEF FamType, Rooted, Father
<1>2. Fam!Last = NPasses
  BY PassesAre DEF Rooted, FamType
<1>3. prog_f' = prog_f /\ NPasses' = NPasses /\ Father' = proc'[0]
  BY FlatMoves DEF NPasses, Father
<1>4. Candidates /\ status \in {0, 1}
  BY DEF DecInv, Candidates
<1>5. /\ Father.at = "fork" =>
           /\ nbsolution = 0 /\ Kids = DOMAIN proc \ {0}
           /\ \A c \in DOMAIN proc \ {0} : proc[c].i < Father.i
      /\ Father.at = "wait" => CountedUpTo(Father.i - (Born - 1 - Cardinality(Kids)))
      /\ Father.at \in {"exit", "zombie"} => CountedUpTo(failed_f)
  BY DEF DecInv
<1>6. Kids \subseteq DOMAIN proc /\ IsFiniteSet(Kids) /\ Cardinality(Kids) \in Nat
  BY KidsFinite DEF Rooted
<1>7. ASSUME Candidates', status' \in {0, 1}, Father'.at \in {"fork", "wait", "exit", "zombie"},
             Father'.at = "fork" =>
               /\ nbsolution' = 0 /\ Kids' = DOMAIN proc' \ {0}
               /\ \A c \in DOMAIN proc' \ {0} : proc'[c].i < Father'.i,
             Father'.at = "wait" =>
               (CountedUpTo(Father.i - (Born - 1 - Cardinality(Kids))))',
             Father'.at \in {"exit", "zombie"} => CountedUpTo(failed_f)'
      PROVE  DecInv'
  BY <1>7 DEF DecInv, Candidates
<1>8. CASE FatherForks
  <2>1. /\ Born' = Born + 1 /\ DOMAIN proc' = DOMAIN proc \cup {Born} /\ Same(0)
        /\ Kids' = Kids \cup {Born} /\ proc'[Born].i = Father.i
        /\ Father.at = "fork" /\ Father'.i = Father.i + 1 /\ Father'.at = "fork"
        /\ Father.i < NPasses
        /\ failed_f' = failed_f /\ nbsolution' = nbsolution /\ status' = status
        /\ proc'[Born] = [Fam!Newborn(Father) EXCEPT !.father = 0]
    BY <1>2, <1>8 DEF FatherForks, Forks, Father
  <2>2. proc'[Born].code = IF Father.i = 3 THEN 1 ELSE 0
    <3>1. Fam!Newborn(Father) = [Father EXCEPT !.at = "exit", !.code = Fam!solve(Father.i)]
      BY DEF Fam!Newborn, Fam!ExitWith
    <3>2. Fam!solve(Father.i) = IF Father.i = 3 THEN 1 ELSE 0
      BY <1>1, SolveIs
    <3>3. Fam!Newborn(Father) \in Desc /\ Fam!Newborn(Father).code = Fam!solve(Father.i)
      <4>1. Fam!Newborn(Father) \in Desc
        BY <1>1, <2>1, NewbornIs DEF Rooted, FamType
      <4> QED
        BY <1>1, <3>1, <4>1 DEF Desc
    <3>4. [Fam!Newborn(Father) EXCEPT !.father = 0].code = Fam!Newborn(Father).code
      <4>1. PICK b \in Desc : b = Fam!Newborn(Father)
        BY <3>3
      <4> QED
        BY <4>1 DEF Desc
    <3> QED
      BY <2>1, <3>2, <3>3, <3>4
  <2>3. \A c \in DOMAIN proc \ {0} : proc'[c] = proc[c] /\ proc[c].i < Father.i
    BY <1>5, <2>1 DEF Same
  <2>4. failed_f = 0 => Father.i = Born - 1
    BY <1>1, <2>1 DEF FlatInv
  <2>5. ASSUME NEW c \in DOMAIN proc' \ {0}
        PROVE  /\ proc'[c].code = IF proc'[c].i = 3 THEN 1 ELSE 0
               /\ proc'[c].i < NPasses
               /\ failed_f = 0 => proc'[c].i = c - 1
               /\ proc'[c].i < Father'.i
    <3>1. CASE c = Born
      <4>1. proc'[c].i = Father.i /\ proc'[c].code = IF Father.i = 3 THEN 1 ELSE 0
        BY <2>1, <2>2, <3>1, Zenon
      <4>2. failed_f = 0 => Father.i = c - 1
        BY <2>4, <3>1
      <4>3. Father.i < Father'.i
        BY <1>1, <2>1
      <4> QED
        BY <2>1, <4>1, <4>2, <4>3
    <3>2. CASE c # Born
      <4>1. c \in DOMAIN proc \ {0} /\ proc'[c] = proc[c] /\ proc[c].i < Father.i
        BY <2>1, <2>3, <2>5, <3>2
      <4>2. proc[c].i \in Nat
        BY <1>1, <4>1, Fields
      <4> QED
        BY <1>1, <1>4, <2>1, <4>1, <4>2 DEF Candidates
    <3> QED
      BY <3>1, <3>2
  <2>6. ASSUME NEW c \in DOMAIN proc' \ {0}, NEW d \in DOMAIN proc' \ {0}, c # d
        PROVE  proc'[c].i # proc'[d].i
    <3>1. \A q \in DOMAIN proc \ {0} : proc[q].i \in Nat /\ proc'[q].i = proc[q].i
                                       /\ proc[q].i < Father.i
      BY <1>1, <2>3, Fields
    <3>2. \A q \in DOMAIN proc \ {0} : proc[q].i # Father.i
      BY <1>1, <3>1
    <3>3. proc'[Born].i = Father.i
      BY <2>1
    <3>4. \A q \in DOMAIN proc' \ {0} : q = Born \/ q \in DOMAIN proc \ {0}
      BY <2>1
    <3>5. CASE c = Born
      <4>1. d \in DOMAIN proc \ {0}
        BY <2>6, <3>4, <3>5
      <4> QED
        BY <3>1, <3>2, <3>3, <3>5, <4>1, Zenon
    <3>6. CASE c # Born
      <4>1. c \in DOMAIN proc \ {0}
        BY <3>4, <3>6
      <4>2. CASE d = Born
        BY <3>1, <3>2, <3>3, <4>1, <4>2, Zenon
      <4>3. CASE d # Born
        <5>1. d \in DOMAIN proc \ {0}
          BY <3>4, <4>3
        <5>2. proc[c].i # proc[d].i
          BY <1>4, <2>6, <4>1, <5>1 DEF Candidates
        <5> QED
          BY <3>1, <4>1, <5>1, <5>2, Zenon
      <4> QED
        BY <4>2, <4>3
    <3> QED
      BY <3>5, <3>6
  <2>7. Candidates'
    BY <1>3, <2>1, <2>5, <2>6 DEF Candidates
  <2>8. Kids' = DOMAIN proc' \ {0}
    BY <1>1, <1>5, <2>1
  <2> QED
    BY <1>4, <1>5, <1>7, <2>1, <2>5, <2>7, <2>8
<1>9. CASE FatherFails
  <2>1. /\ DOMAIN proc' = DOMAIN proc /\ Same(0) /\ Kids' = Kids
        /\ Father.at = "fork" /\ Father'.i = Father.i + 1 /\ Father'.at = "fork"
        /\ failed_f' = failed_f + 1 /\ nbsolution' = nbsolution /\ status' = status
    BY <1>9 DEF FatherFails, FailsToFork, Quiet
  <2>2. \A c \in DOMAIN proc \ {0} : proc'[c] = proc[c]
    BY <2>1 DEF Same
  <2>3. failed_f' # 0
    BY <1>1, <2>1
  <2>4. Candidates'
    BY <1>3, <1>4, <2>1, <2>2, <2>3 DEF Candidates
  <2>5. \A c \in DOMAIN proc' \ {0} : proc'[c].i < Father'.i
    <3>1. \A c \in DOMAIN proc \ {0} : proc[c].i \in Nat /\ proc[c].i < Father.i
      BY <1>1, <1>5, <2>1, Fields
    <3> QED
      BY <1>1, <2>1, <2>2, <3>1
  <2> QED
    BY <1>4, <1>5, <1>7, <2>1, <2>4, <2>5
<1>10. CASE FatherEndsLoop
  <2>1. /\ DOMAIN proc' = DOMAIN proc /\ Same(0) /\ Kids' = Kids /\ Born' = Born
        /\ Father.at = "fork" /\ Father'.i = 0 /\ Father'.at = "wait"
        /\ failed_f' = failed_f /\ nbsolution' = nbsolution /\ status' = status
    BY <1>10 DEF FatherEndsLoop, EndsLoop, Quiet
  <2>2. \A c \in DOMAIN proc \ {0} : proc'[c] = proc[c]
    BY <2>1 DEF Same
  <2>3. Candidates'
    BY <1>3, <1>4, <2>1, <2>2, CandidatesKept
  <2>4. Kids = 1 .. Born - 1 /\ Cardinality(Kids) = Born - 1
    <3>1. Kids = 1 .. Born - 1
      <4>1. Kids = (0 .. Born - 1) \ {0}
        BY <1>1, <1>5, <2>1, Zenon
      <4>2. \A x : x \in (0 .. Born - 1) \ {0} <=> x \in 1 .. Born - 1
        BY <1>1
      <4> QED
        BY <4>1, <4>2
    <3>2. Cardinality(1 .. Born - 1) = Born - 1
      <4>1. PICK n \in Nat : n = Born - 1
        BY <1>1
      <4>2. 1 \in Int /\ n \in Int
        BY <4>1
      <4>3. Cardinality(1 .. n) = IF 1 > n THEN 0 ELSE n - 1 + 1
        BY <4>2, FS_Interval
      <4> QED
        BY <4>1, <4>3
    <3> QED
      BY <3>1, <3>2
  <2>5. ~ Tried'
    BY <1>5, <2>1, <2>2, KidsAre DEF Tried
  <2>6. CountedUpTo(0)'
    BY <1>5, <2>1, <2>5 DEF CountedUpTo, One
  <2>7. Father'.i - (Born' - 1 - Cardinality(Kids')) = 0
    BY <1>1, <2>1, <2>4
  <2> QED
    BY <1>4, <1>7, <2>1, <2>3, <2>6, <2>7
<1>11. ASSUME NEW c \in DOMAIN proc \ {0}, FatherReaps(c) PROVE DecInv'
  <2>1. /\ DOMAIN proc' = DOMAIN proc /\ Kids' = Kids \ {c} /\ c \in Kids /\ Born' = Born
        /\ Father.at = "wait" /\ Father' = Fam!AfterWait(Father, c)
        /\ \A q \in DOMAIN proc \ {0, c} : proc'[q] = proc[q]
        /\ proc'[c] = [proc[c] EXCEPT !.at = "reaped"] /\ proc[c].at = "zombie"
        /\ status' = proc[c].code /\ nbsolution' = nbsolution + proc[c].code
        /\ failed_f' = failed_f
    BY <1>11 DEF FatherReaps, Reaps, Quiet, Father
  <2>2. /\ proc'[c].at = "reaped" /\ proc'[c].i = proc[c].i /\ proc'[c].code = proc[c].code
    <3>1. PICK r \in Desc : r = proc[c] /\ proc'[c] = [r EXCEPT !.at = "reaped"]
      BY <1>1, <2>1
    <3> QED
      BY <3>1 DEF Desc
  <2>3. Candidates'
    BY <1>3, <1>4, <2>1, <2>2, CandidatesKept
  <2>4. /\ Father'.i = Father.i + 1
        /\ Father'.at = IF Father.i + 1 = NPasses THEN "exit" ELSE "wait"
    BY <1>1, <2>1, WaitersWait DEF Waiters
  <2>5. proc[c].code = (IF proc[c].i = 3 THEN 1 ELSE 0) /\ proc[c].code \in {0, 1}
    BY <1>4 DEF Candidates
  <2>6. One(Tried') = One(Tried) + proc[c].code
    <3>1. CASE proc[c].i = 3
      <4>1. Tried'
        BY <2>1, <2>2, <3>1 DEF Tried
      <4>2. \A q \in DOMAIN proc \ {0} : proc[q].i = 3 => q = c
        BY <1>4, <3>1 DEF Candidates
      <4>3. ~ Tried
        BY <2>1, <4>2 DEF Tried
      <4> QED
        BY <2>5, <3>1, <4>1, <4>3 DEF One
    <3>2. CASE proc[c].i # 3
      <4>1. Tried' <=> Tried
        <5>1. proc'[c].i # 3
          BY <2>2, <3>2
        <5>2. \A q \in DOMAIN proc \ {0} : q # c => proc'[q] = proc[q]
          BY <2>1
        <5>3. ASSUME Tried PROVE Tried'
          <6>1. PICK q \in DOMAIN proc \ {0} : proc[q].at = "reaped" /\ proc[q].i = 3
            BY <5>3 DEF Tried
          <6>2. proc'[q].at = "reaped" /\ proc'[q].i = 3
            BY <3>2, <5>2, <6>1
          <6> QED
            BY <2>1, <6>2 DEF Tried
        <5>4. ASSUME Tried' PROVE Tried
          <6>1. PICK q \in DOMAIN proc \ {0} : proc'[q].at = "reaped" /\ proc'[q].i = 3
            BY <2>1, <5>4 DEF Tried
          <6>2. proc[q].at = "reaped" /\ proc[q].i = 3
            BY <5>1, <5>2, <6>1
          <6> QED
            BY <6>2 DEF Tried
        <5> QED
          BY <5>3, <5>4
      <4>2. One(Tried') = One(Tried)
        BY <4>1 DEF One
      <4>3. One(Tried) \in Nat
        BY DEF One
      <4> QED
        BY <2>5, <3>2, <4>2, <4>3
    <3> QED
      BY <3>1, <3>2
  <2>7. Cardinality(Kids') = Cardinality(Kids) - 1
    BY <1>6, <2>1, FS_RemoveElement
  <2> DEFINE lost == Father.i - (Born - 1 - Cardinality(Kids))
  <2>8. CountedUpTo(lost) /\ lost \in Int /\ One(Tried) \in Nat
    BY <1>1, <1>5, <1>6, <2>1 DEF One
  <2>9. lost' = lost
    BY <1>1, <1>6, <2>1, <2>4, <2>7
  <2>10. CountedUpTo(lost)'
    <3> HIDE DEF lost
    <3> QED
      BY <1>1, <2>1, <2>5, <2>6, <2>8, <2>9 DEF CountedUpTo
  <2>11. Father'.at = "exit" => lost' = failed_f'
    <3>1. Father'.at = "exit" => Kids' = {}
      BY <1>3 DEF WaitersInv, Waiters
    <3>2. Cardinality({}) = 0
      BY FS_EmptySet
    <3>3. Born - 1 + failed_f = NPasses
      BY <2>1 DEF FlatInv
    <3>4. Father'.at = "exit" => Cardinality(Kids') = 0 /\ Father.i + 1 = NPasses
      BY <2>4, <3>1, <3>2
    <3>5. Father'.at = "exit" => Cardinality(Kids) = 1
      BY <1>6, <2>7, <3>4
    <3>6. Father'.at = "exit" => lost = failed_f
      BY <1>1, <3>3, <3>4, <3>5
    <3> QED
      BY <2>1, <2>9, <3>6
  <2>12. Father'.at \in {"exit", "wait"}
    BY <2>4
  <2>13. Father'.at = "exit" => CountedUpTo(failed_f)'
    <3> HIDE DEF lost
    <3> QED
      BY <2>10, <2>11 DEF CountedUpTo
  <2> QED
    BY <1>7, <2>1, <2>3, <2>5, <2>10, <2>12, <2>13
<1>12. CASE FatherReapsNone
  <2>1. /\ DOMAIN proc' = DOMAIN proc /\ Kids' = Kids /\ Kids = {} /\ Born' = Born /\ Same(0)
        /\ Father.at = "wait" /\ Father' = Fam!AfterWait(Father, -1)
        /\ status' = status /\ nbsolution' = nbsolution + status /\ failed_f' = failed_f
    BY <1>12 DEF FatherReapsNone, ReapsNone, Quiet, Father
  <2>2. \A c \in DOMAIN proc \ {0} : proc'[c] = proc[c]
    BY <2>1 DEF Same
  <2>3. Candidates'
    BY <1>3, <1>4, <2>1, <2>2, CandidatesKept
  <2>4. /\ Father'.i = Father.i + 1
        /\ Father'.at = IF Father.i + 1 = NPasses THEN "exit" ELSE "wait"
    BY <1>1, <2>1, WaitersWait DEF Waiters
  <2>5. Tried' <=> Tried
    BY <2>1, <2>2 DEF Tried
  <2> DEFINE lost == Father.i - (Born - 1 - Cardinality(Kids))
  <2>6. CountedUpTo(lost) /\ lost \in Int /\ One(Tried) \in Nat /\ One(Tried') = One(Tried)
    BY <1>1, <1>5, <1>6, <2>1, <2>5 DEF One
  <2>7. lost' = lost + 1
    BY <1>1, <1>6, <2>1, <2>4
  <2>8. CountedUpTo(lost)'
    <3> HIDE DEF lost
    <3> QED
      BY <1>1, <1>4, <2>1, <2>6, <2>7 DEF CountedUpTo
  <2>9. Father'.at = "exit" => lost' = failed_f'
    <3>1. Cardinality({}) = 0
      BY FS_EmptySet
    <3>2. Born - 1 + failed_f = NPasses
      BY <2>1 DEF FlatInv
    <3> QED
      BY <1>1, <1>6, <2>1, <2>4, <3>1, <3>2
  <2>10. Father'.at \in {"exit", "wait"}
    BY <2>4
  <2>11. Father'.at = "exit" => CountedUpTo(failed_f)'
    <3> HIDE DEF lost
    <3> QED
      BY <2>8, <2>9 DEF CountedUpTo
  <2> QED
    BY <1>4, <1>7, <2>1, <2>3, <2>8, <2>10, <2>11
<1>13. CASE FatherExits
  <2>1. /\ DOMAIN proc' = DOMAIN proc /\ Kids = {} /\ Father.at = "exit" /\ Father'.at = "zombie"
        /\ status' = status /\ nbsolution' = nbsolution /\ failed_f' = failed_f
    BY <1>13 DEF FatherExits, Exits, Quiet, WaitersInv, Waiters
  <2>2. \A c \in DOMAIN proc \ {0} : proc'[c] = proc[c]
    BY <1>13, <2>1 DEF FatherExits, Exits, Kids
  <2>3. Candidates'
    BY <1>3, <1>4, <2>1, <2>2, CandidatesKept
  <2>4. Tried' <=> Tried
    BY <2>1, <2>2 DEF Tried
  <2>5. CountedUpTo(failed_f)'
    BY <1>5, <2>1, <2>4 DEF CountedUpTo, One
  <2> QED
    BY <1>4, <1>7, <2>1, <2>3, <2>5
<1>14. ASSUME NEW c \in DOMAIN proc \ {0}, ChildMoves(c) PROVE DecInv'
  <2>1. /\ DOMAIN proc' = DOMAIN proc /\ Same(c) /\ Father' = Father /\ proc[c].at # "reaped"
        /\ proc'[c].at \in {"exit", "zombie", "wait"} /\ Born' = Born
        /\ Kids' = Kids /\ failed_f' = failed_f /\ nbsolution' = nbsolution /\ status' = status
        /\ proc'[c].i = proc[c].i /\ proc'[c].code = proc[c].code
    BY <1>14 DEF ChildMoves, Quiet
  <2>2. \A q \in DOMAIN proc \ {0} : proc'[q].i = proc[q].i /\ proc'[q].code = proc[q].code
    BY <2>1 DEF Same
  <2>3. Candidates'
    BY <1>3, <1>4, <2>1, <2>2, CandidatesKept
  <2>4. Tried' <=> Tried
    BY <2>1, <2>2 DEF Tried, Same
  <2>5. Father.at \in {"fork", "wait", "exit", "zombie"}
    BY DEF FlatInv
  <2>6. Father'.at = "wait" => (CountedUpTo(Father.i - (Born - 1 - Cardinality(Kids))))'
    BY <1>5, <2>1, <2>4 DEF CountedUpTo, One
  <2>7. Father'.at \in {"exit", "zombie"} => CountedUpTo(failed_f)'
    BY <1>5, <2>1, <2>4 DEF CountedUpTo, One
  <2> QED
    BY <1>4, <1>5, <1>7, <2>1, <2>2, <2>3, <2>5, <2>6, <2>7
<1> QED
  BY <1>8, <1>9, <1>10, <1>11, <1>12, <1>13, <1>14, FlatMoves

(* passageDonnee: a chain of processes, each the father of the next, of    *)
(* which only the last one forks; an earlier one waits for the next.       *)
IsChain(tab, n) ==
  /\ tab \in Seq(Int \cup Rows) /\ Len(tab) = n
  /\ \A k \in 1 .. n : tab[k] = [fils |-> k, pere |-> k - 1]

Link(p) ==
  /\ p # 0 => proc[p].father = p - 1
  /\ proc[p].at \in {"record", "fork", "wait", "exit", "zombie", "reaped"}
  /\ proc[p].at \in {"record", "fork"} => p = Born - 1
  /\ proc[p].at = "record" => p > 0 /\ proc[p].i = p - 1 /\ IsChain(proc[p].tab, p - 1)
  /\ proc[p].at = "fork" => proc[p].i = p /\ IsChain(proc[p].tab, p)
  /\ proc[p].at \in {"exit", "zombie", "reaped"} =>
       \A q \in DOMAIN proc : q > p => proc[q].at = "reaped"

Shown == \A k \in 1 .. Len(printed) : printed[k] = [fils |-> k, pere |-> k - 1]

ChainInv ==
  IF prog_f = "passageDonnee"
    THEN /\ \A p \in DOMAIN proc : Link(p)
         /\ Born <= 1 + NPasses
         /\ \/ failed_f # 0 \/ Born = 1 + NPasses
            \/ proc[Born - 1].at \in {"record", "fork"}
         /\ Shown
    ELSE printed = <<>>

(* A step after which the other processes stand where they stood, no       *)
(* process was made and this one neither records nor forks any more.       *)
LEMMA LinksKept ==
  ASSUME Rooted, \A p \in DOMAIN proc : Link(p), Quiet, NEW p \in DOMAIN proc, Same(p),
         proc'[p].father = proc[p].father,
         proc'[p].at \in {"wait", "exit", "zombie", "reaped"}, proc[p].at # "reaped",
         proc'[p].at \in {"exit", "zombie", "reaped"} =>
           \A q \in DOMAIN proc : q > p => proc[q].at = "reaped"
  PROVE  \A q \in DOMAIN proc' : Link(q)'
<1> SUFFICES ASSUME NEW q \in DOMAIN proc PROVE Link(q)'
  BY DEF Quiet
<1>1. Link(q) /\ DOMAIN proc' = DOMAIN proc /\ Born' = Born
  BY DEF Quiet
<1>2. CASE q = p
  <2>1. proc'[q].at \in {"exit", "zombie", "reaped"} =>
          \A x \in DOMAIN proc : x > q => proc'[x].at = "reaped"
    <3>1. \A x \in DOMAIN proc : x > p => x # p
      BY DEF Rooted, FamType
    <3> QED
      BY <1>2, <3>1 DEF Same
  <2> QED
    BY <1>1, <1>2, <2>1 DEF Link
<1>3. CASE q # p
  <2>1. proc'[q] = proc[q]
    BY <1>3 DEF Same
  <2>2. proc[q].at \in {"exit", "zombie", "reaped"} =>
          \A x \in DOMAIN proc : x > q => proc'[x].at = "reaped"
    <3>1. ASSUME NEW x \in DOMAIN proc, x > q, proc[q].at \in {"exit", "zombie", "reaped"}
          PROVE  x # p /\ proc[x].at = "reaped"
      BY <1>1, <3>1 DEF Link
    <3> QED
      BY <3>1 DEF Same
  <2> QED
    BY <1>1, <2>1, <2>2 DEF Link
<1> QED
  BY <1>2, <1>3

LEMMA AppendRow ==
  ASSUME NEW tab, NEW p \in Nat \ {0}, IsChain(tab, p - 1)
  PROVE  IsChain(Append(tab, [fils |-> p, pere |-> p - 1]), p)
<1> DEFINE row == [fils |-> p, pere |-> p - 1]
<1>1. row \in Int \cup Rows
  BY DEF Rows
<1>2. tab \in Seq(Int \cup Rows) /\ Len(tab) = p - 1
      /\ \A k \in 1 .. p - 1 : tab[k] = [fils |-> k, pere |-> k - 1]
  BY DEF IsChain
<1> HIDE DEF row
<1>3. Append(tab, row) \in Seq(Int \cup Rows) /\ Len(Append(tab, row)) = p
  BY <1>1, <1>2
<1>4. \A k \in 1 .. p - 1 : Append(tab, row)[k] = tab[k]
  BY <1>1, <1>2
<1>5. Append(tab, row)[p] = row
  BY <1>1, <1>2
<1>6. ASSUME NEW k \in 1 .. p PROVE Append(tab, row)[k] = [fils |-> k, pere |-> k - 1]
  <2>1. CASE k = p
    BY <1>5, <2>1 DEF row
  <2>2. CASE k # p
    <3>1. k \in 1 .. p - 1
      BY <2>2
    <3> QED
      BY <1>2, <1>4, <3>1, Zenon
  <2> QED
    BY <2>1, <2>2
<1> QED
  BY <1>3, <1>6 DEF IsChain, row

(* What the calls make of a process of passageDonnee.                      *)
LEMMA ChainCalls ==
  ASSUME prog_f = "passageDonnee", NEW r \in Desc
  PROVE  /\ r.at = "fork" =>
              /\ \A c \in Int : Fam!AfterFork(r, c).at = "wait"
              /\ Fam!AfterFail(r).at = "wait"
              /\ Fam!Newborn(r).at = "record" /\ Fam!Newborn(r).i = r.i
              /\ Fam!Newborn(r).tab = r.tab
         /\ \A c \in Int : Fam!AfterWait(r, c).at = "exit"
         /\ Fam!AfterLoop = "exit" /\ Fam!Last = NPasses
<1>1. r.at = "fork" => \A c \in Int : Fam!AfterFork(r, c).at = "wait"
  BY DEF Fam!AfterFork, Fam!Goto, Desc
<1>2. r.at = "fork" => Fam!AfterFail(r).at = "wait"
  BY <1>1, NamesOfFamily DEF Fam!AfterFail
<1>3. r.at = "fork" =>
        /\ Fam!Newborn(r).at = "record" /\ Fam!Newborn(r).i = r.i
        /\ Fam!Newborn(r).tab = r.tab
  BY DEF Fam!Newborn, Desc
<1>4. \A c \in Int : Fam!AfterWait(r, c).at = "exit"
  BY DEF Fam!AfterWait, Fam!Enough, Desc
<1>5. Fam!AfterLoop = "exit" /\ Fam!Last = NPasses
  BY NamesOfFamily DEF Fam!AfterLoop, Fam!Last
<1> QED
  BY <1>1, <1>2, <1>3, <1>4, <1>5

LEMMA ChainKept ==
  ASSUME Fam!PassesAssumption, Rooted, ChainInv, Fam!Next
  PROVE  ChainInv'
<1>1. PICK p \in DOMAIN proc : KidsStep(p)
  BY KidsSteps
<1>2. prog_f' = prog_f /\ NPasses' = NPasses
  BY <1>1 DEF KidsStep, Forks, FailsToFork, EndsLoop, Records, Execs, Reaps, ReapsNone, Exits,
     Quiet, NPasses
<1>3. CASE prog_f # "passageDonnee"
  <2>1. printed' = printed
    BY <1>1, <1>3
    DEF KidsStep, Forks, FailsToFork, EndsLoop, Records, Execs, Reaps, ReapsNone, Exits
  <2> QED
    BY <1>2, <1>3, <2>1 DEF ChainInv
<1>4. CASE prog_f = "passageDonnee"
  <2>1. /\ \A q \in DOMAIN proc : Link(q)
        /\ Born <= 1 + NPasses
        /\ \/ failed_f # 0 \/ Born = 1 + NPasses
           \/ proc[Born - 1].at \in {"record", "fork"}
        /\ Shown
    BY <1>4 DEF ChainInv
  <2>2. /\ \A q \in DOMAIN proc : proc[q] \in Desc /\ q \in Nat
        /\ Born \in Nat \ {0} /\ DOMAIN proc = 0 .. Born - 1 /\ NPasses \in Nat \ {0}
        /\ p \in Nat /\ p <= Born - 1 /\ Born \notin DOMAIN proc /\ failed_f \in Nat
    BY PassesAre DEF Rooted, FamType
  <2>3. PICK r \in Desc : r = proc[p]
    BY <2>2
  <2>4. /\ p # 0 => r.father = p - 1
        /\ r.at \in {"record", "fork", "wait", "exit", "zombie", "reaped"}
        /\ r.at \in {"record", "fork"} => p = Born - 1
        /\ r.at = "record" => p > 0 /\ r.i = p - 1 /\ IsChain(r.tab, p - 1)
        /\ r.at = "fork" => r.i = p /\ IsChain(r.tab, p)
        /\ r.at \in {"exit", "zombie", "reaped"} =>
             \A q \in DOMAIN proc : q > p => proc[q].at = "reaped"
    BY <2>1, <2>3 DEF Link
  <2>5. r.i \in Nat /\ Fam!Last = NPasses /\ Fam!AfterLoop = "exit"
    BY <1>4, <2>3, Fields, ChainCalls
  <2>6. ASSUME \A q \in DOMAIN proc' : Link(q)', Quiet, UNCHANGED <<failed_f, printed>>,
               proc[Born - 1].at \in {"record", "fork"} =>
                 (proc'[Born - 1].at \in {"record", "fork"} \/ Born = 1 + NPasses)
        PROVE  ChainInv'
    BY <1>2, <1>4, <2>1, <2>6 DEF ChainInv, Quiet, Shown
  <2>7. Fam!Children(p) = {c \in DOMAIN proc : proc[c].father = p /\ proc[c].at # "reaped"}
    BY NamesOfFamily DEF Fam!Children, Fam!at
  <2>8. CASE Forks(p)
    <3>1. /\ r.at = "fork" /\ r.i < NPasses /\ p = Born - 1
          /\ Born' = Born + 1 /\ DOMAIN proc' = DOMAIN proc \cup {Born}
          /\ proc'[p] = Fam!AfterFork(r, Born) /\ Same(p)
          /\ proc'[Born] = [Fam!Newborn(r) EXCEPT !.father = p]
          /\ failed_f' = failed_f /\ printed' = printed
      BY <2>3, <2>4, <2>5, <2>8 DEF Forks
    <3>2. r.i = p /\ IsChain(r.tab, p)
      BY <2>4, <3>1
    <3>3. proc'[p].at = "wait" /\ proc'[p].father = r.father
      BY <1>4, <2>2, <2>3, <3>1, ChainCalls, FatherKept
    <3>4. proc'[Born].at = "record" /\ proc'[Born].i = r.i /\ proc'[Born].tab = r.tab
          /\ proc'[Born].father = p
      <4>1. PICK b \in Desc : b = Fam!Newborn(r)
        BY <2>3, <3>1, NewbornIs DEF Rooted, FamType
      <4>2. b.at = "record" /\ b.i = r.i /\ b.tab = r.tab
        BY <1>4, <3>1, <4>1, ChainCalls
      <4>3. proc'[Born] = [b EXCEPT !.father = p]
        BY <3>1, <4>1
      <4> QED
        BY <4>2, <4>3 DEF Desc
    <3>5. ASSUME NEW q \in DOMAIN proc' PROVE Link(q)'
      <4>1. CASE q = Born
        <5>1. \A x \in DOMAIN proc' : ~ (x > Born)
          BY <2>2, <3>1
        <5>2. Born - 1 = p /\ Born > 0 /\ Born = Born' - 1
          BY <2>2, <3>1
        <5> QED
          BY <3>2, <3>4, <4>1, <5>1, <5>2 DEF Link
      <4>2. CASE q = p
        <5>1. p # 0 => proc'[p].father = p - 1
          BY <2>4, <3>3
        <5> QED
          BY <3>3, <4>2, <5>1 DEF Link
      <4>3. CASE q # p /\ q # Born
        <5>1. q \in DOMAIN proc /\ proc'[q] = proc[q] /\ Link(q)
          BY <2>1, <3>1, <4>3 DEF Same
        <5>2. proc[q].at \in {"wait", "exit", "zombie", "reaped"}
          BY <3>1, <4>3, <5>1 DEF Link
        <5>3. q < p
          BY <2>2, <3>1, <4>3, <5>1
        <5>4. proc[q].at = "wait"
          BY <2>2, <2>3, <3>1, <5>1, <5>2, <5>3 DEF Link
        <5>5. q # 0 => proc'[q].father = q - 1
          BY <5>1 DEF Link
        <5> QED
          BY <5>1, <5>4, <5>5 DEF Link
      <4> QED
        BY <4>1, <4>2, <4>3
    <3>6. Born' <= 1 + NPasses
      BY <2>2, <2>5, <3>1, <3>2
    <3>7. proc'[Born' - 1].at = "record"
      <4>1. Born' - 1 = Born
        BY <2>2, <3>1
      <4> QED
        BY <3>4, <4>1
    <3> QED
      BY <1>2, <1>4, <2>1, <3>1, <3>5, <3>6, <3>7 DEF ChainInv, Shown
  <2>9. CASE FailsToFork(p)
    <3>1. /\ r.at = "fork" /\ p = Born - 1 /\ Quiet /\ Same(p)
          /\ proc'[p] = Fam!AfterFail(r) /\ failed_f' = failed_f + 1 /\ printed' = printed
      BY <2>3, <2>4, <2>9 DEF FailsToFork
    <3>2. proc'[p].at = "wait" /\ proc'[p].father = proc[p].father
      BY <1>4, <2>3, <3>1, ChainCalls, FatherKept
    <3>3. \A q \in DOMAIN proc' : Link(q)'
      BY <2>1, <2>3, <3>1, <3>2, LinksKept
    <3>4. failed_f' # 0
      BY <2>2, <3>1
    <3> QED
      BY <1>2, <1>4, <2>1, <3>1, <3>3, <3>4 DEF ChainInv, Quiet, Shown
  <2>10. CASE EndsLoop(p)
    <3>1. /\ r.at = "fork" /\ r.i = NPasses /\ p = Born - 1 /\ Quiet /\ Same(p)
          /\ proc'[p] = [r EXCEPT !.at = "exit", !.i = 0]
          /\ failed_f' = failed_f /\ printed' = r.tab
      BY <1>4, <2>3, <2>4, <2>5, <2>10 DEF EndsLoop
    <3>2. proc'[p].at = "exit" /\ proc'[p].father = proc[p].father
      BY <2>3, <3>1 DEF Desc
    <3>3. \A q \in DOMAIN proc : q > p => proc[q].at = "reaped"
      BY <2>2, <3>1
    <3>4. \A q \in DOMAIN proc' : Link(q)'
      BY <2>1, <2>3, <3>1, <3>2, <3>3, LinksKept
    <3>5. Born = 1 + NPasses
      BY <2>2, <2>4, <3>1
    <3>6. Shown'
      BY <2>4, <3>1 DEF IsChain, Shown
    <3> QED
      BY <1>2, <1>4, <2>1, <3>1, <3>4, <3>5, <3>6 DEF ChainInv, Quiet
  <2>11. CASE Records(p)
    <3>1. /\ r.at = "record" /\ p = Born - 1 /\ Quiet /\ Same(p) /\ p > 0
          /\ proc'[p] = [r EXCEPT !.tab = Append(@, [fils |-> p, pere |-> r.father]),
                                  !.i = @ + 1, !.at = "fork"]
          /\ failed_f' = failed_f /\ printed' = printed
          /\ IsChain(r.tab, p - 1) /\ r.i = p - 1 /\ r.father = p - 1
      BY <2>2, <2>3, <2>4, <2>11 DEF Records
    <3>2. /\ proc'[p].at = "fork" /\ proc'[p].father = r.father /\ proc'[p].i = r.i + 1
          /\ proc'[p].tab = Append(r.tab, [fils |-> p, pere |-> r.father])
      BY <3>1 DEF Desc
    <3>3. IsChain(proc'[p].tab, p) /\ proc'[p].i = p
      BY <2>2, <3>1, <3>2, AppendRow
    <3>4. ASSUME NEW q \in DOMAIN proc PROVE Link(q)'
      <4>1. CASE q = p
        BY <3>1, <3>2, <3>3, <4>1 DEF Link, Quiet
      <4>2. CASE q # p
        <5>1. proc'[q] = proc[q] /\ Link(q) /\ q < p
          BY <2>1, <2>2, <3>1, <4>2 DEF Same
        <5>2. proc[q].at = "wait"
          BY <2>2, <2>3, <3>1, <5>1 DEF Link
        <5>3. q # 0 => proc'[q].father = q - 1
          BY <5>1 DEF Link
        <5> QED
          BY <5>1, <5>2, <5>3 DEF Link
      <4> QED
        BY <4>1, <4>2
    <3>5. \A q \in DOMAIN proc' : Link(q)'
      BY <3>1, <3>4 DEF Quiet
    <3> QED
      BY <2>6, <3>1, <3>2, <3>5
  <2>12. ~ Execs(p)
    BY <2>3, <2>4 DEF Execs
  <2>13. ASSUME NEW c \in DOMAIN proc \ {p}, Reaps(p, c), proc[c].father = p PROVE ChainInv'
    <3>1. /\ r.at = "wait" /\ proc[c].at = "zombie" /\ Quiet
          /\ proc'[p] = Fam!AfterWait(r, c) /\ proc'[c] = [proc[c] EXCEPT !.at = "reaped"]
          /\ \A q \in DOMAIN proc \ {p, c} : proc'[q] = proc[q]
          /\ failed_f' = failed_f /\ printed' = printed
      BY <2>3, <2>13 DEF Reaps
    <3>2. c = p + 1
      <4>1. c \in Nat /\ Link(c)
        BY <2>1, <2>2
      <4>2. c # 0
        <5>1. proc[0].father = -1 /\ p # -1
          BY <2>2 DEF Rooted, Father
        <5> QED
          BY <2>13, <5>1
      <4> QED
        BY <2>2, <2>13, <4>1, <4>2 DEF Link
    <3>3. \A q \in DOMAIN proc : q > c => proc[q].at = "reaped"
      BY <2>1, <3>1 DEF Link
    <3>4. proc'[p].at = "exit" /\ proc'[p].father = r.father
      BY <1>4, <2>2, <2>3, <3>1, ChainCalls, FatherKept
    <3>5. proc'[c].at = "reaped" /\ proc'[c].father = proc[c].father
      <4>1. PICK d \in Desc : d = proc[c] /\ proc'[c] = [d EXCEPT !.at = "reaped"]
        BY <2>2, <3>1
      <4> QED
        BY <4>1 DEF Desc
    <3>6. \A q \in DOMAIN proc : q > p => proc'[q].at = "reaped"
      <4>1. ASSUME NEW q \in DOMAIN proc, q > p PROVE q = c \/ (q > c /\ q # p)
        BY <2>2, <3>2, <4>1
      <4> QED
        BY <3>1, <3>3, <3>5, <4>1
    <3>7. ASSUME NEW q \in DOMAIN proc PROVE Link(q)'
      <4>1. CASE q = p
        <5>1. p # 0 => proc'[p].father = p - 1
          BY <2>4, <3>4
        <5> QED
          BY <3>1, <3>4, <3>6, <4>1, <5>1 DEF Link, Quiet
      <4>2. CASE q = c
        <5>1. proc'[c].father = c - 1
          BY <2>2, <2>13, <3>2, <3>5
        <5>2. \A x \in DOMAIN proc : x > c => proc'[x].at = "reaped"
          BY <2>2, <3>2, <3>6
        <5> QED
          BY <3>1, <3>5, <4>2, <5>1, <5>2 DEF Link, Quiet
      <4>3. CASE q \notin {p, c}
        <5>1. proc'[q] = proc[q] /\ Link(q)
          BY <2>1, <3>1, <4>3
        <5>2. proc[q].at \in {"exit", "zombie", "reaped"} =>
                \A x \in DOMAIN proc : x > q => proc'[x].at = "reaped"
          <6>1. ASSUME proc[q].at \in {"exit", "zombie", "reaped"},
                       NEW x \in DOMAIN proc, x > q
                PROVE  proc'[x].at = "reaped"
            <7>1. proc[x].at = "reaped"
              BY <5>1, <6>1 DEF Link
            <7>2. x # p /\ x # c
              BY <2>3, <3>1, <7>1
            <7> QED
              BY <3>1, <7>1, <7>2
          <6> QED
            BY <6>1
        <5>3. proc[q].at \in {"record", "fork"} => FALSE
          <6>1. proc[q].at \in {"record", "fork"} => q = Born - 1
            BY <5>1 DEF Link
          <6>2. q = Born - 1 => q > c
            BY <2>2, <4>3
          <6> QED
            BY <3>3, <6>1, <6>2
        <5>4. (q # 0 => proc[q].father = q - 1)
              /\ proc[q].at \in {"record", "fork", "wait", "exit", "zombie", "reaped"}
          BY <5>1 DEF Link
        <5> QED
          BY <3>1, <5>1, <5>2, <5>3, <5>4 DEF Link, Quiet
      <4> QED
        BY <4>1, <4>2, <4>3
    <3>8. \A q \in DOMAIN proc' : Link(q)'
      BY <3>1, <3>7 DEF Quiet
    <3>9. proc[Born - 1].at \notin {"record", "fork"}
      <4>1. Born - 1 \in DOMAIN proc /\ (Born - 1 = c \/ Born - 1 > c)
        BY <2>2
      <4> QED
        BY <3>1, <3>3, <4>1
    <3> QED
      BY <2>6, <3>1, <3>8, <3>9
  <2>14. CASE ReapsNone(p)
    <3>1. /\ r.at = "wait" /\ Quiet /\ Same(p) /\ proc'[p] = Fam!AfterWait(r, -1)
          /\ Fam!Children(p) = {} /\ failed_f' = failed_f /\ printed' = printed
      BY <2>3, <2>14 DEF ReapsNone
    <3>2. proc'[p].at = "exit" /\ proc'[p].father = proc[p].father
      BY <1>4, <2>3, <3>1, ChainCalls, FatherKept
    <3>3. ASSUME NEW q \in DOMAIN proc, q > p PROVE proc[q].at = "reaped"
      <4>1. p + 1 \in DOMAIN proc /\ p + 1 # 0 /\ Link(p + 1)
        BY <2>1, <2>2, <3>3
      <4>2. proc[p + 1].father = p
        BY <2>2, <4>1 DEF Link
      <4>3. proc[p + 1].at = "reaped"
        BY <2>7, <3>1, <4>1, <4>2
      <4>4. q = p + 1 \/ q > p + 1
        BY <2>2, <3>3
      <4> QED
        BY <4>1, <4>3, <4>4 DEF Link
    <3>4. \A q \in DOMAIN proc' : Link(q)'
      BY <2>1, <2>3, <3>1, <3>2, <3>3, LinksKept
    <3>5. proc[Born - 1].at \in {"record", "fork"} => Born - 1 # p
      BY <2>3, <3>1
    <3> QED
      BY <2>2, <2>6, <3>1, <3>4, <3>5 DEF Same
  <2>15. CASE Exits(p)
    <3>1. /\ r.at = "exit" /\ Quiet /\ proc'[p] = [r EXCEPT !.at = "zombie"]
          /\ failed_f' = failed_f /\ printed' = printed
      BY <2>3, <2>15 DEF Exits
    <3>2. proc'[p].at = "zombie" /\ proc'[p].father = proc[p].father
      BY <2>3, <3>1 DEF Desc
    <3>3. Fam!Children(p) = {}
      <4>1. ASSUME NEW c \in DOMAIN proc, proc[c].father = p PROVE proc[c].at = "reaped"
        <5>1. c # 0 /\ c \in Nat /\ Link(c)
          BY <2>1, <2>2, <4>1 DEF Rooted, Father
        <5>2. c = p + 1
          BY <2>2, <4>1, <5>1 DEF Link
        <5> QED
          BY <2>2, <2>4, <3>1, <5>2
      <4> QED
        BY <2>7, <4>1
    <3>4. Same(p)
      BY <2>15, <3>3 DEF Exits, Same
    <3>5. \A q \in DOMAIN proc' : Link(q)'
      BY <2>1, <2>3, <2>4, <3>1, <3>2, <3>4, LinksKept
    <3>6. proc[Born - 1].at \in {"record", "fork"} => Born - 1 # p
      BY <2>3, <3>1
    <3> QED
      BY <2>2, <2>6, <3>1, <3>4, <3>5, <3>6 DEF Same
  <2> QED
    BY <1>1, <2>8, <2>9, <2>10, <2>11, <2>12, <2>13, <2>14, <2>15 DEF KidsStep
<1> QED
  BY <1>3, <1>4

(* arbreCreation: the process of pass i starts a chain of i + 1 processes, *)
(* of which each but the last has forked the next; code numbers them.      *)
Numbered ==
  /\ \A c \in DOMAIN proc \ {0} :
       /\ proc[c].at \in {"chain", "exit", "zombie", "reaped"}
       /\ proc[c].code <= proc[c].i /\ proc[c].i < NPasses
  /\ \A c, d \in DOMAIN proc \ {0} :
       proc[c].i = proc[d].i =>
         /\ c # d => proc[c].code # proc[d].code
         /\ proc[c].at = "chain" => proc[d].code <= proc[c].code

InTree(i, j) == \E d \in DOMAIN proc \ {0} : proc[d].i = i /\ proc[d].code = j
Linked == \A c \in DOMAIN proc \ {0} : \A j \in 0 .. proc[c].code : InTree(proc[c].i, j)

Grown(i) ==
  \E c \in DOMAIN proc \ {0} : proc[c].i = i /\ (proc[c].at = "chain" \/ proc[c].code = i)

TreeInv ==
  prog_f = "arbreCreation" =>
    /\ Father.at \in {"fork", "wait", "exit", "zombie"}
    /\ Father.code = IF Father.at \in {"exit", "zombie"} THEN 2 ELSE 0
    /\ Numbered /\ Linked
    /\ Father.at = "fork" =>
         /\ Father.i <= NPasses /\ Cardinality(Kids) <= Father.i
         /\ \A c \in DOMAIN proc \ {0} : proc[c].i < Father.i
         /\ failed_f = 0 => \A i \in 0 .. Father.i - 1 : Grown(i)
    /\ Father.at # "fork" /\ failed_f = 0 => \A i \in 0 .. NPasses - 1 : Grown(i)
    /\ Father.at = "wait" => Father.i + Cardinality(Kids) <= NPasses

(* The father forks, a chain grows, or no process is made.                 *)
Sprouts ==
  /\ Father.at = "fork" /\ Father.i < NPasses
  /\ Father'.at = "fork" /\ Father'.i = Father.i + 1 /\ Father'.code = Father.code
  /\ DOMAIN proc' = DOMAIN proc \cup {Born} /\ Kids' = Kids \cup {Born}
  /\ proc'[Born].at = "chain" /\ proc'[Born].i = Father.i /\ proc'[Born].code = Father.code
  /\ \A q \in DOMAIN proc \ {0} : proc'[q] = proc[q]
  /\ failed_f' = failed_f

Lengthens(c) ==
  /\ proc[c].at = "chain" /\ proc[c].code < proc[c].i
  /\ proc'[c].at = "exit" /\ proc'[c].i = proc[c].i /\ proc'[c].code = proc[c].code
  /\ DOMAIN proc' = DOMAIN proc \cup {Born} /\ Kids' = Kids /\ Father' = Father
  /\ proc'[Born].at = "chain" /\ proc'[Born].i = proc[c].i
  /\ proc'[Born].code = proc[c].code + 1
  /\ \A q \in DOMAIN proc \ {c} : proc'[q] = proc[q]
  /\ failed_f' = failed_f

EndsOnly ==
  /\ DOMAIN proc' = DOMAIN proc /\ failed_f' \in {failed_f, failed_f + 1}
  /\ \A q \in DOMAIN proc \ {0} :
       /\ proc'[q].i = proc[q].i /\ proc'[q].code = proc[q].code
       /\ proc'[q].at \in {proc[q].at, "exit", "zombie", "reaped"}
       /\ proc[q].at = "chain" /\ proc'[q].at # "chain" =>
            proc[q].code = proc[q].i \/ failed_f' = failed_f + 1

FatherMoves ==
  \/ Father' = Father /\ Kids' = Kids
  \/ /\ Father.at = "fork" /\ Father.i < NPasses /\ Father'.at = "fork"
     /\ Father'.i = Father.i + 1 /\ Father'.code = Father.code
     /\ failed_f' = failed_f + 1 /\ Kids' = Kids
  \/ /\ Father.at = "fork" /\ Father.i = NPasses /\ Father'.at = "wait"
     /\ Father'.i = 0 /\ Father'.code = Father.code /\ failed_f' = failed_f /\ Kids' = Kids
  \/ /\ Father.at = "wait" /\ Father'.at = IF Father.i + 1 = 11 THEN "exit" ELSE "wait"
     /\ Father'.i = Father.i + 1 /\ Father'.code = Father.code
     /\ (\E c \in Kids : Kids' = Kids \ {c}) /\ failed_f' = failed_f
  \/ /\ Father.at = "wait" /\ Father'.at = "exit" /\ Father'.code = 2
     /\ failed_f' = failed_f /\ Kids' = Kids
  \/ /\ Father.at = "exit" /\ Father'.at = "zombie" /\ Father'.code = Father.code
     /\ failed_f' = failed_f

(* What the calls make of a process of arbreCreation.                      *)
LEMMA TreeCalls ==
  ASSUME prog_f = "arbreCreation", NEW r \in Desc
  PROVE  /\ r.at = "fork" =>
              /\ \A c \in Int : Fam!AfterFork(r, c) = [r EXCEPT !.i = @ + 1, !.tab = @]
              /\ Fam!AfterFail(r) = [r EXCEPT !.i = @ + 1, !.tab = @]
              /\ Fam!Newborn(r) = [r EXCEPT !.at = "chain"]
         /\ r.at = "chain" =>
              /\ \A c \in Int : Fam!AfterFork(r, c) = [r EXCEPT !.at = "exit"]
              /\ Fam!AfterFail(r) = [r EXCEPT !.at = "exit"]
              /\ Fam!Newborn(r) = [r EXCEPT !.code = @ + 1]
         /\ \A c \in Nat :
              Fam!AfterWait(r, c) =
                [r EXCEPT !.i = @ + 1, !.at = IF r.i + 1 = 11 THEN "exit" ELSE "wait"]
         /\ Fam!AfterWait(r, -1) = [r EXCEPT !.at = "exit", !.code = 2]
         /\ Fam!AfterLoop = "wait" /\ Fam!Last = NPasses
<1>1. r.at = "fork" => /\ \A c \in Int : Fam!AfterFork(r, c) = [r EXCEPT !.i = @ + 1, !.tab = @]
                       /\ Fam!AfterFail(r) = [r EXCEPT !.i = @ + 1, !.tab = @]
  BY DEF Fam!AfterFork, Fam!AfterFail, Fam!Next1
<1>2. r.at = "fork" => Fam!Newborn(r) = [r EXCEPT !.at = "chain"]
  BY DEF Fam!Newborn, Fam!Goto
<1>3. r.at = "chain" => /\ \A c \in Int : Fam!AfterFork(r, c) = [r EXCEPT !.at = "exit"]
                        /\ Fam!AfterFail(r) = [r EXCEPT !.at = "exit"]
  BY DEF Fam!AfterFork, Fam!AfterFail, Fam!Goto
<1>4. r.at = "chain" => Fam!Newborn(r) = [r EXCEPT !.code = @ + 1]
  BY DEF Fam!Newborn, Fam!Goto
<1>5. \A c \in Nat :
        Fam!AfterWait(r, c) =
          [r EXCEPT !.i = @ + 1, !.at = IF r.i + 1 = 11 THEN "exit" ELSE "wait"]
  <2> SUFFICES ASSUME NEW c \in Nat
               PROVE  Fam!AfterWait(r, c) =
                        [r EXCEPT !.i = @ + 1, !.at = IF r.i + 1 = 11 THEN "exit" ELSE "wait"]
    OBVIOUS
  <2>1. c # Fam!Nobody
    BY NamesOfFamily
  <2>2. Fam!Enough(r, c) <=> r.i + 1 = 11
    BY <2>1 DEF Fam!Enough
  <2>3. Fam!AfterWait(r, c) =
          [r EXCEPT !.i = @ + 1, !.at = IF Fam!Enough(r, c) THEN "exit" ELSE "wait"]
    BY <2>1 DEF Fam!AfterWait
  <2> QED
    BY <2>2, <2>3, Zenon
<1>6. Fam!AfterWait(r, -1) = [r EXCEPT !.at = "exit", !.code = 2]
  BY NamesOfFamily DEF Fam!AfterWait, Fam!ExitWith
<1>7. Fam!AfterLoop = "wait" /\ Fam!Last = NPasses
  BY NamesOfFamily DEF Fam!AfterLoop, Fam!Last
<1> QED
  BY <1>1, <1>2, <1>3, <1>4, <1>5, <1>6, <1>7

LEMMA TreeMoves ==
  ASSUME Rooted, prog_f = "arbreCreation", Numbered,
         Father.at \in {"fork", "wait", "exit", "zombie"}, Fam!Next
  PROVE  /\ prog_f' = prog_f
         /\ \/ Sprouts \/ (\E c \in DOMAIN proc \ {0} : Lengthens(c))
            \/ (EndsOnly /\ FatherMoves)
<1>1. PICK p \in DOMAIN proc : KidsStep(p)
  BY KidsSteps
<1>2. prog_f' = prog_f
  BY <1>1 DEF KidsStep, Forks, FailsToFork, EndsLoop, Records, Execs, Reaps, ReapsNone, Exits,
     Quiet
<1>3. /\ \A q \in DOMAIN proc : proc[q] \in Desc /\ q \in Nat
      /\ 0 \in DOMAIN proc /\ Born \notin DOMAIN proc /\ Born \in Int
      /\ Father = proc[0] /\ failed_f \in Nat
  BY DEF FamType, Rooted, Father
<1>4. PICK r \in Desc : r = proc[p]
  BY <1>3
<1>5. /\ p = 0 => r.at \in {"fork", "wait", "exit", "zombie"}
      /\ p # 0 => r.at \in {"chain", "exit", "zombie", "reaped"} /\ r.code <= r.i
  BY <1>3, <1>4 DEF Numbered
<1>6. r.i \in Nat /\ r.code \in Nat /\ Fam!Last = NPasses /\ Fam!AfterLoop = "wait"
  BY <1>4, Fields, TreeCalls
<1>7. ASSUME Same(p), DOMAIN proc' = DOMAIN proc, p = 0, failed_f' \in {failed_f, failed_f + 1}
      PROVE  EndsOnly
  BY <1>7 DEF EndsOnly, Same
<1>8. ASSUME Same(p), DOMAIN proc' = DOMAIN proc, p # 0, failed_f' \in {failed_f, failed_f + 1},
             Kids' = Kids, proc'[p].i = r.i, proc'[p].code = r.code,
             proc'[p].at \in {"exit", "zombie"},
             r.at = "chain" => r.code = r.i \/ failed_f' = failed_f + 1
      PROVE  EndsOnly /\ FatherMoves
  <2>1. Father' = Father
    BY <1>3, <1>8 DEF Father, Same
  <2> QED
    BY <1>4, <1>8, <2>1 DEF EndsOnly, FatherMoves, Same
<1>9. ASSUME Forks(p), Kids' = IF p = 0 THEN Kids \cup {Born} ELSE Kids
      PROVE  Sprouts \/ \E c \in DOMAIN proc \ {0} : Lengthens(c)
  <2>1. /\ \/ r.at = "fork" /\ r.i < NPasses
           \/ r.at = "chain" /\ r.code < r.i
        /\ DOMAIN proc' = DOMAIN proc \cup {Born} /\ proc'[p] = Fam!AfterFork(r, Born)
        /\ proc'[Born] = [Fam!Newborn(r) EXCEPT !.father = p]
        /\ \A q \in DOMAIN proc \ {p} : proc'[q] = proc[q]
        /\ failed_f' = failed_f
    BY <1>4, <1>6, <1>9 DEF Forks, Same
  <2>2. CASE p = 0
    <3>1. r.at = "fork"
      BY <1>5, <2>1, <2>2
    <3>2. /\ proc'[0] = [r EXCEPT !.i = @ + 1, !.tab = @]
          /\ proc'[Born] = [[r EXCEPT !.at = "chain"] EXCEPT !.father = 0]
      BY <1>3, <2>1, <2>2, <3>1, TreeCalls
    <3>3. Father'.at = "fork" /\ Father'.i = Father.i + 1 /\ Father'.code = Father.code
      BY <1>3, <1>4, <2>2, <3>1, <3>2 DEF Father, Desc
    <3>4. proc'[Born].at = "chain" /\ proc'[Born].i = r.i /\ proc'[Born].code = r.code
      BY <3>2 DEF Desc
    <3> QED
      BY <1>3, <1>4, <1>9, <2>1, <2>2, <3>1, <3>3, <3>4 DEF Sprouts
  <2>3. CASE p # 0
    <3>1. r.at = "chain" /\ r.code < r.i
      BY <1>5, <2>1, <2>3
    <3>2. /\ proc'[p] = [r EXCEPT !.at = "exit"]
          /\ proc'[Born] = [[r EXCEPT !.code = @ + 1] EXCEPT !.father = p]
      BY <1>3, <2>1, <3>1, TreeCalls
    <3>3. proc'[p].at = "exit" /\ proc'[p].i = r.i /\ proc'[p].code = r.code
      BY <3>2 DEF Desc
    <3>4. proc'[Born].at = r.at /\ proc'[Born].i = r.i /\ proc'[Born].code = r.code + 1
      BY <3>2 DEF Desc
    <3>5. Father' = Father
      BY <1>3, <2>1, <2>3 DEF Father
    <3>6. Lengthens(p)
      BY <1>4, <1>9, <2>1, <2>3, <3>1, <3>3, <3>4, <3>5 DEF Lengthens
    <3> QED
      BY <2>3, <3>6
  <2> QED
    BY <2>2, <2>3
<1>10. ASSUME FailsToFork(p), Kids' = Kids PROVE EndsOnly /\ FatherMoves
  <2>1. /\ \/ r.at = "fork" /\ r.i < NPasses
           \/ r.at = "chain" /\ r.code < r.i
        /\ DOMAIN proc' = DOMAIN proc /\ proc'[p] = Fam!AfterFail(r)
        /\ Same(p) /\ failed_f' = failed_f + 1
    BY <1>4, <1>6, <1>10 DEF FailsToFork, Quiet
  <2>2. CASE p = 0
    <3>1. r.at = "fork" /\ r.i < NPasses
      BY <1>5, <2>1, <2>2
    <3>2. proc'[0] = [r EXCEPT !.i = @ + 1, !.tab = @]
      BY <2>1, <2>2, <3>1, TreeCalls
    <3>3. Father'.at = "fork" /\ Father'.i = Father.i + 1 /\ Father'.code = Father.code
      BY <1>3, <1>4, <2>2, <3>1, <3>2 DEF Father, Desc
    <3>4. Father.at = "fork" /\ Father.i < NPasses
      BY <1>3, <1>4, <2>2, <3>1
    <3> QED
      BY <1>7, <1>10, <2>1, <2>2, <3>3, <3>4 DEF FatherMoves
  <2>3. CASE p # 0
    <3>1. r.at = "chain"
      BY <1>5, <2>1, <2>3
    <3>2. proc'[p] = [r EXCEPT !.at = "exit"]
      BY <2>1, <3>1, TreeCalls
    <3>3. proc'[p].at = "exit" /\ proc'[p].i = r.i /\ proc'[p].code = r.code
      BY <3>2 DEF Desc
    <3> QED
      BY <1>8, <1>10, <2>1, <2>3, <3>3
  <2> QED
    BY <2>2, <2>3
<1>11. ASSUME EndsLoop(p), Kids' = Kids PROVE EndsOnly /\ FatherMoves
  <2>1. /\ \/ /\ r.at = "fork" /\ r.i = NPasses
              /\ proc'[p] = [r EXCEPT !.at = "wait", !.i = 0]
           \/ r.at = "chain" /\ ~(r.code < r.i) /\ proc'[p] = [r EXCEPT !.at = "exit"]
        /\ DOMAIN proc' = DOMAIN proc /\ Same(p) /\ failed_f' = failed_f
    BY <1>4, <1>6, <1>11 DEF EndsLoop, Quiet
  <2>2. CASE p = 0
    <3>1. r.at = "fork" /\ r.i = NPasses /\ proc'[0] = [r EXCEPT !.at = "wait", !.i = 0]
      BY <1>5, <2>1, <2>2
    <3>2. Father'.at = "wait" /\ Father'.i = 0 /\ Father'.code = Father.code
      BY <1>3, <1>4, <2>2, <3>1 DEF Father, Desc
    <3>3. Father.at = "fork" /\ Father.i = NPasses
      BY <1>3, <1>4, <2>2, <3>1
    <3> QED
      BY <1>7, <1>11, <2>1, <2>2, <3>2, <3>3 DEF FatherMoves
  <2>3. CASE p # 0
    <3>1. r.at = "chain" /\ ~(r.code < r.i) /\ proc'[p] = [r EXCEPT !.at = "exit"]
      BY <1>5, <2>1, <2>3
    <3>2. proc'[p].at = "exit" /\ proc'[p].i = r.i /\ proc'[p].code = r.code
      BY <3>1 DEF Desc
    <3>3. r.code = r.i
      BY <1>5, <1>6, <2>3, <3>1
    <3> QED
      BY <1>8, <1>11, <2>1, <2>3, <3>2, <3>3
  <2> QED
    BY <2>2, <2>3
<1>12. ~ Records(p) /\ ~ Execs(p)
  BY <1>4, <1>5 DEF Records, Execs
<1>13. ASSUME NEW c \in DOMAIN proc \ {p}, Reaps(p, c), Kids' = Kids \ {c}, p = 0 => c \in Kids
       PROVE  EndsOnly /\ FatherMoves
  <2>1. /\ r.at = "wait" /\ proc[c].at = "zombie"
        /\ DOMAIN proc' = DOMAIN proc /\ proc'[p] = Fam!AfterWait(r, c)
        /\ proc'[c] = [proc[c] EXCEPT !.at = "reaped"]
        /\ \A q \in DOMAIN proc \ {p, c} : proc'[q] = proc[q]
        /\ failed_f' = failed_f
    BY <1>4, <1>13 DEF Reaps, Quiet
  <2>2. p = 0
    BY <1>5, <2>1
  <2>3. proc'[0] = [r EXCEPT !.i = @ + 1, !.at = IF r.i + 1 = 11 THEN "exit" ELSE "wait"]
    BY <1>3, <2>1, <2>2, TreeCalls
  <2>4. /\ Father'.at = IF r.i + 1 = 11 THEN "exit" ELSE "wait"
        /\ Father'.i = r.i + 1 /\ Father'.code = r.code
    BY <2>3 DEF Father, Desc
  <2>5. proc'[c].at = "reaped" /\ proc'[c].i = proc[c].i /\ proc'[c].code = proc[c].code
    <3>1. PICK d \in Desc : d = proc[c] /\ proc'[c] = [d EXCEPT !.at = "reaped"]
      BY <1>3, <2>1
    <3> QED
      BY <3>1 DEF Desc
  <2>6. EndsOnly
    BY <2>1, <2>2, <2>5 DEF EndsOnly
  <2> QED
    BY <1>3, <1>4, <1>13, <2>1, <2>2, <2>4, <2>6 DEF FatherMoves
<1>14. ASSUME ReapsNone(p), Kids' = Kids PROVE EndsOnly /\ FatherMoves
  <2>1. /\ r.at = "wait" /\ DOMAIN proc' = DOMAIN proc /\ proc'[p] = Fam!AfterWait(r, -1)
        /\ Same(p) /\ failed_f' = failed_f
    BY <1>4, <1>14 DEF ReapsNone, Quiet
  <2>2. p = 0
    BY <1>5, <2>1
  <2>3. proc'[0] = [r EXCEPT !.at = "exit", !.code = 2]
    BY <2>1, <2>2, TreeCalls
  <2>4. Father'.at = "exit" /\ Father'.code = 2
    BY <2>3 DEF Father, Desc
  <2> QED
    BY <1>3, <1>4, <1>7, <1>14, <2>1, <2>2, <2>4 DEF FatherMoves
<1>15. ASSUME Exits(p), p # 0 => Kids' = Kids PROVE EndsOnly /\ FatherMoves
  <2>1. /\ r.at = "exit" /\ DOMAIN proc' = DOMAIN proc /\ proc'[p] = [r EXCEPT !.at = "zombie"]
        /\ \A q \in Fam!Children(p) \ {p} : proc'[q] = [proc[q] EXCEPT !.father = -1]
        /\ \A q \in DOMAIN proc \ (Fam!Children(p) \cup {p}) : proc'[q] = proc[q]
        /\ failed_f' = failed_f
    BY <1>4, <1>15 DEF Exits, Quiet
  <2>2. proc'[p].at = "zombie" /\ proc'[p].i = r.i /\ proc'[p].code = r.code
    BY <2>1 DEF Desc
  <2>3. ASSUME NEW q \in DOMAIN proc \ {p}
        PROVE  proc'[q].i = proc[q].i /\ proc'[q].code = proc[q].code /\ proc'[q].at = proc[q].at
    <3>1. CASE q \in Fam!Children(p)
      <4>1. PICK d \in Desc : d = proc[q] /\ proc'[q] = [d EXCEPT !.father = -1]
        BY <1>3, <2>1, <2>3, <3>1
      <4> QED
        BY <4>1 DEF Desc
    <3>2. CASE q \notin Fam!Children(p)
      BY <2>1, <2>3, <3>2
    <3> QED
      BY <3>1, <3>2
  <2>4. EndsOnly
    BY <1>4, <2>1, <2>2, <2>3 DEF EndsOnly
  <2>5. CASE p = 0
    BY <1>3, <1>4, <2>1, <2>2, <2>4, <2>5 DEF FatherMoves, Father
  <2>6. CASE p # 0
    <3>1. 0 \notin Fam!Children(p)
      <4>1. proc[0].father = -1 /\ p # -1
        BY <1>3 DEF Rooted, Father
      <4> QED
        BY <4>1 DEF Fam!Children
    <3>2. Father' = Father
      BY <1>3, <2>1, <2>6, <3>1 DEF Father
    <3> QED
      BY <1>15, <2>4, <2>6, <3>2 DEF FatherMoves
  <2> QED
    BY <2>5, <2>6
<1> QED
  BY <1>1, <1>2, <1>9, <1>10, <1>11, <1>12, <1>13, <1>14, <1>15 DEF KidsStep

(* A step after which no process has been made.                            *)
LEMMA TreeEnds ==
  ASSUME Rooted, Numbered, Linked, EndsOnly, NPasses' = NPasses
  PROVE  /\ Numbered' /\ Linked'
         /\ failed_f' = 0 => failed_f = 0 /\ \A i : Grown(i) => Grown(i)'
<1>1. /\ DOMAIN proc' = DOMAIN proc /\ failed_f' \in {failed_f, failed_f + 1}
      /\ \A q \in DOMAIN proc \ {0} :
           /\ proc'[q].i = proc[q].i /\ proc'[q].code = proc[q].code
           /\ proc'[q].at \in {proc[q].at, "exit", "zombie", "reaped"}
           /\ proc[q].at = "chain" /\ proc'[q].at # "chain" =>
                proc[q].code = proc[q].i \/ failed_f' = failed_f + 1
  BY DEF EndsOnly
<1>2. Numbered'
  <2>1. \A q \in DOMAIN proc \ {0} : /\ proc'[q].at \in {"chain", "exit", "zombie", "reaped"}
                                     /\ proc'[q].at = "chain" => proc[q].at = "chain"
    BY <1>1 DEF Numbered
  <2> QED
    BY <1>1, <2>1 DEF Numbered
<1>3. Linked'
  <2>1. \A i, j : InTree(i, j) => InTree(i, j)'
    BY <1>1 DEF InTree
  <2> QED
    BY <1>1, <2>1 DEF Linked
<1>4. failed_f' = 0 => failed_f = 0 /\ failed_f' # failed_f + 1
  BY <1>1 DEF Rooted, FamType
<1>5. ASSUME failed_f' = 0, NEW i, Grown(i) PROVE Grown(i)'
  <2>1. PICK c \in DOMAIN proc \ {0} :
          proc[c].i = i /\ (proc[c].at = "chain" \/ proc[c].code = i)
    BY <1>5 DEF Grown
  <2>2. proc'[c].i = i /\ (proc'[c].at = "chain" \/ proc'[c].code = i)
    BY <1>1, <1>4, <1>5, <2>1
  <2> QED
    BY <1>1, <2>2 DEF Grown
<1> QED
  BY <1>2, <1>3, <1>4, <1>5

(* A step that makes a process, the last of a chain, which alone changes.  *)
LEMMA TreeGrows ==
  ASSUME Rooted, Linked, DOMAIN proc' = DOMAIN proc \cup {Born},
         \A q \in DOMAIN proc \ {0} : proc'[q].i = proc[q].i /\ proc'[q].code = proc[q].code,
         NEW i \in Nat, NEW n \in Nat, proc'[Born].i = i, proc'[Born].code = n,
         n = 0 \/ InTree(i, n - 1)
  PROVE  Linked'
<1> DEFINE After(x, j) == \E d \in DOMAIN proc' \ {0} : proc'[d].i = x /\ proc'[d].code = j
<1>1. \A x, j : InTree(x, j) => After(x, j)
  BY DEF InTree
<1>2. Born # 0 /\ After(i, n)
  BY DEF Rooted, FamType
<1>3. ASSUME NEW c \in DOMAIN proc' \ {0}, NEW j \in 0 .. proc'[c].code
      PROVE  After(proc'[c].i, j)
  <2> HIDE DEF After
  <2>1. CASE c = Born
    <3>1. CASE j = n
      BY <1>2, <2>1, <3>1
    <3>2. CASE j # n
      <4>1. n # 0 /\ j \in 0 .. n - 1
        BY <1>3, <2>1, <3>2
      <4>2. PICK d \in DOMAIN proc \ {0} : proc[d].i = i /\ proc[d].code = n - 1
        BY <4>1 DEF InTree
      <4>3. InTree(i, j)
        BY <4>1, <4>2 DEF Linked
      <4> QED
        BY <1>1, <2>1, <4>3
    <3> QED
      BY <3>1, <3>2
  <2>2. CASE c # Born
    <3>1. c \in DOMAIN proc \ {0} /\ j \in 0 .. proc[c].code /\ proc'[c].i = proc[c].i
      BY <1>3, <2>2
    <3>2. InTree(proc[c].i, j)
      BY <3>1 DEF Linked
    <3> QED
      BY <1>1, <3>1, <3>2
  <2> QED
    BY <2>1, <2>2
<1> QED
  BY <1>3 DEF Linked, InTree

LEMMA TreeKept ==
  ASSUME Fam!PassesAssumption, Rooted, TreeInv, Fam!Next
  PROVE  TreeInv'
<1>1. prog_f' = prog_f
  <2>1. PICK p \in DOMAIN proc : KidsStep(p)
    BY KidsSteps
  <2> QED
    BY <2>1 DEF KidsStep, Forks, FailsToFork, EndsLoop, Records, Execs, Reaps, ReapsNone, Exits,
       Quiet
<1> SUFFICES ASSUME prog_f = "arbreCreation" PROVE TreeInv'
  BY <1>1 DEF TreeInv
<1>2. /\ Father.at \in {"fork", "wait", "exit", "zombie"}
      /\ Father.code = IF Father.at \in {"exit", "zombie"} THEN 2 ELSE 0
      /\ Numbered /\ Linked
      /\ Father.at = "fork" =>
           /\ Father.i <= NPasses /\ Cardinality(Kids) <= Father.i
           /\ \A c \in DOMAIN proc \ {0} : proc[c].i < Father.i
           /\ failed_f = 0 => \A i \in 0 .. Father.i - 1 : Grown(i)
      /\ Father.at # "fork" /\ failed_f = 0 => \A i \in 0 .. NPasses - 1 : Grown(i)
      /\ Father.at = "wait" => Father.i + Cardinality(Kids) <= NPasses
  BY DEF TreeInv
<1>3. Sprouts \/ (\E c \in DOMAIN proc \ {0} : Lengthens(c)) \/ (EndsOnly /\ FatherMoves)
  BY <1>2, TreeMoves
<1>4. /\ \A q \in DOMAIN proc : proc[q] \in Desc /\ q \in Nat
      /\ 0 \in DOMAIN proc /\ Born \notin DOMAIN proc /\ Born \in Nat \ {0}
      /\ Father = proc[0] /\ Father.i \in Nat /\ failed_f \in Nat
      /\ NPasses \in Nat \ {0} /\ NPasses < 11 /\ NPasses' = NPasses
  <2>1. NPasses \in Nat \ {0} /\ NPasses < 11 /\ NPasses' = NPasses
    <3>1. prog_f \in Fam!Programs
      BY DEF Rooted, FamType
    <3> QED
      BY <1>1, <3>1 DEF Fam!PassesAssumption, NPasses
  <2>2. \A q \in DOMAIN proc : proc[q] \in Desc /\ q \in Nat
    BY DEF Rooted, FamType
  <2>3. 0 \in DOMAIN proc /\ Born \notin DOMAIN proc /\ Born \in Nat \ {0} /\ failed_f \in Nat
    BY DEF Rooted, FamType
  <2>4. Father = proc[0] /\ Father.i \in Nat
    BY <2>2, <2>3, Fields DEF Father
  <2> QED
    BY <2>1, <2>2, <2>3, <2>4
<1>5. Kids \subseteq DOMAIN proc /\ IsFiniteSet(Kids) /\ Cardinality(Kids) \in Nat
  BY KidsFinite DEF Rooted
<1>6. \A q \in DOMAIN proc : proc[q].i \in Nat /\ proc[q].code \in Nat
  BY <1>4, Fields
<1>7. CASE Sprouts
  <2>1. /\ Father.at = "fork" /\ Father.i < NPasses
        /\ Father'.at = "fork" /\ Father'.i = Father.i + 1 /\ Father'.code = Father.code
        /\ DOMAIN proc' = DOMAIN proc \cup {Born} /\ Kids' = Kids \cup {Born}
        /\ proc'[Born].at = "chain" /\ proc'[Born].i = Father.i /\ proc'[Born].code = 0
        /\ \A q \in DOMAIN proc \ {0} : proc'[q] = proc[q]
        /\ failed_f' = failed_f
    BY <1>2, <1>7 DEF Sprouts
  <2>2. \A c \in DOMAIN proc \ {0} : proc[c].i < Father.i /\ proc[c].i # Father.i
    BY <1>2, <1>4, <1>6, <2>1
  <2>3. \A c \in DOMAIN proc' \ {0} : c = Born \/ c \in DOMAIN proc \ {0}
    BY <2>1
  <2>4. Numbered'
    <3>1. ASSUME NEW c \in DOMAIN proc' \ {0}
          PROVE  /\ proc'[c].at \in {"chain", "exit", "zombie", "reaped"}
                 /\ proc'[c].code <= proc'[c].i /\ proc'[c].i < NPasses
      <4>1. CASE c = Born
        BY <1>4, <2>1, <4>1
      <4>2. CASE c # Born
        <5>1. c \in DOMAIN proc \ {0} /\ proc'[c] = proc[c]
          BY <2>1, <2>3, <4>2
        <5> QED
          BY <1>2, <5>1 DEF Numbered
      <4> QED
        BY <4>1, <4>2
    <3>2. ASSUME NEW c \in DOMAIN proc' \ {0}, NEW d \in DOMAIN proc' \ {0},
                 proc'[c].i = proc'[d].i
          PROVE  /\ c # d => proc'[c].code # proc'[d].code
                 /\ proc'[c].at = "chain" => proc'[d].code <= proc'[c].code
      <4>1. CASE c = Born
        <5>1. d = Born
          BY <2>1, <2>2, <2>3, <3>2, <4>1
        <5> QED
          BY <2>1, <4>1, <5>1
      <4>2. CASE c # Born
        <5>1. c \in DOMAIN proc \ {0} /\ proc'[c] = proc[c]
          BY <2>1, <2>3, <4>2
        <5>2. d # Born
          BY <2>1, <2>2, <3>2, <5>1
        <5>3. d \in DOMAIN proc \ {0} /\ proc'[d] = proc[d]
          BY <2>1, <2>3, <5>2
        <5> QED
          BY <1>2, <3>2, <5>1, <5>3 DEF Numbered
      <4> QED
        BY <4>1, <4>2
    <3> QED
      BY <1>4, <3>1, <3>2 DEF Numbered
  <2>5. Linked'
    BY <1>2, <1>4, <2>1, TreeGrows
  <2>6. Cardinality(Kids') = Cardinality(Kids) + 1
    BY <1>4, <1>5, <2>1, FS_AddElement
  <2>7. Father'.i <= NPasses /\ Cardinality(Kids') <= Father'.i
    BY <1>2, <1>4, <1>5, <2>1, <2>6
  <2>8. \A c \in DOMAIN proc' \ {0} : proc'[c].i < Father'.i
    BY <1>4, <1>6, <2>1, <2>2, <2>3
  <2>9. ASSUME failed_f = 0, NEW i \in 0 .. Father'.i - 1 PROVE Grown(i)'
    <3>1. CASE i = Father.i
      BY <1>4, <2>1, <3>1 DEF Grown
    <3>2. CASE i # Father.i
      <4>1. i \in 0 .. Father.i - 1
        BY <1>4, <2>1, <2>9, <3>2
      <4>2. PICK c \in DOMAIN proc \ {0} :
              proc[c].i = i /\ (proc[c].at = "chain" \/ proc[c].code = i)
        BY <1>2, <2>1, <2>9, <4>1 DEF Grown
      <4> QED
        BY <2>1, <4>2 DEF Grown
    <3> QED
      BY <3>1, <3>2
  <2> QED
    BY <1>1, <1>2, <1>4, <2>1, <2>4, <2>5, <2>7, <2>8, <2>9 DEF TreeInv
<1>8. ASSUME NEW c \in DOMAIN proc \ {0}, Lengthens(c) PROVE TreeInv'
  <2>1. /\ proc[c].at = "chain" /\ proc[c].code < proc[c].i
        /\ proc'[c].at = "exit" /\ proc'[c].i = proc[c].i /\ proc'[c].code = proc[c].code
        /\ DOMAIN proc' = DOMAIN proc \cup {Born} /\ Kids' = Kids /\ Father' = Father
        /\ proc'[Born].at = "chain" /\ proc'[Born].i = proc[c].i
        /\ proc'[Born].code = proc[c].code + 1
        /\ \A q \in DOMAIN proc \ {c} : proc'[q] = proc[q]
        /\ failed_f' = failed_f
    BY <1>8 DEF Lengthens
  <2>2. \A q \in DOMAIN proc \ {0} : /\ proc'[q].i = proc[q].i /\ proc'[q].code = proc[q].code
                                     /\ proc'[q].at = "chain" => q # c /\ proc[q].at = "chain"
                                     /\ proc'[q].at \in {proc[q].at, "exit"}
    BY <2>1
  <2>3. \A q \in DOMAIN proc' \ {0} : q = Born \/ q \in DOMAIN proc \ {0}
    BY <2>1
  <2>4. \A q \in DOMAIN proc \ {0} :
          proc[q].i = proc[c].i => /\ proc[q].code <= proc[c].code
                                   /\ proc[q].at = "chain" => q = c
    <3>1. ASSUME NEW q \in DOMAIN proc \ {0}, proc[q].i = proc[c].i
          PROVE  proc[q].code <= proc[c].code
      BY <1>2, <2>1, <3>1 DEF Numbered
    <3>2. ASSUME NEW q \in DOMAIN proc \ {0}, proc[q].i = proc[c].i, proc[q].at = "chain"
          PROVE  q = c
      <4>1. proc[q].code <= proc[c].code /\ proc[c].code <= proc[q].code
        BY <1>2, <2>1, <3>2 DEF Numbered
      <4>2. proc[q].code = proc[c].code
        BY <1>6, <4>1
      <4> QED
        BY <1>2, <3>2, <4>2 DEF Numbered
    <3> QED
      BY <3>1, <3>2
  <2>5. Numbered'
    <3>1. ASSUME NEW q \in DOMAIN proc' \ {0}
          PROVE  /\ proc'[q].at \in {"chain", "exit", "zombie", "reaped"}
                 /\ proc'[q].code <= proc'[q].i /\ proc'[q].i < NPasses
      <4>1. CASE q = Born
        <5>1. proc[c].code + 1 <= proc[c].i /\ proc[c].i < NPasses
          BY <1>2, <1>6, <2>1 DEF Numbered
        <5> QED
          BY <2>1, <4>1, <5>1
      <4>2. CASE q # Born
        <5>1. q \in DOMAIN proc \ {0}
          BY <2>3, <4>2
        <5> QED
          BY <1>2, <2>2, <5>1 DEF Numbered
      <4> QED
        BY <4>1, <4>2
    <3>2. ASSUME NEW q \in DOMAIN proc' \ {0}, NEW d \in DOMAIN proc' \ {0},
                 proc'[q].i = proc'[d].i
          PROVE  /\ q # d => proc'[q].code # proc'[d].code
                 /\ proc'[q].at = "chain" => proc'[d].code <= proc'[q].code
      <4>1. CASE q = Born /\ d = Born
        BY <1>6, <2>1, <4>1
      <4>2. CASE q = Born /\ d # Born
        <5>1. d \in DOMAIN proc \ {0} /\ proc[d].i = proc[c].i /\ proc'[d].code = proc[d].code
          BY <2>1, <2>2, <2>3, <3>2, <4>2
        <5>2. proc[d].code <= proc[c].code
          BY <2>4, <5>1
        <5> QED
          BY <1>6, <2>1, <4>2, <5>1, <5>2
      <4>3. CASE q # Born /\ d = Born
        <5>1. q \in DOMAIN proc \ {0} /\ proc[q].i = proc[c].i /\ proc'[q].code = proc[q].code
          BY <2>1, <2>2, <2>3, <3>2, <4>3
        <5>2. proc[q].code <= proc[c].code /\ proc'[q].at # "chain"
          BY <2>2, <2>4, <5>1
        <5> QED
          BY <1>6, <2>1, <4>3, <5>1, <5>2
      <4>4. CASE q # Born /\ d # Born
        <5>1. q \in DOMAIN proc \ {0} /\ d \in DOMAIN proc \ {0} /\ proc[q].i = proc[d].i
          BY <2>2, <2>3, <3>2, <4>4
        <5>2. /\ q # d => proc[q].code # proc[d].code
              /\ proc[q].at = "chain" => proc[d].code <= proc[q].code
          BY <1>2, <5>1 DEF Numbered
        <5> QED
          BY <2>2, <5>1, <5>2
      <4> QED
        BY <4>1, <4>2, <4>3, <4>4
    <3> QED
      BY <1>4, <3>1, <3>2 DEF Numbered
  <2>6. Linked'
    <3>1. InTree(proc[c].i, proc[c].code) /\ proc[c].code + 1 - 1 = proc[c].code
          /\ proc[c].code + 1 \in Nat
      BY <1>6 DEF InTree
    <3> QED
      BY <1>2, <1>6, <2>1, <2>2, <3>1, TreeGrows
  <2>7. ASSUME NEW i, Grown(i) PROVE Grown(i)'
    <3>1. PICK q \in DOMAIN proc \ {0} :
            proc[q].i = i /\ (proc[q].at = "chain" \/ proc[q].code = i)
      BY <2>7 DEF Grown
    <3>2. CASE q = c
      <4>1. Born \in DOMAIN proc' \ {0} /\ proc'[Born].i = i /\ proc'[Born].at = "chain"
        BY <1>4, <2>1, <3>1, <3>2
      <4> QED
        BY <4>1 DEF Grown
    <3>3. CASE q # c
      BY <2>1, <3>1, <3>3 DEF Grown
    <3> QED
      BY <3>2, <3>3
  <2>8. Father.at = "fork" => \A q \in DOMAIN proc' \ {0} : proc'[q].i < Father'.i
    BY <1>2, <2>1, <2>2, <2>3
  <2> QED
    BY <1>1, <1>2, <1>4, <2>1, <2>5, <2>6, <2>7, <2>8 DEF TreeInv
<1>9. CASE EndsOnly /\ FatherMoves
  <2>1. /\ Numbered' /\ Linked'
        /\ failed_f' = 0 => failed_f = 0 /\ \A i : Grown(i) => Grown(i)'
    BY <1>2, <1>4, <1>9, TreeEnds
  <2>2. DOMAIN proc' = DOMAIN proc /\ \A q \in DOMAIN proc \ {0} : proc'[q].i = proc[q].i
    BY <1>9 DEF EndsOnly
  <2>3. CASE Father' = Father /\ Kids' = Kids
    BY <1>1, <1>2, <1>4, <2>1, <2>2, <2>3 DEF TreeInv
  <2>4. CASE /\ Father.at = "fork" /\ Father.i < NPasses /\ Father'.at = "fork"
             /\ Father'.i = Father.i + 1 /\ Father'.code = Father.code
             /\ failed_f' = failed_f + 1 /\ Kids' = Kids
    <3>1. failed_f' # 0 /\ Father'.i <= NPasses /\ Cardinality(Kids') <= Father'.i
      BY <1>2, <1>4, <1>5, <2>4
    <3>2. \A q \in DOMAIN proc' \ {0} : proc'[q].i < Father'.i
      <4>1. \A q \in DOMAIN proc \ {0} : proc[q].i < Father.i /\ proc[q].i \in Nat
        BY <1>2, <1>6, <2>4
      <4> QED
        BY <1>4, <2>2, <2>4, <4>1
    <3> QED
      BY <1>1, <1>2, <1>4, <2>1, <2>4, <3>1, <3>2 DEF TreeInv
  <2>5. CASE /\ Father.at = "fork" /\ Father.i = NPasses /\ Father'.at = "wait"
             /\ Father'.i = 0 /\ Father'.code = Father.code /\ failed_f' = failed_f
             /\ Kids' = Kids
    <3>1. Father'.i + Cardinality(Kids') <= NPasses
      BY <1>2, <1>4, <1>5, <2>5
    <3> QED
      BY <1>1, <1>2, <1>4, <2>1, <2>5, <3>1 DEF TreeInv
  <2>6. CASE /\ Father.at = "wait" /\ Father'.at = IF Father.i + 1 = 11 THEN "exit" ELSE "wait"
             /\ Father'.i = Father.i + 1 /\ Father'.code = Father.code
             /\ (\E c \in Kids : Kids' = Kids \ {c}) /\ failed_f' = failed_f
    <3>1. Cardinality(Kids') = Cardinality(Kids) - 1 /\ Cardinality(Kids') \in Nat
      <4>1. PICK c \in Kids : Kids' = Kids \ {c}
        BY <2>6
      <4>2. IsFiniteSet(Kids') /\ Cardinality(Kids') = Cardinality(Kids) - 1
        BY <1>5, <4>1, FS_RemoveElement
      <4> QED
        BY <4>2, FS_CardinalityType
    <3>2. Father'.i + Cardinality(Kids') <= NPasses /\ Father'.at = "wait"
      <4>1. Father.i + Cardinality(Kids) <= NPasses
        BY <1>2, <2>6
      <4>2. Father.i + 1 + Cardinality(Kids') <= NPasses
        BY <1>4, <1>5, <3>1, <4>1
      <4>3. Father.i + 1 # 11
        BY <1>4, <3>1, <4>2
      <4> QED
        BY <2>6, <4>2, <4>3
    <3> QED
      BY <1>1, <1>2, <1>4, <2>1, <2>6, <3>2 DEF TreeInv
  <2>7. CASE /\ Father.at = "wait" /\ Father'.at = "exit" /\ Father'.code = 2
             /\ failed_f' = failed_f /\ Kids' = Kids
    BY <1>1, <1>2, <1>4, <2>1, <2>7 DEF TreeInv
  <2>8. CASE /\ Father.at = "exit" /\ Father'.at = "zombie" /\ Father'.code = Father.code
             /\ failed_f' = failed_f
    BY <1>1, <1>2, <1>4, <2>1, <2>8 DEF TreeInv
  <2> QED
    BY <1>9, <2>3, <2>4, <2>5, <2>6, <2>7, <2>8 DEF FatherMoves
<1> QED
  BY <1>3, <1>7, <1>8, <1>9

(* How many processes the chains of n passes have.                         *)
Triangle(n) == {x \in (0 .. 10) \X (0 .. 10) : x[2] <= x[1] /\ x[1] < n}

LEMMA TriangleGrows ==
  ASSUME NEW n \in 0 .. 10, IsFiniteSet(Triangle(n))
  PROVE  /\ IsFiniteSet(Triangle(n + 1))
         /\ Cardinality(Triangle(n + 1)) = Cardinality(Triangle(n)) + n + 1
<1> DEFINE Row == {n} \X (0 .. n)
<1>1. Triangle(n + 1) = Triangle(n) \cup Row /\ Triangle(n) \cap Row = {}
  <2>1. ASSUME NEW x PROVE x \in Triangle(n + 1) <=> x \in Triangle(n) \/ x \in Row
    <3>1. CASE x \in (0 .. 10) \X (0 .. 10)
      <4>1. PICK i \in 0 .. 10, j \in 0 .. 10 : x = <<i, j>>
        BY <3>1
      <4> QED
        BY <4>1 DEF Triangle
    <3>2. CASE x \notin (0 .. 10) \X (0 .. 10)
      <4>1. x \notin Row
        BY <3>2
      <4> QED
        BY <3>2, <4>1 DEF Triangle
    <3> QED
      BY <3>1, <3>2
  <2>2. \A x \in Row : x[1] = n
    OBVIOUS
  <2>3. \A x \in Triangle(n) : x[1] < n /\ x[1] \in 0 .. 10
    BY DEF Triangle
  <2> QED
    BY <2>1, <2>2, <2>3
<1>2. IsFiniteSet(Row) /\ Cardinality(Row) = n + 1
  <2>1. IsFiniteSet(0 .. n) /\ Cardinality(0 .. n) = n + 1
    <3>1. 0 \in Int /\ n \in Int
      OBVIOUS
    <3>2. IsFiniteSet(0 .. n) /\ Cardinality(0 .. n) = IF 0 > n THEN 0 ELSE n - 0 + 1
      BY <3>1, FS_Interval
    <3> QED
      BY <3>2
  <2> DEFINE f == [j \in 0 .. n |-> <<n, j>>]
  <2>2. f \in Bijection(0 .. n, Row)
    <3>1. f \in [0 .. n -> Row] /\ \A j \in 0 .. n : f[j] = <<n, j>>
      OBVIOUS
    <3> HIDE DEF f
    <3>2. \A j, k \in 0 .. n : f[j] = f[k] => j = k
      BY <3>1
    <3>3. ASSUME NEW x \in Row PROVE \E j \in 0 .. n : f[j] = x
      <4>1. PICK j \in 0 .. n : x = <<n, j>>
        OBVIOUS
      <4> QED
        BY <3>1, <4>1
    <3> QED
      BY <3>1, <3>2, <3>3 DEF Bijection, Injection, Surjection, IsInjective
  <2>3. ExistsBijection(0 .. n, Row)
    BY <2>2, Zenon DEF ExistsBijection
  <2> HIDE DEF Row
  <2>4. IsFiniteSet(Row) /\ Cardinality(Row) = Cardinality(0 .. n)
    BY <2>1, <2>3, FS_Bijection
  <2> QED
    BY <2>1, <2>4
<1> HIDE DEF Row
<1>3. /\ IsFiniteSet(Triangle(n) \cup Row)
      /\ Cardinality(Triangle(n) \cup Row)
           = Cardinality(Triangle(n)) + Cardinality(Row) - Cardinality(Triangle(n) \cap Row)
  BY <1>2, FS_Union
<1>4. Cardinality(Triangle(n) \cap Row) = 0 /\ Cardinality(Triangle(n)) \in Nat
  BY <1>1, FS_EmptySet, FS_CardinalityType
<1>5. Cardinality(Triangle(n)) + (n + 1) - 0 = Cardinality(Triangle(n)) + n + 1
  BY <1>4
<1> QED
  BY <1>1, <1>2, <1>3, <1>4, <1>5, Zenon

LEMMA TriangleCount ==
  ASSUME NEW n \in 1 .. 10
  PROVE  IsFiniteSet(Triangle(n)) /\ Cardinality(Triangle(n)) = n + (n * (n - 1)) \div 2
<1> DEFINE Holds(k, m) == IsFiniteSet(Triangle(k)) /\ Cardinality(Triangle(k)) = m
<1>1. \A k \in 0 .. 9, m \in Nat : Holds(k, m) => Holds(k + 1, m + k + 1)
  BY TriangleGrows
<1>2. Holds(0, 0)
  <2>1. \A x \in Triangle(0) : x[1] < 0 /\ x[1] \in 0 .. 10
    BY DEF Triangle
  <2>2. Triangle(0) = {}
    BY <2>1
  <2> QED
    BY <2>2, FS_EmptySet
<1> HIDE DEF Holds
<1>3. Holds(1, 1)
  BY <1>1, <1>2
<1>4. Holds(2, 3)
  BY <1>1, <1>3
<1>5. Holds(3, 6)
  BY <1>1, <1>4
<1>6. Holds(4, 10)
  BY <1>1, <1>5
<1>7. Holds(5, 15)
  BY <1>1, <1>6
<1>8. Holds(6, 21)
  BY <1>1, <1>7
<1>9. Holds(7, 28)
  BY <1>1, <1>8
<1>10. Holds(8, 36)
  BY <1>1, <1>9
<1>11. Holds(9, 45)
  BY <1>1, <1>10
<1>12. Holds(10, 55)
  BY <1>1, <1>11
<1>13. Holds(n, n + (n * (n - 1)) \div 2)
  <2>1. \/ n = 1 \/ n = 2 \/ n = 3 \/ n = 4 \/ n = 5
        \/ n = 6 \/ n = 7 \/ n = 8 \/ n = 9 \/ n = 10
    OBVIOUS
  <2>2. /\ 1 + (1 * (1 - 1)) \div 2 = 1 /\ 2 + (2 * (2 - 1)) \div 2 = 3
        /\ 3 + (3 * (3 - 1)) \div 2 = 6 /\ 4 + (4 * (4 - 1)) \div 2 = 10
        /\ 5 + (5 * (5 - 1)) \div 2 = 15 /\ 6 + (6 * (6 - 1)) \div 2 = 21
        /\ 7 + (7 * (7 - 1)) \div 2 = 28 /\ 8 + (8 * (8 - 1)) \div 2 = 36
        /\ 9 + (9 * (9 - 1)) \div 2 = 45 /\ 10 + (10 * (10 - 1)) \div 2 = 55
    OBVIOUS
  <2> QED
    BY <1>3, <1>4, <1>5, <1>6, <1>7, <1>8, <1>9, <1>10, <1>11, <1>12, <2>1, <2>2
<1> QED
  BY <1>13 DEF Holds

(* The invariant of the programs that fork and wait, a part for each kind. *)
FamInv ==
  /\ Rooted
  /\ prog_f \in Flat => FlatInv
  /\ WaitersInv /\ AnyInv /\ DecInv /\ ChainInv /\ TreeInv

LEMMA FamStarts == Fam!PassesAssumption /\ Fam!Init => FamInv
<1> SUFFICES ASSUME Fam!PassesAssumption, Fam!Init PROVE FamInv
  OBVIOUS
<1>1. /\ prog_f \in Fam!Programs /\ failed_f = 0 /\ nbsolution = 0 /\ printed = <<>>
      /\ proc = [p \in {0} |->
                  [at |-> "fork", father |-> -1, i |-> 0, code |-> 0, tab |-> <<>>]]
      /\ status \in {0, 1}
  BY NamesOfFamily DEF Fam!Init
<1>2. /\ DOMAIN proc = {0} /\ Father = proc[0] /\ Father.at = "fork" /\ Father.father = -1
      /\ Father.i = 0 /\ Father.code = 0 /\ Father.tab = <<>>
  BY <1>1 DEF Father
<1>3. Born = 1
  <2>1. Cardinality({0}) = 1
    BY FS_Singleton
  <2> QED
    BY <1>2, <2>1, SameCount, Zenon DEF Born
<1>4. {0} = 0 .. Born - 1
  BY <1>3
<1>5. Father \in Desc
  <2>1. <<>> \in Seq(Int \cup Rows) /\ -1 \in Int /\ "fork" \in Spots
    BY DEF Spots
  <2>2. proc[0] = [at |-> "fork", father |-> -1, i |-> 0, code |-> 0, tab |-> <<>>]
    BY <1>1
  <2> QED
    BY <2>1, <2>2 DEF Father, Desc
<1>6. Rooted
  <2>1. proc \in [DOMAIN proc -> Desc]
    BY <1>1, <1>2, <1>5
  <2>2. Chained
    BY <1>2 DEF Chained
  <2> QED
    BY <1>1, <1>2, <1>3, <1>4, <2>1, <2>2 DEF Rooted, FamType
<1>7. NPasses \in Nat \ {0} /\ Fam!Last \in Nat
  BY <1>1, PassesAre
<1>8. Kids = {} /\ Cardinality(Kids) = 0
  <2>1. Kids = {}
    BY <1>2, KidsAre
  <2> QED
    BY <2>1, FS_EmptySet
<1>9. prog_f \in Flat => FlatInv
  BY <1>1, <1>2, <1>3, <1>7 DEF FlatInv
<1>10. WaitersInv /\ AnyInv
  BY <1>2, <1>7, <1>8 DEF WaitersInv, AnyInv
<1>11. DecInv
  BY <1>1, <1>2, <1>8 DEF DecInv
<1>12. ChainInv
  <2>1. IsChain(proc[0].tab, 0)
    <3>1. <<>> \in Seq(Int \cup Rows) /\ Len(<<>>) = 0 /\ \A k \in 1 .. 0 : FALSE
      OBVIOUS
    <3> QED
      BY <1>2, <3>1 DEF IsChain
  <2>2. Link(0)
    BY <1>2, <1>3, <2>1 DEF Link
  <2>3. Shown
    BY <1>1 DEF Shown
  <2> QED
    BY <1>1, <1>2, <1>3, <1>7, <2>2, <2>3 DEF ChainInv
<1>13. TreeInv
  <2>1. Numbered /\ Linked
    BY <1>2 DEF Numbered, Linked
  <2>2. \A i \in 0 .. 0 - 1 : FALSE
    OBVIOUS
  <2> QED
    BY <1>2, <1>7, <1>8, <2>1, <2>2 DEF TreeInv
<1> QED
  BY <1>6, <1>9, <1>10, <1>11, <1>12, <1>13 DEF FamInv

LEMMA FamKept == Fam!PassesAssumption /\ FamInv /\ [Fam!Next]_(Fam!vars) => FamInv'
<1>1. ASSUME FamInv, UNCHANGED Fam!vars
      PROVE  FamInv'
  <2>1. UNCHANGED <<prog_f, proc, failed_f, status, nbsolution, printed>>
    BY <1>1 DEF Fam!vars
  <2>2. Born' = Born /\ Father' = Father /\ Kids' = Kids /\ NPasses' = NPasses
        /\ Fam!Last' = Fam!Last
    BY <2>1 DEF Born, Father, Kids, NPasses, Fam!Children, Fam!Pids, Fam!at, Fam!Last,
       Fam!NbFils
  <2>3. Rooted'
    BY <1>1, <2>1, <2>2 DEF FamInv, Rooted, FamType, Chained
  <2>4. (prog_f \in Flat => FlatInv)' /\ WaitersInv' /\ AnyInv'
    BY <1>1, <2>1, <2>2 DEF FamInv, FlatInv, WaitersInv, AnyInv, SecondDone
  <2>5. DecInv'
    BY <1>1, <2>1, <2>2 DEF FamInv, DecInv, CountedUpTo, Tried
  <2>6. ChainInv'
    BY <1>1, <2>1, <2>2 DEF FamInv, ChainInv, Link, Shown
  <2>7. TreeInv'
    BY <1>1, <2>1, <2>2 DEF FamInv, TreeInv, Numbered, Linked, InTree, Grown
  <2> QED
    BY <2>3, <2>4, <2>5, <2>6, <2>7 DEF FamInv
<1>2. ASSUME Fam!PassesAssumption, FamInv, Fam!Next
      PROVE  FamInv'
  <2>1. Rooted /\ ChainInv /\ TreeInv
    BY <1>2 DEF FamInv
  <2>2. Rooted'
    BY <1>2, <2>1, FamTypeKept, KidsSteps DEF Rooted
  <2>3. ChainInv' /\ TreeInv'
    BY <1>2, <2>1, ChainKept, TreeKept
  <2>4. prog_f' = prog_f
    <3>1. PICK p \in DOMAIN proc : KidsStep(p)
      BY <1>2, <2>1, KidsSteps
    <3> QED
      BY <3>1 DEF KidsStep, Forks, FailsToFork, EndsLoop, Records, Execs, Reaps, ReapsNone,
         Exits, Quiet
  <2>5. CASE prog_f \in Flat
    <3>1. FlatInv /\ WaitersInv /\ AnyInv /\ DecInv
      BY <1>2, <2>5 DEF FamInv
    <3>2. FlatInv' /\ WaitersInv' /\ AnyInv'
      BY <1>2, <2>1, <3>1, FlatKept, WaitersKept, AnyKept
    <3>3. DecInv'
      BY <1>2, <2>1, <3>1, <3>2, DecKept
    <3> QED
      BY <2>2, <2>3, <3>2, <3>3 DEF FamInv
  <2>6. CASE prog_f \notin Flat
    <3>1. (prog_f \in Flat => FlatInv)' /\ WaitersInv' /\ AnyInv' /\ DecInv'
      BY <2>4, <2>6 DEF WaitersInv, AnyInv, DecInv, Flat, Waiters
    <3> QED
      BY <2>2, <2>3, <3>1 DEF FamInv
  <2> QED
    BY <2>5, <2>6
<1> QED
  BY <1>1, <1>2

(* arbreCreation: the processes are numbered by the triangle.              *)
LEMMA TreeCount ==
  ASSUME Fam!PassesAssumption, Rooted, TreeInv, prog_f = "arbreCreation", failed_f = 0,
         Father.at = "zombie", \A p \in DOMAIN proc : proc[p].at \in {"zombie", "reaped"}
  PROVE  Born = 1 + NPasses + (NPasses * (NPasses - 1)) \div 2
<1>1. NPasses \in 1 .. 10 /\ DOMAIN proc = 0 .. Born - 1 /\ Born \in Nat \ {0}
      /\ \A c \in DOMAIN proc : proc[c].i \in Nat /\ proc[c].code \in Nat
  <2>1. NPasses \in Nat \ {0} /\ NPasses < 11
    BY PassesAre DEF Rooted, FamType
  <2> QED
    BY <2>1, Fields DEF Rooted, FamType
<1>2. Numbered /\ Linked /\ \A i \in 0 .. NPasses - 1 : Grown(i)
  BY DEF TreeInv
<1> DEFINE Others == DOMAIN proc \ {0}
           f == [c \in Others |-> <<proc[c].i, proc[c].code>>]
<1>3. \A c \in Others : f[c] = <<proc[c].i, proc[c].code>>
  OBVIOUS
<1>4. f \in [Others -> Triangle(NPasses)]
  <2>1. ASSUME NEW c \in Others PROVE <<proc[c].i, proc[c].code>> \in Triangle(NPasses)
    <3>1. /\ proc[c].code <= proc[c].i /\ proc[c].i < NPasses
          /\ proc[c].i \in Nat /\ proc[c].code \in Nat
      BY <1>1, <1>2 DEF Numbered
    <3>2. proc[c].i \in 0 .. 10 /\ proc[c].code \in 0 .. 10
      <4>1. \A a, b \in Nat, n \in 1 .. 10 :
              b <= a /\ a < n => a \in 0 .. 10 /\ b \in 0 .. 10
        OBVIOUS
      <4>2. NPasses \in 1 .. 10
        BY <1>1
      <4> QED
        BY <3>1, <4>1, <4>2, Zenon
    <3>3. PICK i \in 0 .. 10, j \in 0 .. 10 : i = proc[c].i /\ j = proc[c].code
      BY <3>2
    <3> QED
      BY <3>1, <3>3 DEF Triangle
  <2> QED
    BY <2>1
<1> HIDE DEF f
<1>5. ASSUME NEW c \in Others, NEW d \in Others, f[c] = f[d] PROVE c = d
  <2>1. <<proc[c].i, proc[c].code>> = <<proc[d].i, proc[d].code>>
    BY <1>3, <1>5, Zenon
  <2>2. proc[c].i = proc[d].i /\ proc[c].code = proc[d].code
    BY <2>1
  <2> QED
    BY <1>2, <2>2 DEF Numbered
<1>6. ASSUME NEW x \in Triangle(NPasses) PROVE \E c \in Others : f[c] = x
  <2>1. PICK i \in 0 .. 10, j \in 0 .. 10 : x = <<i, j>> /\ j <= i /\ i < NPasses
    BY <1>6 DEF Triangle
  <2>2. PICK c \in Others : proc[c].i = i /\ proc[c].code = i
    <3>1. i \in 0 .. NPasses - 1
      BY <1>1, <2>1
    <3>2. Grown(i)
      BY <1>2, <3>1
    <3> QED
      BY <3>2 DEF Grown
  <2>3. InTree(i, j)
    <3>1. j \in 0 .. proc[c].code
      BY <2>1, <2>2
    <3> QED
      BY <1>2, <2>2, <3>1 DEF Linked
  <2>4. PICK d \in Others : proc[d].i = i /\ proc[d].code = j
    BY <2>3 DEF InTree
  <2> QED
    BY <1>3, <2>1, <2>4
<1>7. IsFiniteSet(Others) /\ Cardinality(Others) = Born - 1
  <2>1. 0 \in Int /\ Born - 1 \in Int /\ Born - 1 >= 0
    BY <1>1
  <2>2. IsFiniteSet(DOMAIN proc) /\ Cardinality(DOMAIN proc) = Born
    <3>1. IsFiniteSet(0 .. Born - 1)
          /\ Cardinality(0 .. Born - 1) = IF 0 > Born - 1 THEN 0 ELSE Born - 1 - 0 + 1
      BY <2>1, FS_Interval
    <3> QED
      BY <1>1, <2>1, <3>1
  <2>3. 0 \in DOMAIN proc
    BY <1>1
  <2> QED
    BY <2>2, <2>3, FS_RemoveElement
<1>8. ExistsBijection(Others, Triangle(NPasses))
  <2> HIDE DEF Others
  <2>1. f \in Bijection(Others, Triangle(NPasses))
    BY <1>4, <1>5, <1>6 DEF Bijection, Injection, Surjection, IsInjective
  <2> QED
    BY <2>1, Zenon DEF ExistsBijection
<1>9. Cardinality(Triangle(NPasses)) = Born - 1
  <2> HIDE DEF Others
  <2> QED
    BY <1>7, <1>8, FS_Bijection
<1>10. Born - 1 = NPasses + (NPasses * (NPasses - 1)) \div 2
  BY <1>1, <1>9, TriangleCount
<1> DEFINE half == (NPasses * (NPasses - 1)) \div 2
<1>11. half \in Int
  BY <1>1, <1>10
<1> HIDE DEF half
<1>12. Born - 1 = NPasses + half
  BY <1>10 DEF half
<1>13. Born = 1 + NPasses + half
  BY <1>1, <1>11, <1>12
<1> QED
  BY <1>13 DEF half

LEMMA FamMade == Fam!PassesAssumption /\ FamInv => Fam!AsManyAsAsked
<1> SUFFICES ASSUME Fam!PassesAssumption, FamInv, Father.at = "zombie", failed_f = 0
             PROVE  IF prog_f = "arbreCreation"
                      THEN /\ Father.code = 2
                           /\ (\A p \in DOMAIN proc : proc[p].at \in {"zombie", "reaped"})
                                => Born = 1 + NPasses + (NPasses * (NPasses - 1)) \div 2
                      ELSE Born = 1 + Fam!Last \/ (prog_f = "spy" /\ Born <= 1 + NPasses)
  BY NamesOfFamily DEF Fam!AsManyAsAsked, Fam!Ended, Fam!at, Father
<1>1. /\ Born \in Nat \ {0} /\ NPasses \in Nat \ {0} /\ prog_f \in Fam!Programs
      /\ Fam!Last = IF prog_f = "creeNProcess" THEN 2 * NPasses ELSE NPasses
      /\ DOMAIN proc = 0 .. Born - 1
  BY PassesAre DEF FamInv, Rooted, FamType
<1>2. CASE prog_f = "arbreCreation"
  <2>1. Father.code = 2
    BY <1>2 DEF FamInv, TreeInv
  <2>2. ASSUME \A p \in DOMAIN proc : proc[p].at \in {"zombie", "reaped"}
        PROVE  Born = 1 + NPasses + (NPasses * (NPasses - 1)) \div 2
    BY <1>2, <2>2, TreeCount DEF FamInv
  <2> QED
    BY <1>2, <2>1, <2>2
<1>3. CASE prog_f = "passageDonnee"
  <2>1. /\ \A p \in DOMAIN proc : Link(p)
        /\ Born = 1 + NPasses \/ proc[Born - 1].at \in {"record", "fork"}
    BY <1>3 DEF FamInv, ChainInv
  <2>2. proc[Born - 1].at \in {"zombie", "reaped"}
    <3>1. CASE Born - 1 = 0
      BY <3>1 DEF Father
    <3>2. CASE Born - 1 # 0
      <4>1. Born - 1 \in DOMAIN proc /\ Born - 1 > 0 /\ 0 \in DOMAIN proc
        BY <1>1, <3>2
      <4> QED
        BY <2>1, <4>1 DEF Link, Father
    <3> QED
      BY <3>1, <3>2
  <2> QED
    BY <1>1, <1>3, <2>1, <2>2
<1>4. CASE prog_f \in Flat
  <2>1. FlatInv
    BY <1>4 DEF FamInv
  <2>2. CASE prog_f = "spy"
    BY <1>1, <2>1, <2>2 DEF FlatInv
  <2>3. CASE prog_f = "creeNProcess"
    BY <1>1, <2>1, <2>3 DEF FlatInv
  <2>4. CASE prog_f \notin {"spy", "creeNProcess"}
    <3>1. Born - 1 + 0 = NPasses
      BY <2>1, <2>4 DEF FlatInv
    <3> QED
      BY <1>1, <1>4, <2>4, <3>1 DEF Flat
  <2> QED
    BY <2>2, <2>3, <2>4
<1> QED
  BY <1>1, <1>2, <1>3, <1>4 DEF Fam!Programs, Flat

LEMMA FamCounted == Fam!PassesAssumption /\ FamInv => Fam!SolutionsCounted
<1> DEFINE solutions == Cardinality({3} \cap 0 .. NPasses - 1)
<1> SUFFICES ASSUME Fam!PassesAssumption, FamInv, Father.at = "zombie", prog_f = "decoder"
             PROVE  /\ failed_f = 0 => nbsolution = solutions
                    /\ failed_f < NPasses => nbsolution <= solutions + failed_f
  BY NamesOfFamily, SolutionsAre, SameCount
  DEF Fam!SolutionsCounted, Fam!Ended, Fam!at, Father
<1>1. /\ Born \in Nat \ {0} /\ NPasses \in Nat \ {0} /\ DOMAIN proc = 0 .. Born - 1
      /\ nbsolution \in Nat /\ failed_f \in Nat
  BY PassesAre DEF FamInv, Rooted, FamType
<1>2. /\ \A c \in DOMAIN proc \ {0} : proc[c].i < NPasses /\ (failed_f = 0 => proc[c].i = c - 1)
      /\ CountedUpTo(failed_f)
  BY DEF FamInv, DecInv
<1>3. Born - 1 + failed_f = NPasses
  BY DEF FamInv, FlatInv, Flat
<1>4. \A c \in DOMAIN proc \ {0} : proc[c].at = "reaped"
  <2>1. Kids = {} /\ \A c \in DOMAIN proc \ {0} : proc[c].father = 0
    BY DEF FamInv, WaitersInv, Waiters
  <2> QED
    BY <2>1, KidsAre
<1>5. solutions = One(3 < NPasses)
  <2>1. CASE 3 < NPasses
    <3>1. {3} \cap 0 .. NPasses - 1 = {3}
      BY <1>1, <2>1
    <3>2. Cardinality({3}) = 1
      BY FS_Singleton
    <3> QED
      BY <2>1, <3>1, <3>2 DEF One
  <2>2. CASE ~ (3 < NPasses)
    <3>1. {3} \cap 0 .. NPasses - 1 = {}
      BY <1>1, <2>2
    <3>2. Cardinality({}) = 0
      BY FS_EmptySet
    <3> QED
      BY <2>2, <3>1, <3>2 DEF One
  <2> QED
    BY <2>1, <2>2
<1> HIDE DEF solutions
<1>6. Tried => 3 < NPasses
  BY <1>2 DEF Tried
<1>7. failed_f = 0 /\ 3 < NPasses => Tried
  <2> SUFFICES ASSUME failed_f = 0, 3 < NPasses PROVE Tried
    OBVIOUS
  <2>1. 4 \in DOMAIN proc \ {0}
    BY <1>1, <1>3
  <2>2. proc[4].i = 3 /\ proc[4].at = "reaped"
    BY <1>2, <1>4, <2>1
  <2> QED
    BY <2>1, <2>2 DEF Tried
<1>8. One(Tried) <= solutions /\ (failed_f = 0 => One(Tried) = solutions)
      /\ One(Tried) \in Nat /\ solutions \in Nat
  BY <1>5, <1>6, <1>7 DEF One
<1>9. One(Tried) <= nbsolution /\ nbsolution <= One(Tried) + failed_f
  BY <1>2 DEF CountedUpTo
<1> QED
  BY <1>1, <1>8, <1>9

LEMMA FamShown == FamInv => Fam!ChainDisplayed
<1> SUFFICES ASSUME FamInv, NEW k \in 1 .. Len(printed)
             PROVE  printed[k] = [fils |-> k, pere |-> IF k = 1 THEN 0 ELSE printed[k - 1].fils]
  BY NamesOfFamily DEF Fam!ChainDisplayed
<1>1. printed # <<>>
  BY DEF FamInv
<1>2. Shown
  BY <1>1 DEF FamInv, ChainInv
<1>3. printed[k] = [fils |-> k, pere |-> k - 1]
  BY <1>2 DEF Shown
<1>4. k # 1 => printed[k - 1].fils = k - 1
  <2> SUFFICES ASSUME k # 1 PROVE printed[k - 1].fils = k - 1
    OBVIOUS
  <2>1. k - 1 \in 1 .. Len(printed)
    OBVIOUS
  <2>2. PICK j \in 1 .. Len(printed) : j = k - 1
    BY <2>1
  <2>3. printed[j] = [fils |-> j, pere |-> j - 1]
    BY <1>2, <2>2 DEF Shown
  <2> QED
    BY <2>2, <2>3
<1> QED
  BY <1>3, <1>4

LEMMA FamAlone == Fam!PassesAssumption /\ FamInv => Fam!NoneLeft
<1> SUFFICES ASSUME Fam!PassesAssumption, FamInv
             PROVE  /\ prog_f = "spy" => Cardinality(Kids) <= 1
                    /\ prog_f \in {"waitTousFils", "decoder", "mainConverters",
                                   "passageDonnee", "spy", "fork_exec"}
                         => \A c \in DOMAIN proc \ {0} : proc[c].father # -1
                    /\ Father.at = "zombie" /\ prog_f = "waitFilsQuelconque" => SecondDone
  BY NamesOfFamily, SameCount
  DEF Fam!NoneLeft, Fam!Ended, Fam!at, Father, Kids, SecondDone
<1>1. prog_f = "spy" => Cardinality(Kids) <= 1
  <2> SUFFICES ASSUME prog_f = "spy" PROVE Cardinality(Kids) <= 1
    OBVIOUS
  <2>1. Father.at \in {"fork", "wait", "exit", "zombie"}
    BY DEF FamInv, FlatInv, Flat
  <2>2. Kids \subseteq {Born - 1}
    BY <2>1 DEF FamInv, WaitersInv, Waiters
  <2>3. IsFiniteSet({Born - 1}) /\ Cardinality({Born - 1}) = 1
    BY FS_Singleton
  <2> QED
    BY <2>2, <2>3, FS_Subset
<1>2. prog_f \in Waiters => \A c \in DOMAIN proc \ {0} : proc[c].father # -1
  BY DEF FamInv, WaitersInv
<1>3. prog_f = "passageDonnee" => \A c \in DOMAIN proc \ {0} : proc[c].father # -1
  BY DEF FamInv, ChainInv, Link, Rooted, FamType
<1>4. Father.at = "zombie" /\ prog_f = "waitFilsQuelconque" => SecondDone
  BY DEF FamInv, AnyInv
<1> QED
  BY <1>1, <1>2, <1>3, <1>4 DEF Waiters

(* TME2 and TME3, whatever the forks that fail and the order in which      *)
(* children end: each program makes as many processes as its exercise      *)
(* asks, decoder counts the solutions, passageDonnee displays the chain,   *)
(* and the programs that wait leave no child behind.                       *)
THEOREM FamiliesComeOut ==
  ASSUME Fam!PassesAssumption
  PROVE  Fam!Spec => []FamilyOutcome
<1>1. FamInv => FamilyOutcome
  BY FamMade, FamCounted, FamShown, FamAlone
  DEF FamilyOutcome, Fam!FamilyOutcome
<1>2. Fam!Init => FamInv
  BY FamStarts
<1>3. FamInv /\ [Fam!Next]_(Fam!vars) => FamInv'
  BY FamKept
<1> QED
  BY <1>1, <1>2, <1>3, PTL DEF Fam!Spec

-----------------------------------------------------------------------------
(* All the programs of Exercises together: every safety property that the  *)
(* runs check of them holds of the specification that they check, for any  *)
(* values of the constants.                                                *)
THEOREM ExercisesComeOut ==
  Spec => /\ MeetingSpec /\ []BatchesApart /\ BatchTogether /\ []LinesAreWords
          /\ []FamilyOutcome /\ []SignalOutcome /\ []Accounts /\ []ContainersWhole
          /\ []WholeReply /\ []ReadsUninterrupted
<1>1. /\ Batch!CountsAssumption /\ Cap!BoundsAssumption /\ Fam!PassesAssumption
      /\ Acc!CountsAssumption /\ Con!BoundsAssumption /\ Mul!CountsAssumption
  BY BoundsAssumption
<1>2. Batch!Spec => []BatchesApart
  BY <1>1, BatchesDoNotMix
<1>3. Batch!Spec => BatchTogether
  BY <1>1, BatchesStartTogether
<1>4. Cap!Spec => []LinesAreWords
  BY <1>1, LinesComeOutRight
<1>5. Fam!Spec => []FamilyOutcome
  BY <1>1, FamiliesComeOut
<1>6. Acc!Spec => []Accounts
  BY <1>1, SignalsAreCounted
<1>7. Con!Spec => []ContainersWhole
  BY <1>1, ContainersLoseNothing
<1>8. Mul!Spec => []WholeReply
  BY <1>1, RepliesAreWhole
<1>9. Mul!Spec => []ReadsUninterrupted
  BY <1>1, FirstReadsUninterrupted
<1> QED
  BY <1>2, <1>3, <1>4, <1>5, <1>6, <1>7, <1>8, <1>9, EachProgram, Synchro3Meets, SignalsBehave
=============================================================================
