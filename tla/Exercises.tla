----------------------------- MODULE Exercises -----------------------------
(***************************************************************************)
(* The smaller programs of the repository, each with its constants.  A     *)
(* behaviour is one of one program, chosen in Init; the variables of the   *)
(* others keep their initial values, one of them where there are several,  *)
(* so that nothing multiplies.                                             *)
(***************************************************************************)
EXTENDS Naturals

CONSTANTS
  NBUF, Commands, ForkFails_b,              \* SpyBatch
  Chars, SIZE, MaxTyped, MaxLength,         \* Capitalize
  MaxLines,
  Passes, ForkFails_f,                      \* Family
  MaxSent_s,                                \* SignalPrograms
  Sigs, SIGINT, MAX_INTR, MaxSent_a,        \* Accountant
  STACK_SIZE, MaxIn,                        \* Lists
  NB_CONVERTERS, Requests                   \* SignalConverter

VARIABLES program,
  pc_3, pending_3, handled,                                          \* Synchro3
  father_b, nbf, child_b, pending_b, entered, failed_b,              \* SpyBatch
  child_c, father_c, smutexf, smutexp, sp, i_c, line, input, typed,  \* Capitalize
  displayed, interrupted, found,
  prog_f, proc, failed_f, status, nbsolution, printed,               \* Family
  prog_s, pc_s, mask, pending_s, action, armed, left, child_s, cpt,  \* SignalPrograms
  killed, sent_s, late,
  nb, pending_a, stack, cpt2, compteur, sent_a, delivered, nested,   \* Accountant
  over,
  container, cell, head, tail, taille, contents, top, in, out,       \* Lists
  result,
  father_m, pc_m, i_m, nbsigusr, pending_m, asked, current, tube,    \* SignalConverter
  tuber, work, reply

Syn == INSTANCE Synchro3 WITH pc <- pc_3, pending <- pending_3

Batch == INSTANCE SpyBatch
  WITH ForkFails <- ForkFails_b, father <- father_b, child <- child_b,
       pending <- pending_b, failed <- failed_b

Cap == INSTANCE Capitalize WITH child <- child_c, father <- father_c, i <- i_c

Fam == INSTANCE Family WITH ForkFails <- ForkFails_f, prog <- prog_f, failed <- failed_f

Sig == INSTANCE SignalPrograms
  WITH MaxSent <- MaxSent_s, prog <- prog_s, pc <- pc_s, pending <- pending_s,
       child <- child_s, sent <- sent_s

Acc == INSTANCE Accountant
  WITH MaxSent <- MaxSent_a, pending <- pending_a, sent <- sent_a

Con == INSTANCE Lists

Mul == INSTANCE SignalConverter
  WITH father <- father_m, pc <- pc_m, i <- i_m, pending <- pending_m

ASSUME BoundsAssumption ==
  /\ Batch!CountsAssumption /\ Cap!BoundsAssumption /\ Fam!PassesAssumption
  /\ Sig!MaxSentAssumption /\ Acc!CountsAssumption /\ Con!BoundsAssumption
  /\ Mul!CountsAssumption

Programs == {"Synchro3", "SpyBatch", "Capitalize", "Family", "SignalPrograms",
             "Accountant", "Lists", "SignalConverter"}

Init ==
  /\ program \in Programs
  /\ Syn!Init /\ Batch!Init /\ Cap!Init /\ Fam!Init /\ Sig!Init /\ Acc!Init /\ Con!Init
  /\ Mul!Init
  /\ program # "Capitalize" => input = <<>> /\ found = <<>>
  /\ program # "Family" => prog_f = "spy"
  /\ program # "SignalPrograms" => prog_s = "mysleep"
  /\ program # "Lists" => container = "fifo"

(* The variables of each program.                                          *)
synchro3 == <<pc_3, pending_3, handled>>
spy == <<father_b, nbf, child_b, pending_b, entered, failed_b>>
capitalize == <<child_c, father_c, smutexf, smutexp, sp, i_c, line, input, typed, displayed,
                interrupted, found>>
family == <<prog_f, proc, failed_f, status, nbsolution, printed>>
signals == <<prog_s, pc_s, mask, pending_s, action, armed, left, child_s, cpt, killed,
             sent_s, late>>
accountant == <<nb, pending_a, stack, cpt2, compteur, sent_a, delivered, nested, over>>
lists == <<container, cell, head, tail, taille, contents, top, in, out, result>>
converter == <<father_m, pc_m, i_m, nbsigusr, pending_m, asked, current, tube, tuber, work,
               reply>>
vars == <<program, synchro3, spy, capitalize, family, signals, accountant, lists, converter>>

Still(p) ==
  CASE p = "Synchro3" -> UNCHANGED synchro3
    [] p = "SpyBatch" -> UNCHANGED spy
    [] p = "Capitalize" -> UNCHANGED capitalize
    [] p = "Family" -> UNCHANGED family
    [] p = "SignalPrograms" -> UNCHANGED signals
    [] p = "Accountant" -> UNCHANGED accountant
    [] p = "Lists" -> UNCHANGED lists
    [] p = "SignalConverter" -> UNCHANGED converter

(* The step A of program p, the only one that runs.                        *)
Run(p, A) ==
  /\ program = p
  /\ A
  /\ UNCHANGED program
  /\ \A q \in Programs \ {p} : Still(q)

RunSynchro3 == Run("Synchro3", Syn!Next)
RunSpyBatch == Run("SpyBatch", Batch!Next)
RunCapitalize == Run("Capitalize", Cap!Next)
RunFamily == Run("Family", Fam!Next)
RunSignalPrograms == Run("SignalPrograms", Sig!Next)
RunAccountant == Run("Accountant", Acc!Next)
RunLists == Run("Lists", Con!Next)
RunSignalConverter == Run("SignalConverter", Mul!Next)

Next ==
  \/ RunSynchro3 \/ RunSpyBatch \/ RunCapitalize \/ RunFamily
  \/ RunSignalPrograms \/ RunAccountant \/ RunLists \/ RunSignalConverter

(* The fairness of the FairSpec of each module.                            *)
Fairness ==
  /\ \A p \in Syn!Procs : WF_vars(Run("Synchro3", Syn!Step(p)))
  /\ WF_vars(Run("SpyBatch", Batch!Busy))
  /\ \A s \in Batch!Slots : WF_vars(Run("SpyBatch", Batch!Child(s)))
  /\ WF_vars(Run("Capitalize", Cap!Child)) /\ WF_vars(Run("Capitalize", Cap!Father))
  /\ WF_vars(RunFamily)
  /\ WF_vars(Run("SignalPrograms", Sig!Run))
  /\ WF_vars(Run("SignalConverter", Mul!Father))
  /\ WF_vars(Run("SignalConverter", Mul!Deliver))
  /\ \A k \in Mul!Converters : WF_vars(Run("SignalConverter", Mul!Child(k)))

Spec == Init /\ [][Next]_vars
FairSpec == Spec /\ Fairness

-----------------------------------------------------------------------------
(* TME5: no process of synchro3 begins calcul_2 before the three have      *)
(* ended calcul_1, as module Barrier says.                                 *)
MeetingSpec == Syn!MeetingSpec

(* TME4: a slot of spy's table is never taken from a living child, and a   *)
(* batch starts when its NBUF commands have been entered.                  *)
BatchesApart == Batch!BatchesApart
BatchTogether == Batch!BatchTogether

(* TME9: capitalize displays each word once, in order, cut to the segment. *)
LinesAreWords == Cap!LinesAreWords

(* TME2 and TME3: each program makes, counts and displays what its         *)
(* exercise asks, and those that wait leave no child behind.               *)
FamilyOutcome == Fam!FamilyOutcome /\ Fam!NoneLeft

(* TME4 and TME5: what the READMEs tell of masked, pending and ignored     *)
(* signals, of mysleep and of mywait.                                      *)
SignalOutcome == Sig!SignalOutcome

(* TME4: accountant ends at MAX_INTR SIGINTs and counts each signal.       *)
Accounts == Acc!Accounts

(* TME4: the global counter of accountant is the sum of the others.        *)
TotalIsSum == Acc!TotalIsSum

(* TME1: the list and the stack hold what was put in and not taken out.    *)
ContainersWhole == Con!ContainersWhole

(* TME8: the currency server forwards whole replies in order, and the      *)
(* reads for the first request are not interrupted.                        *)
WholeReply == Mul!WholeReply
ReadsUninterrupted == Mul!ReadsUninterrupted
Forwarded == Mul!Forwarded

(* The programs that promise an end reach it: the three processes of       *)
(* synchro3, every program of Family, the sleepers and waiters of          *)
(* SignalPrograms; a complete batch of spy ends, and capitalize displays   *)
(* every word typed.                                                       *)
ProgramsEnd ==
  /\ program = "Synchro3" => Syn!Termination
  /\ program = "Family" => Fam!FamilyEnds
  /\ program = "SignalPrograms" => Sig!SignalProgramsEnd
  /\ Batch!BatchEnds
  /\ Cap!EveryWordDisplayed
=============================================================================
