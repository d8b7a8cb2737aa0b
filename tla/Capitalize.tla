----------------------------- MODULE Capitalize -----------------------------
(***************************************************************************)
(* TME9's capitalize (src/capitalize.c): a child reads words from the      *)
(* standard input into a shared segment, its father displays them in       *)
(* capitals.  Two semaphores pass the segment from one to the other.  The  *)
(* father reads the segment one character at a time.  A Ctrl-C ends both,  *)
(* at different moments; before its handler is installed the father leaves *)
(* the segment, and its string, to the next run.                           *)
(***************************************************************************)
EXTENDS Integers, Sequences

CONSTANTS
  Chars,      \* characters of a word
  SIZE,       \* longest word kept (1024 in the code)
  MaxTyped,   \* bound: words on the standard input
  MaxLength,  \* bound: length of these words
  MaxLines    \* bound: lines displayed

BoundsAssumption ==
  SIZE \in Nat \ {0} /\ MaxTyped \in Nat /\ MaxLength \in Nat \ {0} /\ MaxLines \in Nat

VARIABLES
  child, father,       \* where the two processes stand
  smutexf, smutexp,    \* the semaphores
  sp,                  \* the string in the segment
  i,                   \* the father's index into sp
  line,                \* what the father has displayed of the current line
  input,               \* the words still to be read
  interrupted,         \* has the user typed Ctrl-C?
  found,               \* history: what an earlier run left in the segment
  typed, displayed     \* history: words read, lines displayed

semaphores == <<smutexf, smutexp>>
rest == <<interrupted, found>>
vars == <<child, father, semaphores, sp, i, line, input, typed, displayed, rest>>

Word == UNION {[1 .. n -> Chars] : n \in 1 .. MaxLength}
Inputs == UNION {[1 .. n -> Word] : n \in 0 .. MaxTyped}

Upper(c) == <<"upper", c>>
UpperWord(w) == [k \in DOMAIN w |-> Upper(w[k])]

(* The statement of line 81 puts a NUL at index 1024 whatever scanf        *)
(* returns: its sum is the condition of the ternary operator, never zero.  *)
Truncated(w) == IF Len(w) > SIZE THEN SubSeq(w, 1, SIZE) ELSE w

Init ==
  /\ child = "wait" /\ father = "start"
  /\ smutexf = 1 /\ smutexp = 0
  /\ found \in {<<>>} \cup {Truncated(w) : w \in Word}
  /\ sp = found
  /\ interrupted = FALSE
  /\ i = 0
  /\ line = <<>>
  /\ input \in Inputs
  /\ typed = <<>> /\ displayed = <<>>

(* Mistake: the child does not wait for its father.                        *)
ChildWaitSkipped ==
  /\ child = "wait"
  /\ child' = "scan"
  /\ UNCHANGED <<father, semaphores, sp, i, line, input, typed, displayed, rest>>

ChildWait ==
  /\ child = "wait" /\ smutexf > 0
  /\ smutexf' = smutexf - 1
  /\ child' = "scan"
  /\ UNCHANGED <<father, smutexp, sp, i, line, input, typed, displayed, rest>>

(* scanf returns at once at the end of the input and leaves sp alone.      *)
ChildScan ==
  /\ child = "scan"
  /\ child' = "post"
  /\ IF input = <<>>
       THEN sp' = Truncated(sp) /\ UNCHANGED <<input, typed>>
       ELSE /\ sp' = Truncated(Head(input))
            /\ input' = Tail(input)
            /\ typed' = Append(typed, Head(input))
  /\ UNCHANGED <<father, semaphores, i, line, displayed, rest>>

(* Mistake: the child posts the semaphore it waits for.                    *)
ChildPostSwapped ==
  /\ child = "post"
  /\ smutexf' = smutexf + 1
  /\ child' = "wait"
  /\ UNCHANGED <<father, smutexp, sp, i, line, input, typed, displayed, rest>>

ChildPost ==
  /\ child = "post"
  /\ smutexp' = smutexp + 1
  /\ child' = "wait"
  /\ UNCHANGED <<father, smutexf, sp, i, line, input, typed, displayed, rest>>

FatherSigaction ==
  /\ father = "start"
  /\ father' = "wait"
  /\ UNCHANGED <<child, semaphores, sp, i, line, input, typed, displayed, rest>>

FatherWait ==
  /\ father = "wait" /\ smutexp > 0
  /\ smutexp' = smutexp - 1
  /\ i' = 0
  /\ line' = <<>>
  /\ father' = "print"
  /\ UNCHANGED <<child, smutexf, sp, input, typed, displayed, rest>>

FatherPrint ==
  /\ father = "print" /\ i < Len(sp)
  /\ line' = Append(line, Upper(sp[i + 1]))
  /\ i' = i + 1
  /\ UNCHANGED <<child, father, semaphores, sp, input, typed, displayed, rest>>

(* The bound on the lines stops the father.                                *)
FatherEnd ==
  /\ father = "print" /\ i = Len(sp)
  /\ Len(displayed) < MaxLines
  /\ displayed' = Append(displayed, line)
  /\ smutexf' = smutexf + 1
  /\ father' = "wait"
  /\ UNCHANGED <<child, smutexp, sp, i, line, input, typed, rest>>

(* SIGINT is sent to both processes.                                       *)
Interrupt ==
  /\ ~interrupted
  /\ interrupted' = TRUE
  /\ UNCHANGED <<child, father, semaphores, sp, i, line, input, typed, displayed, found>>

(* The child has no handler.                                               *)
ChildKilled ==
  /\ interrupted /\ child # "over"
  /\ child' = "over"
  /\ UNCHANGED <<father, semaphores, sp, i, line, input, typed, displayed, rest>>

(* The father dies of it, or removes the segment and exits, unless it dies *)
(* first in sem_destroy, called on the semaphores it has just unmapped.    *)
sigint_handler ==
  /\ interrupted /\ father # "over"
  /\ father' = "over"
  /\ UNCHANGED <<child, semaphores, sp, i, line, input, typed, displayed, rest>>

Child == ChildWait \/ ChildScan \/ ChildPost \/ ChildKilled
Father == FatherSigaction \/ FatherWait \/ FatherPrint \/ FatherEnd \/ sigint_handler

Next == Child \/ Father \/ Interrupt

Spec == Init /\ [][Next]_vars

(* The two processes are scheduled, and the user types or ends the input.  *)
FairSpec == Spec /\ WF_vars(Child) /\ WF_vars(Father)

-----------------------------------------------------------------------------
(***************************************************************************)
(* Properties                                                              *)
(***************************************************************************)
(* The lines displayed are the words typed, each once and in order, cut to *)
(* SIZE; at the end of the input the last one, or what an earlier run left *)
(* in the segment if nothing was typed, is displayed again.  A Ctrl-C may  *)
(* stop the lines but never garbles or repeats one.                        *)
LinesAreWords ==
  \A k \in 1 .. Len(displayed) :
    displayed[k] =
      IF typed = <<>> THEN UpperWord(found)
      ELSE UpperWord(Truncated(typed[IF k <= Len(typed) THEN k ELSE Len(typed)]))

(* Every word typed is displayed (within the bound on lines), unless the   *)
(* user interrupts.                                                        *)
EveryWordDisplayed ==
  \A k \in 1 .. MaxLines : Len(typed) >= k ~> Len(displayed) >= k \/ interrupted
=============================================================================

