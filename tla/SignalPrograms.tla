--------------------------- MODULE SignalPrograms ---------------------------
(***************************************************************************)
(* The programs of TME4 and TME5 that are one process waiting for signals: *)
(* init-sig.1 to 5, voodoo, pending-signals, -2 and -3 (which differ in    *)
(* what they display), mysleep and mywait.  Each is the sequence of its    *)
(* system calls, Code[prog]; the signals come from the user, from alarm *)
(* and from the end of a child.                                            *)
(***************************************************************************)
EXTENDS Integers, Sequences

CONSTANT MaxSent   \* bound: signals the user sends

MaxSentAssumption == MaxSent \in Nat

Signals == {"INT", "QUIT", "ALRM", "CHLD"}
Except(s) == Signals \ {s}

VARIABLES
  prog,      \* the program that runs
  pc,        \* index of its next call in Code[prog]
  mask,      \* signals blocked
  pending,   \* signals pending: two of one number are one
  action,    \* action[s]: "default", "ignored" or "handler"
  armed,     \* is an alarm to come?
  left,      \* what alarm(0) returns: is time left?
  child,     \* "none", "running" or "zombie"
  cpt,       \* runs of the handler of INT
  killed,    \* the signal that ended the program, or "none"
  sent,      \* signals sent by the user
  late       \* history: an INT was sent while INT was not blocked

vars == <<prog, pc, mask, pending, action, armed, left, child, cpt, killed, sent, late>>

(* Mistake: the main of mysleep blocks nothing.                            *)
MysleepMaskNone == <<"mask", {}>>

MysleepMask == <<"mask", Signals>>

(* The calls of each program; sigsuspend gives the mask used while it      *)
(* waits.                                                                  *)
init_sig_1 == << <<"pause">>, <<"pause">> >>
init_sig_2 ==
  << <<"mask", Except("INT")>>, <<"sigsuspend", Except("INT")>>,
     <<"sigsuspend", Except("INT")>> >>
init_sig_3 == << <<"ignored", "ALRM">>, <<"alarm">>, <<"sigsuspend", {"INT"}>> >>
init_sig_4 ==
  << <<"mask", Except("INT")>>, <<"handler", "INT">>, <<"sigsuspend", Except("INT")>>,
     <<"sigsuspend", Except("INT")>>, <<"sigsuspend", Except("INT")>> >>
init_sig_5 ==
  << <<"mask", {"QUIT", "CHLD"}>>, <<"handler", "INT">>, <<"handler", "ALRM">>,
     <<"alarm">>, <<"sigsuspend", {"QUIT", "CHLD"}>> >>
voodoo == << <<"fork">>, <<"pause">>, <<"pause">> >>
pending_signals ==
  << <<"mask", {"INT", "QUIT"}>>, <<"sleep">>, <<"mask", {"QUIT"}>>, <<"sigpending">> >>
pending_signals_2 ==
  << <<"mask", {"INT", "QUIT"}>>, <<"handler", "INT">>, <<"sleep">>, <<"mask", {"QUIT"}>>,
     <<"sigpending">> >>
mysleep ==
  << MysleepMask, <<"alarm">>, <<"handler", "ALRM">>, <<"sigsuspend", Except("ALRM")>>,
     <<"alarm0">>, <<"default", "ALRM">> >>
mywait ==
  << <<"handler", "CHLD">>, <<"mask", {"CHLD"}>>, <<"fork">>, <<"sleep">>,
     <<"sigsuspend", Except("CHLD")>> >>

Code == [
  init_sig_1 |-> init_sig_1, init_sig_2 |-> init_sig_2, init_sig_3 |-> init_sig_3,
  init_sig_4 |-> init_sig_4, init_sig_5 |-> init_sig_5, voodoo |-> voodoo,
  pending_signals |-> pending_signals, pending_signals_2 |-> pending_signals_2,
  mysleep |-> mysleep, mywait |-> mywait]

Init ==
  /\ prog \in DOMAIN Code
  /\ pc = 1
  /\ mask = {} /\ pending = {} /\ action = [s \in Signals |-> "default"]
  /\ armed = FALSE /\ left = FALSE
  /\ child = "none"
  /\ cpt = 0 /\ killed = "none" /\ sent = 0 /\ late = FALSE

Over == pc > Len(Code[prog]) \/ killed # "none"
Doing(call) == ~Over /\ Code[prog][pc][1] = call
Arg == Code[prog][pc][2]
Waiting == Doing("pause") \/ Doing("sigsuspend") \/ Doing("sleep")
Blocked == IF Doing("sigsuspend") THEN Arg ELSE mask

(* init-sig.5 calls sigsuspend for ever.                                   *)
After == IF prog = "init_sig_5" /\ Doing("sigsuspend") THEN pc ELSE pc + 1

Mask ==
  /\ Doing("mask")
  /\ mask' = Arg
  /\ pc' = pc + 1
  /\ UNCHANGED <<prog, pending, action, armed, left, child, cpt, killed, sent, late>>

Sigaction ==
  /\ \E a \in {"default", "ignored", "handler"} :
       Doing(a) /\ action' = [action EXCEPT ![Arg] = a]
  /\ pc' = pc + 1
  /\ UNCHANGED <<prog, mask, pending, armed, left, child, cpt, killed, sent, late>>

Alarm ==
  /\ \/ Doing("alarm") /\ armed' = TRUE /\ UNCHANGED left
     \/ Doing("alarm0") /\ left' = armed /\ armed' = FALSE
  /\ pc' = pc + 1
  /\ UNCHANGED <<prog, mask, pending, action, child, cpt, killed, sent, late>>

(* Without a child mywait ends at once; voodoo takes -1 for a child's pid. *)
Fork ==
  /\ Doing("fork")
  /\ \/ child' = "running" /\ pc' = pc + 1
     \/ child' = "none" /\ pc' = IF prog = "mywait" THEN Len(Code[prog]) + 1 ELSE pc + 1
  /\ UNCHANGED <<prog, mask, pending, action, armed, left, cpt, killed, sent, late>>

(* A signal that the last call unblocked has been delivered when sigpending*)
(* looks, and the display follows.                                         *)
Sigpending ==
  /\ Doing("sigpending") /\ pending \ mask = {}
  /\ pc' = pc + 1
  /\ UNCHANGED <<prog, mask, pending, action, armed, left, child, cpt, killed, sent, late>>

Sleep ==
  /\ Doing("sleep")
  /\ pc' = pc + 1
  /\ UNCHANGED <<prog, mask, pending, action, armed, left, child, cpt, killed, sent, late>>

Ignored(s) == action[s] = "ignored" \/ (s = "CHLD" /\ action[s] = "default")

(* Mistake: a signal that is blocked is lost.                              *)
GenerateUnblocked(s) ==
  pending' = IF Ignored(s) \/ s \in mask THEN pending ELSE pending \cup {s}

Generate(s) == pending' = IF Ignored(s) THEN pending ELSE pending \cup {s}

(* A signal is delivered: a call that waits returns, if it had begun.      *)
(* The handler of init-sig.4 then ignores INT, the one of init-sig.5 sets  *)
(* the alarm again.                                                        *)
Deliver(s) ==
  /\ ~Over /\ s \in pending \ Blocked
  /\ pending' = pending \ {s}
  /\ IF action[s] = "default"
       THEN /\ killed' = s
            /\ UNCHANGED <<pc, action, armed, cpt>>
       ELSE /\ pc' \in (IF Waiting THEN {After} ELSE {pc}) \cup (IF s \in mask THEN {} ELSE {pc})
            /\ action' = IF prog = "init_sig_4" THEN [action EXCEPT ![s] = "ignored"] ELSE action
            /\ armed' = (armed \/ (prog = "init_sig_5" /\ s = "ALRM"))
            /\ cpt' = IF prog = "pending_signals_2" THEN cpt + 1 ELSE cpt
            /\ UNCHANGED killed
  /\ UNCHANGED <<prog, mask, left, child, sent, late>>

(* The time of alarm is over.                                              *)
Ring ==
  /\ ~Over /\ armed
  /\ armed' = FALSE
  /\ Generate("ALRM")
  /\ UNCHANGED <<prog, pc, mask, action, left, child, cpt, killed, sent, late>>

ChildExit ==
  /\ child = "running"
  /\ child' = "zombie"
  /\ Generate("CHLD")
  /\ UNCHANGED <<prog, pc, mask, action, armed, left, cpt, killed, sent, late>>

Send(s) ==
  /\ ~Over /\ sent < MaxSent
  /\ sent' = sent + 1
  /\ Generate(s)
  /\ late' = (late \/ (s = "INT" /\ s \notin mask))
  /\ UNCHANGED <<prog, pc, mask, action, armed, left, child, cpt, killed>>

Run == Mask \/ Sigaction \/ Alarm \/ Fork \/ Sleep \/ Sigpending \/ Ring \/ ChildExit
         \/ \E s \in Signals : Deliver(s)

Next == Run \/ \E s \in {"INT", "QUIT"} : Send(s)

Spec == Init /\ [][Next]_vars

(* The process is scheduled, its child ends, alarms ring and pending       *)
(* signals are delivered; the user may send none.                          *)
FairSpec == Spec /\ WF_vars(Run)

-----------------------------------------------------------------------------
(***************************************************************************)
(* Properties                                                              *)
(***************************************************************************)
(* README of TME4, exercises 1 and 2: the displays behind the first wait   *)
(* of init-sig.1, 2, 3 and voodoo, and behind the second of init-sig.4,    *)
(* are never reached, whatever the user sends.                             *)
NeverShown ==
  /\ prog = "init_sig_1" => pc = 1
  /\ prog \in {"init_sig_2", "voodoo"} => pc <= 2
  /\ prog = "init_sig_3" => pc <= 3
  /\ prog = "init_sig_4" => pc <= 4

(* README of TME4, exercises 3 to 5: after the mask is set QUIT ends none  *)
(* of the three programs; with its handler INT does not either, and the    *)
(* INTs sent before the unmasking are counted once.                        *)
PendingOnce ==
  /\ prog \in {"pending_signals", "pending_signals_2"} /\ killed = "QUIT" => pc = 1
  /\ prog = "pending_signals_2" =>
       (killed = "INT" => pc = 1) /\ (cpt > 1 => late)

(* mysleep returns 0 when its whole time is over, and no alarm ends a      *)
(* program that has set one, however early it rings.                       *)
SleepsWhole ==
  /\ killed # "ALRM"
  /\ prog = "mysleep" /\ pc > 4 => ~left /\ ~armed

(* tme5.html, exercise on wait: mywait returns once the child has ended,   *)
(* even when it ended before the father waits.                             *)
WaitsForChild == prog = "mywait" /\ pc = 6 => child # "running"

SignalOutcome == NeverShown /\ PendingOnce /\ SleepsWhole /\ WaitsForChild

(* pending-signals, mysleep and mywait end: no signal that they wait for   *)
(* is lost.                                                                *)
SignalProgramsEnd ==
  <>(Over \/ prog \in {"init_sig_1", "init_sig_2", "init_sig_3", "init_sig_4", "init_sig_5",
                       "voodoo"})
=============================================================================
