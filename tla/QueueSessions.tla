--------------------------- MODULE QueueSessions ---------------------------
(***************************************************************************)
(* The life of a queue of TME10-11 over several runs of test1_myqueue:     *)
(* mq_open by main, the children of module MyQueue, mq_close and mq_unlink *)
(* once all of them have been waited for, and a Ctrl-C that may kill main  *)
(* and its children anywhere.  What survives a run: the shared segment,    *)
(* which mq_unlink unmaps but never removes, and the names of the two      *)
(* semaphores until mq_unlink.  sem_open uses O_EXCL, and the NULL it      *)
(* returns for a name left by a killed run is stored in the segment.       *)
(***************************************************************************)
EXTENDS MyQueue

CONSTANT MaxRuns    \* bound: number of runs of the program

ASSUME MaxRunsAssumption == MaxRuns \in Nat

VARIABLES
  father,  \* where main stands; "none" when no run is going on
  null,    \* the semaphores that are a NULL pointer in the segment
  names,   \* the semaphores whose name exists
  runs,    \* runs started so far (bound on the exploration)
  killed   \* the run before this one was killed

session == <<father, null, names, runs, killed>>
allvars == <<vars, session>>
segment == <<sem, queue, used, list, init, attr, notif>>

SInit ==
  /\ Init
  /\ father = "none"
  /\ null = {}
  /\ names = {}
  /\ runs = 0
  /\ killed = FALSE

(* sem_open(..., O_CREAT | O_EXCL, 0666, value): SEM_FAILED is NULL.       *)
sem_open(s, value) ==
  IF s \in names
  THEN null' = null \cup {s} /\ UNCHANGED <<names, sem>>
  ELSE /\ null' = null \ {s}
       /\ names' = names \cup {s}
       /\ sem' = [sem EXCEPT ![s] = value]

OpenRead ==
  /\ father = "none"
  /\ runs < MaxRuns
  /\ sem_open("mutex_read", 0)
  /\ father' = "open_write"
  /\ runs' = runs + 1
  /\ UNCHANGED <<pc, calls, mqfd, prio, store, attr, notif, signalled, history, killed>>

OpenWrite ==
  /\ father = "open_write"
  /\ sem_open("mutex_write", MAX_MSG)
  /\ father' = "reset"
  /\ UNCHANGED <<pc, calls, mqfd, prio, store, attr, notif, signalled, history, runs, killed>>

(* Mistake: shm->ind keeps the value the killed run left.                  *)
FreshIndKept == init' = 0 /\ UNCHANGED list

Fresh == list' = <<>> /\ init' = 0

(* The rest of mq_open and the forks.  The messages and their lengths are  *)
(* not touched: they are those of the last run.                            *)
OpenReset ==
  /\ father = "reset"
  /\ sem' = [sem EXCEPT !["mutex_access"] = 1]
  /\ Fresh
  /\ mq_flags' \in Flags
  /\ nb_blocked_readers' = 0
  /\ nb_blocked_writers' = 0
  /\ subscriber' = NoPid
  /\ notification_sig' = -1
  /\ pc' = [p \in Procs |-> "idle"]
  /\ calls' = [p \in Procs |-> Calls]
  /\ mqfd' = [p \in Procs |-> 1]
  /\ prio' = [p \in Procs |-> 0]
  /\ signalled' = {}
  /\ nsent' = 0
  /\ received' = <<>>
  /\ father' = "wait"
  /\ UNCHANGED <<queue, used, null, names, runs, killed>>

(* The semaphore the next step of p uses, if it is one of the two named.   *)
Named(p) ==
  CASE pc[p] \in {"s_try", "s_wait", "r_postw"} -> {"mutex_write"}
    [] pc[p] \in {"r_try", "r_wait", "s_postr"} -> {"mutex_read"}
    [] OTHER -> {}

ChildStep(p) ==
  /\ father = "wait"
  /\ Named(p) \cap null = {}
  /\ Step(p)
  /\ UNCHANGED session

Segv(p) ==
  /\ father = "wait"
  /\ Named(p) \cap null # {}
  /\ goto(p, "segv")
  /\ UNCHANGED <<calls, mqfd, prio, sem, rest, session>>

Ended(p) == pc[p] = "segv" \/ (pc[p] = "idle" /\ calls[p] = 0)

(* All children waited for: mq_close.                                      *)
WaitAll ==
  /\ father = "wait"
  /\ \A p \in Procs : Ended(p)
  /\ init' = 0
  /\ mqfd' = [p \in Procs |-> 0]
  /\ father' = "unlink_write"
  /\ UNCHANGED <<pc, calls, prio, sem, queue, used, list, attr, notif, signalled,
                 history, null, names, runs, killed>>

UnlinkWrite ==
  /\ father = "unlink_write"
  /\ names' = names \ {"mutex_write"}
  /\ father' = "unlink_read"
  /\ UNCHANGED <<vars, null, runs, killed>>

(* Mistake: the name of mutex_read is left behind.                         *)
UnlinkReadForgotten ==
  /\ father = "unlink_read"
  /\ father' = "none"
  /\ killed' = FALSE
  /\ UNCHANGED <<vars, null, names, runs>>

UnlinkRead ==
  /\ father = "unlink_read"
  /\ names' = names \ {"mutex_read"}
  /\ father' = "none"
  /\ killed' = FALSE
  /\ UNCHANGED <<vars, null, runs>>

(* Ctrl-C: SIGINT to the whole group.  The segment and the names stay.     *)
Kill ==
  /\ father # "none"
  /\ father' = "none"
  /\ killed' = TRUE
  /\ pc' = [p \in Procs |-> "idle"]
  /\ prio' = [p \in Procs |-> 0]
  /\ UNCHANGED <<calls, mqfd, segment, signalled, history, null, names, runs>>

Main == OpenWrite \/ OpenReset \/ WaitAll \/ UnlinkWrite \/ UnlinkRead
Child(p) == ChildStep(p) \/ Segv(p)

SNext == OpenRead \/ Main \/ Kill \/ \E p \in Procs : Child(p)

SSpec == SInit /\ [][SNext]_allvars

(* Main and its children are scheduled; nobody has to start or kill a run. *)
SFairSpec == SSpec /\ WF_allvars(Main) /\ \A p \in Procs : WF_allvars(Child(p))

-----------------------------------------------------------------------------
(* Whatever the run before left in the segment, messages, lengths and a    *)
(* taken lock included, a run that got both its semaphores has exact       *)
(* counts, a free lock and room where the counts promise it (the resets of *)
(* lines 86-110).                                                          *)
SoundAfterReopen ==
  father = "wait" /\ null = {} => Tokens /\ NoOverrun /\ MutualExclusion

(* mq_close and mq_unlink leave nothing a later mq_open could trip over:   *)
(* a process only ever uses a NULL semaphore after a run that was killed.  *)
CrashNeedsKill == father = "wait" /\ (\E p \in Procs : pc[p] = "segv") => killed

(* A run that is not killed ends: all calls of test1 return, or, when both *)
(* names were left, every child crashes and main still unlinks them.  Only *)
(* with the name of mutex_read left (a Ctrl-C between lines 80 and 83, or  *)
(* 136 and 137) does it hang: the senders fill the queue, crash on their   *)
(* last sem_post and leave the others waiting for a place.                 *)
RunsEnd == father = "wait" /\ null # {"mutex_read"} ~> father = "none"
=============================================================================
