------------------------ MODULE QueueSessionsProofs ------------------------
(***************************************************************************)
(* Any number of runs of test1_myqueue on the segment the run before left, *)
(* killed or not: a run that got both its semaphores accounts for them     *)
(* exactly, and a NULL semaphore is only ever met after a run was killed.  *)
(***************************************************************************)
EXTENDS QueueSessions, MyQueueProofs

FatherPcs == {"none", "open_write", "reset", "wait", "unlink_write", "unlink_read"}
SharedSems == {"mutex_read", "mutex_write"}

(* What the session adds to the types of the queue.                        *)
SessionTypes ==
  /\ father \in FatherPcs
  /\ null \subseteq SharedSems
  /\ names \subseteq SharedSems
  /\ killed \in BOOLEAN

(* The semaphores of which main got a fresh one have their initial value   *)
(* until the forks; the reset before them makes the invariant of MyQueue   *)
(* true, whatever the segment contained.                                   *)
Reopened ==
  /\ father \in {"open_write", "reset"} /\ "mutex_read" \notin null => sem["mutex_read"] = 0
  /\ father = "reset" /\ "mutex_write" \notin null => sem["mutex_write"] = MAX_MSG
  /\ father = "wait" /\ null = {} => IInv

SInv == TypeOK /\ SessionTypes /\ Reopened

-----------------------------------------------------------------------------
(* The steps of main                                                       *)

(* What sem_open does to the semaphore it opens and to the other.          *)
LEMMA SemOpen ==
  ASSUME TypeOK, SessionTypes, NEW s \in SharedSems, NEW v \in Nat, sem_open(s, v)
  PROVE  /\ sem' \in [SemNames -> Nat]
         /\ null' \subseteq SharedSems /\ names' \subseteq SharedSems
         /\ s \notin null' => sem'[s] = v
         /\ \A t \in SharedSems \ {s} : sem'[t] = sem[t] /\ (t \in null' <=> t \in null)
<1>1. SharedSems \subseteq SemNames /\ sem \in [SemNames -> Nat]
  BY DEF SharedSems, SemNames, TypeOK
<1> HIDE DEF SharedSems, SemNames
<1>2. CASE s \in names
  BY <1>1, <1>2 DEF sem_open, SessionTypes
<1>3. CASE s \notin names
  <2>1. /\ null' = null \ {s} /\ names' = names \cup {s} /\ sem' = [sem EXCEPT ![s] = v]
    BY <1>3 DEF sem_open
  <2> QED
    BY <1>1, <2>1 DEF SessionTypes
<1> QED
  BY <1>2, <1>3

(* Opening the two semaphores, one after the other.                        *)
LEMMA OpenStep ==
  ASSUME SInv, OpenRead \/ OpenWrite
  PROVE  SInv'
<1> USE DEF SInv
<1>1. TypeOK /\ SessionTypes /\ MAX_MSG \in Nat
  BY MaxMsgAssumption
<1>2. CASE OpenRead
  <2>1. sem_open("mutex_read", 0)
    BY <1>2 DEF OpenRead
  <2>2. /\ sem' \in [SemNames -> Nat]
        /\ null' \subseteq SharedSems /\ names' \subseteq SharedSems
        /\ "mutex_read" \notin null' => sem'["mutex_read"] = 0
    BY <1>1, <2>1, SemOpen DEF sem_open, SharedSems
  <2>3. TypeOK'
    BY <1>2, <2>2 DEF OpenRead, TypeOK, store, attr, notif, history
  <2> QED
    BY <1>2, <2>2, <2>3 DEF OpenRead, SessionTypes, Reopened, FatherPcs
<1>3. CASE OpenWrite
  <2>1. sem_open("mutex_write", MAX_MSG)
    BY <1>3 DEF OpenWrite
  <2>2. /\ sem' \in [SemNames -> Nat]
        /\ null' \subseteq SharedSems /\ names' \subseteq SharedSems
        /\ "mutex_write" \notin null' => sem'["mutex_write"] = MAX_MSG
        /\ sem'["mutex_read"] = sem["mutex_read"]
        /\ "mutex_read" \in null' <=> "mutex_read" \in null
    BY <1>1, <2>1, SemOpen DEF sem_open, SharedSems
  <2>3. TypeOK'
    BY <1>3, <2>2 DEF OpenWrite, TypeOK, store, attr, notif, history
  <2> QED
    BY <1>3, <2>2, <2>3 DEF OpenWrite, SessionTypes, Reopened, FatherPcs
<1> QED
  BY <1>2, <1>3

(* The resets of mq_open and the forks (lines 86-110): with both fresh     *)
(* semaphores the accounts are exact and nothing is chained.               *)
LEMMA ResetStep ==
  ASSUME SInv, OpenReset
  PROVE  SInv'
<1>1. /\ TypeOK /\ father = "reset" /\ father' = "wait" /\ null' = null
      /\ list' = <<>> /\ init' = 0 /\ pc' = [p \in Procs |-> "idle"]
      /\ sem' = [sem EXCEPT !["mutex_access"] = 1]
  BY DEF SInv, OpenReset, Fresh
<1>2. TypeOK'
  BY <1>1, ArgsAssumption DEF OpenReset, TypeOK, SendPcs, RecvPcs, OtherPcs, SemNames, SIGUSR1
<1>3. ASSUME null = {}
      PROVE  IInv'
  <2>1. \A S : "idle" \notin S => Standing(S)' = {}
    BY <1>1 DEF Standing
  <2>2. \A S : "idle" \notin S => Cardinality(Standing(S)') = 0
    BY <2>1, FS_EmptySet
  <2>3. InCS' = {} /\ HoldWrite' = {} /\ Removed' = {} /\ HoldRead' = {} /\ Inserted' = {}
    BY <2>1 DEF InCS, HoldWrite, Removed, HoldRead, Inserted, CSPcs, HoldWritePcs,
       RemovedPcs, HoldReadPcs, InsertedPcs
  <2>4. /\ Cardinality(InCS') = 0 /\ Cardinality(HoldWrite') = 0 /\ Cardinality(Removed') = 0
        /\ Cardinality(HoldRead') = 0 /\ Cardinality(Inserted') = 0
    BY <2>3, FS_EmptySet
  <2>5. /\ sem'["mutex_access"] = 1 /\ sem'["mutex_read"] = 0
        /\ sem'["mutex_write"] = MAX_MSG /\ Len(list') = 0
    BY <1>1, <1>3 DEF SInv, Reopened, TypeOK, SemNames
  <2>6. Tokens'
    BY <2>4, <2>5, MaxMsgAssumption DEF Tokens, AccessToken, WriteTokens, ReadTokens
  <2>7. Roles' /\ UsedInList'
    BY <1>1 DEF Roles, UsedInList, SendPcs, RecvPcs
  <2> QED
    BY <1>2, <2>6, <2>7 DEF IInv
<1>4. SessionTypes'
  BY <1>1 DEF SInv, SessionTypes, OpenReset, FatherPcs
<1> QED
  BY <1>1, <1>2, <1>3, <1>4 DEF SInv, Reopened

(* A run ends, or is killed: only the types still say something about what *)
(* it leaves.                                                              *)
LEMMA EndStep ==
  ASSUME SInv, WaitAll \/ UnlinkWrite \/ UnlinkRead \/ Kill
  PROVE  SInv'
<1> USE DEF SInv, TypeOK, SessionTypes, FatherPcs, Reopened
<1>1. CASE WaitAll
  BY <1>1 DEF WaitAll, attr, notif, history
<1>2. CASE UnlinkWrite
  BY <1>2 DEF UnlinkWrite, vars, rest, store, attr, notif, history
<1>3. CASE UnlinkRead
  BY <1>3 DEF UnlinkRead, vars, rest, store, attr, notif, history
<1>4. CASE Kill
  BY <1>4 DEF Kill, segment, attr, notif, history, OtherPcs
<1> QED
  BY <1>1, <1>2, <1>3, <1>4

-----------------------------------------------------------------------------
(* The steps of the children                                               *)

(* With both semaphores a child makes only the steps of MyQueue; without   *)
(* one of them only the types are at stake.                                *)
LEMMA ChildInv ==
  ASSUME NoInterrupts, SInv, NEW p \in Procs, Child(p)
  PROVE  SInv'
<1>1. CASE ChildStep(p)
  <2>1. Step(p) /\ session' = session
    BY <1>1 DEF ChildStep
  <2>2. TypeOK'
    BY <2>1, SendTypes, ReceiveTypes, OtherTypes DEF SInv, Step
  <2>3. father = "wait" /\ father' = "wait" /\ SessionTypes' /\ null' = null
    BY <1>1 DEF ChildStep, session, SInv, SessionTypes
  <2>4. IInv => IInv'
    BY <2>1, StepInv DEF Next
  <2> QED
    BY <2>2, <2>3, <2>4 DEF SInv, Reopened
<1>2. CASE Segv(p)
  <2>1. null # {} /\ father = "wait" /\ session' = session
    BY <1>2 DEF Segv
  <2>2. TypeOK'
    BY <1>2 DEF Segv, SInv, TypeOK, goto, rest, store, attr, notif, history, OtherPcs
  <2>3. father' = "wait" /\ null' # {} /\ SessionTypes'
    BY <2>1 DEF session, SInv, SessionTypes
  <2> QED
    BY <2>2, <2>3 DEF SInv, Reopened
<1> QED
  BY <1>1, <1>2 DEF Child

(* At the first mq_open the segment is empty; then every step keeps what   *)
(* is known of it, killed runs included.                                   *)
THEOREM SessionInvariance == ASSUME NoInterrupts PROVE SSpec => []SInv
<1>1. SInit => SInv
  BY TypeInit DEF SInit, SInv, SessionTypes, FatherPcs, Reopened
<1>2. SInv /\ [SNext]_allvars => SInv'
  <2> SUFFICES ASSUME SInv, [SNext]_allvars PROVE SInv'
    OBVIOUS
  <2>1. CASE UNCHANGED allvars
    <3>1. vars' = vars /\ father' = father /\ null' = null /\ names' = names /\ killed' = killed
      BY <2>1 DEF allvars, session
    <3>2. TypeOK' /\ sem' = sem
      BY <3>1, StutterTypes DEF SInv, vars
    <3>3. IInv => IInv'
      BY <3>1, StepInv
    <3> QED
      BY <3>1, <3>2, <3>3 DEF SInv, SessionTypes, Reopened
  <2> QED
    BY <2>1, OpenStep, ResetStep, EndStep, ChildInv DEF SNext, Main
<1> QED
  BY <1>1, <1>2, PTL DEF SSpec

(* Whatever the run before left in the segment, messages, lengths and a    *)
(* taken lock included, a run that got both its semaphores has exact       *)
(* counts, a free lock and room where the counts promise it, for any       *)
(* number of runs, processes and calls, and any of them killed anywhere.   *)
THEOREM ReopenIsSound == ASSUME NoInterrupts PROVE SSpec => []SoundAfterReopen
<1>1. IInv => Tokens /\ NoOverrun /\ MutualExclusion
  BY TokensHeld, OneInside DEF IInv, NoOverrun
<1>2. SInv => SoundAfterReopen
  BY <1>1 DEF SInv, Reopened, SoundAfterReopen
<1> QED
  BY <1>2, SessionInvariance, PTL

-----------------------------------------------------------------------------
(* Crashes                                                                 *)

(* test1_myqueue never calls mq_notify.                                    *)
NoSubscriber == Subscribers = {}

(* After a run that was not killed no name is left, so the next run gets   *)
(* both its semaphores, and none of its children meets a NULL one.         *)
CleanNames ==
  /\ father = "unlink_read" => names \subseteq {"mutex_read"}
  /\ ~killed =>
       /\ father = "none" => names = {}
       /\ father = "open_write" => names = {"mutex_read"} /\ "mutex_read" \notin null
       /\ father \in {"reset", "wait"} => null = {}
       /\ father = "wait" => \A p \in Procs : pc[p] # "segv"
  /\ \A p \in Procs : pc[p] # "n_unsub"

(* Without subscribers no step of the library leads to the two places of a *)
(* crash in mq_notify.                                                     *)
LEMMA NoCrashInStep ==
  ASSUME NoSubscriber, TypeOK, NEW p \in Procs, Step(p), pc[p] # "n_unsub"
  PROVE  \A q \in Procs : pc'[q] \in {"segv", "n_unsub"} => pc'[q] = pc[q]
<1> USE DEF TypeOK, goto, at, Move, Wait, Post, Enter, NoSubscriber
<1>1. CASE Send(p)
  BY <1>1 DEF Send, SendCall, SendTryFails, SendTry, SendWait, SendLock, SendInsert, TestSig,
     TestReaders, SendKill, SendUnlock, SendReturn
<1>2. CASE Receive(p)
  BY <1>2 DEF Receive, ReceiveCall, ReceiveTryFails, ReceiveTry, ReceiveDec, ReceiveWait,
     ReceiveInc, CountReaders, ReceiveLock, ReceiveTake, ReceiveUnlock, ReceiveReturn
<1>3. CASE Notify(p)
  BY <1>3 DEF Notify, NotifyNone, NotifySignal, NotifyPid, NotifyNull, Unsubscribe, NullEvent,
     ClearSig
<1>4. CASE Close(p) \/ SetAttr(p) \/ Refused(p)
  BY <1>4 DEF Close, SetAttr, Refused
<1> QED
  BY <1>1, <1>2, <1>3, <1>4 DEF Step

(* Every step keeps the names clean.                                       *)
LEMMA CleanStep ==
  ASSUME NoSubscriber, TypeOK, SessionTypes, CleanNames, SNext
  PROVE  CleanNames'
<1> USE DEF SessionTypes, SharedSems
<1>1. CASE OpenRead
  BY <1>1 DEF OpenRead, sem_open, CleanNames
<1>2. CASE OpenWrite
  BY <1>2 DEF OpenWrite, sem_open, CleanNames
<1>3. CASE OpenReset
  BY <1>3 DEF OpenReset, CleanNames
<1>4. CASE WaitAll
  BY <1>4 DEF WaitAll, CleanNames
<1>5. CASE UnlinkWrite
  BY <1>5 DEF UnlinkWrite, CleanNames, vars
<1>6. CASE UnlinkRead
  BY <1>6 DEF UnlinkRead, CleanNames, vars
<1>7. CASE Kill
  BY <1>7 DEF Kill, CleanNames
<1>8. ASSUME NEW p \in Procs, Child(p)
      PROVE  CleanNames'
  <2>1. father = "wait" /\ session' = session
    BY <1>8 DEF Child, ChildStep, Segv
  <2>2. father' = "wait" /\ null' = null /\ names' = names /\ killed' = killed
    BY <2>1 DEF session
  <2>3. CASE ChildStep(p)
    <3>1. \A q \in Procs : pc'[q] \in {"segv", "n_unsub"} => pc'[q] = pc[q]
      BY <2>3, NoCrashInStep DEF ChildStep, CleanNames
    <3> QED
      BY <2>1, <2>2, <3>1 DEF CleanNames
  <2>4. CASE Segv(p)
    <3>1. killed
      BY <2>1, <2>4 DEF Segv, CleanNames
    <3>2. \A q \in Procs : pc'[q] # "n_unsub"
      BY <2>4 DEF Segv, goto, TypeOK, CleanNames
    <3> QED
      BY <2>2, <3>1, <3>2 DEF CleanNames
  <2> QED
    BY <1>8, <2>3, <2>4 DEF Child
<1> QED
  BY <1>1, <1>2, <1>3, <1>4, <1>5, <1>6, <1>7, <1>8 DEF SNext, Main

(* A process of test1 that crashes on a NULL semaphore does so in a run    *)
(* that follows a killed one: mq_close and mq_unlink leave nothing a later *)
(* mq_open could trip over (lines 80-83 and 136-137 of myqueue.c).         *)
THEOREM CrashesNeedAKill ==
  ASSUME NoInterrupts, NoSubscriber PROVE SSpec => []CrashNeedsKill
<1>1. SInit => CleanNames
  BY DEF SInit, Init, CleanNames
<1>2. SInv /\ CleanNames /\ [SNext]_allvars => CleanNames'
  <2> SUFFICES ASSUME SInv, CleanNames, [SNext]_allvars PROVE CleanNames'
    OBVIOUS
  <2>1. CASE UNCHANGED allvars
    BY <2>1 DEF allvars, session, vars, CleanNames
  <2> QED
    BY <2>1, CleanStep DEF SInv
<1>3. CleanNames => CrashNeedsKill
  BY DEF CleanNames, CrashNeedsKill
<1> QED
  BY <1>1, <1>2, <1>3, SessionInvariance, PTL DEF SSpec
=============================================================================
