------------------------------ MODULE MyQueue ------------------------------
(***************************************************************************)
(* The POSIX-like message queue of TME10-11 (src/myqueue.c), used by       *)
(* several processes through one shared segment after one mq_open and the  *)
(* forks that follow it.  A step is what one process does between two      *)
(* points where another process can see or change the shared state:        *)
(* the semaphore operations are steps, the sections under mutex_access     *)
(* are cut at every access to a field that is also used without it.        *)
(*                                                                         *)
(* The operators commented "Mistake" are variants of the operator that     *)
(* follows them; no action uses them.  Each one shows that a property      *)
(* would notice such a change of the code.                                 *)
(*                                                                         *)
(* The C array cl_mq is abstracted to the sequence of slots it chains from *)
(* shm->ind; module CellList models the array itself.                      *)
(***************************************************************************)
EXTENDS Integers, Sequences, FiniteSets, SequencesExt

CONSTANTS
  Senders,        \* processes that may call mq_send
  Receivers,      \* processes that may call mq_receive
  Subscribers,    \* processes that may call mq_notify
  Setters,        \* processes that may call mq_setattr
  Closers,        \* processes that may call mq_close
  Interruptible,  \* processes whose SIGUSR1 handler runs (the others mask it)
  Events,         \* arguments of mq_notify: sigev_notify, or "NULL"
  Prios,          \* arguments "prio" of mq_send
  Lens,           \* arguments "len" of mq_send and mq_receive
  MAX_MSG,        \* capacity of the queue (32 in myqueue.h)
  Calls,          \* bound: number of library calls each process makes
  NoPid,          \* the value 0 of the field subscriber
  Flags,          \* mq_flags as mq_open may set it: 1 with O_NONBLOCK, else 0
  Registered      \* the process whose mq_notify preceded the forks, or NoPid

MAX_SIZ_MSG == 32
MAX_PRIO == 32
SIGUSR1 == 10

Procs == UNION {Senders, Receivers, Subscribers, Setters, Closers}
Slots == 0 .. MAX_MSG - 1
SemNames == {"mutex_read", "mutex_write", "mutex_access"}

ASSUME ProcsAssumption == IsFiniteSet(Procs) /\ NoPid \notin Procs
ASSUME RegisteredAssumption == Registered \in Procs \cup {NoPid}
ASSUME MaxMsgAssumption == MAX_MSG \in Nat \ {0}
ASSUME ArgsAssumption ==
  Prios \subseteq Int /\ Lens \subseteq Nat /\ Calls \in Nat /\ Flags \subseteq {0, 1}
ASSUME EventsAssumption ==
  Events \subseteq {"SIGEV_SIGNAL", "SIGEV_NONE", "SIGEV_THREAD", "NULL"}

VARIABLES
  pc,         \* where each process stands in the library
  calls,      \* calls each process still makes (bound on the exploration)
  mqfd,       \* mqfd[fd] of each process: the table is copied by fork
  prio,       \* the argument prio of a process inside mq_send
  sem,        \* values of the three semaphores
  queue,      \* mq.queue: the message of each slot
  used,       \* the slots whose length differs from -1
  list,       \* the slots chained by cl_mq, from shm->ind on
  init,       \* shm->init
  mq_flags, nb_blocked_readers, nb_blocked_writers, subscriber, notification_sig,
  signalled,  \* processes with SIGUSR1 pending
  nsent,      \* history: messages inserted so far
  received    \* history: messages taken, in order

store == <<queue, used, list, init>>
attr == <<mq_flags, nb_blocked_readers, nb_blocked_writers>>
notif == <<subscriber, notification_sig>>
history == <<nsent, received>>
rest == <<store, attr, notif, signalled, history>>
vars == <<pc, calls, mqfd, prio, sem, rest>>

Message == [seq : Nat, prio : Int]

(* Where a process can stand.  "segv" is a NULL pointer dereferenced.      *)
SendPcs == {"s_try", "s_wait", "s_acc", "s_cs", "s_test", "s_nb", "s_kill",
            "s_unsub", "s_clear", "s_post", "s_postr"}
RecvPcs == {"r_try", "r_dec", "r_wait", "r_inc", "r_acc", "r_cs", "r_post",
            "r_postw"}
OtherPcs == {"idle", "n_pid", "n_unsub", "n_clear", "segv", "s_segv"}

(* mq_open has returned, one process may have registered for SIGUSR1 (main *)
(* of test2), and the processes are forked.  The segment was created by    *)
(* this mq_open, so its bytes are zero and every length field reads 0: no  *)
(* slot looks free until the first mq_send resets them.                    *)
Init ==
  /\ pc = [p \in Procs |-> "idle"]
  /\ calls = [p \in Procs |-> Calls]
  /\ mqfd = [p \in Procs |-> 1]
  /\ prio = [p \in Procs |-> 0]
  /\ sem = [s \in SemNames |-> IF s = "mutex_read" THEN 0
                                 ELSE IF s = "mutex_write" THEN MAX_MSG ELSE 1]
  /\ queue = [s \in Slots |-> [seq |-> 0, prio |-> 0]]
  /\ used = Slots
  /\ list = <<>>
  /\ init = 0
  /\ mq_flags \in Flags
  /\ nb_blocked_readers = 0
  /\ nb_blocked_writers = 0
  /\ subscriber = Registered
  /\ notification_sig = IF Registered = NoPid THEN -1 ELSE SIGUSR1
  /\ signalled = {}
  /\ nsent = 0
  /\ received = <<>>

goto(p, l) == pc' = [pc EXCEPT ![p] = l]
at(p, l) == pc[p] = l

sem_wait(s) == sem[s] > 0 /\ sem' = [sem EXCEPT ![s] = @ - 1]
sem_post(s) == sem' = [sem EXCEPT ![s] = @ + 1]

(* A library call starts: p leaves its program and uses one of its calls. *)
Enter(p, caller, l) ==
  /\ at(p, "idle")
  /\ p \in caller
  /\ calls[p] > 0
  /\ calls' = [calls EXCEPT ![p] = @ - 1]
  /\ goto(p, l)

(* The three kinds of steps that touch only pc and at most a semaphore.    *)
Move(p, here, next) ==
  at(p, here) /\ goto(p, next) /\ UNCHANGED <<calls, mqfd, prio, sem, rest>>
Wait(p, here, s, next) ==
  at(p, here) /\ sem_wait(s) /\ goto(p, next) /\ UNCHANGED <<calls, mqfd, prio, rest>>
Post(p, here, s, next) ==
  at(p, here) /\ sem_post(s) /\ goto(p, next) /\ UNCHANGED <<calls, mqfd, prio, rest>>

(***************************************************************************)
(* mq_send                                                                 *)
(***************************************************************************)
SendArgs(len, x) == len <= MAX_SIZ_MSG /\ x \in 0 .. MAX_PRIO

SendCall(p) ==
  /\ mqfd[p] = 1
  /\ \E len \in Lens, x \in Prios :
        SendArgs(len, x) /\ prio' = [prio EXCEPT ![p] = x]
  /\ Enter(p, Senders, IF mq_flags = 1 THEN "s_try" ELSE "s_wait")
  /\ UNCHANGED <<mqfd, sem, rest>>

(* prio[p] is a local of the call: forgetting it after its last use merges *)
(* states.                                                                 *)
SendTryFails(p) ==
  /\ at(p, "s_try") /\ sem["mutex_write"] = 0
  /\ goto(p, "idle")
  /\ prio' = [prio EXCEPT ![p] = 0]
  /\ UNCHANGED <<calls, mqfd, sem, rest>>

SendTry(p) == Wait(p, "s_try", "mutex_write", "s_acc")
SendWait(p) == Wait(p, "s_wait", "mutex_write", "s_acc")
SendLock(p) == Wait(p, "s_acc", "mutex_access", "s_cs")

(* Mistake: the lengths are never reset.                                   *)
LiveWithoutReset == used

(* The slots in use once mq_send has reset the lengths after an open or a  *)
(* close (shm->init = 0).                                                  *)
Live == IF init = 0 THEN {} ELSE used

(* Mistake: the first slot is taken without looking at its length.         *)
IsFreeOrFirst(slot) == \A s \in Slots : s < slot => s \in Live

(* The lowest slot of length -1.                                           *)
IsFree(slot) == slot \notin Live /\ \A s \in Slots : s < slot => s \in Live

(* Mistakes: the message never goes behind the last cell; the walk is      *)
(* forgotten.                                                              *)
IsPositionBeforeLast(q, x, k) ==
  /\ \A j \in 1 .. k - 1 : q[list[j]].prio > x
  /\ IF k < Len(list) THEN q[list[k]].prio <= x ELSE k = Len(list) \/ list = <<>>

IsPositionHead(q, x, k) == k = 1

(* Where the walk along cl_mq stops: k is the first cell whose message is  *)
(* not of a higher priority, or one past the last cell.                    *)
IsPosition(q, x, k) ==
  /\ \A j \in 1 .. k - 1 : q[list[j]].prio > x
  /\ k <= Len(list) => q[list[k]].prio <= x

(* The message is written into its slot before the walk compares the       *)
(* priorities through the cells' pointers.  Without a free slot the search *)
(* runs past mq.queue: undefined, the model stops there (NoOverrun).       *)
SendInsert(p) ==
  /\ at(p, "s_cs")
  /\ \E slot \in Slots, k \in 1 .. Len(list) + 1 :
       /\ IsFree(slot)
       /\ queue' = [queue EXCEPT ![slot] = [seq |-> nsent + 1, prio |-> prio[p]]]
       /\ IsPosition(queue', prio[p], k)
       /\ list' = InsertAt(list, k, slot)
       /\ used' = Live \cup {slot}
  /\ init' = 1
  /\ nb_blocked_writers' = sem["mutex_write"]
  /\ nsent' = nsent + 1
  /\ goto(p, IF list = <<>> THEN "s_test" ELSE "s_post")  \* pempty
  /\ prio' = [prio EXCEPT ![p] = 0]
  /\ UNCHANGED <<calls, mqfd, sem, mq_flags, nb_blocked_readers, notif, signalled,
                 received>>

(* The two shared fields of the notification test are written without      *)
(* mutex_access by mq_notify and mq_receive: two reads, two steps.         *)
TestSig(p) == Move(p, "s_test", IF notification_sig # -1 THEN "s_nb" ELSE "s_post")

(* Mistake: the readers are not looked at.                                 *)
TestReadersNever(p) == Move(p, "s_nb", "s_kill")

TestReaders(p) == Move(p, "s_nb", IF nb_blocked_readers >= 0 THEN "s_kill" ELSE "s_post")

(* kill(0, sig) signals the whole process group; kill(_, -1) fails.        *)
SendKill(p) ==
  /\ at(p, "s_kill")
  /\ signalled' = IF notification_sig = -1 THEN signalled
                  ELSE IF subscriber = NoPid THEN Procs
                  ELSE signalled \cup {subscriber}
  /\ goto(p, "s_unsub")
  /\ UNCHANGED <<calls, mqfd, prio, sem, store, attr, notif, history>>

SendUnlock(p) == Post(p, "s_post", "mutex_access", "s_postr")

(* Mistake: the wrong semaphore is posted.                                 *)
SendReturnSwapped(p) == Post(p, "s_postr", "mutex_write", "idle")

SendReturn(p) == Post(p, "s_postr", "mutex_read", "idle")

(***************************************************************************)
(* mq_receive                                                              *)
(***************************************************************************)
ReceiveCall(p) ==
  /\ mqfd[p] = 1
  /\ \E len \in Lens : len >= MAX_SIZ_MSG
  /\ Enter(p, Receivers, IF mq_flags = 1 THEN "r_try" ELSE "r_dec")
  /\ UNCHANGED <<mqfd, prio, sem, rest>>

ReceiveTryFails(p) == sem["mutex_read"] = 0 /\ Move(p, "r_try", "idle")
ReceiveTry(p) == Wait(p, "r_try", "mutex_read", "r_inc")

(* The sections under mutex_update_nb only update this counter: one step.  *)
(* (A handler that interrupts the wait for mutex_update_nb could lose an   *)
(* update: it is left out, the counter is checked without interruptions.)  *)
CountReaders(p, here, delta, next) ==
  /\ at(p, here)
  /\ nb_blocked_readers' = nb_blocked_readers + delta
  /\ goto(p, next)
  /\ UNCHANGED <<calls, mqfd, prio, sem, store, mq_flags, nb_blocked_writers, notif,
                 signalled, history>>

ReceiveDec(p) == CountReaders(p, "r_dec", -1, "r_wait")
ReceiveWait(p) == Wait(p, "r_wait", "mutex_read", "r_inc")

(* Mistake: the counter is not restored.                                   *)
ReceiveIncForgotten(p) == Move(p, "r_inc", "r_acc")

(* Executed in both modes, though only the blocking one decremented.       *)
ReceiveInc(p) == CountReaders(p, "r_inc", 1, "r_acc")

(* Mistake: the list is used without mutex_access.                         *)
ReceiveLockFree(p) == Move(p, "r_acc", "r_cs")

ReceiveLock(p) == Wait(p, "r_acc", "mutex_access", "r_cs")

ResetLength(slot) == used' = used \ {slot}

(* With shm->ind = -1 the head is read outside cl_mq: undefined, the model *)
(* stops there (NoOverrun).                                                *)
ReceiveTake(p) ==
  /\ at(p, "r_cs")
  /\ list # <<>>
  /\ list' = Tail(list)
  /\ ResetLength(Head(list))
  /\ received' = Append(received, queue[Head(list)])
  /\ nb_blocked_writers' = sem["mutex_write"]
  /\ goto(p, "r_post")
  /\ UNCHANGED <<calls, mqfd, prio, sem, queue, init, mq_flags, nb_blocked_readers,
                 notif, signalled, nsent>>

ReceiveUnlock(p) == Post(p, "r_post", "mutex_access", "r_postw")

(* Mistake: the place freed in the queue is not given back.                *)
ReceiveReturnNoPost(p) == Move(p, "r_postw", "idle")

ReceiveReturn(p) == Post(p, "r_postw", "mutex_write", "idle")

(***************************************************************************)
(* mq_notify: no lock, no check that another process is registered.        *)
(***************************************************************************)
NotifyNone(p) ==
  /\ mqfd[p] = 1
  /\ "SIGEV_NONE" \in Events
  /\ Enter(p, Subscribers, "idle")
  /\ subscriber' = p
  /\ UNCHANGED <<mqfd, prio, sem, store, attr, notification_sig, signalled, history>>

NotifySignal(p) ==
  /\ mqfd[p] = 1
  /\ "SIGEV_SIGNAL" \in Events
  /\ Enter(p, Subscribers, "n_pid")
  /\ notification_sig' = SIGUSR1
  /\ UNCHANGED <<mqfd, prio, sem, store, attr, subscriber, signalled, history>>

NotifyPid(p) ==
  /\ at(p, "n_pid")
  /\ subscriber' = p
  /\ goto(p, "idle")
  /\ UNCHANGED <<calls, mqfd, prio, sem, store, attr, notification_sig, signalled, history>>

NotifyNull(p) ==
  /\ mqfd[p] = 1
  /\ "NULL" \in Events
  /\ Enter(p, Subscribers, "n_unsub")
  /\ UNCHANGED <<mqfd, prio, sem, rest>>

(* mq_notify(fd, NULL), called by the application or by mq_send: without a *)
(* subscriber the NULL event is dereferenced.                              *)
Unsubscribe(p) ==
  /\ pc[p] \in {"n_unsub", "s_unsub"}
  /\ subscriber # NoPid
  /\ subscriber' = NoPid
  /\ goto(p, IF at(p, "s_unsub") THEN "s_clear" ELSE "n_clear")
  /\ UNCHANGED <<calls, mqfd, prio, sem, store, attr, notification_sig, signalled, history>>

NullEvent(p) ==
  /\ pc[p] \in {"n_unsub", "s_unsub"}
  /\ subscriber = NoPid
  /\ goto(p, IF at(p, "s_unsub") THEN "s_segv" ELSE "segv")
  /\ UNCHANGED <<calls, mqfd, prio, sem, rest>>

(* Mistake: the signal stays set after the subscriber is erased.           *)
ClearSigForgotten(p) == Move(p, "s_clear", "s_post")

ClearSig(p) ==
  /\ pc[p] \in {"n_clear", "s_clear"}
  /\ notification_sig' = -1
  /\ goto(p, IF at(p, "s_clear") THEN "s_post" ELSE "idle")
  /\ UNCHANGED <<calls, mqfd, prio, sem, store, attr, subscriber, signalled, history>>

(***************************************************************************)
(* mq_close, mq_setattr, and the calls the argument checks refuse          *)
(***************************************************************************)
Close(p) ==
  /\ mqfd[p] = 1
  /\ Enter(p, Closers, "idle")
  /\ init' = 0
  /\ mqfd' = [mqfd EXCEPT ![p] = 0]
  /\ UNCHANGED <<prio, sem, queue, used, list, attr, notif, signalled, history>>

SetAttr(p) ==
  /\ mqfd[p] = 1
  /\ Enter(p, Setters, "idle")
  /\ mq_flags' \in {0, 1}
  /\ UNCHANGED <<mqfd, prio, sem, store, nb_blocked_readers, nb_blocked_writers, notif,
                 signalled, history>>

Refused(p) ==
  /\ Enter(p, Procs, "idle")
  /\ \/ mqfd[p] # 1
     \/ p \in Senders /\ \E len \in Lens, x \in Prios : ~SendArgs(len, x)
     \/ p \in Receivers /\ \E len \in Lens : len < MAX_SIZ_MSG
     \/ p \in Subscribers /\ "SIGEV_THREAD" \in Events
  /\ UNCHANGED <<mqfd, prio, sem, rest>>

(***************************************************************************)
(* The handler of SIGUSR1 runs in p.  It is installed without SA_RESTART:  *)
(* a sem_wait that blocks returns EINTR, which the library does not test,  *)
(* so the caller goes on without having taken the semaphore.               *)
(***************************************************************************)
WaitPcs == {"s_wait", "s_acc", "r_wait", "r_acc"}

Sem == [l \in WaitPcs |-> IF l = "s_wait" THEN "mutex_write"
                         ELSE IF l = "r_wait" THEN "mutex_read" ELSE "mutex_access"]

AfterWait == [l \in WaitPcs |-> IF l = "s_wait" THEN "s_acc"
                               ELSE IF l = "r_wait" THEN "r_inc"
                               ELSE IF l = "s_acc" THEN "s_cs" ELSE "r_cs"]

Blocked(p) == pc[p] \in WaitPcs /\ sem[Sem[pc[p]]] = 0

Deliver(p) ==
  /\ p \in signalled \cap Interruptible
  /\ pc[p] \notin {"segv", "s_segv"}
  /\ signalled' = signalled \ {p}
  /\ goto(p, IF Blocked(p) THEN AfterWait[pc[p]] ELSE pc[p])
  /\ UNCHANGED <<calls, mqfd, prio, sem, store, attr, notif, history>>

Send(p) ==
  \/ SendCall(p) \/ SendTryFails(p) \/ SendTry(p) \/ SendWait(p) \/ SendLock(p)
  \/ SendInsert(p) \/ TestSig(p) \/ TestReaders(p) \/ SendKill(p)
  \/ SendUnlock(p) \/ SendReturn(p)

Receive(p) ==
  \/ ReceiveCall(p) \/ ReceiveTryFails(p) \/ ReceiveTry(p)
  \/ ReceiveDec(p) \/ ReceiveWait(p) \/ ReceiveInc(p) \/ ReceiveLock(p)
  \/ ReceiveTake(p) \/ ReceiveUnlock(p) \/ ReceiveReturn(p)

Notify(p) ==
  \/ NotifyNone(p) \/ NotifySignal(p) \/ NotifyPid(p) \/ NotifyNull(p)
  \/ Unsubscribe(p) \/ NullEvent(p) \/ ClearSig(p)

Step(p) == Send(p) \/ Receive(p) \/ Notify(p) \/ Close(p) \/ SetAttr(p) \/ Refused(p)

Next == \E p \in Procs : Step(p) \/ Deliver(p)

Spec == Init /\ [][Next]_vars

-----------------------------------------------------------------------------
(***************************************************************************)
(* Properties                                                              *)
(***************************************************************************)
TypeOK ==
  /\ pc \in [Procs -> SendPcs \cup RecvPcs \cup OtherPcs]
  /\ calls \in [Procs -> Nat]
  /\ mqfd \in [Procs -> {0, 1}]
  /\ prio \in [Procs -> Int]
  /\ sem \in [SemNames -> Nat]
  /\ queue \in [Slots -> Message]
  /\ used \subseteq Slots
  /\ list \in Seq(Slots)
  /\ init \in {0, 1}
  /\ mq_flags \in {0, 1}
  /\ nb_blocked_readers \in Int
  /\ nb_blocked_writers \in Nat
  /\ subscriber \in Procs \cup {NoPid}
  /\ notification_sig \in {-1, SIGUSR1}
  /\ signalled \subseteq Procs
  /\ nsent \in Nat
  /\ received \in Seq(Message)

Standing(ls) == {p \in Procs : pc[p] \in ls}

(* Where a process is between lines 199 and 310, or 359 and 376.           *)
CSPcs == {"s_cs", "s_test", "s_nb", "s_kill", "s_unsub", "s_clear", "s_segv",
          "s_post", "r_cs", "r_post"}

(* Where it has taken mutex_write and not yet inserted its message, taken  *)
(* a message and not yet posted mutex_write, and the same for mutex_read.  *)
HoldWritePcs == {"s_acc", "s_cs"}
RemovedPcs == {"r_post", "r_postw"}
HoldReadPcs == {"r_inc", "r_acc", "r_cs"}
InsertedPcs == {"s_test", "s_nb", "s_kill", "s_unsub", "s_clear", "s_segv", "s_post",
                "s_postr"}

InCS == Standing(CSPcs)
HoldWrite == Standing(HoldWritePcs)
Removed == Standing(RemovedPcs)
HoldRead == Standing(HoldReadPcs)
Inserted == Standing(InsertedPcs)

(* mutex_access is a lock: at every moment it is free or exactly one       *)
(* process works on the list.                                              *)
AccessToken == sem["mutex_access"] + Cardinality(InCS) = 1

(* Every unit of capacity is in mutex_write, in the hands of a sender, in  *)
(* a queued message or in the hands of a receiver.                         *)
WriteTokens ==
  sem["mutex_write"] + Cardinality(HoldWrite) + Len(list) + Cardinality(Removed) = MAX_MSG

(* Every queued message is announced by mutex_read, about to be announced, *)
(* or promised to one receiver.                                            *)
ReadTokens ==
  sem["mutex_read"] + Cardinality(HoldRead) + Cardinality(Inserted) = Len(list)

Tokens == AccessToken /\ WriteTokens /\ ReadTokens

(* Two processes never work on the list together (the lock mutex_access of *)
(* lines 199-310 and 359-376).                                             *)
MutualExclusion == \A p, q \in InCS : p = q

(* A slot in use is always reachable from shm->ind, even when a mq_close   *)
(* made the next mq_send reset all the lengths.                            *)
UsedInList == init = 1 => used \subseteq ToSet(list)

(* A process holding its tokens finds what they promise: mq_send a slot of *)
(* length -1 (line 215), mq_receive a message at shm->ind (line 365).      *)
NoOverrun ==
  \A p \in Procs :
    /\ pc[p] = "s_cs" => ~(Slots \subseteq Live)
    /\ pc[p] = "r_cs" => list # <<>>

(* The chain from shm->ind never goes up in priority (the walk and the     *)
(* four branches of lines 231-289), whoever inserts and removes meanwhile. *)
ListSorted ==
  \A i, j \in 1 .. Len(list) : i < j => queue[list[i]].prio >= queue[list[j]].prio

(* tme10-11.html, line 36: messages are inserted in FIFO order within a    *)
(* priority.  The walk of line 237 stops at an equal instead.              *)
FifoAmongEquals ==
  \A i, j \in 1 .. Len(list) :
    i < j /\ queue[list[i]].prio = queue[list[j]].prio
      => queue[list[i]].seq < queue[list[j]].seq

Queued == {queue[list[i]] : i \in 1 .. Len(list)}

(* Every message inserted so far is in the queue or was received, once.    *)
NothingLost ==
  /\ {m.seq : m \in Queued \cup ToSet(received)} = 1 .. nsent
  /\ Len(list) + Len(received) = nsent

(* The queue implements PrioQueue: lines 220-289 are its Send, lines       *)
(* 363-373 its Receive, everything else leaves it as it is.                *)
Abstract == INSTANCE PrioQueue WITH pending <- Queued
PrioQueueSpec == Abstract!Spec

(* In blocking mode nb_blocked_readers is minus the number of receivers    *)
(* between lines 350 and 355.  (In the other mode it only grows.)          *)
BlockedReaders ==
  mq_flags = 0 => nb_blocked_readers = -Cardinality(Standing({"r_wait", "r_inc"}))

(* TME10-11/README lines 68-70: a process waiting to read from the empty   *)
(* queue gets the message, and the registration is left alone: the test of *)
(* line 295 never leads to kill while a receiver sleeps on mutex_read.     *)
ReaderFirst ==
  [][\A p \in Procs : at(p, "s_nb") /\ pc'[p] = "s_kill"
       => \A r \in Procs : ~(at(r, "r_wait") /\ sem["mutex_read"] = 0)]_vars

(* The registration made before the forks is used once: no second sender   *)
(* comes to kill after the subscriber was signalled, since lines 298-300   *)
(* unsubscribe it before mutex_access is released.                         *)
NotifiedOnce == \A p \in Procs : at(p, "s_kill") => signalled = {}

(* mq_send never reads through the NULL event it gives to mq_notify        *)
(* (lines 300 and 397).                                                    *)
NoCrash == \A p \in Procs : pc[p] # "s_segv"
=============================================================================
