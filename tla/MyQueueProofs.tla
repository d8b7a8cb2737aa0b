--------------------------- MODULE MyQueueProofs ---------------------------
(***************************************************************************)
(* For any number of processes, any capacity and any calls they make: type *)
(* correctness of MyQueue; when no process that sends or receives runs a   *)
(* signal handler in the library, the accounting of the three semaphores   *)
(* and what follows from it; then the notification of mq_send: the counter *)
(* of sleeping receivers that decides whether to notify (lines 292-303),   *)
(* and the single use of a registration made before the forks.             *)
(***************************************************************************)
EXTENDS MyQueue, FiniteSetTheorems, SequenceTheorems, TLAPS

(* The processes that wait on a semaphore mask SIGUSR1, as test2 does.     *)
NoInterrupts == Interruptible \cap (Senders \cup Receivers) = {}

(* Nobody calls mq_setattr: the mode is the one mq_open chose.             *)
NoSetter == Setters = {}

(* No mq_notify succeeds after the forks.                                  *)
NoLateNotify == Events \subseteq {"SIGEV_THREAD"}

-----------------------------------------------------------------------------
(* Each action of the next-state relation, one process at a time.          *)

(* The queue is typed in every reachable state, whatever is interrupted.   *)
LEMMA TypeInit == Init => TypeOK
  BY ProcsAssumption, RegisteredAssumption, MaxMsgAssumption, ArgsAssumption
  DEF Init, TypeOK, SemNames, SendPcs, RecvPcs, OtherPcs, Message, Slots, SIGUSR1

(* Every step of mq_send keeps the types.                                  *)
LEMMA SendTypes ==
  ASSUME TypeOK, NEW p \in Procs, Send(p)
  PROVE  TypeOK'
<1> USE MaxMsgAssumption, ArgsAssumption
    DEF TypeOK, SemNames, SendPcs, RecvPcs, OtherPcs, rest, store, attr, notif, history,
        goto, at, Move, Wait, Post, sem_wait, sem_post, Enter
<1>1. CASE SendCall(p)
  BY <1>1 DEF SendCall
<1>2. CASE SendTryFails(p)
  BY <1>2 DEF SendTryFails
<1>3. CASE SendTry(p)
  BY <1>3 DEF SendTry
<1>11. CASE SendWait(p)
  BY <1>11 DEF SendWait
<1>4. CASE SendLock(p)
  BY <1>4 DEF SendLock
<1>5. CASE SendInsert(p)
  <2>1. PICK slot \in Slots, k \in 1 .. Len(list) + 1 :
          /\ queue' = [queue EXCEPT ![slot] = [seq |-> nsent + 1, prio |-> prio[p]]]
          /\ list' = InsertAt(list, k, slot)
          /\ used' = Live \cup {slot}
    BY <1>5 DEF SendInsert
  <2>2. list' \in Seq(Slots)
    BY <2>1 DEF InsertAt
  <2>3. queue' \in [Slots -> Message] /\ used' \subseteq Slots
    BY <2>1 DEF Live, Message
  <2> QED
    BY <1>5, <2>2, <2>3 DEF SendInsert
<1>7. CASE TestSig(p) \/ TestReaders(p)
  BY <1>7 DEF TestSig, TestReaders
<1>8. CASE SendKill(p)
  BY <1>8 DEF SendKill
<1>9. CASE SendUnlock(p)
  BY <1>9 DEF SendUnlock
<1>10. CASE SendReturn(p)
  BY <1>10 DEF SendReturn
<1> QED
  BY <1>1, <1>2, <1>3, <1>4, <1>5, <1>7, <1>8, <1>9, <1>10, <1>11 DEF Send

(* Every step of mq_receive keeps the types.                               *)
LEMMA ReceiveTypes ==
  ASSUME TypeOK, NEW p \in Procs, Receive(p)
  PROVE  TypeOK'
<1> USE DEF TypeOK, SemNames, SendPcs, RecvPcs, OtherPcs, rest, store, attr, notif,
            history, goto, at, Move, Wait, Post, sem_wait, sem_post, Enter
<1>1. CASE ReceiveCall(p)
  BY <1>1 DEF ReceiveCall
<1>2. CASE ReceiveTryFails(p)
  BY <1>2 DEF ReceiveTryFails
<1>3. CASE ReceiveTry(p)
  BY <1>3 DEF ReceiveTry
<1>10. CASE ReceiveWait(p)
  BY <1>10 DEF ReceiveWait
<1>4. CASE ReceiveDec(p)
  BY <1>4 DEF ReceiveDec, CountReaders
<1>11. CASE ReceiveInc(p)
  BY <1>11 DEF ReceiveInc, CountReaders
<1>5. CASE ReceiveLock(p)
  BY <1>5 DEF ReceiveLock
<1>6. CASE ReceiveTake(p)
  <2>0. list # <<>> /\ received' = Append(received, queue[Head(list)])
    BY <1>6 DEF ReceiveTake
  <2>1. Head(list) \in Slots /\ Tail(list) \in Seq(Slots)
    BY <2>0
  <2>2. received' \in Seq(Message)
    BY <2>0, <2>1
  <2>3. used' \subseteq Slots
    BY <1>6 DEF ReceiveTake, ResetLength
  <2> QED
    BY <1>6, <2>1, <2>2, <2>3 DEF ReceiveTake
<1>8. CASE ReceiveUnlock(p)
  BY <1>8 DEF ReceiveUnlock
<1>9. CASE ReceiveReturn(p)
  BY <1>9 DEF ReceiveReturn
<1> QED
  BY <1>1, <1>2, <1>3, <1>4, <1>5, <1>6, <1>8, <1>9, <1>10, <1>11 DEF Receive

(* Every step of mq_notify, mq_close, mq_setattr, of a refused call and of *)
(* the signal handler keeps the types.                                     *)
LEMMA OtherTypes ==
  ASSUME TypeOK, NEW p \in Procs,
         Notify(p) \/ Close(p) \/ SetAttr(p) \/ Refused(p) \/ Deliver(p)
  PROVE  TypeOK'
<1> USE DEF TypeOK, SemNames, SendPcs, RecvPcs, OtherPcs, rest, store, attr, notif,
            history, goto, at, Enter, SIGUSR1
<1>1. CASE NotifyNone(p)
  BY <1>1 DEF NotifyNone
<1>2. CASE NotifySignal(p)
  BY <1>2 DEF NotifySignal
<1>3. CASE NotifyPid(p)
  BY <1>3 DEF NotifyPid
<1>4. CASE NotifyNull(p)
  BY <1>4 DEF NotifyNull
<1>5. CASE Unsubscribe(p)
  BY <1>5 DEF Unsubscribe
<1>6. CASE NullEvent(p)
  BY <1>6 DEF NullEvent
<1>7. CASE ClearSig(p)
  BY <1>7 DEF ClearSig
<1>8. CASE Close(p)
  BY <1>8 DEF Close
<1>9. CASE SetAttr(p)
  BY <1>9 DEF SetAttr
<1>10. CASE Refused(p)
  BY <1>10 DEF Refused
<1>11. CASE Deliver(p)
  <2>1. Blocked(p) => AfterWait[pc[p]] \in {"s_acc", "s_cs", "r_inc", "r_cs"}
    BY DEF Blocked, AfterWait, WaitPcs
  <2>2. pc' \in [Procs -> SendPcs \cup RecvPcs \cup OtherPcs]
    BY <1>11, <2>1 DEF Deliver
  <2> QED
    BY <1>11, <2>2 DEF Deliver
<1> QED
  BY <1>1, <1>2, <1>3, <1>4, <1>5, <1>6, <1>7, <1>8, <1>9, <1>10, <1>11 DEF Notify

(* So does a step that changes nothing.                                    *)
LEMMA StutterTypes == TypeOK /\ UNCHANGED vars => TypeOK'
  BY DEF TypeOK, vars, rest, store, attr, notif, history

(* Type correctness: pc, semaphores, slots and history stay in their       *)
(* ranges for any processes and capacity, with or without interruptions.   *)
THEOREM TypeCorrect == Spec => []TypeOK
<1>1. TypeOK /\ [Next]_vars => TypeOK'
  BY SendTypes, ReceiveTypes, OtherTypes, StutterTypes DEF Next, Step
<1> QED
  BY TypeInit, <1>1, PTL DEF Spec

-----------------------------------------------------------------------------
(* Counting the processes that stand somewhere, before and after a move.   *)
Gain(e, l, S) == IF e \in S <=> l \in S THEN 0 ELSE IF l \in S THEN 1 ELSE -1

(* When one process moves from a place to another, the number of those     *)
(* that stand in a set of places grows by Gain.                            *)
LEMMA CountMove ==
  ASSUME TypeOK, NEW p \in Procs, NEW l, goto(p, l), NEW S
  PROVE  /\ Cardinality(Standing(S)) \in Nat
         /\ Cardinality(Standing(S))'
              = Cardinality(Standing(S)) + Gain(pc[p], l, S)
         /\ Gain(pc[p], l, S) \in Int
<1> DEFINE F == {q \in Procs : pc[q] \in S}
           G == {q \in Procs : pc'[q] \in S}
<1>1. IsFiniteSet(F) /\ Cardinality(F) \in Nat
  BY ProcsAssumption, FS_Subset, FS_CardinalityType
<1>2. Standing(S) = F /\ Standing(S)' = G
  BY DEF Standing
<1>0. pc'[p] = l /\ \A q \in Procs : q # p => pc'[q] = pc[q]
  BY DEF TypeOK, goto
<1>3. (pc[p] \in S <=> l \in S) => G = F
  BY <1>0
<1>4. pc[p] \notin S /\ l \in S => G = F \cup {p} /\ p \notin F
  BY <1>0
<1>5. pc[p] \in S /\ l \notin S => G = F \ {p} /\ p \in F
  BY <1>0
<1> HIDE DEF F, G
<1>6. Cardinality(G) = Cardinality(F) + Gain(pc[p], l, S)
  <2>1. CASE pc[p] \in S <=> l \in S
    BY <1>1, <1>3, <2>1 DEF Gain
  <2>2. CASE pc[p] \notin S /\ l \in S
    <3>1. Cardinality(F \cup {p}) = Cardinality(F) + 1
      BY <1>1, <1>4, <2>2, FS_AddElement
    <3>2. Cardinality(G) = Cardinality(F \cup {p})
      BY <1>4, <2>2
    <3> QED
      BY <1>1, <2>2, <3>1, <3>2 DEF Gain
  <2>3. CASE pc[p] \in S /\ l \notin S
    <3>1. Cardinality(F \ {p}) = Cardinality(F) - 1
      BY <1>1, <1>5, <2>3, FS_RemoveElement
    <3>2. Cardinality(G) = Cardinality(F \ {p})
      BY <1>5, <2>3
    <3> QED
      BY <1>1, <2>3, <3>1, <3>2 DEF Gain
  <2> QED
    BY <2>1, <2>2, <2>3
<1>7. Gain(pc[p], l, S) \in Int
  BY DEF Gain
<1> QED
  BY <1>1, <1>2, <1>6, <1>7

(* A process that moves to l keeps the three balances if the semaphores    *)
(* and the length of the list make up for what it holds before and after.  *)
Balanced(p, l) ==
  /\ sem'["mutex_access"] + Gain(pc[p], l, CSPcs) = sem["mutex_access"]
  /\ sem'["mutex_write"] + Len(list)' + Gain(pc[p], l, HoldWritePcs)
       + Gain(pc[p], l, RemovedPcs) = sem["mutex_write"] + Len(list)
  /\ sem'["mutex_read"] + Len(list) + Gain(pc[p], l, HoldReadPcs)
       + Gain(pc[p], l, InsertedPcs) = sem["mutex_read"] + Len(list)'

(* A move that pays for the tokens it takes keeps the accounting exact.    *)
LEMMA Balance ==
  ASSUME TypeOK, TypeOK', Tokens, NEW p \in Procs, NEW l, goto(p, l), Balanced(p, l)
  PROVE  Tokens'
<1>2. \A S : /\ Cardinality(Standing(S)) \in Nat
             /\ Cardinality(Standing(S))'
                  = Cardinality(Standing(S)) + Gain(pc[p], l, S)
             /\ Gain(pc[p], l, S) \in Int
  BY CountMove
<1>3. \A s \in SemNames : sem[s] \in Nat /\ sem'[s] \in Nat
  BY DEF TypeOK
<1>4. Len(list) \in Nat /\ Len(list)' \in Nat
  <2>1. list \in Seq(Slots) /\ list' \in Seq(Slots)
    BY DEF TypeOK
  <2> QED
    BY <2>1, LenProperties
<1>5. AccessToken'
  <2>1. /\ Cardinality(InCS) \in Nat
        /\ Cardinality(InCS)' = Cardinality(InCS) + Gain(pc[p], l, CSPcs)
        /\ Gain(pc[p], l, CSPcs) \in Int
    BY <1>2 DEF InCS
  <2>2. sem["mutex_access"] \in Nat /\ sem'["mutex_access"] \in Nat
    BY <1>3 DEF SemNames
  <2> QED
    BY <2>1, <2>2 DEF Balanced, Tokens, AccessToken
<1>6. WriteTokens'
  <2>1. PICK d \in Int : d = Gain(pc[p], l, HoldWritePcs)
    BY DEF Gain
  <2>2. PICK e \in Int : e = Gain(pc[p], l, RemovedPcs)
    BY DEF Gain
  <2>3. PICK m \in Nat, m2 \in Nat : m = sem["mutex_write"] /\ m2 = sem'["mutex_write"]
    BY <1>3 DEF SemNames
  <2>4. PICK n \in Nat, n2 \in Nat : n = Len(list) /\ n2 = Len(list)'
    BY <1>4
  <2>5. Cardinality(HoldWrite) \in Nat /\ Cardinality(HoldWrite)' = Cardinality(HoldWrite) + d
    BY <1>2, <2>1 DEF HoldWrite
  <2>6. Cardinality(Removed) \in Nat /\ Cardinality(Removed)' = Cardinality(Removed) + e
    BY <1>2, <2>2 DEF Removed
  <2>7. m2 + n2 + d + e = m + n
    BY <2>1, <2>2, <2>3, <2>4 DEF Balanced
  <2>8. m + Cardinality(HoldWrite) + n + Cardinality(Removed) = MAX_MSG
    BY <2>3, <2>4 DEF Tokens, WriteTokens
  <2>9. m2 + Cardinality(HoldWrite)' + n2 + Cardinality(Removed)' = MAX_MSG
    BY <2>5, <2>6, <2>7, <2>8, MaxMsgAssumption
  <2> QED
    BY <2>3, <2>4, <2>9 DEF WriteTokens
<1>7. ReadTokens'
  <2>1. PICK d \in Int : d = Gain(pc[p], l, HoldReadPcs)
    BY DEF Gain
  <2>2. PICK e \in Int : e = Gain(pc[p], l, InsertedPcs)
    BY DEF Gain
  <2>3. PICK m \in Nat, m2 \in Nat : m = sem["mutex_read"] /\ m2 = sem'["mutex_read"]
    BY <1>3 DEF SemNames
  <2>4. PICK n \in Nat, n2 \in Nat : n = Len(list) /\ n2 = Len(list)'
    BY <1>4
  <2>5. Cardinality(HoldRead) \in Nat /\ Cardinality(HoldRead)' = Cardinality(HoldRead) + d
    BY <1>2, <2>1 DEF HoldRead
  <2>6. Cardinality(Inserted) \in Nat /\ Cardinality(Inserted)' = Cardinality(Inserted) + e
    BY <1>2, <2>2 DEF Inserted
  <2>7. m2 + n + d + e = m + n2
    BY <2>1, <2>2, <2>3, <2>4 DEF Balanced
  <2>8. m + Cardinality(HoldRead) + Cardinality(Inserted) = n
    BY <2>3, <2>4 DEF Tokens, ReadTokens
  <2>9. m2 + (Cardinality(HoldRead) + d) + (Cardinality(Inserted) + e) = n2
    BY <2>5, <2>6, <2>7, <2>8
  <2>10. m2 + Cardinality(HoldRead)' + Cardinality(Inserted)' = n2
    BY <2>5, <2>6, <2>9
  <2> QED
    BY <2>3, <2>4, <2>10 DEF ReadTokens
<1> QED
  BY <1>5, <1>6, <1>7 DEF Tokens

-----------------------------------------------------------------------------
(* The inductive invariant: the processes inside the two calls are those   *)
(* that may make them, the three balances hold and every slot in use is    *)
(* chained.                                                                *)
Roles == \A p \in Procs : pc[p] \in SendPcs \cup RecvPcs => p \in Senders \cup Receivers

IInv == TypeOK /\ Roles /\ Tokens /\ UsedInList

(* SequencesExt!InsertAt adds one element at position k, keeps those before *)
(* it and moves the others one position on.                                *)
LEMMA InsertAtProperties ==
  ASSUME NEW S, NEW q \in Seq(S), NEW e \in S, NEW k \in 1 .. Len(q) + 1
  PROVE  /\ InsertAt(q, k, e) \in Seq(S)
         /\ Len(InsertAt(q, k, e)) = Len(q) + 1
         /\ ToSet(q) \cup {e} \subseteq ToSet(InsertAt(q, k, e))
         /\ \A i \in 1 .. Len(q) + 1 : InsertAt(q, k, e)[i] =
              IF i < k THEN q[i] ELSE IF i = k THEN e ELSE q[i - 1]
<1> DEFINE u == SubSeq(q, 1, k - 1)
           v == SubSeq(q, k, Len(q))
           ue == u \o <<e>>
           r == ue \o v
<1>1. k \in Int /\ 1 <= k /\ k <= Len(q) + 1 /\ Len(q) \in Nat
  BY LenProperties
<1>2. \A i \in 1 .. Len(q) : q[i] \in S
  OBVIOUS
<1>3. u \in Seq(S) /\ Len(u) = k - 1 /\ \A i \in 1 .. k - 1 : u[i] = q[i]
  <2>1. \A i \in 1 .. k - 1 : q[i] \in S
    BY <1>1, <1>2
  <2>2. Len(u) = IF 1 <= k - 1 THEN k - 1 - 1 + 1 ELSE 0
    BY <1>1, <2>1, SubSeqProperties
  <2>3. \A i \in 1 .. k - 1 - 1 + 1 : u[i] = q[1 + i - 1]
    BY <1>1, <2>1, SubSeqProperties
  <2> QED
    BY <1>1, <2>1, <2>2, <2>3, SubSeqProperties
<1>4. /\ v \in Seq(S)
      /\ Len(v) = Len(q) - k + 1
      /\ \A i \in 1 .. Len(q) - k + 1 : v[i] = q[k + i - 1]
  <2>1. \A i \in k .. Len(q) : q[i] \in S
    BY <1>1, <1>2
  <2>2. Len(v) = IF k <= Len(q) THEN Len(q) - k + 1 ELSE 0
    BY <1>1, <2>1, SubSeqProperties
  <2> QED
    BY <1>1, <2>1, <2>2, SubSeqProperties
<1>5. <<e>> \in Seq(S) /\ Len(<<e>>) = 1 /\ <<e>>[1] = e
  OBVIOUS
<1> HIDE DEF u, v
<1>6. /\ ue \in Seq(S)
      /\ Len(ue) = k
      /\ \A i \in 1 .. k : ue[i] = IF i <= k - 1 THEN u[i] ELSE <<e>>[i - (k - 1)]
  BY <1>1, <1>3, <1>5, ConcatProperties
<1>7. ue[k] = e /\ \A i \in 1 .. k - 1 : ue[i] = q[i]
  BY <1>1, <1>3, <1>5, <1>6
<1> HIDE DEF ue
<1>8. /\ r \in Seq(S)
      /\ Len(r) = Len(q) + 1
      /\ \A i \in 1 .. Len(q) + 1 : r[i] = IF i <= k THEN ue[i] ELSE v[i - k]
  <2>1. /\ r \in Seq(S)
        /\ Len(r) = k + (Len(q) - k + 1)
        /\ \A i \in 1 .. k + (Len(q) - k + 1) : r[i] = IF i <= k THEN ue[i] ELSE v[i - k]
    BY <1>1, <1>4, <1>6, ConcatProperties
  <2>2. k + (Len(q) - k + 1) = Len(q) + 1
    BY <1>1
  <2> QED
    BY <2>1, <2>2
<1> HIDE DEF r
<1>9. ToSet(q) \cup {e} \subseteq ToSet(r)
  <2>1. r[k] = e /\ k \in DOMAIN r
    BY <1>1, <1>7, <1>8
  <2>2. ASSUME NEW i \in 1 .. Len(q)
        PROVE  q[i] \in ToSet(r)
    <3>1. CASE i < k
      <4>1. r[i] = q[i] /\ i \in DOMAIN r
        BY <1>1, <1>7, <1>8, <3>1
      <4> QED
        BY <4>1 DEF ToSet
    <3>2. CASE i >= k
      <4>1. i + 1 \in 1 .. Len(q) + 1 /\ ~(i + 1 <= k) /\ i + 1 - k \in 1 .. Len(q) - k + 1
        BY <1>1, <3>2
      <4>2. v[i + 1 - k] = q[k + (i + 1 - k) - 1]
        BY <1>4, <4>1
      <4>3. k + (i + 1 - k) - 1 = i
        BY <1>1
      <4>4. r[i + 1] = q[i] /\ i + 1 \in DOMAIN r
        BY <1>8, <4>1, <4>2, <4>3
      <4> QED
        BY <4>4 DEF ToSet
    <3> QED
      BY <1>1, <3>1, <3>2
  <2> QED
    BY <2>1, <2>2 DEF ToSet
<1>10. InsertAt(q, k, e) = r
  BY DEF InsertAt, r, ue, u, v
<1>11. ASSUME NEW i \in 1 .. Len(q) + 1
       PROVE  r[i] = IF i < k THEN q[i] ELSE IF i = k THEN e ELSE q[i - 1]
  <2>1. i <= k => r[i] = ue[i]
    BY <1>8
  <2>2. CASE i > k
    <3>1. i - k \in 1 .. Len(q) - k + 1 /\ k + (i - k) - 1 = i - 1
      BY <1>1, <2>2
    <3>2. v[i - k] = q[k + (i - k) - 1]
      BY <1>4, <3>1
    <3>3. r[i] = v[i - k]
      BY <1>1, <1>8, <2>2
    <3> QED
      BY <1>1, <2>2, <3>1, <3>2, <3>3
  <2> QED
    BY <1>1, <1>7, <2>1, <2>2
<1> QED
  BY <1>8, <1>9, <1>10, <1>11

(* A chain of n cells reaches at most n slots.                             *)
LEMMA ToSetCardinality ==
  ASSUME NEW S, NEW q \in Seq(S)
  PROVE  IsFiniteSet(ToSet(q)) /\ Cardinality(ToSet(q)) <= Len(q)
<1>1. Len(q) \in Nat /\ DOMAIN q = 1 .. Len(q) /\ q \in [1 .. Len(q) -> S]
  BY LenProperties
<1>2. q \in [1 .. Len(q) -> ToSet(q)]
  BY <1>1 DEF ToSet
<1>3. q \in Surjection(1 .. Len(q), ToSet(q))
  BY <1>1, <1>2 DEF Surjection, ToSet
<1>4. IsFiniteSet(1 .. Len(q)) /\ Cardinality(1 .. Len(q)) = Len(q)
  BY <1>1, FS_Interval
<1> QED
  BY <1>3, <1>4, FS_Surjection

(* The tail of a chain still holds every slot but the head.                *)
LEMMA ToSetTail ==
  ASSUME NEW S, NEW q \in Seq(S), q # <<>>
  PROVE  ToSet(q) \ {Head(q)} \subseteq ToSet(Tail(q))
<1>1. Len(q) \in Nat /\ DOMAIN q = 1 .. Len(q) /\ Len(q) >= 1
  BY LenProperties, EmptySeq
<1>2. /\ Head(q) = q[1]
      /\ DOMAIN Tail(q) = 1 .. Len(q) - 1
      /\ \A i \in 1 .. Len(q) - 1 : Tail(q)[i] = q[i + 1]
  BY <1>1
<1>3. ASSUME NEW i \in 1 .. Len(q), q[i] # Head(q)
      PROVE  q[i] \in ToSet(Tail(q))
  <2>1. i - 1 \in 1 .. Len(q) - 1 /\ (i - 1) + 1 = i
    BY <1>1, <1>2, <1>3
  <2>2. Tail(q)[i - 1] = q[i] /\ i - 1 \in DOMAIN Tail(q)
    BY <1>2, <2>1
  <2> QED
    BY <2>2 DEF ToSet
<1> QED
  BY <1>1, <1>3 DEF ToSet

(* Each action of mq_send, then of mq_receive, then the others: what it    *)
(* does to pc, the semaphores and the list balances.                       *)
LEMMA SendTokens ==
  ASSUME TypeOK, TypeOK', Tokens, NEW p \in Procs, Send(p)
  PROVE  Tokens'
<1>t. /\ sem \in [SemNames -> Nat] /\ Len(list) \in Nat
      /\ pc \in [Procs -> SendPcs \cup RecvPcs \cup OtherPcs]
  BY LenProperties DEF TypeOK
<1> USE <1>t DEF rest, store, attr, notif, history, at, Move, Wait, Post, sem_wait, sem_post,
        Enter, SemNames, Gain, CSPcs, HoldWritePcs, RemovedPcs, HoldReadPcs, InsertedPcs
<1>1. CASE SendCall(p)
  <2>1. PICK l \in {"s_try", "s_wait"} : goto(p, l)
    BY <1>1 DEF SendCall
  <2>2. pc[p] = "idle" /\ list' = list /\ sem' = sem
    BY <1>1 DEF SendCall
  <2>3. Balanced(p, l)
    BY <2>1, <2>2 DEF Balanced
  <2> QED
    BY <2>1, <2>3, Balance
<1>2. CASE SendTryFails(p)
  <2>1. pc[p] = "s_try" /\ goto(p, "idle") /\ list' = list /\ sem' = sem
    BY <1>2 DEF SendTryFails
  <2>2. Balanced(p, "idle")
    BY <2>1 DEF Balanced
  <2> QED
    BY <2>1, <2>2, Balance
<1>3. CASE SendTry(p)
  <2>1. pc[p] = "s_try" /\ goto(p, "s_acc") /\ list' = list /\ sem' = [sem EXCEPT !["mutex_write"] = @ - 1]
    BY <1>3 DEF SendTry
  <2>2. Balanced(p, "s_acc")
    BY <2>1 DEF Balanced
  <2> QED
    BY <2>1, <2>2, Balance
<1>4. CASE SendWait(p)
  <2>1. pc[p] = "s_wait" /\ goto(p, "s_acc") /\ list' = list /\ sem' = [sem EXCEPT !["mutex_write"] = @ - 1]
    BY <1>4 DEF SendWait
  <2>2. Balanced(p, "s_acc")
    BY <2>1 DEF Balanced
  <2> QED
    BY <2>1, <2>2, Balance
<1>5. CASE SendLock(p)
  <2>1. pc[p] = "s_acc" /\ goto(p, "s_cs") /\ list' = list /\ sem' = [sem EXCEPT !["mutex_access"] = @ - 1]
    BY <1>5 DEF SendLock
  <2>2. Balanced(p, "s_cs")
    BY <2>1 DEF Balanced
  <2> QED
    BY <2>1, <2>2, Balance
<1>6. CASE TestSig(p)
  <2>1. PICK l \in {"s_nb", "s_post"} : goto(p, l)
    BY <1>6 DEF TestSig
  <2>2. pc[p] = "s_test" /\ list' = list /\ sem' = sem
    BY <1>6 DEF TestSig
  <2>3. Balanced(p, l)
    BY <2>1, <2>2 DEF Balanced
  <2> QED
    BY <2>1, <2>3, Balance
<1>7. CASE TestReaders(p)
  <2>1. PICK l \in {"s_kill", "s_post"} : goto(p, l)
    BY <1>7 DEF TestReaders
  <2>2. pc[p] = "s_nb" /\ list' = list /\ sem' = sem
    BY <1>7 DEF TestReaders
  <2>3. Balanced(p, l)
    BY <2>1, <2>2 DEF Balanced
  <2> QED
    BY <2>1, <2>3, Balance
<1>8. CASE SendKill(p)
  <2>1. pc[p] = "s_kill" /\ goto(p, "s_unsub") /\ list' = list /\ sem' = sem
    BY <1>8 DEF SendKill
  <2>2. Balanced(p, "s_unsub")
    BY <2>1 DEF Balanced
  <2> QED
    BY <2>1, <2>2, Balance
<1>9. CASE SendUnlock(p)
  <2>1. pc[p] = "s_post" /\ goto(p, "s_postr") /\ list' = list /\ sem' = [sem EXCEPT !["mutex_access"] = @ + 1]
    BY <1>9 DEF SendUnlock
  <2>2. Balanced(p, "s_postr")
    BY <2>1 DEF Balanced
  <2> QED
    BY <2>1, <2>2, Balance
<1>10. CASE SendReturn(p)
  <2>1. pc[p] = "s_postr" /\ goto(p, "idle") /\ list' = list /\ sem' = [sem EXCEPT !["mutex_read"] = @ + 1]
    BY <1>10 DEF SendReturn
  <2>2. Balanced(p, "idle")
    BY <2>1 DEF Balanced
  <2> QED
    BY <2>1, <2>2, Balance
<1>11. CASE SendInsert(p)
  <2>1. PICK l \in {"s_test", "s_post"} : goto(p, l)
    BY <1>11 DEF SendInsert
  <2>2. PICK slot \in Slots, k \in 1 .. Len(list) + 1 : list' = InsertAt(list, k, slot)
    BY <1>11 DEF SendInsert
  <2>3. Len(list)' = Len(list) + 1
    BY <2>2, InsertAtProperties DEF TypeOK
  <2>4. pc[p] = "s_cs" /\ sem' = sem
    BY <1>11 DEF SendInsert
  <2>5. Balanced(p, l)
    BY <2>1, <2>3, <2>4 DEF Balanced
  <2> QED
    BY <2>1, <2>5, Balance
<1> QED
  BY <1>1, <1>2, <1>3, <1>4, <1>5, <1>6, <1>7, <1>8, <1>9, <1>10, <1>11 DEF Send

(* The steps of mq_receive balance.                                        *)
LEMMA ReceiveTokens ==
  ASSUME TypeOK, TypeOK', Tokens, NEW p \in Procs, Receive(p)
  PROVE  Tokens'
<1>t. /\ sem \in [SemNames -> Nat] /\ Len(list) \in Nat
      /\ pc \in [Procs -> SendPcs \cup RecvPcs \cup OtherPcs]
  BY LenProperties DEF TypeOK
<1> USE <1>t DEF rest, store, attr, notif, history, at, Move, Wait, Post, sem_wait, sem_post,
        Enter, SemNames, Gain, CSPcs, HoldWritePcs, RemovedPcs, HoldReadPcs, InsertedPcs
<1>1. CASE ReceiveCall(p)
  <2>1. PICK l \in {"r_try", "r_dec"} : goto(p, l)
    BY <1>1 DEF ReceiveCall
  <2>2. pc[p] = "idle" /\ list' = list /\ sem' = sem
    BY <1>1 DEF ReceiveCall
  <2>3. Balanced(p, l)
    BY <2>1, <2>2 DEF Balanced
  <2> QED
    BY <2>1, <2>3, Balance
<1>2. CASE ReceiveTryFails(p)
  <2>1. pc[p] = "r_try" /\ goto(p, "idle") /\ list' = list /\ sem' = sem
    BY <1>2 DEF ReceiveTryFails
  <2>2. Balanced(p, "idle")
    BY <2>1 DEF Balanced
  <2> QED
    BY <2>1, <2>2, Balance
<1>3. CASE ReceiveTry(p)
  <2>1. pc[p] = "r_try" /\ goto(p, "r_inc") /\ list' = list /\ sem' = [sem EXCEPT !["mutex_read"] = @ - 1]
    BY <1>3 DEF ReceiveTry
  <2>2. Balanced(p, "r_inc")
    BY <2>1 DEF Balanced
  <2> QED
    BY <2>1, <2>2, Balance
<1>4. CASE ReceiveDec(p)
  <2>1. pc[p] = "r_dec" /\ goto(p, "r_wait") /\ list' = list /\ sem' = sem
    BY <1>4 DEF ReceiveDec, CountReaders
  <2>2. Balanced(p, "r_wait")
    BY <2>1 DEF Balanced
  <2> QED
    BY <2>1, <2>2, Balance
<1>5. CASE ReceiveWait(p)
  <2>1. pc[p] = "r_wait" /\ goto(p, "r_inc") /\ list' = list /\ sem' = [sem EXCEPT !["mutex_read"] = @ - 1]
    BY <1>5 DEF ReceiveWait
  <2>2. Balanced(p, "r_inc")
    BY <2>1 DEF Balanced
  <2> QED
    BY <2>1, <2>2, Balance
<1>6. CASE ReceiveInc(p)
  <2>1. pc[p] = "r_inc" /\ goto(p, "r_acc") /\ list' = list /\ sem' = sem
    BY <1>6 DEF ReceiveInc, CountReaders
  <2>2. Balanced(p, "r_acc")
    BY <2>1 DEF Balanced
  <2> QED
    BY <2>1, <2>2, Balance
<1>7. CASE ReceiveLock(p)
  <2>1. pc[p] = "r_acc" /\ goto(p, "r_cs") /\ list' = list /\ sem' = [sem EXCEPT !["mutex_access"] = @ - 1]
    BY <1>7 DEF ReceiveLock
  <2>2. Balanced(p, "r_cs")
    BY <2>1 DEF Balanced
  <2> QED
    BY <2>1, <2>2, Balance
<1>8. CASE ReceiveUnlock(p)
  <2>1. pc[p] = "r_post" /\ goto(p, "r_postw") /\ list' = list /\ sem' = [sem EXCEPT !["mutex_access"] = @ + 1]
    BY <1>8 DEF ReceiveUnlock
  <2>2. Balanced(p, "r_postw")
    BY <2>1 DEF Balanced
  <2> QED
    BY <2>1, <2>2, Balance
<1>9. CASE ReceiveReturn(p)
  <2>1. pc[p] = "r_postw" /\ goto(p, "idle") /\ list' = list /\ sem' = [sem EXCEPT !["mutex_write"] = @ + 1]
    BY <1>9 DEF ReceiveReturn
  <2>2. Balanced(p, "idle")
    BY <2>1 DEF Balanced
  <2> QED
    BY <2>1, <2>2, Balance
<1>10. CASE ReceiveTake(p)
  <2>1. pc[p] = "r_cs" /\ goto(p, "r_post") /\ sem' = sem
    BY <1>10 DEF ReceiveTake
  <2>2. list # <<>> /\ list' = Tail(list)
    BY <1>10 DEF ReceiveTake
  <2>3. Len(list)' + 1 = Len(list) /\ Len(list)' \in Nat
    BY <2>2 DEF TypeOK
  <2>4. Balanced(p, "r_post")
    BY <2>1, <2>3 DEF Balanced
  <2> QED
    BY <2>1, <2>4, Balance
<1> QED
  BY <1>1, <1>2, <1>3, <1>4, <1>5, <1>6, <1>7, <1>8, <1>9, <1>10 DEF Receive

(* The steps of the other calls balance: none of them touches a semaphore. *)
LEMMA OtherTokens ==
  ASSUME TypeOK, TypeOK', Tokens, Roles, NoInterrupts, NEW p \in Procs,
         Notify(p) \/ Close(p) \/ SetAttr(p) \/ Refused(p) \/ Deliver(p)
  PROVE  Tokens'
<1>t. /\ sem \in [SemNames -> Nat] /\ Len(list) \in Nat
      /\ pc \in [Procs -> SendPcs \cup RecvPcs \cup OtherPcs]
  BY LenProperties DEF TypeOK
<1> USE <1>t DEF rest, store, attr, notif, history, at, Move, Wait, Post, sem_wait, sem_post,
        Enter, SemNames, Gain, CSPcs, HoldWritePcs, RemovedPcs, HoldReadPcs, InsertedPcs
<1>1. CASE NotifyNone(p)
  <2>1. pc[p] = "idle" /\ goto(p, "idle") /\ list' = list /\ sem' = sem
    BY <1>1 DEF NotifyNone
  <2>2. Balanced(p, "idle")
    BY <2>1 DEF Balanced
  <2> QED
    BY <2>1, <2>2, Balance
<1>2. CASE NotifySignal(p)
  <2>1. pc[p] = "idle" /\ goto(p, "n_pid") /\ list' = list /\ sem' = sem
    BY <1>2 DEF NotifySignal
  <2>2. Balanced(p, "n_pid")
    BY <2>1 DEF Balanced
  <2> QED
    BY <2>1, <2>2, Balance
<1>3. CASE NotifyPid(p)
  <2>1. pc[p] = "n_pid" /\ goto(p, "idle") /\ list' = list /\ sem' = sem
    BY <1>3 DEF NotifyPid
  <2>2. Balanced(p, "idle")
    BY <2>1 DEF Balanced
  <2> QED
    BY <2>1, <2>2, Balance
<1>4. CASE NotifyNull(p)
  <2>1. pc[p] = "idle" /\ goto(p, "n_unsub") /\ list' = list /\ sem' = sem
    BY <1>4 DEF NotifyNull
  <2>2. Balanced(p, "n_unsub")
    BY <2>1 DEF Balanced
  <2> QED
    BY <2>1, <2>2, Balance
<1>5. CASE Close(p)
  <2>1. pc[p] = "idle" /\ goto(p, "idle") /\ list' = list /\ sem' = sem
    BY <1>5 DEF Close
  <2>2. Balanced(p, "idle")
    BY <2>1 DEF Balanced
  <2> QED
    BY <2>1, <2>2, Balance
<1>6. CASE SetAttr(p)
  <2>1. pc[p] = "idle" /\ goto(p, "idle") /\ list' = list /\ sem' = sem
    BY <1>6 DEF SetAttr
  <2>2. Balanced(p, "idle")
    BY <2>1 DEF Balanced
  <2> QED
    BY <2>1, <2>2, Balance
<1>7. CASE Refused(p)
  <2>1. pc[p] = "idle" /\ goto(p, "idle") /\ list' = list /\ sem' = sem
    BY <1>7 DEF Refused
  <2>2. Balanced(p, "idle")
    BY <2>1 DEF Balanced
  <2> QED
    BY <2>1, <2>2, Balance
<1>8. CASE Unsubscribe(p)
  <2>1. list' = list /\ sem' = sem
    BY <1>8 DEF Unsubscribe
  <2>2. CASE pc[p] = "s_unsub"
    <3>1. goto(p, "s_clear")
      BY <1>8, <2>2 DEF Unsubscribe
    <3>2. Balanced(p, "s_clear")
      BY <2>1, <2>2 DEF Balanced
    <3> QED
      BY <3>1, <3>2, Balance
  <2>3. CASE pc[p] = "n_unsub"
    <3>1. goto(p, "n_clear")
      BY <1>8, <2>3 DEF Unsubscribe
    <3>2. Balanced(p, "n_clear")
      BY <2>1, <2>3 DEF Balanced
    <3> QED
      BY <3>1, <3>2, Balance
  <2> QED
    BY <1>8, <2>2, <2>3 DEF Unsubscribe
<1>9. CASE NullEvent(p)
  <2>1. list' = list /\ sem' = sem
    BY <1>9 DEF NullEvent
  <2>2. CASE pc[p] = "s_unsub"
    <3>1. goto(p, "s_segv")
      BY <1>9, <2>2 DEF NullEvent
    <3>2. Balanced(p, "s_segv")
      BY <2>1, <2>2 DEF Balanced
    <3> QED
      BY <3>1, <3>2, Balance
  <2>3. CASE pc[p] = "n_unsub"
    <3>1. goto(p, "segv")
      BY <1>9, <2>3 DEF NullEvent
    <3>2. Balanced(p, "segv")
      BY <2>1, <2>3 DEF Balanced
    <3> QED
      BY <3>1, <3>2, Balance
  <2> QED
    BY <1>9, <2>2, <2>3 DEF NullEvent
<1>10. CASE ClearSig(p)
  <2>1. list' = list /\ sem' = sem
    BY <1>10 DEF ClearSig
  <2>2. CASE pc[p] = "s_clear"
    <3>1. goto(p, "s_post")
      BY <1>10, <2>2 DEF ClearSig
    <3>2. Balanced(p, "s_post")
      BY <2>1, <2>2 DEF Balanced
    <3> QED
      BY <3>1, <3>2, Balance
  <2>3. CASE pc[p] = "n_clear"
    <3>1. goto(p, "idle")
      BY <1>10, <2>3 DEF ClearSig
    <3>2. Balanced(p, "idle")
      BY <2>1, <2>3 DEF Balanced
    <3> QED
      BY <3>1, <3>2, Balance
  <2> QED
    BY <1>10, <2>2, <2>3 DEF ClearSig
<1>11. CASE Deliver(p)
  <2>1. ~Blocked(p)
    BY <1>11 DEF Deliver, Blocked, WaitPcs, Roles, NoInterrupts, SendPcs, RecvPcs
  <2>2. goto(p, pc[p]) /\ list' = list /\ sem' = sem
    BY <1>11, <2>1 DEF Deliver
  <2>3. Balanced(p, pc[p])
    BY <2>2 DEF Balanced
  <2> QED
    BY <2>2, <2>3, Balance
<1> QED
  BY <1>1, <1>2, <1>3, <1>4, <1>5, <1>6, <1>7, <1>8, <1>9, <1>10, <1>11 DEF Notify

(* The chain keeps every slot in use: mq_send adds the slot it fills,      *)
(* mq_receive frees the slot it unchains, mq_close makes the next mq_send  *)
(* consider all the slots free.                                            *)
LEMMA UsedInListStep ==
  ASSUME TypeOK, UsedInList, NEW p \in Procs, Step(p) \/ Deliver(p)
  PROVE  UsedInList'
<1>1. CASE UNCHANGED <<used, list, init>>
  BY <1>1 DEF UsedInList, ToSet
<1>2. CASE SendInsert(p)
  <2>1. PICK slot \in Slots, k \in 1 .. Len(list) + 1 :
          list' = InsertAt(list, k, slot) /\ used' = Live \cup {slot}
    BY <1>2 DEF SendInsert
  <2>2. ToSet(list) \cup {slot} \subseteq ToSet(list')
    BY <2>1, InsertAtProperties DEF TypeOK
  <2>3. Live \subseteq ToSet(list)
    BY DEF Live, UsedInList, TypeOK
  <2> QED
    BY <2>1, <2>2, <2>3 DEF UsedInList
<1>3. CASE ReceiveTake(p)
  <2>1. list # <<>> /\ list' = Tail(list) /\ used' = used \ {Head(list)} /\ init' = init
    BY <1>3 DEF ReceiveTake, ResetLength
  <2>2. ToSet(list) \ {Head(list)} \subseteq ToSet(list')
    BY <2>1, ToSetTail DEF TypeOK
  <2> QED
    BY <2>1, <2>2 DEF UsedInList
<1>4. CASE Close(p)
  BY <1>4 DEF Close, UsedInList
<1>5. Send(p) => SendInsert(p) \/ UNCHANGED <<used, list, init>>
  BY DEF Send, SendCall, SendTryFails, SendTry, SendWait, SendLock, TestSig,
     TestReaders, SendKill, SendUnlock, SendReturn, Move, Wait, Post, rest, store
<1>6. Receive(p) => ReceiveTake(p) \/ UNCHANGED <<used, list, init>>
  BY DEF Receive, ReceiveCall, ReceiveTryFails, ReceiveTry, ReceiveDec, CountReaders,
     ReceiveWait, ReceiveInc, ReceiveLock, ReceiveUnlock, ReceiveReturn,
     Move, Wait, Post, rest, store
<1>7. Notify(p) \/ SetAttr(p) \/ Refused(p) \/ Deliver(p) => UNCHANGED <<used, list, init>>
  BY DEF Notify, NotifyNone, NotifySignal, NotifyPid, NotifyNull, Unsubscribe, NullEvent,
     ClearSig, SetAttr, Refused, Deliver, rest, store
<1> QED
  BY <1>1, <1>2, <1>3, <1>4, <1>5, <1>6, <1>7 DEF Step

(* A process with its tokens in hand finds a free slot, or a message.      *)
LEMMA TokensHeld ==
  ASSUME TypeOK, Tokens, UsedInList, NEW p \in Procs
  PROVE  /\ pc[p] = "s_cs" => ~(Slots \subseteq Live)
         /\ pc[p] = "r_cs" => list # <<>>
<1>1. Len(list) \in Nat /\ \A s \in SemNames : sem[s] \in Nat
  BY LenProperties DEF TypeOK
<1>2. \A S : IsFiniteSet(Standing(S)) /\ Cardinality(Standing(S)) \in Nat
  BY ProcsAssumption, FS_Subset, FS_CardinalityType DEF Standing
<1>3. \A S : pc[p] \in S => Cardinality(Standing(S)) # 0
  BY <1>2, FS_EmptySet DEF Standing
<1>4. ASSUME pc[p] = "s_cs" PROVE ~(Slots \subseteq Live)
  <2>1. Cardinality(HoldWrite) \in Nat \ {0} /\ Cardinality(Removed) \in Nat
    BY <1>2, <1>3, <1>4 DEF HoldWrite, HoldWritePcs, Removed
  <2>2. PICK w \in Nat : w = sem["mutex_write"]
    BY <1>1 DEF SemNames
  <2>3. w + Cardinality(HoldWrite) + Len(list) + Cardinality(Removed) = MAX_MSG
    BY <2>2 DEF Tokens, WriteTokens
  <2>4. Len(list) < MAX_MSG
    BY <1>1, <2>1, <2>3, MaxMsgAssumption
  <2>5. IsFiniteSet(ToSet(list)) /\ Cardinality(ToSet(list)) <= Len(list)
    BY ToSetCardinality DEF TypeOK
  <2>6. Cardinality(ToSet(list)) \in Nat
    BY <2>5, FS_CardinalityType
  <2>7. Cardinality(Slots) = MAX_MSG
    BY MaxMsgAssumption, FS_Interval DEF Slots
  <2>8. Live \subseteq ToSet(list)
    BY DEF Live, UsedInList, TypeOK
  <2>9. Slots \subseteq Live => Cardinality(Slots) <= Cardinality(ToSet(list))
    BY <2>5, <2>8, FS_Subset
  <2> QED
    BY <1>1, <2>4, <2>5, <2>6, <2>7, <2>9, MaxMsgAssumption
<1>5. ASSUME pc[p] = "r_cs" PROVE list # <<>>
  <2>1. Cardinality(HoldRead) \in Nat \ {0} /\ Cardinality(Inserted) \in Nat
    BY <1>2, <1>3, <1>5 DEF HoldRead, HoldReadPcs, Inserted
  <2>2. PICK r \in Nat : r = sem["mutex_read"]
    BY <1>1 DEF SemNames
  <2>3. r + Cardinality(HoldRead) + Cardinality(Inserted) = Len(list)
    BY <2>2 DEF Tokens, ReadTokens
  <2> QED
    BY <1>1, <2>1, <2>3
<1> QED
  BY <1>4, <1>5

(* Only a sender or a receiver enters the calls that wait.                 *)
LEMMA RolesStep ==
  ASSUME TypeOK, Roles, NEW p \in Procs, Step(p) \/ Deliver(p)
  PROVE  Roles'
<1> USE DEF goto, at, Enter, Move, Wait, Post, SendPcs, RecvPcs
<1>1. ASSUME NEW l, goto(p, l), l \in SendPcs \cup RecvPcs => p \in Senders \cup Receivers
      PROVE  Roles'
  BY <1>1 DEF Roles, TypeOK
<1>2. pc[p] \in SendPcs \cup RecvPcs => p \in Senders \cup Receivers
  BY DEF Roles
<1>3. CASE Send(p)
  BY <1>1, <1>2, <1>3 DEF Send, SendCall, SendTryFails, SendTry, SendWait, SendLock,
     SendInsert, TestSig, TestReaders, SendKill, SendUnlock, SendReturn
<1>4. CASE Receive(p)
  BY <1>1, <1>2, <1>4 DEF Receive, ReceiveCall, ReceiveTryFails, ReceiveTry, ReceiveDec,
     CountReaders, ReceiveWait, ReceiveInc, ReceiveLock, ReceiveTake,
     ReceiveUnlock, ReceiveReturn
<1>5. CASE Notify(p)
  BY <1>1, <1>2, <1>5 DEF Notify, NotifyNone, NotifySignal, NotifyPid, NotifyNull,
     Unsubscribe, NullEvent, ClearSig
<1>6. CASE Close(p) \/ SetAttr(p) \/ Refused(p)
  BY <1>1, <1>6 DEF Close, SetAttr, Refused
<1>7. CASE Deliver(p)
  BY <1>1, <1>2, <1>7 DEF Deliver, AfterWait, WaitPcs, Blocked
<1> QED
  BY <1>3, <1>4, <1>5, <1>6, <1>7 DEF Step

(* After mq_open the accounting is exact and no slot is in use.            *)
LEMMA InitInv == Init => IInv
<1> SUFFICES ASSUME Init PROVE IInv
  OBVIOUS
<1>1. TypeOK
  BY TypeInit
<1>2. \A S : "idle" \notin S => Cardinality(Standing(S)) = 0
  BY FS_EmptySet DEF Standing, Init
<1>3. Len(list) = 0
  BY DEF Init
<1>4. Tokens
  BY <1>2, <1>3, MaxMsgAssumption DEF Tokens, AccessToken, WriteTokens, ReadTokens, InCS,
     HoldWrite, Removed, HoldRead, Inserted, CSPcs, HoldWritePcs, RemovedPcs, HoldReadPcs,
     InsertedPcs, Init, SemNames
<1>5. Roles /\ UsedInList
  BY DEF Init, Roles, UsedInList, SendPcs, RecvPcs
<1> QED
  BY <1>1, <1>4, <1>5 DEF IInv

(* The strengthened invariant is inductive: every step of every process    *)
(* keeps it.                                                               *)
LEMMA StepInv ==
  ASSUME IInv, NoInterrupts, [Next]_vars
  PROVE  IInv'
<1>1. CASE UNCHANGED vars
  BY <1>1 DEF IInv, TypeOK, Roles, Tokens, AccessToken, WriteTokens, ReadTokens, InCS,
     HoldWrite, Removed, HoldRead, Inserted, Standing, UsedInList, ToSet, vars,
     rest, store, attr, notif, history
<1>2. ASSUME NEW p \in Procs, Step(p) \/ Deliver(p)
      PROVE  IInv'
  <2>1. TypeOK'
    BY <1>2, SendTypes, ReceiveTypes, OtherTypes DEF IInv, Step
  <2>3. Tokens'
    BY <1>2, <2>1, SendTokens, ReceiveTokens, OtherTokens DEF IInv, Step
  <2>4. Roles' /\ UsedInList'
    BY <1>2, RolesStep, UsedInListStep DEF IInv
  <2> QED
    BY <2>1, <2>3, <2>4 DEF IInv
<1> QED
  BY <1>1, <1>2 DEF Next

(* The invariant of the library without interrupted waits: types, roles,   *)
(* exact tokens, no slot in use outside the chain.                         *)
THEOREM Invariance == ASSUME NoInterrupts PROVE Spec => []IInv
<1>1. IInv /\ [Next]_vars => IInv'
  BY StepInv
<1> QED
  BY InitInv, <1>1, PTL DEF Spec

(* The accounting of the three semaphores of mq_open (lines 80-86): their  *)
(* values plus the tokens the processes hold are exact at every step, with *)
(* mq_close, mq_setattr and mq_notify called at any moment.                *)
THEOREM TokensExact == ASSUME NoInterrupts PROVE Spec => []Tokens
  BY Invariance, PTL DEF IInv

(* A free lock or one holder: two processes in the critical section would  *)
(* make the account of mutex_access exceed one.                            *)
LEMMA OneInside == IInv => MutualExclusion
<1> SUFFICES ASSUME IInv, NEW p \in InCS, NEW q \in InCS, p # q
             PROVE  FALSE
  BY DEF MutualExclusion
<1>1. IsFiniteSet(InCS) /\ Cardinality(InCS) \in Nat
  BY ProcsAssumption, FS_Subset, FS_CardinalityType DEF InCS, Standing
<1>2. Cardinality({p, q}) = 2
  <2>1. IsFiniteSet({p}) /\ Cardinality({p}) = 1
    BY FS_Singleton
  <2>2. Cardinality({p} \cup {q}) = 2
    BY <2>1, FS_AddElement
  <2> QED
    BY <2>2
<1>3. Cardinality({p, q}) <= Cardinality(InCS)
  BY <1>1, FS_Subset
<1>4. PICK a \in Nat : a = sem["mutex_access"]
  BY DEF IInv, TypeOK, SemNames
<1>5. a + Cardinality(InCS) = 1
  BY <1>4 DEF IInv, Tokens, AccessToken
<1> QED
  BY <1>1, <1>2, <1>3, <1>5

(* mutex_access is a lock: one process at a time works on the list.        *)
THEOREM ListLocked == ASSUME NoInterrupts PROVE Spec => []MutualExclusion
  BY Invariance, OneInside, PTL

(* The two searches that rely on the semaphores never run out of the       *)
(* arrays: mq_send finds a slot of length -1, mq_receive finds a head.     *)
THEOREM NeverOverrun == ASSUME NoInterrupts PROVE Spec => [](NoOverrun /\ UsedInList)
<1>1. IInv => NoOverrun /\ UsedInList
  BY TokensHeld DEF IInv, NoOverrun
<1> QED
  BY Invariance, <1>1, PTL
-----------------------------------------------------------------------------
(* The counter of sleeping receivers                                       *)

(* In blocking mode nobody is on the way of the other mode, and the        *)
(* reverse.                                                                *)
OneMode ==
  \A p \in Procs : /\ mq_flags = 0 => pc[p] # "r_try"
                   /\ mq_flags = 1 => pc[p] \notin {"r_dec", "r_wait"}

CountInv == OneMode /\ BlockedReaders

SleepPcs == {"r_wait", "r_inc"}

(* A move of p to l inside one mode that adds to the counter what it takes *)
(* from the set of sleeping receivers.                                     *)
Counted(p, l) ==
  /\ mq_flags' = mq_flags
  /\ l = "r_try" => mq_flags # 0 \/ pc[p] = "r_try"
  /\ l \in {"r_dec", "r_wait"} => mq_flags # 1 \/ pc[p] \in {"r_dec", "r_wait"}
  /\ mq_flags = 0 => nb_blocked_readers' + Gain(pc[p], l, SleepPcs) = nb_blocked_readers

(* Such a move keeps the counter exact.                                    *)
LEMMA CountBalance ==
  ASSUME TypeOK, TypeOK', CountInv, NEW p \in Procs, NEW l, goto(p, l), Counted(p, l)
  PROVE  CountInv'
<1>1. /\ Cardinality(Standing(SleepPcs)) \in Nat
      /\ Cardinality(Standing(SleepPcs))'
           = Cardinality(Standing(SleepPcs)) + Gain(pc[p], l, SleepPcs)
      /\ Gain(pc[p], l, SleepPcs) \in Int
  BY CountMove
<1>2. OneMode'
  BY DEF Counted, CountInv, OneMode, goto, TypeOK
<1>3. ASSUME mq_flags' = 0
      PROVE  nb_blocked_readers' = -Cardinality(Standing(SleepPcs))'
  <2>1. /\ nb_blocked_readers = -Cardinality(Standing(SleepPcs))
        /\ nb_blocked_readers \in Int /\ nb_blocked_readers' \in Int
    BY <1>3 DEF Counted, CountInv, BlockedReaders, SleepPcs, TypeOK
  <2>2. nb_blocked_readers' + Gain(pc[p], l, SleepPcs) = nb_blocked_readers
    BY <1>3 DEF Counted
  <2> QED
    BY <1>1, <2>1, <2>2
<1> QED
  BY <1>2, <1>3 DEF CountInv, BlockedReaders, SleepPcs

(* The steps of mq_receive: the two sections under mutex_update_nb         *)
(* surround the sleep on mutex_read.                                       *)
LEMMA ReceiveCount ==
  ASSUME TypeOK, TypeOK', CountInv, NEW p \in Procs, Receive(p)
  PROVE  CountInv'
<1>t. nb_blocked_readers \in Int
  BY DEF TypeOK
<1> USE <1>t DEF rest, attr, at, Move, Wait, Post, Enter, Gain, SleepPcs
<1>1. CASE ReceiveCall(p)
  <2>1. CASE mq_flags = 1
    <3>1. goto(p, "r_try") /\ pc[p] = "idle" /\ UNCHANGED <<mq_flags, nb_blocked_readers>>
      BY <1>1, <2>1 DEF ReceiveCall
    <3>2. Counted(p, "r_try")
      BY <2>1, <3>1 DEF Counted
    <3> QED
      BY <3>1, <3>2, CountBalance
  <2>2. CASE mq_flags # 1
    <3>1. goto(p, "r_dec") /\ pc[p] = "idle" /\ UNCHANGED <<mq_flags, nb_blocked_readers>>
      BY <1>1, <2>2 DEF ReceiveCall
    <3>2. Counted(p, "r_dec")
      BY <2>2, <3>1 DEF Counted
    <3> QED
      BY <3>1, <3>2, CountBalance
  <2> QED
    BY <2>1, <2>2
<1>2. CASE ReceiveTryFails(p)
  <2>1. goto(p, "idle") /\ pc[p] = "r_try" /\ UNCHANGED <<mq_flags, nb_blocked_readers>>
    BY <1>2 DEF ReceiveTryFails
  <2>2. Counted(p, "idle")
    BY <2>1 DEF Counted
  <2> QED
    BY <2>1, <2>2, CountBalance
<1>3. CASE ReceiveTry(p)
  <2>1. goto(p, "r_inc") /\ pc[p] = "r_try" /\ UNCHANGED <<mq_flags, nb_blocked_readers>>
    BY <1>3 DEF ReceiveTry
  <2>2. mq_flags # 0
    BY <2>1 DEF CountInv, OneMode
  <2>3. Counted(p, "r_inc")
    BY <2>1, <2>2 DEF Counted
  <2> QED
    BY <2>1, <2>3, CountBalance
<1>4. CASE ReceiveDec(p)
  <2>1. /\ goto(p, "r_wait") /\ pc[p] = "r_dec" /\ UNCHANGED mq_flags
        /\ nb_blocked_readers' = nb_blocked_readers + -1
    BY <1>4 DEF ReceiveDec, CountReaders
  <2>2. Counted(p, "r_wait")
    BY <2>1 DEF Counted
  <2> QED
    BY <2>1, <2>2, CountBalance
<1>5. CASE ReceiveWait(p)
  <2>1. goto(p, "r_inc") /\ pc[p] = "r_wait" /\ UNCHANGED <<mq_flags, nb_blocked_readers>>
    BY <1>5 DEF ReceiveWait
  <2>2. Counted(p, "r_inc")
    BY <2>1 DEF Counted
  <2> QED
    BY <2>1, <2>2, CountBalance
<1>6. CASE ReceiveInc(p)
  <2>1. /\ goto(p, "r_acc") /\ pc[p] = "r_inc" /\ UNCHANGED mq_flags
        /\ nb_blocked_readers' = nb_blocked_readers + 1
    BY <1>6 DEF ReceiveInc, CountReaders
  <2>2. Counted(p, "r_acc")
    BY <2>1 DEF Counted
  <2> QED
    BY <2>1, <2>2, CountBalance
<1>7. CASE ReceiveLock(p)
  <2>1. goto(p, "r_cs") /\ pc[p] = "r_acc" /\ UNCHANGED <<mq_flags, nb_blocked_readers>>
    BY <1>7 DEF ReceiveLock
  <2>2. Counted(p, "r_cs")
    BY <2>1 DEF Counted
  <2> QED
    BY <2>1, <2>2, CountBalance
<1>8. CASE ReceiveTake(p)
  <2>1. goto(p, "r_post") /\ pc[p] = "r_cs" /\ UNCHANGED <<mq_flags, nb_blocked_readers>>
    BY <1>8 DEF ReceiveTake
  <2>2. Counted(p, "r_post")
    BY <2>1 DEF Counted
  <2> QED
    BY <2>1, <2>2, CountBalance
<1>9. CASE ReceiveUnlock(p)
  <2>1. goto(p, "r_postw") /\ pc[p] = "r_post" /\ UNCHANGED <<mq_flags, nb_blocked_readers>>
    BY <1>9 DEF ReceiveUnlock
  <2>2. Counted(p, "r_postw")
    BY <2>1 DEF Counted
  <2> QED
    BY <2>1, <2>2, CountBalance
<1>10. CASE ReceiveReturn(p)
  <2>1. goto(p, "idle") /\ pc[p] = "r_postw" /\ UNCHANGED <<mq_flags, nb_blocked_readers>>
    BY <1>10 DEF ReceiveReturn
  <2>2. Counted(p, "idle")
    BY <2>1 DEF Counted
  <2> QED
    BY <2>1, <2>2, CountBalance
<1> QED
  BY <1>1, <1>2, <1>3, <1>4, <1>5, <1>6, <1>7, <1>8, <1>9, <1>10 DEF Receive

(* The other calls neither touch the counter nor enter or leave the sleep  *)
(* of mq_receive.                                                          *)
LEMMA OtherCount ==
  ASSUME TypeOK, TypeOK', Roles, CountInv, NoInterrupts, NoSetter, NEW p \in Procs,
         Send(p) \/ Notify(p) \/ Close(p) \/ SetAttr(p) \/ Refused(p) \/ Deliver(p)
  PROVE  CountInv'
<1> USE DEF rest, attr, at, Move, Wait, Post, Enter
<1>1. ASSUME NEW l, goto(p, l), UNCHANGED <<mq_flags, nb_blocked_readers>>,
             l = pc[p] \/ {l, pc[p]} \cap {"r_try", "r_dec", "r_wait", "r_inc"} = {}
      PROVE  CountInv'
  <2>1. Gain(pc[p], l, SleepPcs) = 0
    BY <1>1 DEF Gain, SleepPcs
  <2>2. nb_blocked_readers' + 0 = nb_blocked_readers
    BY <1>1 DEF TypeOK
  <2>3. Counted(p, l)
    BY <1>1, <2>1, <2>2 DEF Counted
  <2> QED
    BY <1>1, <2>3, CountBalance
<1>2. CASE Send(p)
  BY <1>1, <1>2 DEF Send, SendCall, SendTryFails, SendTry, SendWait, SendLock,
     SendInsert, TestSig, TestReaders, SendKill, SendUnlock, SendReturn
<1>3. CASE Notify(p)
  BY <1>1, <1>3 DEF Notify, NotifyNone, NotifySignal, NotifyPid, NotifyNull,
     Unsubscribe, NullEvent, ClearSig
<1>4. CASE Close(p) \/ SetAttr(p) \/ Refused(p)
  BY <1>1, <1>4 DEF Close, SetAttr, Refused, NoSetter
<1>5. CASE Deliver(p)
  <2>1. ~Blocked(p)
    BY <1>5 DEF Deliver, Blocked, WaitPcs, Roles, NoInterrupts, SendPcs, RecvPcs
  <2> QED
    BY <1>1, <1>5, <2>1 DEF Deliver
<1> QED
  BY <1>2, <1>3, <1>4, <1>5

(* After mq_open nobody sleeps.                                            *)
LEMMA CountInit == Init => CountInv
<1> SUFFICES ASSUME Init PROVE CountInv
  OBVIOUS
<1>1. \A p \in Procs : pc[p] = "idle"
  BY DEF Init
<1>2. Standing(SleepPcs) = {}
  BY <1>1 DEF Standing, SleepPcs
<1>3. BlockedReaders
  <2>1. Cardinality(Standing(SleepPcs)) = 0 /\ nb_blocked_readers = 0
    BY <1>2, FS_EmptySet DEF Init
  <2>2. /\ nb_blocked_readers + Cardinality(Standing(SleepPcs)) = 0
        /\ nb_blocked_readers \in Int /\ Cardinality(Standing(SleepPcs)) \in Int
    BY <2>1
  <2>3. nb_blocked_readers = -Cardinality(Standing(SleepPcs))
    BY <2>2
  <2> QED
    BY <2>3 DEF BlockedReaders, SleepPcs
<1> QED
  BY <1>1, <1>3 DEF CountInv, OneMode

(* Every step keeps the counter exact.                                     *)
LEMMA CountStep ==
  ASSUME IInv, CountInv, NoInterrupts, NoSetter, [Next]_vars
  PROVE  CountInv'
<1>1. TypeOK' /\ IInv'
  BY StepInv DEF IInv
<1>2. CASE UNCHANGED vars
  BY <1>2 DEF CountInv, OneMode, BlockedReaders, Standing, vars, rest, attr
<1>3. CASE Next
  BY <1>1, <1>3, ReceiveCount, OtherCount DEF Next, Step, IInv
<1> QED
  BY <1>2, <1>3

(* The counter that mq_send consults is exact: minus the receivers between *)
(* their decrement (line 350) and their increment (line 355), whoever      *)
(* sends, receives, closes or registers.                                   *)
THEOREM ReadersCounted ==
  ASSUME NoInterrupts, NoSetter PROVE Spec => [](IInv /\ OneMode /\ BlockedReaders)
<1>1. IInv /\ CountInv /\ [Next]_vars => (IInv /\ CountInv)'
  BY StepInv, CountStep
<1> QED
  BY InitInv, CountInit, <1>1, PTL DEF Spec, CountInv

(* A sender that goes on to notify after the test of line 295 leaves no    *)
(* receiver asleep: the message goes to the receiver first.                *)
LEMMA NobodyAsleep ==
  ASSUME IInv, OneMode, BlockedReaders, NEW p \in Procs, TestReaders(p),
         nb_blocked_readers >= 0, NEW r \in Procs
  PROVE  pc[r] # "r_wait"
<1> SUFFICES ASSUME pc[r] = "r_wait" PROVE FALSE
  OBVIOUS
<1>1. mq_flags = 0
  BY DEF OneMode, IInv, TypeOK
<1>2. /\ IsFiniteSet(Standing({"r_wait", "r_inc"}))
      /\ Cardinality(Standing({"r_wait", "r_inc"})) \in Nat
  BY ProcsAssumption, FS_Subset, FS_CardinalityType DEF Standing
<1>3. Cardinality(Standing({"r_wait", "r_inc"})) # 0
  <2>1. r \in Standing({"r_wait", "r_inc"})
    BY DEF Standing
  <2> QED
    BY <1>2, <2>1, FS_EmptySet
<1> QED
  BY <1>1, <1>2, <1>3 DEF BlockedReaders

(* TME10-11/README lines 68-70: no step leads mq_send to kill while a      *)
(* receiver sleeps on mutex_read, in both modes and for any processes.     *)
THEOREM ReadersServedFirst ==
  ASSUME NoInterrupts, NoSetter PROVE Spec => ReaderFirst
<1>1. ASSUME IInv, OneMode, BlockedReaders, [Next]_vars
      PROVE  [\A p \in Procs : at(p, "s_nb") /\ pc'[p] = "s_kill"
                => \A r \in Procs : ~(at(r, "r_wait") /\ sem["mutex_read"] = 0)]_vars
  <2> SUFFICES ASSUME NEW p \in Procs, pc[p] = "s_nb", pc'[p] = "s_kill", NEW r \in Procs
               PROVE  pc[r] # "r_wait"
    BY DEF at
  <2>1. \E q \in Procs : Step(q) \/ Deliver(q)
    BY <1>1 DEF Next, vars
  <2>2. PICK q \in Procs : Step(q) \/ Deliver(q)
    BY <2>1
  <2>3. q = p /\ TestReaders(p)
    <3>1. \E l : goto(q, l)
      BY <2>2 DEF Step, Send, Receive, Notify, SendCall, SendTryFails, SendTry, SendWait,
         SendLock, SendInsert, TestSig, TestReaders, SendKill, SendUnlock, SendReturn,
         ReceiveCall, ReceiveTryFails, ReceiveTry, ReceiveDec, CountReaders, ReceiveWait,
         ReceiveInc, ReceiveLock, ReceiveTake, ReceiveUnlock, ReceiveReturn, NotifyNone,
         NotifySignal, NotifyPid, NotifyNull, Unsubscribe, NullEvent, ClearSig, Close,
         SetAttr, Refused, Deliver, Move, Wait, Post, Enter
    <3>2. q = p
      BY <1>1, <3>1 DEF goto, IInv, TypeOK
    <3> QED
      BY <1>1, <2>2, <3>2 DEF Step, Send, Receive, Notify, SendCall, SendTryFails, SendTry,
         SendWait, SendLock, SendInsert, TestSig, TestReaders, SendKill, SendUnlock,
         SendReturn, ReceiveCall, ReceiveTryFails, ReceiveTry, ReceiveDec, CountReaders,
         ReceiveWait, ReceiveInc, ReceiveLock, ReceiveTake, ReceiveUnlock, ReceiveReturn,
         NotifyNone, NotifySignal, NotifyPid, NotifyNull, Unsubscribe, NullEvent, ClearSig,
         Close, SetAttr, Refused, Deliver, Move, Wait, Post, Enter, at, Blocked, WaitPcs,
         goto, IInv, TypeOK
  <2>4. nb_blocked_readers >= 0
    BY <1>1, <2>3 DEF TestReaders, Move, goto, IInv, TypeOK
  <2> QED
    BY <1>1, <2>3, <2>4, NobodyAsleep
<1> QED
  BY ReadersCounted, <1>1, PTL DEF Spec, ReaderFirst

-----------------------------------------------------------------------------
(* The registration made before the forks                                  *)

(* While the signal is set, nobody has been signalled and the subscriber   *)
(* is known, but for the sender that is between kill and the end of its    *)
(* call of mq_notify(fd, NULL); a sender on its way to kill has the signal *)
(* set; mq_notify is running nowhere else.                                 *)
OnceInv ==
  /\ notification_sig # -1 /\ Standing({"s_unsub", "s_clear"}) = {} => signalled = {}
  /\ notification_sig # -1 /\ Standing({"s_clear"}) = {} => subscriber # NoPid
  /\ Standing({"s_nb", "s_kill", "s_unsub", "s_clear"}) # {} => notification_sig # -1
  /\ Standing({"s_segv", "n_pid", "n_unsub", "n_clear"}) = {}

(* The places between the test of line 295 and line 303.                   *)
NotifyPcs == {"s_nb", "s_kill", "s_unsub", "s_clear"}

(* A step away from kill and mq_notify that adds no signal keeps all this. *)
Quiet(p, l) ==
  /\ UNCHANGED notif
  /\ signalled' \subseteq signalled
  /\ l \in {"s_nb", "s_kill"} => notification_sig # -1
  /\ l \notin {"s_segv", "n_pid", "n_unsub", "n_clear"}
  /\ l = pc[p] \/ {l, pc[p]} \cap {"s_unsub", "s_clear"} = {}

(* Where the process that moves stands, and where the others stay.         *)
LEMMA PcMove ==
  ASSUME TypeOK, NEW p \in Procs, NEW l, goto(p, l)
  PROVE  pc'[p] = l /\ \A q \in Procs : q # p => pc'[q] = pc[q]
  BY DEF TypeOK, goto

(* A quiet step keeps the invariant.                                       *)
LEMMA QuietStep ==
  ASSUME TypeOK, OnceInv, NEW p \in Procs, NEW l, goto(p, l), Quiet(p, l),
         pc[p] \notin {"s_segv", "n_pid", "n_unsub", "n_clear"}
  PROVE  OnceInv'
<1>1. pc'[p] = l /\ \A q \in Procs : q # p => pc'[q] = pc[q]
  BY PcMove
<1>2. subscriber' = subscriber /\ notification_sig' = notification_sig
  BY DEF Quiet, notif
<1>3. Standing({"s_unsub", "s_clear"})' = Standing({"s_unsub", "s_clear"})
  BY <1>1 DEF Standing, Quiet
<1>4. Standing({"s_clear"})' = Standing({"s_clear"})
  BY <1>1 DEF Standing, Quiet
<1>5. \/ Standing(NotifyPcs)' \subseteq Standing(NotifyPcs)
      \/ notification_sig # -1
  BY <1>1 DEF Standing, Quiet, NotifyPcs
<1>6. Standing({"s_segv", "n_pid", "n_unsub", "n_clear"})' = {}
  BY <1>1 DEF Standing, Quiet, OnceInv
<1> QED
  BY <1>2, <1>3, <1>4, <1>5, <1>6 DEF OnceInv, Quiet, NotifyPcs

(* The steps that notify, made by the one process that holds mutex_access. *)
LEMMA NotifyingStep ==
  ASSUME IInv, OnceInv, NEW p \in Procs,
         SendKill(p) \/ Unsubscribe(p) \/ NullEvent(p) \/ ClearSig(p)
  PROVE  OnceInv'
<1> USE DEF at, attr
<1>t. TypeOK
  BY DEF IInv
<1>a. \A q \in Procs : pc[q] \in NotifyPcs => q \in InCS
  BY DEF InCS, Standing, CSPcs, NotifyPcs
<1>b. \A q \in Procs : pc[q] \notin {"s_segv", "n_pid", "n_unsub", "n_clear"}
  BY DEF OnceInv, Standing
<1>c. pc[p] \in {"s_kill", "s_unsub", "s_clear"} /\ \E l : goto(p, l)
  BY <1>b DEF SendKill, Unsubscribe, NullEvent, ClearSig
<1>d. \A q \in Procs : q # p => pc[q] \notin NotifyPcs
  BY <1>a, <1>c, OneInside DEF MutualExclusion, NotifyPcs
<1>e. \A q \in Procs : q # p => pc'[q] = pc[q]
  BY <1>c, <1>t, PcMove
<1>f. notification_sig # -1
  BY <1>c DEF OnceInv, Standing
<1>1. CASE SendKill(p)
  <2>1. pc[p] = "s_kill" /\ pc'[p] = "s_unsub" /\ UNCHANGED notif
    BY <1>1, <1>t, PcMove DEF SendKill
  <2>2. p \in Standing({"s_unsub", "s_clear"})' /\ Standing({"s_clear"})' = {}
    BY <1>d, <1>e, <2>1 DEF Standing, NotifyPcs
  <2>3. Standing({"s_clear"}) = {}
    BY <1>d, <2>1 DEF Standing, NotifyPcs
  <2>4. Standing({"s_segv", "n_pid", "n_unsub", "n_clear"})' = {}
    BY <1>b, <1>e, <2>1 DEF Standing
  <2> QED
    BY <1>f, <2>1, <2>2, <2>3, <2>4 DEF OnceInv, notif
<1>2. CASE Unsubscribe(p)
  <2>1. pc[p] = "s_unsub" /\ pc'[p] = "s_clear" /\ notification_sig' = notification_sig
    BY <1>2, <1>b, <1>t, PcMove DEF Unsubscribe
  <2>2. p \in Standing({"s_unsub", "s_clear"})' /\ p \in Standing({"s_clear"})'
    BY <2>1 DEF Standing
  <2>3. Standing({"s_segv", "n_pid", "n_unsub", "n_clear"})' = {}
    BY <1>b, <1>e, <2>1 DEF Standing
  <2> QED
    BY <1>f, <2>1, <2>2, <2>3 DEF OnceInv
<1>3. CASE NullEvent(p)
  <2>1. pc[p] = "s_unsub" /\ subscriber = NoPid
    BY <1>3, <1>b DEF NullEvent
  <2>2. Standing({"s_clear"}) = {}
    BY <1>d, <2>1 DEF Standing, NotifyPcs
  <2> QED
    BY <1>f, <2>1, <2>2 DEF OnceInv
<1>4. CASE ClearSig(p)
  <2>1. pc[p] = "s_clear" /\ pc'[p] = "s_post" /\ notification_sig' = -1
    BY <1>4, <1>b, <1>t, PcMove DEF ClearSig
  <2>2. Standing(NotifyPcs)' = {}
    BY <1>d, <1>e, <2>1 DEF Standing, NotifyPcs
  <2>3. Standing({"s_segv", "n_pid", "n_unsub", "n_clear"})' = {}
    BY <1>b, <1>e, <2>1 DEF Standing
  <2> QED
    BY <2>1, <2>2, <2>3 DEF OnceInv, NotifyPcs
<1> QED
  BY <1>1, <1>2, <1>3, <1>4

(* Every step of every process keeps the invariant of the registration.    *)
LEMMA OnceStep ==
  ASSUME IInv, OnceInv, NoInterrupts, NoLateNotify, [Next]_vars
  PROVE  OnceInv'
<1> USE DEF rest, attr, store, history, at, Move, Wait, Post, Enter
<1>t. TypeOK
  BY DEF IInv
<1>1. CASE UNCHANGED vars
  BY <1>1 DEF OnceInv, Standing, vars, notif
<1>2. ASSUME NEW p \in Procs, Step(p) \/ Deliver(p)
      PROVE  OnceInv'
  <2>b. pc[p] \notin {"s_segv", "n_pid", "n_unsub", "n_clear"}
    BY DEF OnceInv, Standing
  <2>n. pc[p] \in {"s_nb", "s_kill"} => notification_sig # -1
    BY DEF OnceInv, Standing
  <2>q. ASSUME NEW l, goto(p, l), Quiet(p, l)
        PROVE  OnceInv'
    BY <1>t, <2>b, <2>q, QuietStep
  <2>1. CASE SendKill(p) \/ Unsubscribe(p) \/ NullEvent(p) \/ ClearSig(p)
    BY <2>1, NotifyingStep
  <2>2. CASE Send(p) /\ ~SendKill(p)
    BY <2>2, <2>n, <2>q DEF Quiet, Send, SendCall, SendTryFails, SendTry, SendWait, SendLock,
       SendInsert, TestSig, TestReaders, SendUnlock, SendReturn
  <2>3. CASE Receive(p)
    BY <2>3, <2>q DEF Quiet, Receive, ReceiveCall, ReceiveTryFails, ReceiveTry, ReceiveDec,
       CountReaders, ReceiveWait, ReceiveInc, ReceiveLock, ReceiveTake,
       ReceiveUnlock, ReceiveReturn
  <2>4. ~(NotifyNone(p) \/ NotifySignal(p) \/ NotifyPid(p) \/ NotifyNull(p))
    BY <2>b DEF NotifyNone, NotifySignal, NotifyPid, NotifyNull, NoLateNotify
  <2>5. CASE Close(p) \/ SetAttr(p) \/ Refused(p)
    BY <2>5, <2>q DEF Quiet, Close, SetAttr, Refused
  <2>6. CASE Deliver(p)
    <3>1. ~Blocked(p)
      BY <2>6 DEF Deliver, Blocked, WaitPcs, IInv, Roles, NoInterrupts, SendPcs, RecvPcs
    <3>2. goto(p, pc[p]) /\ UNCHANGED notif /\ signalled' \subseteq signalled
      BY <2>6, <3>1 DEF Deliver
    <3> QED
      BY <2>b, <2>n, <2>q, <3>2 DEF Quiet
  <2> QED
    BY <1>2, <2>1, <2>2, <2>3, <2>4, <2>5, <2>6 DEF Step, Notify
<1> QED
  BY <1>1, <1>2 DEF Next

(* The invariant of a registration made before the forks.                  *)
THEOREM RegistrationInvariance ==
  ASSUME NoInterrupts, NoLateNotify PROVE Spec => [](IInv /\ OnceInv)
<1>1. Init => OnceInv
  <2> SUFFICES ASSUME Init PROVE OnceInv
    OBVIOUS
  <2>1. \A p \in Procs : pc[p] = "idle"
    BY DEF Init
  <2>2. notification_sig # -1 => subscriber # NoPid
    BY DEF Init, SIGUSR1
  <2> QED
    BY <2>1, <2>2 DEF OnceInv, Standing, Init
<1>2. IInv /\ OnceInv /\ [Next]_vars => (IInv /\ OnceInv)'
  BY StepInv, OnceStep
<1> QED
  BY InitInv, <1>1, <1>2, PTL DEF Spec

(* A sender that reaches kill finds nobody signalled: the registration is  *)
(* used once, since lines 298-303 erase it under mutex_access.             *)
THEOREM NotifiedAtMostOnce ==
  ASSUME NoInterrupts, NoLateNotify PROVE Spec => []NotifiedOnce
<1>1. IInv /\ OnceInv => NotifiedOnce
  <2> SUFFICES ASSUME IInv, OnceInv, NEW p \in Procs, pc[p] = "s_kill"
               PROVE  signalled = {}
    BY DEF NotifiedOnce, at
  <2>1. p \in InCS /\ p \in Standing({"s_nb", "s_kill", "s_unsub", "s_clear"})
    BY DEF InCS, Standing, CSPcs
  <2>2. \A q \in Procs : pc[q] \in {"s_unsub", "s_clear"} => q \in InCS /\ q # p
    BY DEF InCS, Standing, CSPcs
  <2>3. Standing({"s_unsub", "s_clear"}) = {}
    BY <2>1, <2>2, OneInside DEF MutualExclusion, Standing
  <2> QED
    BY <2>1, <2>3 DEF OnceInv
<1> QED
  BY RegistrationInvariance, <1>1, PTL

(* mq_send never reads through the NULL event it gives to mq_notify (lines *)
(* 300 and 397): it only unsubscribes a subscriber that is there.          *)
THEOREM NeverCrashes == ASSUME NoInterrupts, NoLateNotify PROVE Spec => []NoCrash
<1>1. OnceInv => NoCrash
  BY DEF OnceInv, Standing, NoCrash
<1> QED
  BY RegistrationInvariance, <1>1, PTL
=============================================================================
