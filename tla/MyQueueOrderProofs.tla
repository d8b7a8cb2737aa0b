------------------------- MODULE MyQueueOrderProofs -------------------------
(***************************************************************************)
(* What mq_send and mq_receive promise about messages, for any number of   *)
(* processes, any capacity and any arguments: the list stays sorted, every *)
(* message sent is received at most once and never lost, and the library   *)
(* implements PrioQueue.  No process calls mq_close meanwhile: after it    *)
(* mq_send reuses slots that are still in the list.                        *)
(***************************************************************************)
EXTENDS MyQueueProofs

(* The queue is closed once every process is done with it.                 *)
NoClose == Closers = {}

(* No slot is twice in the list; the slots in use are those of the list    *)
(* from the first mq_send on, and the list is empty before.                *)
Distinct == \A i, j \in 1 .. Len(list) : list[i] = list[j] => i = j

Chained == IF init = 1 THEN used = ToSet(list) ELSE list = <<>>

(* The priority mq_send inserts is one of the arguments it was given.      *)
AskedPcs == {"s_try", "s_wait", "s_acc", "s_cs"}

Asked == \A p \in Procs : pc[p] \in AskedPcs => prio[p] \in Prios

(* The chain as the walk makes it: in decreasing priority, and the last    *)
(* inserted first among equals.                                            *)
Before(m, n) == m.prio > n.prio \/ (m.prio = n.prio /\ m.seq > n.seq)

LatestFirst ==
  \A i, j \in 1 .. Len(list) : i < j => Before(queue[list[i]], queue[list[j]])

(* The inductive invariant.  A message inserted is after all the others in *)
(* the order of its priority because its number is larger than theirs:     *)
(* sorting needs NothingLost.                                              *)
OrderInv == Distinct /\ Chained /\ Asked /\ LatestFirst /\ NothingLost

-----------------------------------------------------------------------------
(* The list and the messages change in two places of the library: lines    *)
(* 215-289 of mq_send and 363-373 of mq_receive.                           *)
LEMMA StoreFrame ==
  ASSUME NoClose, NEW p \in Procs, Step(p) \/ Deliver(p)
  PROVE  SendInsert(p) \/ ReceiveTake(p) \/ UNCHANGED <<store, history>>
<1>1. Send(p) => SendInsert(p) \/ UNCHANGED <<store, history>>
  BY DEF Send, SendCall, SendTryFails, SendTry, SendWait, SendLock, TestSig,
     TestReaders, SendKill, SendUnlock, SendReturn, Move, Wait, Post, rest
<1>2. Receive(p) => ReceiveTake(p) \/ UNCHANGED <<store, history>>
  BY DEF Receive, ReceiveCall, ReceiveTryFails, ReceiveTry, ReceiveDec, CountReaders,
     ReceiveWait, ReceiveInc, ReceiveLock, ReceiveUnlock, ReceiveReturn,
     Move, Wait, Post, rest
<1>3. Notify(p) \/ SetAttr(p) \/ Refused(p) \/ Deliver(p) => UNCHANGED <<store, history>>
  BY DEF Notify, NotifyNone, NotifySignal, NotifyPid, NotifyNull, Unsubscribe, NullEvent,
     ClearSig, SetAttr, Refused, Deliver, rest
<1>4. ~Close(p)
  BY DEF Close, Enter, NoClose
<1> QED
  BY <1>1, <1>2, <1>3, <1>4 DEF Step

(* What SendInsert does to the list: the new message, of the largest       *)
(* number, stands in a slot that was in no cell, after the messages of a   *)
(* higher priority and before the others.                                  *)
LEMMA InsertEffect ==
  ASSUME TypeOK, OrderInv, NEW p \in Procs, SendInsert(p)
  PROVE  \E slot \in Slots, k \in 1 .. Len(list) + 1 :
           /\ slot \notin ToSet(list)
           /\ slot \notin Live
           /\ Live = ToSet(list)
           /\ queue' = [queue EXCEPT ![slot] = [seq |-> nsent + 1, prio |-> prio[p]]]
           /\ IsPosition(queue', prio[p], k)
           /\ list' = InsertAt(list, k, slot)
           /\ used' = Live \cup {slot}
           /\ init' = 1 /\ nsent' = nsent + 1 /\ received' = received
<1>1. PICK slot \in Slots, k \in 1 .. Len(list) + 1 :
        /\ IsFree(slot)
        /\ queue' = [queue EXCEPT ![slot] = [seq |-> nsent + 1, prio |-> prio[p]]]
        /\ IsPosition(queue', prio[p], k)
        /\ list' = InsertAt(list, k, slot)
        /\ used' = Live \cup {slot}
  BY DEF SendInsert
<1>2. Live = ToSet(list)
  BY DEF Live, OrderInv, Chained, TypeOK, ToSet
<1> QED
  BY <1>1, <1>2 DEF IsFree, SendInsert

(* Where the cells of the list before the insertion are after it.          *)
LEMMA InsertPositions ==
  ASSUME TypeOK, NEW slot \in Slots, NEW k \in 1 .. Len(list) + 1,
         list' = InsertAt(list, k, slot)
  PROVE  /\ Len(list) \in Nat
         /\ Len(list') = Len(list) + 1
         /\ list'[k] = slot
         /\ \A i \in 1 .. Len(list') :
              \/ i = k
              \/ i < k /\ i \in 1 .. Len(list) /\ list'[i] = list[i]
              \/ i > k /\ i - 1 \in 1 .. Len(list) /\ list'[i] = list[i - 1]
<1>1. list \in Seq(Slots) /\ Len(list) \in Nat
  BY LenProperties DEF TypeOK
<1>2. /\ Len(list') = Len(list) + 1
      /\ \A i \in 1 .. Len(list) + 1 :
           list'[i] = IF i < k THEN list[i] ELSE IF i = k THEN slot ELSE list[i - 1]
  BY <1>1, InsertAtProperties
<1> QED
  BY <1>1, <1>2

(* Before orders the messages by priority, and is irreflexive: two messages *)
(* at two places of a sorted list differ.                                  *)
LEMMA BeforePriority ==
  \A m, n \in Message :
    /\ ~Before(m, m)
    /\ Before(m, n) => n.prio <= m.prio
    /\ n.prio <= m.prio /\ m.seq > n.seq => Before(m, n)
<1> SUFFICES ASSUME NEW m \in Message, NEW n \in Message
             PROVE  /\ ~Before(m, m)
                    /\ Before(m, n) => n.prio <= m.prio
                    /\ n.prio <= m.prio /\ m.seq > n.seq => Before(m, n)
  OBVIOUS
<1>1. m.prio \in Int /\ n.prio \in Int /\ m.seq \in Nat /\ n.seq \in Nat
  BY DEF Message
<1> HIDE DEF Message
<1> QED
  BY <1>1 DEF Before

(* The fields of the list after a reception: every cell moves up by one.   *)
LEMMA TakeEffect ==
  ASSUME TypeOK, NEW p \in Procs, ReceiveTake(p)
  PROVE  /\ Len(list) \in Nat \ {0} /\ Head(list) = list[1] /\ list[1] \in Slots
         /\ Len(list') = Len(list) - 1
         /\ \A i \in 1 .. Len(list') : i + 1 \in 1 .. Len(list) /\ list'[i] = list[i + 1]
         /\ queue' = queue /\ init' = init /\ nsent' = nsent
         /\ used' = used \ {list[1]}
         /\ received' = Append(received, queue[list[1]])
<1>1. list \in Seq(Slots) /\ list # <<>> /\ list' = Tail(list)
  BY DEF TypeOK, ReceiveTake
<1>2. Len(list) \in Nat \ {0} /\ Head(list) = list[1] /\ Head(list) \in Slots
  BY <1>1, EmptySeq, LenProperties
<1>3. Len(list') = Len(list) - 1 /\ \A i \in 1 .. Len(list') : list'[i] = list[i + 1]
  BY <1>1, HeadTailProperties
<1> QED
  BY <1>2, <1>3 DEF ReceiveTake, ResetLength

(* A message is inserted in a slot outside the list and taken from its     *)
(* head: no slot comes twice.                                              *)
LEMMA DistinctStep ==
  ASSUME TypeOK, OrderInv, NEW p \in Procs, SendInsert(p) \/ ReceiveTake(p)
  PROVE  Distinct'
<1>1. CASE SendInsert(p)
  <2>1. PICK slot \in Slots, k \in 1 .. Len(list) + 1 :
          slot \notin ToSet(list) /\ list' = InsertAt(list, k, slot)
    BY <1>1, InsertEffect
  <2>2. \A i \in 1 .. Len(list) : list[i] # slot
    BY <2>1, LenProperties DEF ToSet, TypeOK
  <2>3. ASSUME NEW i \in 1 .. Len(list'), NEW j \in 1 .. Len(list'), list'[i] = list'[j]
        PROVE  i = j
    <3>1. Len(list) \in Nat /\ i \in Nat /\ j \in Nat /\ list'[k] = slot
      BY <2>1, InsertPositions
    <3>2. \/ i = k
          \/ i < k /\ i \in 1 .. Len(list) /\ list'[i] = list[i]
          \/ i > k /\ i - 1 \in 1 .. Len(list) /\ list'[i] = list[i - 1]
      BY <2>1, InsertPositions
    <3>3. \/ j = k
          \/ j < k /\ j \in 1 .. Len(list) /\ list'[j] = list[j]
          \/ j > k /\ j - 1 \in 1 .. Len(list) /\ list'[j] = list[j - 1]
      BY <2>1, InsertPositions
    <3>4. \A a, b \in 1 .. Len(list) : list[a] = list[b] => a = b
      BY DEF OrderInv, Distinct
    <3> QED
      BY <2>2, <2>3, <3>1, <3>2, <3>3, <3>4
  <2> QED
    BY <2>3 DEF Distinct
<1>2. CASE ReceiveTake(p)
  <2>1. ASSUME NEW i \in 1 .. Len(list'), NEW j \in 1 .. Len(list'), list'[i] = list'[j]
        PROVE  i = j
    <3>1. list[i + 1] = list[j + 1] /\ i + 1 \in 1 .. Len(list) /\ j + 1 \in 1 .. Len(list)
      BY <1>2, <2>1, TakeEffect
    <3>2. i + 1 = j + 1
      BY <3>1 DEF OrderInv, Distinct
    <3> QED
      BY <3>2
  <2> QED
    BY <2>1 DEF Distinct
<1> QED
  BY <1>1, <1>2

(* The slots in use stay those of the list.                                *)
LEMMA ChainedStep ==
  ASSUME TypeOK, OrderInv, NEW p \in Procs, SendInsert(p) \/ ReceiveTake(p)
  PROVE  Chained'
<1>l. DOMAIN list = 1 .. Len(list) /\ Len(list) \in Nat
  BY LenProperties DEF TypeOK
<1>1. CASE SendInsert(p)
  <2>1. PICK slot \in Slots, k \in 1 .. Len(list) + 1 :
          list' = InsertAt(list, k, slot) /\ used' = ToSet(list) \cup {slot} /\ init' = 1
    BY <1>1, InsertEffect
  <2>2. DOMAIN list' = 1 .. Len(list')
    BY <2>1, InsertAtProperties, LenProperties DEF TypeOK
  <2>3. ToSet(list') \subseteq ToSet(list) \cup {slot}
    <3>1. ASSUME NEW i \in 1 .. Len(list')
          PROVE  list'[i] = slot \/ \E j \in DOMAIN list : list'[i] = list[j]
      BY <1>l, <2>1, InsertPositions
    <3> QED
      BY <2>2, <3>1 DEF ToSet
  <2>4. ToSet(list) \cup {slot} \subseteq ToSet(list')
    BY <2>1, InsertAtProperties DEF TypeOK
  <2> QED
    BY <2>1, <2>3, <2>4 DEF Chained
<1>2. CASE ReceiveTake(p)
  <2>1. init = 1 /\ used = ToSet(list) /\ init' = init /\ used' = used \ {list[1]}
    BY <1>2, TakeEffect DEF OrderInv, Chained, ReceiveTake
  <2>2. ToSet(list') = ToSet(list) \ {list[1]}
    <3>1. list' \in Seq(Slots) /\ list # <<>> /\ list' = Tail(list) /\ Head(list) = list[1]
      BY <1>2, TakeEffect, HeadTailProperties DEF ReceiveTake, TypeOK
    <3>2. ToSet(list) \ {list[1]} \subseteq ToSet(list')
      BY <3>1, ToSetTail DEF TypeOK
    <3>3. ASSUME NEW i \in DOMAIN list'
          PROVE  list'[i] \in ToSet(list) \ {list[1]}
      <4>1. i \in 1 .. Len(list')
        BY <3>1, LenProperties
      <4>2. i + 1 \in 1 .. Len(list) /\ list'[i] = list[i + 1] /\ 1 \in 1 .. Len(list)
        BY <1>2, <4>1, TakeEffect
      <4>3. list[i + 1] # list[1]
        BY <4>1, <4>2 DEF OrderInv, Distinct
      <4> QED
        BY <1>l, <4>2, <4>3 DEF ToSet
    <3> QED
      BY <3>2, <3>3 DEF ToSet
  <2> QED
    BY <2>1, <2>2 DEF Chained
<1> QED
  BY <1>1, <1>2

(* mq_send keeps its argument until it has written it.                     *)
LEMMA AskedStep ==
  ASSUME TypeOK, Asked, NEW p \in Procs, Step(p) \/ Deliver(p)
  PROVE  Asked'
<1> USE DEF goto, at, Enter, Move, Wait, Post, AskedPcs, Asked, TypeOK
<1>1. ASSUME UNCHANGED prio, NEW l, goto(p, l), l \in AskedPcs => pc[p] \in AskedPcs
      PROVE  Asked'
  BY <1>1
<1>2. CASE SendCall(p)
  BY <1>2 DEF SendCall
<1>3. CASE SendTryFails(p) \/ SendInsert(p)
  BY <1>3 DEF SendTryFails, SendInsert
<1>4. CASE SendTry(p) \/ SendWait(p) \/ SendLock(p)
  BY <1>1, <1>4 DEF SendTry, SendWait, SendLock
<1>5. CASE TestSig(p) \/ TestReaders(p) \/ SendKill(p) \/ SendUnlock(p) \/ SendReturn(p)
  BY <1>1, <1>5 DEF TestSig, TestReaders, SendKill, SendUnlock, SendReturn
<1>6. CASE Receive(p)
  BY <1>1, <1>6 DEF Receive, ReceiveCall, ReceiveTryFails, ReceiveTry, ReceiveDec,
     CountReaders, ReceiveWait, ReceiveInc, ReceiveLock, ReceiveTake,
     ReceiveUnlock, ReceiveReturn
<1>7. CASE Notify(p)
  BY <1>1, <1>7 DEF Notify, NotifyNone, NotifySignal, NotifyPid, NotifyNull,
     Unsubscribe, NullEvent, ClearSig
<1>8. CASE Close(p) \/ SetAttr(p) \/ Refused(p)
  BY <1>1, <1>8 DEF Close, SetAttr, Refused
<1>9. CASE Deliver(p)
  BY <1>1, <1>9 DEF Deliver, AfterWait, WaitPcs, Blocked
<1> QED
  BY <1>2, <1>3, <1>4, <1>5, <1>6, <1>7, <1>8, <1>9 DEF Step, Send

(* The walk of line 237 stops where the new message belongs.               *)
LEMMA SortedStep ==
  ASSUME TypeOK, OrderInv, NEW p \in Procs, SendInsert(p) \/ ReceiveTake(p)
  PROVE  LatestFirst'
<1>m. \A i \in 1 .. Len(list) : list[i] \in Slots /\ queue[list[i]] \in Message
  BY DEF TypeOK
<1>s. \A i, j \in 1 .. Len(list) : i < j => Before(queue[list[i]], queue[list[j]])
  BY DEF OrderInv, LatestFirst
<1>1. CASE SendInsert(p)
  <2>1. PICK slot \in Slots, k \in 1 .. Len(list) + 1 :
          /\ slot \notin ToSet(list)
          /\ queue' = [queue EXCEPT ![slot] = [seq |-> nsent + 1, prio |-> prio[p]]]
          /\ IsPosition(queue', prio[p], k)
          /\ list' = InsertAt(list, k, slot)
    BY <1>1, InsertEffect
  <2> DEFINE new == [seq |-> nsent + 1, prio |-> prio[p]]
  <2>2. queue'[slot] = new /\ new \in Message
    BY <2>1 DEF TypeOK, Message
  <2>3. \A i \in 1 .. Len(list) : queue'[list[i]] = queue[list[i]]
    BY <1>m, <2>1, LenProperties DEF ToSet, TypeOK
  <2>4. \A i \in 1 .. Len(list) : queue[list[i]].seq <= nsent
    BY DEF OrderInv, NothingLost, Queued
  <2>5. \A i \in 1 .. k - 1 : queue'[list[i]].prio > prio[p]
    BY <2>1 DEF IsPosition
  <2>6. k <= Len(list) => queue'[list[k]].prio <= prio[p]
    BY <2>1 DEF IsPosition
  <2>7. ASSUME NEW i \in 1 .. Len(list), i < k
        PROVE  Before(queue'[list[i]], new)
    BY <2>5, <2>7 DEF Before
  <2>8. ASSUME NEW i \in 1 .. Len(list), i >= k
        PROVE  Before(new, queue'[list[i]])
    <3>1. k \in 1 .. Len(list) /\ queue[list[k]].prio <= prio[p]
      BY <2>3, <2>6, <2>8
    <3>2. i = k \/ Before(queue[list[k]], queue[list[i]])
      BY <1>s, <2>8, <3>1
    <3>3. queue[list[i]] \in Message /\ queue[list[k]] \in Message /\ new \in Message
      BY <1>m, <2>2, <3>1
    <3>4. queue[list[i]].prio <= prio[p]
      <4>1. /\ queue[list[i]].prio \in Int /\ queue[list[k]].prio \in Int
            /\ prio[p] \in Int
        BY <3>3 DEF Message, TypeOK
      <4>2. queue[list[i]].prio <= queue[list[k]].prio
        BY <3>2, <3>3, <4>1, BeforePriority
      <4> QED
        BY <3>1, <4>1, <4>2
    <3>5. new.prio = prio[p] /\ new.seq > queue[list[i]].seq
      <4>1. nsent \in Nat /\ queue[list[i]].seq \in Nat
        BY <3>3 DEF Message, TypeOK
      <4> QED
        BY <2>4, <4>1
    <3> QED
      BY <2>3, <3>3, <3>4, <3>5, BeforePriority
  <2>9. ASSUME NEW i \in 1 .. Len(list'), NEW j \in 1 .. Len(list'), i < j
        PROVE  Before(queue'[list'[i]], queue'[list'[j]])
    <3>1. Len(list) \in Nat /\ k \in Nat /\ list'[k] = slot
      BY <2>1, InsertPositions
    <3>2. \/ i = k
          \/ i < k /\ i \in 1 .. Len(list) /\ list'[i] = list[i]
          \/ i > k /\ i - 1 \in 1 .. Len(list) /\ list'[i] = list[i - 1]
      BY <2>1, InsertPositions
    <3>3. \/ j = k
          \/ j < k /\ j \in 1 .. Len(list) /\ list'[j] = list[j]
          \/ j > k /\ j - 1 \in 1 .. Len(list) /\ list'[j] = list[j - 1]
      BY <2>1, InsertPositions
    <3>4. CASE i = k
      <4>1. list'[j] = list[j - 1] /\ j - 1 \in 1 .. Len(list) /\ j - 1 >= k
        BY <2>9, <3>1, <3>3, <3>4
      <4> QED
        BY <2>2, <2>8, <3>1, <3>4, <4>1
    <3>5. CASE j = k
      <4>1. list'[i] = list[i] /\ i \in 1 .. Len(list) /\ i < k
        BY <2>9, <3>1, <3>2, <3>5
      <4> QED
        BY <2>2, <2>7, <3>1, <3>5, <4>1
    <3>6. CASE i # k /\ j # k
      <4>1. PICK a \in 1 .. Len(list), b \in 1 .. Len(list) :
              a < b /\ list'[i] = list[a] /\ list'[j] = list[b]
        <5>1. CASE i < k /\ j < k
          BY <2>9, <3>1, <3>2, <3>3, <5>1
        <5>2. CASE i < k /\ j > k
          <6>1. i < j - 1 /\ j - 1 \in 1 .. Len(list) /\ list'[j] = list[j - 1]
            BY <3>1, <3>3, <5>2
          <6>2. i \in 1 .. Len(list) /\ list'[i] = list[i]
            BY <3>1, <3>2, <5>2
          <6> QED
            BY <6>1, <6>2
        <5>3. CASE i > k
          <6>1. j > k /\ i - 1 < j - 1
            BY <2>9, <3>1, <5>3
          <6>2. j - 1 \in 1 .. Len(list) /\ list'[j] = list[j - 1]
            BY <3>1, <3>3, <6>1
          <6>3. i - 1 \in 1 .. Len(list) /\ list'[i] = list[i - 1]
            BY <3>1, <3>2, <5>3
          <6> QED
            BY <6>1, <6>2, <6>3
        <5> QED
          BY <3>1, <3>6, <5>1, <5>2, <5>3
      <4> QED
        BY <1>s, <2>3, <4>1
    <3> QED
      BY <3>4, <3>5, <3>6
  <2> QED
    BY <2>9 DEF LatestFirst
<1>2. CASE ReceiveTake(p)
  <2>1. ASSUME NEW i \in 1 .. Len(list'), NEW j \in 1 .. Len(list'), i < j
        PROVE  Before(queue'[list'[i]], queue'[list'[j]])
    <3>1. /\ i + 1 \in 1 .. Len(list) /\ list'[i] = list[i + 1]
          /\ j + 1 \in 1 .. Len(list) /\ list'[j] = list[j + 1] /\ queue' = queue
      BY <1>2, TakeEffect
    <3> QED
      BY <1>s, <2>1, <3>1
  <2> QED
    BY <2>1 DEF LatestFirst
<1> QED
  BY <1>1, <1>2

(* mq_send adds one message, numbered after all the others.                *)
LEMMA QueuedInsert ==
  ASSUME TypeOK, OrderInv, NEW p \in Procs, SendInsert(p)
  PROVE  Queued' = Queued \cup {[seq |-> nsent + 1, prio |-> prio[p]]}
<1> DEFINE new == [seq |-> nsent + 1, prio |-> prio[p]]
<1>1. PICK slot \in Slots, k \in 1 .. Len(list) + 1 :
        /\ slot \notin ToSet(list)
        /\ queue' = [queue EXCEPT ![slot] = new]
        /\ list' = InsertAt(list, k, slot)
  BY InsertEffect
<1>2. queue'[slot] = new
  BY <1>1 DEF TypeOK
<1>3. \A i \in 1 .. Len(list) : queue'[list[i]] = queue[list[i]]
  BY <1>1, LenProperties DEF ToSet, TypeOK
<1> HIDE DEF new
<1>4. ASSUME NEW i \in 1 .. Len(list')
      PROVE  queue'[list'[i]] \in Queued \cup {new}
  <2>1. list'[i] = slot \/ \E j \in 1 .. Len(list) : list'[i] = list[j]
    BY <1>1, InsertPositions
  <2> QED
    BY <1>2, <1>3, <2>1 DEF Queued
<1>5. ASSUME NEW j \in 1 .. Len(list)
      PROVE  \E i \in 1 .. Len(list') : list'[i] = list[j]
  <2>1. /\ Len(list) \in Nat /\ Len(list') = Len(list) + 1
        /\ \A i \in 1 .. Len(list) + 1 :
             list'[i] = IF i < k THEN list[i] ELSE IF i = k THEN slot ELSE list[i - 1]
    BY <1>1, InsertAtProperties, LenProperties DEF TypeOK
  <2>2. CASE j < k
    <3>1. j \in 1 .. Len(list') /\ list'[j] = list[j]
      BY <2>1, <2>2
    <3> QED
      BY <3>1
  <2>3. CASE j >= k
    <3>1. j + 1 \in 1 .. Len(list) + 1 /\ (j + 1) - 1 = j /\ ~(j + 1 < k) /\ j + 1 # k
      BY <2>1, <2>3
    <3>2. j + 1 \in 1 .. Len(list') /\ list'[j + 1] = list[j]
      BY <2>1, <3>1
    <3> QED
      BY <3>2
  <2> QED
    BY <2>1, <2>2, <2>3
<1>6. \E i \in 1 .. Len(list') : list'[i] = slot
  BY <1>1, InsertPositions
<1>7. Queued' = {queue'[list'[i]] : i \in 1 .. Len(list')}
  BY DEF Queued
<1>8. Queued \cup {new} \subseteq {queue'[list'[i]] : i \in 1 .. Len(list')}
  <2>1. ASSUME NEW j \in 1 .. Len(list)
        PROVE  \E i \in 1 .. Len(list') : queue'[list'[i]] = queue[list[j]]
    BY <1>3, <1>5
  <2>2. \E i \in 1 .. Len(list') : queue'[list'[i]] = new
    BY <1>2, <1>6
  <2> QED
    BY <2>1, <2>2 DEF Queued
<1> QED
  BY <1>4, <1>7, <1>8 DEF new

(* mq_receive takes one message of the highest priority and no other.      *)
LEMMA QueuedTake ==
  ASSUME TypeOK, OrderInv, NEW p \in Procs, ReceiveTake(p)
  PROVE  /\ queue[list[1]] \in Queued
         /\ \A other \in Queued : other.prio <= queue[list[1]].prio
         /\ Queued' = Queued \ {queue[list[1]]}
         /\ received' = Append(received, queue[list[1]])
<1>t. /\ Len(list) \in Nat \ {0} /\ Len(list') = Len(list) - 1
      /\ \A i \in 1 .. Len(list') : i + 1 \in 1 .. Len(list) /\ list'[i] = list[i + 1]
      /\ queue' = queue /\ received' = Append(received, queue[list[1]])
  BY TakeEffect
<1>m. \A i \in 1 .. Len(list) : queue[list[i]] \in Message
  BY DEF TypeOK
<1>1. 1 \in 1 .. Len(list)
  BY <1>t
<1>2. ASSUME NEW i \in 1 .. Len(list), i # 1
      PROVE  Before(queue[list[1]], queue[list[i]])
  BY <1>1, <1>2 DEF OrderInv, LatestFirst
<1>3. \A i \in 1 .. Len(list) : queue[list[i]].prio <= queue[list[1]].prio
  <2> SUFFICES ASSUME NEW i \in 1 .. Len(list)
               PROVE  queue[list[i]].prio <= queue[list[1]].prio
    OBVIOUS
  <2>1. queue[list[1]].prio \in Int
    BY <1>m, <1>1 DEF Message
  <2>2. CASE i = 1
    BY <2>1, <2>2
  <2>3. CASE i # 1
    BY <1>1, <1>2, <1>m, <2>3, BeforePriority
  <2> QED
    BY <2>2, <2>3
<1>4. \A i \in 1 .. Len(list) : i # 1 => queue[list[i]] # queue[list[1]]
  BY <1>1, <1>2, <1>m, BeforePriority
<1>5. ASSUME NEW i \in 1 .. Len(list), i # 1
      PROVE  i - 1 \in 1 .. Len(list') /\ list'[i - 1] = list[i]
  <2>1. i - 1 \in 1 .. Len(list') /\ (i - 1) + 1 = i
    BY <1>t, <1>5
  <2> QED
    BY <1>t, <2>1
<1>6. ASSUME NEW j \in 1 .. Len(list')
      PROVE  queue'[list'[j]] \in Queued \ {queue[list[1]]}
  <2>1. j + 1 \in 1 .. Len(list) /\ j + 1 # 1 /\ list'[j] = list[j + 1] /\ queue' = queue
    BY <1>t
  <2> QED
    BY <1>4, <2>1 DEF Queued
<1>7. ASSUME NEW i \in 1 .. Len(list), queue[list[i]] # queue[list[1]]
      PROVE  \E j \in 1 .. Len(list') : queue'[list'[j]] = queue[list[i]]
  <2>1. i # 1
    BY <1>7
  <2> QED
    BY <1>5, <1>t, <2>1
<1>8. Queued' = {queue'[list'[j]] : j \in 1 .. Len(list')}
  BY DEF Queued
<1>9. Queued' = Queued \ {queue[list[1]]}
  BY <1>6, <1>7, <1>8 DEF Queued
<1> QED
  BY <1>1, <1>3, <1>9, <1>t DEF Queued

(* Appending to a sequence adds one element to its set of elements.        *)
LEMMA ToSetAppend ==
  ASSUME NEW S, NEW q \in Seq(S), NEW e \in S
  PROVE  ToSet(Append(q, e)) = ToSet(q) \cup {e}
<1>1. /\ DOMAIN q = 1 .. Len(q) /\ Len(q) \in Nat
      /\ Len(Append(q, e)) = Len(q) + 1 /\ Append(q, e) \in Seq(S)
      /\ \A i \in 1 .. Len(q) : Append(q, e)[i] = q[i]
      /\ Append(q, e)[Len(q) + 1] = e
  BY LenProperties, AppendProperties
<1>2. DOMAIN Append(q, e) = 1 .. Len(q) + 1
  BY <1>1, LenProperties
<1>3. ASSUME NEW x \in ToSet(Append(q, e)) PROVE x \in ToSet(q) \cup {e}
  <2>1. PICK i \in 1 .. Len(q) + 1 : x = Append(q, e)[i]
    BY <1>2 DEF ToSet
  <2>2. i \in 1 .. Len(q) \/ i = Len(q) + 1
    BY <1>1
  <2> QED
    BY <1>1, <2>1, <2>2 DEF ToSet
<1>4. ASSUME NEW x \in ToSet(q) \cup {e} PROVE x \in ToSet(Append(q, e))
  <2>1. Len(q) + 1 \in 1 .. Len(q) + 1 /\ \A i \in 1 .. Len(q) : i \in 1 .. Len(q) + 1
    BY <1>1
  <2>2. CASE x = e
    BY <1>1, <1>2, <2>1, <2>2 DEF ToSet
  <2>3. ASSUME NEW i \in 1 .. Len(q), x = q[i] PROVE x \in ToSet(Append(q, e))
    BY <1>1, <1>2, <2>1, <2>3 DEF ToSet
  <2> QED
    BY <1>1, <1>4, <2>2, <2>3 DEF ToSet
<1> QED
  BY <1>3, <1>4

(* No message is lost and none comes twice: the counts and the numbers.    *)
LEMMA LostStep ==
  ASSUME TypeOK, OrderInv, NEW p \in Procs, SendInsert(p) \/ ReceiveTake(p)
  PROVE  NothingLost'
<1>t. /\ Len(list) \in Nat /\ nsent \in Nat /\ received \in Seq(Message)
      /\ Len(received) \in Nat
  BY LenProperties DEF TypeOK
<1>n. /\ {m.seq : m \in Queued \cup ToSet(received)} = 1 .. nsent
      /\ Len(list) + Len(received) = nsent
  BY DEF OrderInv, NothingLost
<1>1. CASE SendInsert(p)
  <2> DEFINE new == [seq |-> nsent + 1, prio |-> prio[p]]
  <2>1. Queued' = Queued \cup {new} /\ received' = received /\ nsent' = nsent + 1
    BY <1>1, QueuedInsert DEF SendInsert
  <2>2. Len(list') = Len(list) + 1
    BY <1>1, InsertEffect, InsertPositions
  <2>3. new.seq = nsent + 1
    OBVIOUS
  <2> HIDE DEF new
  <2>4. (Queued \cup ToSet(received))' = Queued \cup ToSet(received) \cup {new}
    BY <2>1
  <2>5. {m.seq : m \in Queued \cup ToSet(received) \cup {new}} = 1 .. nsent \cup {nsent + 1}
    BY <1>n, <2>3
  <2>6. 1 .. nsent \cup {nsent + 1} = 1 .. nsent + 1
    BY <1>t
  <2>7. {m.seq : m \in (Queued \cup ToSet(received))'} = 1 .. nsent'
    BY <2>1, <2>4, <2>5, <2>6
  <2> QED
    BY <1>t, <1>n, <2>1, <2>2, <2>7 DEF NothingLost
<1>2. CASE ReceiveTake(p)
  <2> DEFINE h == queue[list[1]]
  <2>1. /\ h \in Queued /\ Queued' = Queued \ {h} /\ received' = Append(received, h)
        /\ nsent' = nsent
    BY <1>2, QueuedTake DEF ReceiveTake
  <2>2. h \in Message /\ Len(list') = Len(list) - 1
    BY <1>2, TakeEffect DEF TypeOK
  <2> HIDE DEF h
  <2>3. ToSet(received') = ToSet(received) \cup {h} /\ Len(received') = Len(received) + 1
    BY <1>t, <2>1, <2>2, ToSetAppend, AppendProperties
  <2>4. Queued' \cup ToSet(received') = Queued \cup ToSet(received)
    BY <2>1, <2>3
  <2> QED
    BY <1>t, <1>n, <2>1, <2>2, <2>3, <2>4 DEF NothingLost
<1> QED
  BY <1>1, <1>2

(* After mq_open the queue holds nothing.                                  *)
LEMMA OrderInit == Init => OrderInv
<1> SUFFICES ASSUME Init PROVE OrderInv
  OBVIOUS
<1>1. list = <<>> /\ Len(list) = 0 /\ received = <<>> /\ Len(received) = 0 /\ nsent = 0
  BY DEF Init
<1>2. 1 .. Len(list) = {}
  BY <1>1
<1>3. Distinct /\ LatestFirst
  BY <1>2 DEF Distinct, LatestFirst
<1>4. Chained /\ Asked
  BY DEF Init, Chained, Asked, AskedPcs
<1>5. NothingLost
  <2>1. Queued = {} /\ ToSet(received) = {} /\ 1 .. nsent = {}
    BY <1>1, <1>2 DEF Queued, ToSet
  <2> QED
    BY <1>1, <2>1 DEF NothingLost
<1> QED
  BY <1>3, <1>4, <1>5 DEF OrderInv

(* Every step of every process keeps the order and the messages.           *)
LEMMA OrderStep ==
  ASSUME TypeOK, OrderInv, NoClose, [Next]_vars
  PROVE  OrderInv'
<1>1. ASSUME UNCHANGED <<store, history>>
      PROVE  (Distinct /\ Chained /\ LatestFirst /\ NothingLost)'
  <2>1. queue' = queue /\ used' = used /\ list' = list /\ init' = init
        /\ nsent' = nsent /\ received' = received
    BY <1>1 DEF store, history
  <2> QED
    BY <2>1 DEF OrderInv, Distinct, Chained, LatestFirst, NothingLost, Queued, ToSet
<1>2. CASE UNCHANGED vars
  BY <1>1, <1>2 DEF OrderInv, Asked, vars, rest
<1>3. ASSUME NEW p \in Procs, Step(p) \/ Deliver(p)
      PROVE  OrderInv'
  <2>1. Asked'
    BY <1>3, AskedStep DEF OrderInv
  <2>2. CASE SendInsert(p) \/ ReceiveTake(p)
    BY <2>1, <2>2, DistinctStep, ChainedStep, SortedStep, LostStep DEF OrderInv
  <2>3. CASE UNCHANGED <<store, history>>
    BY <1>1, <2>1, <2>3 DEF OrderInv
  <2> QED
    BY <1>3, <2>2, <2>3, StoreFrame
<1> QED
  BY <1>2, <1>3 DEF Next

(* The invariant of a queue that is not closed while it is used.           *)
THEOREM OrderInvariance ==
  ASSUME NoInterrupts, NoClose PROVE Spec => [](IInv /\ OrderInv)
<1>1. IInv /\ OrderInv /\ [Next]_vars => (IInv /\ OrderInv)'
  BY StepInv, OrderStep DEF IInv
<1> QED
  BY InitInv, OrderInit, <1>1, PTL DEF Spec

(* The chain from shm->ind never goes up in priority (the walk and the     *)
(* four branches of lines 231-289), whoever sends and receives.            *)
THEOREM AlwaysSorted == ASSUME NoInterrupts, NoClose PROVE Spec => []ListSorted
<1>1. TypeOK /\ LatestFirst => ListSorted
  <2> SUFFICES ASSUME TypeOK, LatestFirst, NEW i \in 1 .. Len(list), NEW j \in 1 .. Len(list), i < j
               PROVE  queue[list[i]].prio >= queue[list[j]].prio
    BY DEF ListSorted
  <2>1. Before(queue[list[i]], queue[list[j]])
    BY DEF LatestFirst
  <2>2. queue[list[i]].prio \in Int /\ queue[list[j]].prio \in Int
    BY DEF TypeOK, Message
  <2> QED
    BY <2>1, <2>2 DEF Before
<1>2. IInv /\ OrderInv => ListSorted
  BY <1>1 DEF IInv, OrderInv
<1> QED
  BY <1>2, OrderInvariance, PTL

(* Every message sent is either in the queue or was received, once: slots  *)
(* are reused (lines 215-231, 370) without a message being overwritten.    *)
THEOREM NoMessageLost == ASSUME NoInterrupts, NoClose PROVE Spec => []NothingLost
  BY OrderInvariance, PTL DEF OrderInv

-----------------------------------------------------------------------------
(* The queue as a PrioQueue.                                               *)

(* The messages of a sorted list are as many as its cells.                 *)
LEMMA QueuedCardinality ==
  ASSUME TypeOK, LatestFirst
  PROVE  IsFiniteSet(Queued) /\ Cardinality(Queued) = Len(list)
<1> DEFINE f == [i \in 1 .. Len(list) |-> queue[list[i]]]
<1>0. Len(list) \in Nat
  BY LenProperties DEF TypeOK
<1>1. IsFiniteSet(1 .. Len(list)) /\ Cardinality(1 .. Len(list)) = Len(list)
  <2>1. \A n \in Nat : IsFiniteSet(1 .. n) /\ Cardinality(1 .. n) = n
    BY FS_Interval
  <2> QED
    BY <1>0, <2>1
<1>2. f \in [1 .. Len(list) -> Queued] /\ \A m \in Queued : \E i \in 1 .. Len(list) : f[i] = m
  BY DEF Queued
<1>3. ASSUME NEW i \in 1 .. Len(list), NEW j \in 1 .. Len(list), f[i] = f[j]
      PROVE  i = j
  <2>1. queue[list[i]] \in Message /\ queue[list[j]] \in Message
    BY DEF TypeOK
  <2>2. ~Before(queue[list[i]], queue[list[j]]) /\ ~Before(queue[list[j]], queue[list[i]])
    BY <1>3, <2>1, BeforePriority
  <2>3. ~(i < j) /\ ~(j < i)
    BY <2>2 DEF LatestFirst
  <2> QED
    BY <1>0, <2>3
<1> HIDE DEF f
<1>4. f \in Surjection(1 .. Len(list), Queued) /\ f \in Injection(1 .. Len(list), Queued)
  BY <1>2, <1>3 DEF Surjection, Injection, IsInjective
<1> QED
  BY <1>1, <1>4, FS_Surjection

(* A sender that is about to insert has a place: the list is shorter than  *)
(* the queue, by the account of mutex_write.                               *)
LEMMA PlaceHeld ==
  ASSUME TypeOK, Tokens, NEW p \in Procs, pc[p] = "s_cs"
  PROVE  Len(list) < MAX_MSG
<1>1. \A S : IsFiniteSet(Standing(S)) /\ Cardinality(Standing(S)) \in Nat
  BY ProcsAssumption, FS_Subset, FS_CardinalityType DEF Standing
<1>2. Cardinality(HoldWrite) \in Nat \ {0} /\ Cardinality(Removed) \in Nat
  <2>1. p \in HoldWrite
    BY DEF HoldWrite, HoldWritePcs, Standing
  <2> QED
    BY <1>1, <2>1, FS_EmptySet DEF HoldWrite, Removed
<1>3. PICK w \in Nat : w = sem["mutex_write"]
  BY DEF TypeOK, SemNames
<1>4. w + Cardinality(HoldWrite) + Len(list) + Cardinality(Removed) = MAX_MSG
  BY <1>3 DEF Tokens, WriteTokens
<1>5. Len(list) \in Nat
  BY LenProperties DEF TypeOK
<1> QED
  BY <1>2, <1>4, <1>5, MaxMsgAssumption

(* Each step of the library is a Send, a Receive or a stutter of PrioQueue. *)
LEMMA PrioQueueStep ==
  ASSUME IInv, OrderInv, NoClose, [Next]_vars
  PROVE  [Abstract!Next]_(Abstract!vars)
<1>t. TypeOK /\ Tokens /\ LatestFirst
  BY DEF IInv, OrderInv
<1>1. ASSUME NEW p \in Procs, SendInsert(p)
      PROVE  Abstract!Send
  <2>1. Queued' = Queued \cup {[seq |-> nsent + 1, prio |-> prio[p]]} /\ received' = received
    BY <1>1, <1>t, QueuedInsert DEF SendInsert
  <2>2. Cardinality(Queued) = Len(list) /\ Len(list) < MAX_MSG
    BY <1>1, <1>t, QueuedCardinality, PlaceHeld DEF SendInsert, at
  <2>3. Cardinality(Queued) + Len(received) + 1 = nsent + 1
    BY <2>2 DEF OrderInv, NothingLost
  <2>4. prio[p] \in Prios
    BY <1>1 DEF SendInsert, at, OrderInv, Asked, AskedPcs
  <2>5. Queued' = Queued \cup {[seq |-> Cardinality(Queued) + Len(received) + 1,
                                prio |-> prio[p]]}
    BY <2>1, <2>3
  <2> QED
    BY <2>1, <2>2, <2>4, <2>5 DEF Abstract!Send, Abstract!Cardinality, Abstract!IsFiniteSet,
       Cardinality, IsFiniteSet
<1>2. ASSUME NEW p \in Procs, ReceiveTake(p)
      PROVE  Abstract!Receive
  BY <1>2, <1>t, QueuedTake DEF Abstract!Receive
<1>3. ASSUME UNCHANGED <<store, history>>
      PROVE  UNCHANGED Abstract!vars
  BY <1>3 DEF Abstract!vars, store, history, Queued
<1>4. CASE UNCHANGED vars
  BY <1>3, <1>4 DEF vars, rest
<1>5. CASE Next
  BY <1>1, <1>2, <1>3, <1>5, StoreFrame DEF Next, Abstract!Next
<1> QED
  BY <1>4, <1>5

(* The library implements the abstract queue: a bounded bag of messages    *)
(* whose receptions take one of the highest priority.  Lines 215-289 are   *)
(* its Send, lines 363-373 its Receive.                                    *)
THEOREM ImplementsPrioQueue == ASSUME NoInterrupts, NoClose PROVE Spec => PrioQueueSpec
<1>1. Init => Abstract!Init
  <2> SUFFICES ASSUME Init PROVE Abstract!Init
    OBVIOUS
  <2>1. 1 .. Len(list) = {} /\ received = <<>>
    BY DEF Init
  <2> QED
    BY <2>1 DEF Abstract!Init, Queued
<1>2. IInv /\ OrderInv /\ [Next]_vars => [Abstract!Next]_(Abstract!vars)
  BY PrioQueueStep
<1> QED
  BY OrderInvariance, <1>1, <1>2, PTL DEF Spec, PrioQueueSpec, Abstract!Spec
=============================================================================
