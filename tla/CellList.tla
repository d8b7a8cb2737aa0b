------------------------------ MODULE CellList ------------------------------
(***************************************************************************)
(* The list of a message queue as src/myqueue.c of TME10-11 stores it: the *)
(* messages in the slots of mq.queue, and the order of the messages in the *)
(* array cl_mq of cells, chained by the field next from shm->ind on.  This *)
(* is what mq_send and mq_receive do while they hold mutex_access.         *)
(* Module MyQueue, which interleaves the processes, sees the chain as a    *)
(* sequence of slots; SequenceSteps states that it may.                    *)
(*                                                                         *)
(* A message is a sequence of bytes and strings end with NUL, since the    *)
(* code copies a message in with strncpy and out with strcpy.              *)
(***************************************************************************)
EXTENDS Integers, Sequences, FiniteSets, SequencesExt

CONSTANTS
  MAX_MSG,       \* number of slots and of cells
  MAX_SIZ_MSG,   \* bytes of the field data
  Prios,         \* priorities of the messages
  Payloads,      \* the messages sent: the len first bytes of s
  NUL,           \* the byte that ends a string
  Garbage        \* what strcpy copies from beyond the field data

Cells == 0 .. MAX_MSG - 1
Slots == 0 .. MAX_MSG - 1

ASSUME SizeAssumption == MAX_MSG \in Nat \ {0} /\ MAX_SIZ_MSG \in Nat \ {0}
ASSUME PriosAssumption == Prios \subseteq 0 .. 32
ASSUME PayloadsAssumption == \A m \in Payloads : m \in Seq(ToSet(m)) /\ Len(m) <= MAX_SIZ_MSG

VARIABLES
  ind,                  \* shm->ind: the first cell, or -1
  next,                 \* cl_mq[].next: a cell, -1 at the end, -2 when free
  mq_msg,               \* cl_mq[].mq_msg: the slot a cell points to
  length, prio, data,   \* the fields of mq.queue[]
  init,                 \* shm->init
  sent,                 \* history: the message mq_send put into each slot
  taken,                \* history: what the last mq_receive took and gave
  closed                \* history: a process has called mq_close

cells == <<ind, next, mq_msg>>
slots == <<length, prio, data>>
vars == <<cells, slots, init, sent, taken, closed>>

Zero == [b \in 1 .. MAX_SIZ_MSG |-> NUL]

(* mq_open just created the segment, whose bytes are zero.                 *)
Init ==
  /\ ind = -1
  /\ next = [c \in Cells |-> -2]
  /\ mq_msg = [c \in Cells |-> 0]
  /\ length = [s \in Slots |-> 0]
  /\ prio = [s \in Slots |-> 0]
  /\ data = [s \in Slots |-> Zero]
  /\ init = 0
  /\ sent = [s \in Slots |-> <<>>]
  /\ taken = [message |-> <<>>, buff |-> <<>>]
  /\ closed = FALSE

(* The cells met from shm->ind on; MAX_MSG cells if the chain has a loop.  *)
Chain ==
  LET cell[n \in 1 .. MAX_MSG] ==
        IF n = 1 THEN ind
        ELSE LET previous == cell[n - 1] IN IF previous \in Cells THEN next[previous] ELSE -1
  IN  [n \in 1 .. Cardinality({n \in 1 .. MAX_MSG : cell[n] \in Cells}) |-> cell[n]]

(* Mistake: the len bytes are copied without the last one.                 *)
StrncpyWithoutLast(s, m) ==
  [b \in 1 .. MAX_SIZ_MSG |-> IF b >= Len(m) THEN data[s][b] ELSE m[b]]

(* strncpy stops at the NUL of the message and pads with NUL.              *)
Strncpy(s, m) ==
  LET ends == {b \in 1 .. Len(m) : m[b] = NUL}
  IN  [b \in 1 .. MAX_SIZ_MSG |->
         IF b > Len(m) THEN data[s][b]
         ELSE IF \E e \in ends : e <= b THEN NUL ELSE m[b]]

(* strcpy copies up to the first NUL of the field, or beyond the field.    *)
Strcpy(field) ==
  LET ends == {b \in 1 .. MAX_SIZ_MSG : field[b] = NUL}
  IN  IF ends = {} THEN Append(field, Garbage)
      ELSE SubSeq(field, 1, Min(ends))

ResetLengths == IF init = 0 THEN [s \in Slots |-> -1] ELSE length

FreeSlot(lengths) ==
  {s \in Slots : lengths[s] = -1 /\ \A t \in Slots : t < s => lengths[t] # -1}

FreeCell == {c \in Cells : next[c] = -2 /\ \A d \in Cells : d < c => next[d] # -2}

(* Where the walk of mq_send for priority x stops: at the k-th cell.       *)
Stops(priorities, x, k) ==
  /\ \A j \in 1 .. k - 1 : priorities[mq_msg[Chain[j]]] > x
  /\ priorities[mq_msg[Chain[k]]] <= x \/ k = Len(Chain)

InsertFirst(slot) ==
  /\ ind = -1
  /\ ind' = 0
  /\ next' = [next EXCEPT ![0] = -1]
  /\ mq_msg' = [mq_msg EXCEPT ![0] = slot]

(* Mistake: the predecessor keeps its successor.                           *)
InsertBeforeUnlinked(slot, i, k) ==
  /\ ind' = IF k = 1 THEN i ELSE ind
  /\ next' = [next EXCEPT ![i] = Chain[k]]
  /\ mq_msg' = [mq_msg EXCEPT ![i] = slot]

(* The new cell i goes before the k-th cell of the chain.                  *)
InsertBefore(slot, i, k) ==
  /\ ind' = IF k = 1 THEN i ELSE ind
  /\ next' = [c \in Cells |-> IF c = i THEN Chain[k]
                              ELSE IF k > 1 /\ c = Chain[k - 1] THEN i ELSE next[c]]
  /\ mq_msg' = [mq_msg EXCEPT ![i] = slot]

(* The new cell i goes after the k-th cell, the last one.                  *)
InsertAfter(slot, i, k) ==
  /\ next' = [next EXCEPT ![i] = -1, ![Chain[k]] = i]
  /\ mq_msg' = [mq_msg EXCEPT ![i] = slot]
  /\ UNCHANGED ind

InsertNext(slot, priorities, x) ==
  /\ ind # -1
  /\ \E i \in FreeCell, k \in 1 .. Len(Chain) :
       /\ Stops(priorities, x, k)
       /\ IF priorities[mq_msg[Chain[k]]] <= x
            THEN InsertBefore(slot, i, k)
            ELSE InsertAfter(slot, i, k)

(* mq_send: mutex_write has let the caller in, so the chain is not full    *)
(* (WriteTokens in MyQueue).                                               *)
Send ==
  /\ Len(Chain) < MAX_MSG
  /\ \E slot \in FreeSlot(ResetLengths), m \in Payloads, x \in Prios :
       /\ prio' = [prio EXCEPT ![slot] = x]
       /\ length' = [ResetLengths EXCEPT ![slot] = Len(m)]
       /\ data' = [data EXCEPT ![slot] = Strncpy(slot, m)]
       /\ InsertFirst(slot) \/ InsertNext(slot, prio', x)
       /\ sent' = [sent EXCEPT ![slot] = m]
  /\ init' = 1
  /\ UNCHANGED <<taken, closed>>

(* Mistake: the cell is not given back.                                    *)
KeepCell(c) == UNCHANGED next

FreeTheCell(c) == next' = [next EXCEPT ![c] = -2]

Successor(c) == next[c]

(* mq_receive: mutex_read has let the caller in, so there is a message     *)
(* (ReadTokens in MyQueue).                                                *)
Receive ==
  /\ ind # -1
  /\ LET slot == mq_msg[ind] IN
       /\ length' = [length EXCEPT ![slot] = -1]
       /\ taken' = [message |-> sent[slot], buff |-> Strcpy(data[slot])]
  /\ FreeTheCell(ind)
  /\ ind' = Successor(ind)
  /\ UNCHANGED <<mq_msg, prio, data, init, sent, closed>>

(* mq_close, whoever calls it: the lengths will be reset, the chain stays. *)
Close ==
  /\ init' = 0
  /\ closed' = TRUE
  /\ UNCHANGED <<cells, slots, sent, taken>>

Next == Send \/ Receive \/ Close

Spec == Init /\ [][Next]_vars

-----------------------------------------------------------------------------
(***************************************************************************)
(* Properties                                                              *)
(***************************************************************************)
(* The free cells are exactly those that cannot be reached from shm->ind,  *)
(* and the chain passes no cell twice: mq_send finds a cell (the searches  *)
(* of lines 250, 272 and 282 have no bound) and every walk ends.  Until a  *)
(* mq_close, each slot in use has exactly one cell that points to it.      *)
CellsPartition ==
  /\ {c \in Cells : next[c] = -2} = Cells \ ToSet(Chain)
  /\ Cardinality(ToSet(Chain)) = Len(Chain)
  /\ init = 1 /\ ~closed =>
       /\ {mq_msg[c] : c \in ToSet(Chain)} = {s \in Slots : length[s] # -1}
       /\ \A c, d \in ToSet(Chain) : mq_msg[c] = mq_msg[d] => c = d

(* What MyQueue calls list: each step that changes the cells either puts   *)
(* a slot of length -1 into the sequence, before the first message of at   *)
(* most its priority, or takes the head and frees its slot.                *)
List == [k \in 1 .. Len(Chain) |-> mq_msg[Chain[k]]]

Puts ==
  \E slot \in Slots, k \in 1 .. Len(List) + 1 :
    /\ init = 1 => length[slot] = -1
    /\ \A j \in 1 .. k - 1 : prio'[List[j]] > prio'[slot]
    /\ k <= Len(List) => prio'[List[k]] <= prio'[slot]
    /\ List' = InsertAt(List, k, slot)

Takes ==
  /\ List # <<>>
  /\ List' = Tail(List)
  /\ length'[Head(List)] = -1

SequenceSteps == [][Puts \/ Takes]_cells

(* A message that is a string with its NUL comes out as it went in, even   *)
(* when its slot held a longer one before (strncpy and strcpy of lines 222 *)
(* and 370).  A message without NUL does not: what follows it in the field *)
(* comes out with it.                                                      *)
StringsReturned == ~closed => taken.buff = taken.message
=============================================================================
