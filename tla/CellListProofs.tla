--------------------------- MODULE CellListProofs ---------------------------
(***************************************************************************)
(* The chained cells of a message queue for any number of slots, any       *)
(* priorities and any messages: the chain that starts at shm->ind never    *)
(* loops and passes exactly the cells in use, mq_send and mq_receive do to *)
(* it what MyQueue does to a sequence, and a string comes out as it went   *)
(* in.                                                                     *)
(***************************************************************************)
EXTENDS CellList, FiniteSetTheorems, SequenceTheorems, WellFoundedInduction, TLAPS

(* The sequence s is the chain from shm->ind on: it passes no cell twice,  *)
(* ends with -1, and the cells it does not pass are free.                  *)
Linked(s) ==
  /\ s \in Seq(Cells) /\ Len(s) <= MAX_MSG
  /\ \A j, k \in 1 .. Len(s) : s[j] = s[k] => j = k
  /\ s = <<>> => ind = -1
  /\ s # <<>> => ind = s[1]
  /\ \A k \in 1 .. Len(s) : next[s[k]] = IF k = Len(s) THEN -1 ELSE s[k + 1]
  /\ \A c \in Cells : next[c] = -2 <=> \A k \in 1 .. Len(s) : s[k] # c

(* Until a mq_close, each slot in use has one cell of the chain s.         *)
SlotsOf(s) ==
  /\ init = 0 /\ ~closed => s = <<>>
  /\ init = 1 /\ ~closed =>
       /\ \A t \in Slots : length[t] # -1 <=> \E k \in 1 .. Len(s) : mq_msg[s[k]] = t
       /\ \A j, k \in 1 .. Len(s) : mq_msg[s[j]] = mq_msg[s[k]] => j = k

TypeOK ==
  /\ ind \in Cells \cup {-1}
  /\ next \in [Cells -> Cells \cup {-1, -2}]
  /\ mq_msg \in [Cells -> Slots]
  /\ length \in [Slots -> Nat \cup {-1}]
  /\ prio \in [Slots -> 0 .. 32]
  /\ DOMAIN data = Slots /\ DOMAIN sent = Slots
  /\ init \in {0, 1} /\ closed \in BOOLEAN

Shape == \E s : Linked(s) /\ SlotsOf(s)

IInv == TypeOK /\ Shape

-----------------------------------------------------------------------------
(* The recursive function of Chain: the cells of a linked sequence         *)

Below == {ss \in Nat \X Nat : ss[1] < ss[2]}

(* A set of natural numbers has a least element.                           *)
LEMMA Least ==
  ASSUME NEW T, T \subseteq Nat, T # {}
  PROVE  \E m \in T : \A n \in T : m <= n
<1>1. IsWellFoundedOn(Below, Nat)
  BY NatLessThanWellFounded DEF OpToRel, Below
<1>2. PICK m \in T : \A n \in T : ~(<<n, m>> \in Below)
  BY <1>1, WFMin
<1>3. \A n \in Nat : n < m => <<n, m>> \in Below
  BY DEF Below
<1>4. \A n \in T : ~(n < m)
  BY <1>2, <1>3, Zenon
<1> QED
  BY <1>4

(* What defines the function cell of Chain, and the function it defines.   *)
Follows(cell) ==
  cell = [n \in 1 .. MAX_MSG |->
            IF n = 1 THEN ind
            ELSE IF cell[n - 1] \in Cells THEN next[cell[n - 1]] ELSE -1]
Cell == CHOOSE cell : Follows(cell)

LEMMA ChainCells ==
  Chain = [n \in 1 .. Cardinality({n \in 1 .. MAX_MSG : Cell[n] \in Cells}) |-> Cell[n]]
BY DEF Chain, Cell, Follows

(* Only one function follows the cells, by induction on the place.         *)
LEMMA OneFollows ==
  ASSUME NEW f, NEW g, Follows(f), Follows(g)
  PROVE  f = g
<1> DEFINE T == {n \in 1 .. MAX_MSG : f[n] # g[n]}
<1>1. ASSUME T # {} PROVE FALSE
  <2>1. T \subseteq Nat
    OBVIOUS
  <2>2. PICK m \in T : \A n \in T : m <= n
    BY <1>1, <2>1, Least
  <2>3. m \in 1 .. MAX_MSG /\ f[m] # g[m] /\ MAX_MSG \in Nat
    BY SizeAssumption
  <2>4. m # 1 => f[m - 1] = g[m - 1]
    BY <2>2, <2>3
  <2>5. f[m] = IF m = 1 THEN ind
               ELSE IF f[m - 1] \in Cells THEN next[f[m - 1]] ELSE -1
    BY <2>3 DEF Follows
  <2>6. g[m] = IF m = 1 THEN ind
               ELSE IF g[m - 1] \in Cells THEN next[g[m - 1]] ELSE -1
    BY <2>3 DEF Follows
  <2> QED
    BY <2>3, <2>4, <2>5, <2>6
<1>2. \A n \in 1 .. MAX_MSG : f[n] = g[n]
  BY <1>1
<1> QED
  BY <1>2 DEF Follows

(* A linked sequence is what Chain walks along.                            *)
LEMMA ChainIs ==
  ASSUME NEW s, Linked(s)
  PROVE  Chain = s
<1> DEFINE f == [n \in 1 .. MAX_MSG |-> IF n <= Len(s) THEN s[n] ELSE -1]
<1>1. s \in Seq(Cells) /\ Len(s) \in 0 .. MAX_MSG /\ MAX_MSG \in Nat \ {0} /\ -1 \notin Cells
  BY SizeAssumption DEF Linked, Cells
<1>2. Follows(f)
  <2>1. ASSUME NEW n \in 1 .. MAX_MSG
        PROVE  f[n] = IF n = 1 THEN ind
                      ELSE IF f[n - 1] \in Cells THEN next[f[n - 1]] ELSE -1
    <3>1. CASE n = 1
      <4>1. s = <<>> <=> ~(1 <= Len(s))
        BY <1>1
      <4> QED
        BY <3>1, <4>1 DEF Linked
    <3>2. CASE n # 1 /\ n - 1 <= Len(s)
      <4>1. n - 1 \in 1 .. Len(s) /\ f[n - 1] = s[n - 1] /\ s[n - 1] \in Cells
        BY <1>1, <3>2
      <4>2. next[s[n - 1]] = IF n - 1 = Len(s) THEN -1 ELSE s[n - 1 + 1]
        BY <4>1 DEF Linked
      <4>3. f[n] = IF n - 1 = Len(s) THEN -1 ELSE s[n]
        BY <1>1, <3>2
      <4> QED
        BY <3>2, <4>1, <4>2, <4>3
    <3>3. CASE n # 1 /\ ~(n - 1 <= Len(s))
      BY <1>1, <3>3
    <3> QED
      BY <3>1, <3>2, <3>3
  <2> QED
    BY <2>1 DEF Follows
<1>3. Cell = f
  <2>1. Follows(Cell)
    BY <1>2, Zenon DEF Cell
  <2> HIDE DEF f
  <2> QED
    BY <1>2, <2>1, OneFollows
<1>4. {n \in 1 .. MAX_MSG : Cell[n] \in Cells} = 1 .. Len(s)
  <2>1. \A n \in 1 .. MAX_MSG : f[n] \in Cells <=> n <= Len(s)
    BY <1>1
  <2> HIDE DEF f
  <2> QED
    BY <1>1, <1>3, <2>1
<1>5. Cardinality(1 .. Len(s)) = Len(s)
  <2>1. \A n \in Nat : Cardinality(1 .. n) = n
    <3>1. ASSUME NEW n \in Nat
          PROVE  Cardinality(1 .. n) = IF 1 > n THEN 0 ELSE n - 1 + 1
      BY FS_Interval
    <3> QED
      BY <3>1
  <2> QED
    BY <1>1, <2>1
<1>6. Chain = [n \in 1 .. Len(s) |-> f[n]]
  BY <1>3, <1>4, <1>5, ChainCells
<1> QED
  BY <1>1, <1>6

-----------------------------------------------------------------------------
(* What mq_send and mq_receive do to a linked sequence                     *)

(* A sequence with one more element at place k.                            *)
LEMMA InsertAtIs ==
  ASSUME NEW S, NEW s \in Seq(S), NEW e \in S, NEW k \in 1 .. Len(s) + 1
  PROVE  /\ InsertAt(s, k, e) \in Seq(S)
         /\ InsertAt(s, k, e) = [j \in 1 .. Len(s) + 1 |->
                                   IF j < k THEN s[j] ELSE IF j = k THEN e ELSE s[j - 1]]
<1> DEFINE u == SubSeq(s, 1, k - 1)
           v == SubSeq(s, k, Len(s))
           r == (u \o <<e>>) \o v
<1>1. Len(s) \in Nat /\ k \in Nat /\ 1 <= k /\ k <= Len(s) + 1
  OBVIOUS
<1>2. u \in Seq(S) /\ Len(u) = k - 1 /\ \A j \in 1 .. k - 1 : u[j] = s[j]
  <2>1. \A j \in 1 .. k - 1 : s[j] \in S
    BY <1>1
  <2>2. Len(u) = IF 1 <= k - 1 THEN k - 1 - 1 + 1 ELSE 0
    BY <1>1, <2>1, SubSeqProperties
  <2> QED
    BY <1>1, <2>1, <2>2, SubSeqProperties
<1>3. v \in Seq(S) /\ Len(v) = Len(s) + 1 - k /\ \A j \in 1 .. Len(s) + 1 - k : v[j] = s[k + j - 1]
  <2>1. \A j \in k .. Len(s) : s[j] \in S
    BY <1>1
  <2>2. Len(v) = IF k <= Len(s) THEN Len(s) - k + 1 ELSE 0
    BY <1>1, <2>1, SubSeqProperties
  <2> QED
    BY <1>1, <2>1, <2>2, SubSeqProperties
<1>4. InsertAt(s, k, e) = r
  BY DEF InsertAt
<1> HIDE DEF u, v
<1>5. /\ u \o <<e>> \in Seq(S) /\ Len(u \o <<e>>) = k
      /\ (u \o <<e>>)[k] = e /\ \A j \in 1 .. k - 1 : (u \o <<e>>)[j] = s[j]
  BY <1>1, <1>2
<1>6. /\ r \in Seq(S) /\ Len(r) = Len(s) + 1
      /\ \A j \in 1 .. Len(s) + 1 : r[j] = IF j <= k THEN (u \o <<e>>)[j] ELSE v[j - k]
  <2>1. PICK w \in Seq(S), t \in Seq(S), n \in Nat :
          /\ w = u \o <<e>> /\ t = v /\ n = Len(s)
          /\ Len(w) = k /\ Len(t) = n + 1 - k
    BY <1>1, <1>3, <1>5
  <2>2. /\ w \o t \in Seq(S) /\ Len(w \o t) = Len(w) + Len(t)
        /\ \A j \in 1 .. Len(w) + Len(t) :
             (w \o t)[j] = IF j <= Len(w) THEN w[j] ELSE t[j - Len(w)]
    BY ConcatProperties
  <2>3. Len(w) + Len(t) = n + 1
    <3>1. Len(w) = k /\ Len(t) = n + 1 - k
      BY <2>1
    <3>2. k \in Nat
      BY <1>1
    <3> QED
      BY <3>1, <3>2
  <2>4. r = w \o t
    BY <2>1
  <2> HIDE DEF r
  <2>5. \A j \in 1 .. n + 1 : r[j] = IF j <= k THEN w[j] ELSE t[j - k]
    BY <2>1, <2>2, <2>3, <2>4
  <2> QED
    BY <2>1, <2>2, <2>3, <2>4, <2>5
<1> HIDE DEF r
<1>7. \A j \in 1 .. Len(s) + 1 : r[j] = IF j < k THEN s[j] ELSE IF j = k THEN e ELSE s[j - 1]
  BY <1>1, <1>3, <1>5, <1>6
<1> QED
  BY <1>4, <1>6, <1>7

(* A free cell i put before the k-th cell, or at the end.                  *)
LEMMA Inserted ==
  ASSUME TypeOK, NEW s, Linked(s), Len(s) < MAX_MSG, NEW i \in Cells, next[i] = -2,
         NEW k \in 1 .. Len(s) + 1,
         ind' = IF k = 1 THEN i ELSE ind,
         next' = [c \in Cells |-> IF c = i THEN (IF k <= Len(s) THEN s[k] ELSE -1)
                                  ELSE IF k > 1 /\ c = s[k - 1] THEN i ELSE next[c]]
  PROVE  Linked(InsertAt(s, k, i))'
<1> DEFINE t == InsertAt(s, k, i)
<1>1. /\ s \in Seq(Cells) /\ Len(s) \in Nat /\ MAX_MSG \in Nat /\ \A j \in 1 .. Len(s) : s[j] \in Cells
      /\ k \in Nat /\ 1 <= k /\ k <= Len(s) + 1
  BY SizeAssumption DEF Linked
<1>2. /\ t \in Seq(Cells) /\ Len(t) = Len(s) + 1
      /\ \A j \in 1 .. Len(s) + 1 :
           t[j] = IF j < k THEN s[j] ELSE IF j = k THEN i ELSE s[j - 1]
  <2>1. /\ t \in Seq(Cells)
        /\ t = [j \in 1 .. Len(s) + 1 |->
                  IF j < k THEN s[j] ELSE IF j = k THEN i ELSE s[j - 1]]
    <3>1. \A q \in Seq(Cells) : \A e \in Cells : \A l \in 1 .. Len(q) + 1 :
            /\ InsertAt(q, l, e) \in Seq(Cells)
            /\ InsertAt(q, l, e) = [j \in 1 .. Len(q) + 1 |->
                                      IF j < l THEN q[j] ELSE IF j = l THEN e ELSE q[j - 1]]
      BY InsertAtIs
    <3>2. s \in Seq(Cells)
      BY <1>1
    <3> HIDE DEF InsertAt
    <3> QED
      BY <3>1, <3>2
  <2> HIDE DEF t
  <2> QED
    BY <1>1, <2>1
<1> HIDE DEF t
<1>3. /\ \A j \in 1 .. Len(s) : s[j] # i
      /\ \A j, l \in 1 .. Len(s) : s[j] = s[l] => j = l
  BY DEF Linked
<1>4. \A j, l \in 1 .. Len(t) : t[j] = t[l] => j = l
  <2> SUFFICES ASSUME NEW j \in 1 .. Len(s) + 1, NEW l \in 1 .. Len(s) + 1, t[j] = t[l]
               PROVE  j = l
    BY <1>2
  <2>1. (j < k => j \in 1 .. Len(s)) /\ (l < k => l \in 1 .. Len(s))
    BY <1>1
  <2>2. (j > k => j - 1 \in 1 .. Len(s)) /\ (l > k => l - 1 \in 1 .. Len(s))
    BY <1>1
  <2>3. (t[j] = i <=> j = k) /\ (t[l] = i <=> l = k)
    BY <1>1, <1>2, <1>3, <2>1, <2>2
  <2>4. CASE j = k \/ l = k
    BY <2>3, <2>4
  <2>5. CASE j # k /\ l # k
    <3>1. /\ t[j] = s[IF j < k THEN j ELSE j - 1] /\ t[l] = s[IF l < k THEN l ELSE l - 1]
          /\ (IF j < k THEN j ELSE j - 1) \in 1 .. Len(s)
          /\ (IF l < k THEN l ELSE l - 1) \in 1 .. Len(s)
      BY <1>1, <1>2, <2>1, <2>2, <2>5
    <3>2. (IF j < k THEN j ELSE j - 1) = (IF l < k THEN l ELSE l - 1)
      BY <1>3, <3>1
    <3> QED
      BY <1>1, <2>5, <3>2
  <2> QED
    BY <2>4, <2>5
<1>5. t # <<>> /\ ind' = t[1]
  <2>1. t # <<>>
    BY <1>1, <1>2
  <2>2. k > 1 => s # <<>> /\ ind = s[1]
    BY <1>1 DEF Linked
  <2> QED
    BY <1>1, <1>2, <2>1, <2>2
<1>6. ASSUME NEW j \in 1 .. Len(s) + 1
      PROVE  next'[t[j]] = IF j = Len(s) + 1 THEN -1 ELSE t[j + 1]
  <2>1. CASE j < k - 1
    <3>1. /\ j \in 1 .. Len(s) /\ j # Len(s) /\ k - 1 \in 1 .. Len(s) /\ j # k - 1
          /\ j + 1 \in 1 .. Len(s) + 1 /\ t[j] = s[j] /\ t[j + 1] = s[j + 1]
      BY <1>1, <1>2, <2>1
    <3>2. next'[s[j]] = next[s[j]]
      BY <1>1, <1>3, <3>1
    <3>3. next[s[j]] = s[j + 1]
      BY <3>1 DEF Linked
    <3> QED
      BY <1>1, <3>1, <3>2, <3>3
  <2>2. CASE j = k - 1
    <3>1. j \in 1 .. Len(s) /\ t[j] = s[j] /\ t[j + 1] = i /\ j + 1 \in 1 .. Len(s) + 1
      BY <1>1, <1>2, <2>2
    <3>2. next'[s[j]] = i
      BY <1>1, <1>3, <2>2, <3>1
    <3> QED
      BY <1>1, <3>1, <3>2
  <2>3. CASE j = k
    <3>1. t[j] = i /\ (k <= Len(s) => t[j + 1] = s[k])
      BY <1>1, <1>2, <2>3
    <3>2. next'[i] = IF k <= Len(s) THEN s[k] ELSE -1
      OBVIOUS
    <3> QED
      BY <1>1, <2>3, <3>1, <3>2
  <2>4. CASE j > k
    <3>1. /\ j - 1 \in 1 .. Len(s) /\ j - 1 # k - 1 /\ t[j] = s[j - 1]
          /\ (k > 1 => k - 1 \in 1 .. Len(s))
          /\ (j # Len(s) + 1 => t[j + 1] = s[j - 1 + 1])
      <4>1. j - 1 \in 1 .. Len(s) /\ j - 1 # k - 1 /\ (k > 1 => k - 1 \in 1 .. Len(s))
        BY <1>1, <2>4
      <4>2. t[j] = s[j - 1]
        BY <1>1, <1>2, <2>4
      <4>3. j # Len(s) + 1 => j + 1 \in 1 .. Len(s) + 1 /\ j + 1 > k /\ j + 1 - 1 = j - 1 + 1
        BY <1>1, <2>4
      <4>4. j # Len(s) + 1 => t[j + 1] = s[j - 1 + 1]
        BY <1>1, <1>2, <4>3
      <4> QED
        BY <4>1, <4>2, <4>4
    <3>2. next'[s[j - 1]] = next[s[j - 1]]
      BY <1>1, <1>3, <3>1
    <3>3. next[s[j - 1]] = IF j - 1 = Len(s) THEN -1 ELSE s[j - 1 + 1]
      BY <3>1 DEF Linked
    <3> QED
      BY <1>1, <3>1, <3>2, <3>3
  <2> QED
    BY <1>1, <2>1, <2>2, <2>3, <2>4
<1>7. ASSUME NEW c \in Cells
      PROVE  next'[c] = -2 <=> \A j \in 1 .. Len(s) + 1 : t[j] # c
  <2>1. (\E j \in 1 .. Len(s) + 1 : t[j] = c) <=> c = i \/ \E j \in 1 .. Len(s) : s[j] = c
    <3>1. k \in 1 .. Len(s) + 1 /\ t[k] = i
      BY <1>1, <1>2
    <3>2. ASSUME NEW j \in 1 .. Len(s)
          PROVE  \E l \in 1 .. Len(s) + 1 : t[l] = s[j]
      <4>1. CASE j < k
        <5>1. j \in 1 .. Len(s) + 1 /\ t[j] = s[j]
          BY <1>1, <1>2, <4>1
        <5> QED
          BY <5>1
      <4>2. CASE ~(j < k)
        <5>1. j + 1 \in 1 .. Len(s) + 1 /\ t[j + 1] = s[j]
          BY <1>1, <1>2, <4>2
        <5> QED
          BY <5>1
      <4> QED
        BY <4>1, <4>2
    <3>3. ASSUME NEW j \in 1 .. Len(s) + 1, t[j] # i
          PROVE  \E l \in 1 .. Len(s) : s[l] = t[j]
      <4>1. CASE j < k
        <5>1. j \in 1 .. Len(s) /\ t[j] = s[j]
          BY <1>1, <1>2, <4>1
        <5> QED
          BY <5>1
      <4>2. CASE ~(j < k)
        <5>1. j - 1 \in 1 .. Len(s) /\ t[j] = s[j - 1]
          BY <1>1, <1>2, <3>3, <4>2
        <5> QED
          BY <5>1
      <4> QED
        BY <4>1, <4>2
    <3> QED
      BY <3>1, <3>2, <3>3
  <2>2. next[c] = -2 <=> \A j \in 1 .. Len(s) : s[j] # c
    BY DEF Linked
  <2>3. /\ i # -2 /\ \A j \in 1 .. Len(s) : s[j] # -2
        /\ (k > 1 => k - 1 \in 1 .. Len(s))
    BY <1>1, SizeAssumption DEF Cells
  <2> QED
    BY <1>1, <2>1, <2>2, <2>3
<1>8. Linked(t)'
  <2>1. Len(t) <= MAX_MSG /\ MAX_MSG' = MAX_MSG /\ Cells' = Cells
    BY <1>1, <1>2 DEF Cells
  <2>2. \A j \in 1 .. Len(t) : next'[t[j]] = IF j = Len(t) THEN -1 ELSE t[j + 1]
    BY <1>2, <1>6
  <2>3. \A c \in Cells : next'[c] = -2 <=> \A j \in 1 .. Len(t) : t[j] # c
    BY <1>2, <1>7
  <2> QED
    BY <1>2, <1>4, <1>5, <2>1, <2>2, <2>3, Zenon DEF Linked
<1> QED
  BY <1>8 DEF t

(* The first cell taken away and freed.                                    *)
LEMMA Removed ==
  ASSUME TypeOK, NEW s, Linked(s), s # <<>>, ind' = next[ind],
         next' = [next EXCEPT ![ind] = -2]
  PROVE  Linked(Tail(s))'
<1> DEFINE t == Tail(s)
<1>1. /\ s \in Seq(Cells) /\ Len(s) \in Nat \ {0} /\ \A j \in 1 .. Len(s) : s[j] \in Cells
      /\ Len(s) <= MAX_MSG /\ MAX_MSG \in Nat
  BY SizeAssumption DEF Linked
<1>2. t \in Seq(Cells) /\ Len(t) = Len(s) - 1 /\ \A j \in 1 .. Len(s) - 1 : t[j] = s[j + 1]
  BY <1>1
<1>3. ind = s[1] /\ \A j, l \in 1 .. Len(s) : s[j] = s[l] => j = l
  BY DEF Linked
<1>4. \A j \in 1 .. Len(s) : next[s[j]] = IF j = Len(s) THEN -1 ELSE s[j + 1]
  BY DEF Linked
<1>n. next' = [c \in Cells |-> IF c = s[1] THEN -2 ELSE next[c]]
  BY <1>1, <1>3 DEF TypeOK
<1> HIDE DEF t
<1>5. \A j, l \in 1 .. Len(t) : t[j] = t[l] => j = l
  <2> SUFFICES ASSUME NEW j \in 1 .. Len(t), NEW l \in 1 .. Len(t), t[j] = t[l]
               PROVE  j = l
    OBVIOUS
  <2>1. j + 1 \in 1 .. Len(s) /\ l + 1 \in 1 .. Len(s) /\ s[j + 1] = s[l + 1]
    BY <1>1, <1>2
  <2>2. j + 1 = l + 1
    BY <1>3, <2>1
  <2> QED
    BY <2>2
<1>6. (t = <<>> => ind' = -1) /\ (t # <<>> => ind' = t[1])
  <2>1. ind' = IF 1 = Len(s) THEN -1 ELSE s[2]
    <3>1. 1 \in 1 .. Len(s)
      BY <1>1
    <3>2. next[s[1]] = IF 1 = Len(s) THEN -1 ELSE s[1 + 1]
      BY <1>4, <3>1
    <3> QED
      BY <1>3, <3>2
  <2>2. t = <<>> <=> Len(s) = 1
    BY <1>1, <1>2
  <2> QED
    BY <1>1, <1>2, <2>1, <2>2
<1>7. ASSUME NEW j \in 1 .. Len(t)
      PROVE  next'[t[j]] = IF j = Len(t) THEN -1 ELSE t[j + 1]
  <2>1. j + 1 \in 1 .. Len(s) /\ t[j] = s[j + 1] /\ s[j + 1] # s[1]
    BY <1>1, <1>2, <1>3
  <2>2. next[s[j + 1]] = IF j + 1 = Len(s) THEN -1 ELSE s[j + 1 + 1]
    BY <1>4, <2>1
  <2>3. j # Len(t) => t[j + 1] = s[j + 1 + 1]
    BY <1>1, <1>2
  <2> QED
    BY <1>1, <1>2, <1>n, <2>1, <2>2, <2>3
<1>8. ASSUME NEW c \in Cells
      PROVE  next'[c] = -2 <=> \A j \in 1 .. Len(t) : t[j] # c
  <2>1. next[c] = -2 <=> \A j \in 1 .. Len(s) : s[j] # c
    BY DEF Linked
  <2>2. CASE c = s[1]
    <3>1. \A j \in 1 .. Len(t) : t[j] # c
      BY <1>1, <1>2, <1>3, <2>2
    <3> QED
      BY <1>n, <2>2, <3>1
  <2>3. CASE c # s[1]
    <3>1. (\E j \in 1 .. Len(s) : s[j] = c) <=> \E j \in 1 .. Len(t) : t[j] = c
      <4>1. ASSUME NEW j \in 1 .. Len(s), s[j] = c
            PROVE  \E l \in 1 .. Len(t) : t[l] = c
        <5>1. j - 1 \in 1 .. Len(t) /\ t[j - 1] = c
          BY <1>1, <1>2, <2>3, <4>1
        <5> QED
          BY <5>1
      <4>2. ASSUME NEW j \in 1 .. Len(t), t[j] = c
            PROVE  \E l \in 1 .. Len(s) : s[l] = c
        <5>1. j + 1 \in 1 .. Len(s) /\ s[j + 1] = c
          BY <1>1, <1>2, <4>2
        <5> QED
          BY <5>1
      <4> QED
        BY <4>1, <4>2
    <3> QED
      BY <1>n, <2>1, <2>3, <3>1
  <2> QED
    BY <2>2, <2>3
<1>9. Linked(t)'
  BY <1>1, <1>2, <1>5, <1>6, <1>7, <1>8 DEF Linked
<1> QED
  BY <1>9 DEF t

-----------------------------------------------------------------------------
(* The steps of the module on the chain                                    *)

(* ChainIs, before and after a step.                                       *)
LEMMA ChainNow == \A s : Linked(s) => Chain = s
BY ChainIs

LEMMA ChainNext == \A s : Linked(s)' => Chain' = s
<1>1. (\A s : Linked(s) => Chain = s)'
  BY ChainNow, PTL
<1> QED
  BY <1>1

(* What mq_send does: a free slot gets the message m of priority x, and a  *)
(* free cell i that points to it enters the chain s at place k.            *)
Inserts(s, slot, i, k, x, m) ==
  /\ Len(s) < MAX_MSG /\ next[i] = -2 /\ ResetLengths[slot] = -1
  /\ prio' = [prio EXCEPT ![slot] = x]
  /\ length' = [ResetLengths EXCEPT ![slot] = Len(m)]
  /\ data' = [data EXCEPT ![slot] = Strncpy(slot, m)]
  /\ sent' = [sent EXCEPT ![slot] = m]
  /\ init' = 1 /\ closed' = closed /\ taken' = taken
  /\ mq_msg' = [mq_msg EXCEPT ![i] = slot]
  /\ ind' = IF k = 1 THEN i ELSE ind
  /\ next' = [c \in Cells |-> IF c = i THEN (IF k <= Len(s) THEN s[k] ELSE -1)
                              ELSE IF k > 1 /\ c = s[k - 1] THEN i ELSE next[c]]
  /\ \A j \in 1 .. k - 1 : prio'[mq_msg[s[j]]] > x
  /\ k <= Len(s) => prio'[mq_msg[s[k]]] <= x

LEMMA SendInserts ==
  ASSUME TypeOK, NEW s, Linked(s), Send
  PROVE  \E slot \in Slots, i \in Cells, k \in 1 .. Len(s) + 1, x \in Prios, m \in Payloads :
           Inserts(s, slot, i, k, x, m)
<1>1. Chain = s
  BY ChainNow
<1>2. PICK slot \in FreeSlot(ResetLengths), m \in Payloads, x \in Prios :
        /\ prio' = [prio EXCEPT ![slot] = x]
        /\ length' = [ResetLengths EXCEPT ![slot] = Len(m)]
        /\ data' = [data EXCEPT ![slot] = Strncpy(slot, m)]
        /\ InsertFirst(slot) \/ InsertNext(slot, prio', x)
        /\ sent' = [sent EXCEPT ![slot] = m]
  BY DEF Send
<1>3. /\ Len(s) < MAX_MSG /\ init' = 1 /\ closed' = closed /\ taken' = taken
      /\ slot \in Slots /\ ResetLengths[slot] = -1
  BY <1>1 DEF Send, FreeSlot
<1>4. /\ s \in Seq(Cells) /\ Len(s) \in Nat /\ MAX_MSG \in Nat /\ \A j \in 1 .. Len(s) : s[j] \in Cells
      /\ next \in [Cells -> Cells \cup {-1, -2}] /\ mq_msg \in [Cells -> Slots]
  BY SizeAssumption DEF Linked, TypeOK
<1>5. CASE InsertFirst(slot)
  <2>1. s = <<>>
    <3>1. ind = -1
      BY <1>5 DEF InsertFirst
    <3>2. s # <<>> => s[1] \in 0 .. MAX_MSG - 1
      BY <1>4 DEF Cells
    <3> QED
      BY <1>4, <3>1, <3>2 DEF Linked
  <2>2. 0 \in Cells /\ Len(s) = 0
    BY <2>1, SizeAssumption DEF Cells
  <2>3. next[0] = -2
    BY <2>2 DEF Linked
  <2>4. next' = [c \in Cells |-> IF c = 0 THEN -1 ELSE next[c]]
    BY <1>4, <1>5, <2>2 DEF InsertFirst
  <2>5. Inserts(s, slot, 0, 1, x, m)
    <3>1. mq_msg' = [mq_msg EXCEPT ![0] = slot] /\ ind' = 0
      BY <1>5 DEF InsertFirst
    <3>2. next' = [c \in Cells |-> IF c = 0 THEN (IF 1 <= Len(s) THEN s[1] ELSE -1)
                                   ELSE IF 1 > 1 /\ c = s[1 - 1] THEN 0 ELSE next[c]]
      BY <2>2, <2>4
    <3> HIDE DEF Strncpy, ResetLengths
    <3> QED
      BY <1>2, <1>3, <2>2, <2>3, <3>1, <3>2 DEF Inserts
  <2> QED
    BY <1>3, <2>2, <2>5
<1>6. CASE InsertNext(slot, prio', x)
  <2>1. PICK i \in FreeCell, l \in 1 .. Len(s) :
          /\ Stops(prio', x, l)
          /\ IF prio'[mq_msg[s[l]]] <= x
               THEN InsertBefore(slot, i, l)
               ELSE InsertAfter(slot, i, l)
    BY <1>1, <1>6 DEF InsertNext
  <2>2. i \in Cells /\ next[i] = -2 /\ \A j \in 1 .. Len(s) : s[j] # i
    BY DEF FreeCell, Linked
  <2>3. /\ \A j \in 1 .. l - 1 : prio'[mq_msg[s[j]]] > x
        /\ prio'[mq_msg[s[l]]] <= x \/ l = Len(s)
    BY <1>1, <2>1 DEF Stops
  <2>4. \A j \in 1 .. Len(s) : prio'[mq_msg[s[j]]] \in 0 .. 32 /\ x \in 0 .. 32
    BY <1>2, <1>3, <1>4, PriosAssumption DEF TypeOK
  <2>5. CASE prio'[mq_msg[s[l]]] <= x
    <3>1. /\ ind' = IF l = 1 THEN i ELSE ind
          /\ next' = [c \in Cells |-> IF c = i THEN s[l]
                                      ELSE IF l > 1 /\ c = s[l - 1] THEN i ELSE next[c]]
          /\ mq_msg' = [mq_msg EXCEPT ![i] = slot]
      BY <1>1, <2>1, <2>5 DEF InsertBefore
    <3>2. l <= Len(s) /\ l \in 1 .. Len(s) + 1
      BY <1>4
    <3>3. Inserts(s, slot, i, l, x, m)
      BY <1>2, <1>3, <2>2, <2>3, <2>5, <3>1, <3>2 DEF Inserts
    <3> QED
      BY <1>3, <2>2, <3>2, <3>3
  <2>6. CASE ~(prio'[mq_msg[s[l]]] <= x)
    <3>1. l = Len(s) /\ next' = [next EXCEPT ![i] = -1, ![s[l]] = i]
          /\ mq_msg' = [mq_msg EXCEPT ![i] = slot] /\ ind' = ind
      BY <1>1, <2>1, <2>3, <2>6 DEF InsertAfter
    <3>2. PICK k \in 1 .. Len(s) + 1 :
            k = Len(s) + 1 /\ k # 1 /\ k > 1 /\ ~(k <= Len(s)) /\ k - 1 = Len(s)
      BY <1>4
    <3>3. next' = [c \in Cells |-> IF c = i THEN (IF k <= Len(s) THEN s[k] ELSE -1)
                                   ELSE IF k > 1 /\ c = s[k - 1] THEN i ELSE next[c]]
      BY <1>4, <2>2, <3>1, <3>2
    <3>4. \A j \in 1 .. k - 1 : prio'[mq_msg[s[j]]] > x
      <4> SUFFICES ASSUME NEW j \in 1 .. Len(s) PROVE prio'[mq_msg[s[j]]] > x
        BY <3>2
      <4>1. CASE j = Len(s)
        <5>1. ~(prio'[mq_msg[s[j]]] <= x)
          BY <2>6, <3>1, <4>1
        <5>2. prio'[mq_msg[s[j]]] \in 0 .. 32 /\ x \in 0 .. 32
          BY <2>4
        <5>3. \A a, b \in 0 .. 32 : ~(a <= b) => a > b
          OBVIOUS
        <5> QED
          BY <5>1, <5>2, <5>3, Zenon
      <4>2. CASE j # Len(s)
        <5>1. j \in 1 .. l - 1
          BY <1>4, <3>1, <4>2
        <5> QED
          BY <2>3, <5>1
      <4> QED
        BY <4>1, <4>2
    <3>6. ind' = (IF k = 1 THEN i ELSE ind) /\ (k <= Len(s) => prio'[mq_msg[s[k]]] <= x)
      BY <3>1, <3>2
    <3>5. Inserts(s, slot, i, k, x, m)
      <4> HIDE DEF Strncpy, ResetLengths
      <4> QED
        <5>1. /\ Len(s) < MAX_MSG /\ next[i] = -2 /\ ResetLengths[slot] = -1
              /\ init' = 1 /\ closed' = closed /\ taken' = taken
              /\ mq_msg' = [mq_msg EXCEPT ![i] = slot]
          BY <1>3, <2>2, <3>1
        <5> QED
          BY <1>2, <3>3, <3>4, <3>6, <5>1, Zenon DEF Inserts
    <3> QED
      BY <1>3, <2>2, <3>2, <3>5
  <2> QED
    BY <2>5, <2>6
<1> QED
  BY <1>2, <1>5, <1>6

(* The sequence of an insertion, place by place.                           *)
LEMMA InsertedCells ==
  ASSUME NEW s \in Seq(Cells), NEW i \in Cells, NEW k \in 1 .. Len(s) + 1
  PROVE  /\ InsertAt(s, k, i) \in Seq(Cells) /\ Len(InsertAt(s, k, i)) = Len(s) + 1
         /\ \A j \in 1 .. Len(s) + 1 :
              InsertAt(s, k, i)[j] = IF j < k THEN s[j] ELSE IF j = k THEN i ELSE s[j - 1]
<1>1. /\ InsertAt(s, k, i) \in Seq(Cells)
      /\ InsertAt(s, k, i) = [j \in 1 .. Len(s) + 1 |->
                                IF j < k THEN s[j] ELSE IF j = k THEN i ELSE s[j - 1]]
  BY InsertAtIs
<1> HIDE DEF InsertAt
<1> QED
  BY <1>1

(* mq_send keeps the chain linked and the slots in use those it passes.    *)
LEMMA InsertsKeep ==
  ASSUME TypeOK, NEW s, Linked(s), SlotsOf(s), NEW slot \in Slots, NEW i \in Cells,
         NEW k \in 1 .. Len(s) + 1, NEW x \in Prios, NEW m \in Payloads,
         Inserts(s, slot, i, k, x, m)
  PROVE  TypeOK' /\ Linked(InsertAt(s, k, i))' /\ SlotsOf(InsertAt(s, k, i))'
<1> DEFINE t == InsertAt(s, k, i)
<1>1. /\ s \in Seq(Cells) /\ Len(s) \in Nat /\ \A j \in 1 .. Len(s) : s[j] \in Cells /\ s[j] # i
      /\ \A j, l \in 1 .. Len(s) : s[j] = s[l] => j = l
  BY DEF Linked, Inserts
<1>2. /\ Len(t) = Len(s) + 1
      /\ \A j \in 1 .. Len(s) + 1 :
           t[j] = IF j < k THEN s[j] ELSE IF j = k THEN i ELSE s[j - 1]
  BY <1>1, InsertedCells
<1>3. Linked(t)'
  BY Inserted DEF Inserts
<1> HIDE DEF t
<1>4. Len(m) \in Nat /\ x \in 0 .. 32
  BY PayloadsAssumption, PriosAssumption
<1>5. ResetLengths \in [Slots -> Nat \cup {-1}]
  BY DEF TypeOK, ResetLengths
<1>6. TypeOK'
  <2>1. next' \in [Cells -> Cells \cup {-1, -2}]
    <3>1. k <= Len(s) => s[k] \in Cells
      BY <1>1
    <3>2. \A c \in Cells : next[c] \in Cells \cup {-1, -2}
      BY DEF TypeOK
    <3> QED
      BY <3>1, <3>2 DEF Inserts
  <2>2. length' \in [Slots -> Nat \cup {-1}]
    BY <1>4, <1>5 DEF Inserts
  <2>3. prio' \in [Slots -> 0 .. 32] /\ mq_msg' \in [Cells -> Slots] /\ ind' \in Cells \cup {-1}
    BY <1>4 DEF Inserts, TypeOK
  <2>4. DOMAIN data' = Slots /\ DOMAIN sent' = Slots /\ init' = 1 /\ closed' \in BOOLEAN
    BY DEF Inserts, TypeOK
  <2> QED
    BY <2>1, <2>2, <2>3, <2>4 DEF TypeOK, Slots, Cells
<1>7. \A j \in 1 .. Len(s) + 1 :
        \/ j = k /\ mq_msg'[t[j]] = slot
        \/ \E l \in 1 .. Len(s) : /\ l = (IF j < k THEN j ELSE j - 1) /\ j # k
                                  /\ mq_msg'[t[j]] = mq_msg[s[l]]
  <2> SUFFICES ASSUME NEW j \in 1 .. Len(s) + 1, j # k
               PROVE  \E l \in 1 .. Len(s) : /\ l = (IF j < k THEN j ELSE j - 1)
                                             /\ mq_msg'[t[j]] = mq_msg[s[l]]
    BY <1>1, <1>2 DEF Inserts, TypeOK
  <2>1. PICK l \in 1 .. Len(s) : l = (IF j < k THEN j ELSE j - 1) /\ t[j] = s[l]
    <3>1. CASE j < k
      BY <1>1, <1>2, <3>1
    <3>2. CASE ~(j < k)
      BY <1>1, <1>2, <3>2
    <3> QED
      BY <3>1, <3>2
  <2>2. mq_msg'[s[l]] = mq_msg[s[l]]
    BY <1>1 DEF Inserts, TypeOK
  <2> QED
    BY <2>1, <2>2
<1>8. ASSUME ~closed
      PROVE  /\ \A u \in Slots : length'[u] # -1 <=> \E j \in 1 .. Len(t) : mq_msg'[t[j]] = u
             /\ \A j, l \in 1 .. Len(t) : mq_msg'[t[j]] = mq_msg'[t[l]] => j = l
  <2>1. /\ \A u \in Slots : ResetLengths[u] # -1 <=> \E j \in 1 .. Len(s) : mq_msg[s[j]] = u
        /\ \A j, l \in 1 .. Len(s) : mq_msg[s[j]] = mq_msg[s[l]] => j = l
    <3>1. CASE init = 0
      BY <1>8, <3>1 DEF SlotsOf, ResetLengths
    <3>2. CASE init = 1
      BY <1>8, <3>2 DEF SlotsOf, ResetLengths
    <3> QED
      BY <3>1, <3>2 DEF TypeOK
  <2>2. \A j \in 1 .. Len(s) : mq_msg[s[j]] # slot
    BY <2>1 DEF Inserts
  <2>3. \A u \in Slots : length'[u] # -1 <=> u = slot \/ ResetLengths[u] # -1
    BY <1>4, <1>5 DEF Inserts
  <2>4. ASSUME NEW u \in Slots
        PROVE  (\E j \in 1 .. Len(s) + 1 : mq_msg'[t[j]] = u) <=>
                 u = slot \/ \E j \in 1 .. Len(s) : mq_msg[s[j]] = u
    <3>1. mq_msg'[t[k]] = slot /\ k \in 1 .. Len(s) + 1
      BY <1>7
    <3>2. ASSUME NEW j \in 1 .. Len(s)
          PROVE  \E l \in 1 .. Len(s) + 1 : mq_msg'[t[l]] = mq_msg[s[j]]
      <4>1. CASE j < k
        <5>1. j \in 1 .. Len(s) + 1 /\ t[j] = s[j]
          BY <1>1, <1>2, <4>1
        <5> QED
          BY <1>1, <5>1 DEF Inserts, TypeOK
      <4>2. CASE ~(j < k)
        <5>1. j + 1 \in 1 .. Len(s) + 1 /\ t[j + 1] = s[j]
          BY <1>1, <1>2, <4>2
        <5> QED
          BY <1>1, <5>1 DEF Inserts, TypeOK
      <4> QED
        BY <4>1, <4>2
    <3>3. ASSUME NEW j \in 1 .. Len(s) + 1, mq_msg'[t[j]] = u
          PROVE  u = slot \/ \E l \in 1 .. Len(s) : mq_msg[s[l]] = u
      BY <1>7, <3>3
    <3>4. ASSUME NEW j \in 1 .. Len(s), mq_msg[s[j]] = u
          PROVE  \E l \in 1 .. Len(s) + 1 : mq_msg'[t[l]] = u
      BY <3>2, <3>4
    <3> QED
      BY <3>1, <3>3, <3>4
  <2>5. ASSUME NEW j \in 1 .. Len(s) + 1, NEW l \in 1 .. Len(s) + 1,
               mq_msg'[t[j]] = mq_msg'[t[l]]
        PROVE  j = l
    <3>1. j = k <=> l = k
      BY <1>7, <2>2, <2>5
    <3>2. CASE j = k
      BY <3>1, <3>2
    <3>3. CASE j # k
      <4>1. PICK a \in 1 .. Len(s) : a = (IF j < k THEN j ELSE j - 1)
                                     /\ mq_msg'[t[j]] = mq_msg[s[a]]
        BY <1>7, <3>3
      <4>2. PICK b \in 1 .. Len(s) : b = (IF l < k THEN l ELSE l - 1)
                                     /\ mq_msg'[t[l]] = mq_msg[s[b]]
        BY <1>7, <3>1, <3>3
      <4>3. a = b
        <5>1. mq_msg[s[a]] = mq_msg[s[b]]
          BY <2>5, <4>1, <4>2
        <5>2. \A d, e \in 1 .. Len(s) : mq_msg[s[d]] = mq_msg[s[e]] => d = e
          BY <2>1
        <5> QED
          BY <5>1, <5>2, Zenon
      <4>4. j \in Nat /\ l \in Nat /\ k \in Nat /\ l # k
        BY <1>1, <3>1, <3>3
      <4>5. (IF j < k THEN j ELSE j - 1) = (IF l < k THEN l ELSE l - 1)
        BY <4>1, <4>2, <4>3
      <4> QED
        BY <3>3, <4>4, <4>5
    <3> QED
      BY <3>2, <3>3
  <2> QED
    BY <1>2, <2>1, <2>3, <2>4, <2>5
<1>9. SlotsOf(t)'
  BY <1>8 DEF SlotsOf, Inserts, Slots
<1> QED
  BY <1>3, <1>6, <1>9 DEF t

(* mq_send puts its slot into the sequence of MyQueue.                     *)
LEMMA InsertsPuts ==
  ASSUME TypeOK, NEW s, Linked(s), NEW slot \in Slots, NEW i \in Cells,
         NEW k \in 1 .. Len(s) + 1, NEW x \in Prios, NEW m \in Payloads,
         Inserts(s, slot, i, k, x, m), Linked(InsertAt(s, k, i))'
  PROVE  Puts
<1> DEFINE t == InsertAt(s, k, i)
           L == [j \in 1 .. Len(s) |-> mq_msg[s[j]]]
<1>1. /\ s \in Seq(Cells) /\ Len(s) \in Nat /\ k \in Nat
      /\ \A j \in 1 .. Len(s) : s[j] \in Cells /\ s[j] # i
  BY DEF Linked, Inserts
<1>2. /\ Len(t) = Len(s) + 1
      /\ \A j \in 1 .. Len(s) + 1 :
           t[j] = IF j < k THEN s[j] ELSE IF j = k THEN i ELSE s[j - 1]
  BY <1>1, InsertedCells
<1>3. L \in Seq(Slots) /\ Len(L) = Len(s) /\ \A j \in 1 .. Len(s) : L[j] = mq_msg[s[j]]
  BY <1>1 DEF TypeOK
<1>4. List = L
  BY ChainNow DEF List
<1>5. Chain' = t
  BY ChainNext
<1> HIDE DEF t, L
<1>6. List' = [j \in 1 .. Len(s) + 1 |-> mq_msg'[t[j]]]
  BY <1>2, <1>5 DEF List
<1>7. InsertAt(L, k, slot) = [j \in 1 .. Len(s) + 1 |->
                                IF j < k THEN L[j] ELSE IF j = k THEN slot ELSE L[j - 1]]
  <2>1. \A q \in Seq(Slots) : \A e \in Slots : \A l \in 1 .. Len(q) + 1 :
          InsertAt(q, l, e) = [j \in 1 .. Len(q) + 1 |->
                                 IF j < l THEN q[j] ELSE IF j = l THEN e ELSE q[j - 1]]
    BY InsertAtIs
  <2> HIDE DEF InsertAt
  <2> QED
    BY <1>3, <2>1
<1>8. ASSUME NEW j \in 1 .. Len(s) + 1
      PROVE  mq_msg'[t[j]] = IF j < k THEN L[j] ELSE IF j = k THEN slot ELSE L[j - 1]
  <2>1. mq_msg' = [mq_msg EXCEPT ![i] = slot] /\ mq_msg \in [Cells -> Slots]
    BY DEF Inserts, TypeOK
  <2>2. CASE j < k
    <3>1. j \in 1 .. Len(s) /\ t[j] = s[j]
      BY <1>1, <1>2, <2>2
    <3> QED
      BY <1>1, <1>3, <2>1, <2>2, <3>1
  <2>3. CASE j = k
    BY <1>2, <2>1, <2>3
  <2>4. CASE j > k
    <3>1. j - 1 \in 1 .. Len(s) /\ t[j] = s[j - 1]
      BY <1>1, <1>2, <2>4
    <3> QED
      BY <1>1, <1>3, <2>1, <2>4, <3>1
  <2> QED
    BY <1>1, <2>2, <2>3, <2>4
<1>9. List' = InsertAt(L, k, slot)
  BY <1>6, <1>7, <1>8
<1>10. init = 1 => length[slot] = -1
  BY DEF Inserts, ResetLengths
<1>11. prio'[slot] = x
  BY DEF Inserts, TypeOK
<1>12. \A j \in 1 .. k - 1 : prio'[L[j]] > prio'[slot]
  BY <1>1, <1>3, <1>11 DEF Inserts
<1>13. k <= Len(L) => prio'[L[k]] <= prio'[slot]
  BY <1>1, <1>3, <1>11 DEF Inserts
<1>14. k \in 1 .. Len(L) + 1
  BY <1>3
<1> HIDE DEF InsertAt
<1> QED
  BY <1>4, <1>9, <1>10, <1>12, <1>13, <1>14 DEF Puts

(* mq_receive takes the first cell and frees it and its slot.              *)
LEMMA ReceiveKeeps ==
  ASSUME TypeOK, NEW s, Linked(s), SlotsOf(s), Receive
  PROVE  s # <<>> /\ TypeOK' /\ Linked(Tail(s))' /\ SlotsOf(Tail(s))'
<1> DEFINE t == Tail(s)
<1>1. s \in Seq(Cells) /\ Len(s) \in Nat /\ \A j \in 1 .. Len(s) : s[j] \in Cells
  BY DEF Linked
<1>2. s # <<>> /\ ind = s[1] /\ s[1] \in Cells /\ 1 \in 1 .. Len(s)
  BY <1>1 DEF Linked, Receive
<1>3. /\ ind' = next[ind] /\ next' = [next EXCEPT ![ind] = -2]
      /\ length' = [length EXCEPT ![mq_msg[ind]] = -1]
      /\ mq_msg' = mq_msg /\ prio' = prio /\ data' = data /\ init' = init /\ sent' = sent
      /\ closed' = closed
  BY DEF Receive, FreeTheCell, Successor
<1>4. Linked(t)'
  BY <1>2, <1>3, Removed
<1>5. Len(t) = Len(s) - 1 /\ \A j \in 1 .. Len(s) - 1 : t[j] = s[j + 1]
  BY <1>1, <1>2
<1> HIDE DEF t
<1>6. TypeOK'
  <2>1. next[ind] # -2
    <3>1. next[s[1]] = IF 1 = Len(s) THEN -1 ELSE s[1 + 1]
      BY <1>2 DEF Linked
    <3>2. 1 # Len(s) => s[2] \in Cells
      <4>1. 1 # Len(s) => 2 \in 1 .. Len(s)
        <5>1. \A n \in Nat : 1 \in 1 .. n /\ 1 # n => 2 \in 1 .. n
          OBVIOUS
        <5> QED
          BY <1>1, <1>2, <5>1, Zenon
      <4> QED
        BY <1>1, <4>1
    <3>3. -2 \notin Cells /\ -2 # -1
      BY SizeAssumption DEF Cells
    <3> QED
      BY <1>2, <3>1, <3>2, <3>3
  <2>2. ind' \in Cells \cup {-1} /\ next' \in [Cells -> Cells \cup {-1, -2}]
    BY <1>2, <1>3, <2>1 DEF TypeOK
  <2>3. length' \in [Slots -> Nat \cup {-1}]
    BY <1>2, <1>3 DEF TypeOK
  <2> QED
    BY <1>3, <2>2, <2>3 DEF TypeOK, Slots, Cells
<1>7. ASSUME init = 1, ~closed
      PROVE  /\ \A u \in Slots : length'[u] # -1 <=> \E j \in 1 .. Len(t) : mq_msg[t[j]] = u
             /\ \A j, l \in 1 .. Len(t) : mq_msg[t[j]] = mq_msg[t[l]] => j = l
  <2>1. \A u \in Slots : length[u] # -1 <=> \E j \in 1 .. Len(s) : mq_msg[s[j]] = u
    BY <1>7 DEF SlotsOf
  <2>2. \A j, l \in 1 .. Len(s) : mq_msg[s[j]] = mq_msg[s[l]] => j = l
    BY <1>7 DEF SlotsOf
  <2>3. \A u \in Slots : length'[u] = IF u = mq_msg[s[1]] THEN -1 ELSE length[u]
    BY <1>2, <1>3 DEF TypeOK
  <2>4. ASSUME NEW u \in Slots
        PROVE  (\E j \in 1 .. Len(t) : mq_msg[t[j]] = u) <=>
                 u # mq_msg[s[1]] /\ \E j \in 1 .. Len(s) : mq_msg[s[j]] = u
    <3>1. ASSUME NEW j \in 1 .. Len(t), mq_msg[t[j]] = u
          PROVE  u # mq_msg[s[1]] /\ \E l \in 1 .. Len(s) : mq_msg[s[l]] = u
      <4>1. j + 1 \in 1 .. Len(s) /\ j + 1 # 1 /\ t[j] = s[j + 1]
        BY <1>1, <1>5
      <4>2. mq_msg[s[j + 1]] = u
        BY <3>1, <4>1
      <4>3. mq_msg[s[j + 1]] # mq_msg[s[1]]
        BY <1>2, <2>2, <4>1
      <4> QED
        BY <4>1, <4>2, <4>3
    <3>2. ASSUME NEW j \in 1 .. Len(s), mq_msg[s[j]] = u, u # mq_msg[s[1]]
          PROVE  \E l \in 1 .. Len(t) : mq_msg[t[l]] = u
      <4>1. j - 1 \in 1 .. Len(t) /\ t[j - 1] = s[j]
        BY <1>1, <1>5, <3>2
      <4> QED
        BY <3>2, <4>1
    <3> QED
      BY <3>1, <3>2
  <2>5. ASSUME NEW j \in 1 .. Len(t), NEW l \in 1 .. Len(t), mq_msg[t[j]] = mq_msg[t[l]]
        PROVE  j = l
    <3>1. /\ j + 1 \in 1 .. Len(s) /\ t[j] = s[j + 1]
          /\ l + 1 \in 1 .. Len(s) /\ t[l] = s[l + 1]
      BY <1>1, <1>5
    <3>2. j + 1 = l + 1
      BY <2>2, <2>5, <3>1
    <3> QED
      BY <3>2
  <2> QED
    BY <2>1, <2>3, <2>4, <2>5
<1>8. init = 0 /\ ~closed => FALSE
  BY <1>2 DEF SlotsOf
<1>9. SlotsOf(t)'
  BY <1>3, <1>7, <1>8 DEF SlotsOf, Slots
<1> QED
  BY <1>2, <1>4, <1>6, <1>9 DEF t

(* mq_receive takes the head of the sequence of MyQueue.                   *)
LEMMA ReceiveTakes ==
  ASSUME TypeOK, NEW s, Linked(s), s # <<>>, Receive, Linked(Tail(s))'
  PROVE  Takes
<1> DEFINE t == Tail(s)
           L == [j \in 1 .. Len(s) |-> mq_msg[s[j]]]
<1>1. /\ s \in Seq(Cells) /\ Len(s) \in Nat \ {0} /\ \A j \in 1 .. Len(s) : s[j] \in Cells
      /\ ind = s[1]
  BY DEF Linked
<1>2. Len(t) = Len(s) - 1 /\ \A j \in 1 .. Len(s) - 1 : t[j] = s[j + 1]
  BY <1>1
<1>3. L \in Seq(Slots) /\ Len(L) = Len(s) /\ \A j \in 1 .. Len(s) : L[j] = mq_msg[s[j]]
  BY <1>1 DEF TypeOK
<1>4. List = L
  BY ChainNow DEF List
<1>5. Chain' = t
  BY ChainNext
<1> HIDE DEF t, L
<1>6. List' = [j \in 1 .. Len(s) - 1 |-> mq_msg[t[j]]]
  BY <1>2, <1>5 DEF List, Receive
<1>7. L # <<>> /\ Tail(L) = [j \in 1 .. Len(s) - 1 |-> L[j + 1]] /\ Head(L) = L[1]
  <2>1. L # <<>> /\ L \in Seq(Slots) /\ Len(L) = Len(s)
    BY <1>1, <1>3
  <2>2. /\ Tail(L) \in Seq(Slots) /\ Len(Tail(L)) = Len(s) - 1
        /\ \A j \in 1 .. Len(s) - 1 : Tail(L)[j] = L[j + 1]
    BY <1>1, <2>1, HeadTailProperties
  <2>3. Tail(L) = [j \in 1 .. Len(Tail(L)) |-> Tail(L)[j]]
    <3>1. \A q \in Seq(Slots) : q = [j \in 1 .. Len(q) |-> q[j]]
      OBVIOUS
    <3> QED
      BY <2>2, <3>1
  <2> QED
    BY <2>1, <2>2, <2>3
<1>8. \A j \in 1 .. Len(s) - 1 : mq_msg[t[j]] = L[j + 1]
  BY <1>1, <1>2, <1>3
<1>9. List' = Tail(L)
  BY <1>6, <1>7, <1>8
<1>10. length'[Head(L)] = -1
  BY <1>1, <1>3, <1>7 DEF Receive, TypeOK
<1> QED
  BY <1>4, <1>7, <1>9, <1>10 DEF Takes

-----------------------------------------------------------------------------
(* The invariant and what follows from it                                  *)

LEMMA InitShape == Init => IInv
<1> SUFFICES ASSUME Init PROVE IInv
  OBVIOUS
<1>1. MAX_MSG \in Nat \ {0} /\ 0 \in Slots /\ 0 \in Cells
  BY SizeAssumption DEF Slots, Cells
<1>2. TypeOK
  BY <1>1 DEF Init, TypeOK
<1>3. Linked(<<>>)
  <2>1. <<>> \in Seq(Cells) /\ Len(<<>>) = 0
    OBVIOUS
  <2> QED
    BY <1>1, <2>1 DEF Init, Linked
<1>4. SlotsOf(<<>>)
  BY DEF Init, SlotsOf
<1> QED
  BY <1>2, <1>3, <1>4 DEF IInv, Shape

LEMMA NextShape == IInv /\ [Next]_vars => IInv'
<1> SUFFICES ASSUME IInv, [Next]_vars PROVE IInv'
  OBVIOUS
<1>0. TypeOK
  BY DEF IInv
<1>1. PICK s : Linked(s) /\ SlotsOf(s)
  BY DEF IInv, Shape
<1>2. CASE Send
  <2>1. PICK slot \in Slots, i \in Cells, k \in 1 .. Len(s) + 1, x \in Prios, m \in Payloads :
          Inserts(s, slot, i, k, x, m)
    BY <1>0, <1>1, <1>2, SendInserts
  <2>2. TypeOK' /\ Linked(InsertAt(s, k, i))' /\ SlotsOf(InsertAt(s, k, i))'
    BY <1>0, <1>1, <2>1, InsertsKeep
  <2> QED
    BY <2>2, Zenon DEF IInv, Shape
<1>3. CASE Receive
  <2>1. TypeOK' /\ Linked(Tail(s))' /\ SlotsOf(Tail(s))'
    BY <1>0, <1>1, <1>3, ReceiveKeeps
  <2> QED
    BY <2>1, Zenon DEF IInv, Shape
<1>4. CASE Close
  <2>1. /\ ind' = ind /\ next' = next /\ mq_msg' = mq_msg /\ length' = length /\ prio' = prio
        /\ data' = data /\ sent' = sent /\ init' = 0 /\ closed' = TRUE
    BY <1>4 DEF Close, cells, slots
  <2>2. TypeOK'
    BY <1>0, <2>1 DEF TypeOK, Slots, Cells
  <2>3. Linked(s)' /\ SlotsOf(s)'
    BY <1>1, <2>1 DEF Linked, SlotsOf, Cells
  <2> QED
    BY <2>2, <2>3, Zenon DEF IInv, Shape
<1>5. CASE UNCHANGED vars
  <2>1. /\ ind' = ind /\ next' = next /\ mq_msg' = mq_msg /\ length' = length /\ prio' = prio
        /\ data' = data /\ sent' = sent /\ init' = init /\ closed' = closed
    BY <1>5 DEF vars, cells, slots
  <2>2. TypeOK'
    BY <1>0, <2>1 DEF TypeOK, Slots, Cells
  <2>3. Linked(s)' /\ SlotsOf(s)'
    BY <1>1, <2>1 DEF Linked, SlotsOf, Cells, Slots
  <2> QED
    BY <2>2, <2>3, Zenon DEF IInv, Shape
<1> QED
  BY <1>2, <1>3, <1>4, <1>5 DEF Next

(* Some sequence without repetition is always the chain from shm->ind on,  *)
(* it passes exactly the cells that are not free and, until a mq_close,    *)
(* exactly the slots in use: mq_send and mq_receive keep the links of      *)
(* lines 248-297 and 372-377 in order.                                     *)
THEOREM ChainInvariance == Spec => []IInv
<1>1. Init => IInv
  BY InitShape
<1>2. IInv /\ [Next]_vars => IInv'
  BY NextShape
<1> QED
  BY <1>1, <1>2, PTL DEF Spec

(* A sequence without repetition has as many elements as places.           *)
LEMMA PlacesCounted ==
  ASSUME NEW S, NEW s \in Seq(S), \A j, k \in 1 .. Len(s) : s[j] = s[k] => j = k
  PROVE  Cardinality(ToSet(s)) = Len(s)
<1>1. Len(s) \in Nat /\ DOMAIN s = 1 .. Len(s) /\ ToSet(s) = {s[j] : j \in 1 .. Len(s)}
  BY DEF ToSet
<1>2. s \in [1 .. Len(s) -> ToSet(s)]
  <2>1. s = [j \in 1 .. Len(s) |-> s[j]]
    OBVIOUS
  <2> QED
    BY <1>1, <2>1
<1>3. s \in Injection(1 .. Len(s), ToSet(s))
  BY <1>1, <1>2 DEF Injection, IsInjective
<1>4. s \in Surjection(1 .. Len(s), ToSet(s))
  BY <1>1, <1>2 DEF Surjection
<1>5. ExistsBijection(1 .. Len(s), ToSet(s))
  BY <1>3, <1>4 DEF ExistsBijection, Bijection
<1> QED
  BY <1>1, <1>5, FS_CountingElements

(* The cells that mq_send takes for free are exactly those the chain does  *)
(* not pass, the chain never loops, and until a mq_close each slot in use  *)
(* has exactly one cell.                                                   *)
THEOREM CellsArePartitioned == Spec => []CellsPartition
<1>1. IInv => CellsPartition
  <2> SUFFICES ASSUME IInv PROVE CellsPartition
    OBVIOUS
  <2>1. PICK s : Linked(s) /\ SlotsOf(s)
    BY DEF IInv, Shape
  <2>2. Chain = s
    BY <2>1, ChainNow
  <2>3. /\ s \in Seq(Cells) /\ \A j \in 1 .. Len(s) : s[j] \in Cells
        /\ ToSet(s) = {s[j] : j \in 1 .. Len(s)}
    BY <2>1 DEF Linked, ToSet
  <2>4. {c \in Cells : next[c] = -2} = Cells \ ToSet(s)
    BY <2>1, <2>3 DEF Linked
  <2>5. Cardinality(ToSet(s)) = Len(s)
    BY <2>1, <2>3, PlacesCounted DEF Linked
  <2>6. ASSUME init = 1, ~closed
        PROVE  /\ {mq_msg[c] : c \in ToSet(s)} = {u \in Slots : length[u] # -1}
               /\ \A c, d \in ToSet(s) : mq_msg[c] = mq_msg[d] => c = d
    <3>1. \A j \in 1 .. Len(s) : mq_msg[s[j]] \in Slots
      BY <2>3 DEF IInv, TypeOK
    <3>2. /\ \A u \in Slots : length[u] # -1 <=> \E j \in 1 .. Len(s) : mq_msg[s[j]] = u
          /\ \A j, k \in 1 .. Len(s) : mq_msg[s[j]] = mq_msg[s[k]] => j = k
      BY <2>1, <2>6 DEF SlotsOf
    <3> QED
      BY <2>3, <3>1, <3>2
  <2> QED
    BY <2>2, <2>4, <2>5, <2>6 DEF CellsPartition
<1> QED
  BY <1>1, ChainInvariance, PTL

(* Every step that changes the cells puts a slot into the sequence of the  *)
(* slots, at its priority's place, or takes its head: the walk and the     *)
(* links of mq_send (lines 248-297) and of mq_receive (lines 372-377) do   *)
(* to cl_mq what MyQueue's mq_send and mq_receive do to a sequence.        *)
THEOREM StepsAreSequenceSteps == Spec => SequenceSteps
<1>1. IInv /\ [Next]_vars => [Puts \/ Takes]_cells
  <2> SUFFICES ASSUME IInv, [Next]_vars PROVE [Puts \/ Takes]_cells
    OBVIOUS
  <2>0. TypeOK
    BY DEF IInv
  <2>1. PICK s : Linked(s) /\ SlotsOf(s)
    BY DEF IInv, Shape
  <2>2. CASE Send
    <3>1. PICK slot \in Slots, i \in Cells, k \in 1 .. Len(s) + 1, x \in Prios, m \in Payloads :
            Inserts(s, slot, i, k, x, m)
      BY <2>0, <2>1, <2>2, SendInserts
    <3>2. Linked(InsertAt(s, k, i))'
      BY <2>0, <2>1, <3>1, InsertsKeep
    <3> QED
      BY <2>0, <2>1, <3>1, <3>2, InsertsPuts
  <2>3. CASE Receive
    <3>1. s # <<>> /\ Linked(Tail(s))'
      BY <2>0, <2>1, <2>3, ReceiveKeeps
    <3> QED
      BY <2>0, <2>1, <2>3, <3>1, ReceiveTakes
  <2>4. CASE Close
    BY <2>4 DEF Close
  <2>5. CASE UNCHANGED vars
    BY <2>5 DEF vars
  <2> QED
    BY <2>2, <2>3, <2>4, <2>5 DEF Next
<1> QED
  BY <1>1, ChainInvariance, PTL DEF Spec, SequenceSteps

-----------------------------------------------------------------------------
(* Strings                                                                 *)

(* The message m is a string: its last byte is its only NUL.               *)
IsString(m) ==
  Len(m) > 0 /\ m[Len(m)] = NUL /\ \A b \in 1 .. Len(m) - 1 : m[b] # NUL

(* strcpy gets out what strncpy put in, whatever the slot held before.     *)
LEMMA StringCopied ==
  ASSUME NEW t, NEW m \in Payloads, IsString(m)
  PROVE  Strcpy(Strncpy(t, m)) = m
<1> DEFINE f == Strncpy(t, m)
           S == ToSet(m)
<1>1. m \in Seq(S) /\ Len(m) \in 1 .. MAX_SIZ_MSG /\ MAX_SIZ_MSG \in Nat
  BY PayloadsAssumption, SizeAssumption DEF IsString
<1> HIDE DEF S
<1>2. {b \in 1 .. Len(m) : m[b] = NUL} = {Len(m)}
  BY <1>1 DEF IsString
<1>3. f = [b \in 1 .. MAX_SIZ_MSG |->
             IF b > Len(m) THEN data[t][b]
             ELSE IF \E e \in {Len(m)} : e <= b THEN NUL ELSE m[b]]
  BY <1>2 DEF Strncpy
<1>4. \A b \in 1 .. Len(m) : f[b] = m[b]
  BY <1>1, <1>3 DEF IsString
<1> HIDE DEF f
<1> DEFINE ends == {b \in 1 .. MAX_SIZ_MSG : f[b] = NUL}
<1>5. Len(m) \in ends /\ \A b \in ends : Len(m) <= b
  BY <1>1, <1>4 DEF IsString
<1>6. ends # {} /\ ends \subseteq Int
  BY <1>5
<1> HIDE DEF ends
<1>7. Min(ends) = Len(m)
  <2>1. Min(ends) \in ends /\ \A b \in ends : Min(ends) <= b
    <3>1. \E b \in ends : \A c \in ends : b <= c
      BY <1>5
    <3> QED
      BY <3>1 DEF Min
  <2>2. Min(ends) <= Len(m) /\ Len(m) <= Min(ends)
    BY <1>5, <2>1
  <2>3. Min(ends) \in Int /\ Len(m) \in Int
    BY <1>5, <1>6, <2>1
  <2>4. \A a, b \in Int : a <= b /\ b <= a => a = b
    OBVIOUS
  <2> QED
    BY <2>2, <2>3, <2>4, Zenon
<1>8. Strcpy(f) = SubSeq(f, 1, Len(m))
  BY <1>6, <1>7, Zenon DEF Strcpy, ends
<1>9. SubSeq(f, 1, Len(m)) = m
  <2>1. \A b \in 1 .. Len(m) : f[b] \in S
    BY <1>1, <1>4
  <2>2. /\ SubSeq(f, 1, Len(m)) \in Seq(S)
        /\ Len(SubSeq(f, 1, Len(m))) = Len(m)
        /\ \A b \in 1 .. Len(m) : SubSeq(f, 1, Len(m))[b] = f[b]
    <3>1. 1 \in Int /\ Len(m) \in Int /\ 1 <= Len(m)
      BY <1>1
    <3>2. /\ SubSeq(f, 1, Len(m)) \in Seq(S)
          /\ Len(SubSeq(f, 1, Len(m))) = IF 1 <= Len(m) THEN Len(m) - 1 + 1 ELSE 0
          /\ \A b \in 1 .. Len(m) - 1 + 1 : SubSeq(f, 1, Len(m))[b] = f[1 + b - 1]
      BY <2>1, <3>1, SubSeqProperties
    <3> QED
      BY <3>1, <3>2
  <2> QED
    BY <1>1, <1>4, <2>2
<1> QED
  BY <1>8, <1>9 DEF f

(* Until a mq_close, each slot in use holds the string sent to it.         *)
Held ==
  ~closed =>
    /\ taken.buff = taken.message
    /\ init = 1 => \A t \in Slots : length[t] # -1 => Strcpy(data[t]) = sent[t]

(* As long as every message sent is a string with its NUL, the calls of    *)
(* strncpy and strcpy of lines 222 and 370 give back what was sent, even   *)
(* into a slot that held a longer message.                                 *)
THEOREM StringsComeBack ==
  ASSUME \A m \in Payloads : IsString(m)
  PROVE  Spec => []StringsReturned
<1>1. Init => Held
  BY DEF Init, Held
<1>2. IInv /\ Held /\ [Next]_vars => Held'
  <2> SUFFICES ASSUME IInv, Held, [Next]_vars, ~closed' PROVE Held'
    BY DEF Held
  <2>0. TypeOK
    BY DEF IInv
  <2>1. PICK s : Linked(s) /\ SlotsOf(s)
    BY DEF IInv, Shape
  <2>2. CASE Send
    <3>1. PICK slot \in Slots, i \in Cells, k \in 1 .. Len(s) + 1, x \in Prios, m \in Payloads :
            Inserts(s, slot, i, k, x, m)
      BY <2>0, <2>1, <2>2, SendInserts
    <3>2. /\ ~closed /\ taken' = taken /\ init' = 1 /\ DOMAIN data = Slots /\ DOMAIN sent = Slots
          /\ length' = [ResetLengths EXCEPT ![slot] = Len(m)]
          /\ data' = [data EXCEPT ![slot] = Strncpy(slot, m)]
          /\ sent' = [sent EXCEPT ![slot] = m]
      BY <2>0, <3>1 DEF Inserts, TypeOK
    <3>3. Strcpy(Strncpy(slot, m)) = m
      BY StringCopied
    <3>4. ASSUME NEW t \in Slots, length'[t] # -1
          PROVE  Strcpy(data'[t]) = sent'[t]
      <4> HIDE DEF Strncpy, Strcpy
      <4>1. CASE t = slot
        BY <3>2, <3>3, <4>1
      <4>2. CASE t # slot
        <5>1. data'[t] = data[t] /\ sent'[t] = sent[t]
          BY <3>2, <4>2
        <5>2. ResetLengths[t] # -1 /\ init \in {0, 1}
          BY <2>0, <3>2, <3>4, <4>2 DEF TypeOK, ResetLengths
        <5>3. init = 1 /\ length[t] # -1
          BY <5>2 DEF ResetLengths
        <5> QED
          BY <3>2, <5>1, <5>3 DEF Held
      <4> QED
        BY <4>1, <4>2
    <3>5. taken'.buff = taken'.message
      BY <3>2 DEF Held
    <3> HIDE DEF Strcpy
    <3> QED
      BY <3>4, <3>5 DEF Held
  <2>3. CASE Receive
    <3>1. /\ ~closed /\ closed' = closed /\ init' = init /\ data' = data /\ sent' = sent
          /\ length' = [length EXCEPT ![mq_msg[ind]] = -1]
          /\ taken' = [message |-> sent[mq_msg[ind]], buff |-> Strcpy(data[mq_msg[ind]])]
      BY <2>3 DEF Receive
    <3>2. s # <<>> /\ init = 1
      BY <2>0, <2>1, <2>3, <3>1, ReceiveKeeps DEF SlotsOf, TypeOK
    <3>3. ind = s[1] /\ 1 \in 1 .. Len(s) /\ ind \in Cells
      BY <2>1, <3>2 DEF Linked
    <3>4. mq_msg[ind] \in Slots /\ length[mq_msg[ind]] # -1
      BY <2>0, <2>1, <3>1, <3>2, <3>3 DEF TypeOK, SlotsOf
    <3>5. taken'.buff = taken'.message
      BY <3>1, <3>2, <3>4 DEF Held
    <3>6. \A t \in Slots : length'[t] # -1 => length[t] # -1
      BY <2>0, <3>1 DEF TypeOK
    <3>7. \A t \in Slots : length[t] # -1 => Strcpy(data[t]) = sent[t]
      BY <3>1, <3>2 DEF Held
    <3> HIDE DEF Strcpy
    <3> QED
      BY <3>1, <3>5, <3>6, <3>7 DEF Held, Slots
  <2>4. CASE Close
    BY <2>4 DEF Close
  <2>5. CASE UNCHANGED vars
    <3>1. /\ closed' = closed /\ init' = init /\ data' = data /\ sent' = sent
          /\ length' = length /\ taken' = taken
      BY <2>5 DEF vars, slots
    <3> QED
      BY <3>1 DEF Held, Slots
  <2> QED
    BY <2>2, <2>3, <2>4, <2>5 DEF Next
<1>3. Held => StringsReturned
  BY DEF Held, StringsReturned
<1> QED
  BY <1>1, <1>2, <1>3, ChainInvariance, PTL DEF Spec
=============================================================================
