------------------------ MODULE MultiConverterProofs ------------------------
(***************************************************************************)
(* The currency server of TME9 for any number of children, any clients and *)
(* any user: the three semaphores of the children keep the phases of a     *)
(* request apart, the two of the clients never announce an answer nobody   *)
(* waits for, and with clients that come one by one the replies are whole  *)
(* and stay as they are while they are read.                               *)
(***************************************************************************)
EXTENDS MultiConverter, FiniteSetTheorems, TLAPS

(* Where the father, a child and a client can stand.  The father stands in *)
(* TurnPcs inside one of its three loops, in RestPcs between two of them.  *)
StartPcs == {"open_shm", "open_shmc", "truncate", "init_f", "init_p", "init_shm"}
TurnPcs == {"send", "collect", "release"}
RestPcs == {"wait", "devise", "montant", "copy", "reply"}
FatherPcs == StartPcs \cup TurnPcs \cup RestPcs \cup {"fork", "dead"}
ChildPcs == {"unborn", "wait_f", "convert", "post_p", "wait_c", "dead"}
ClientPcs == RunningPcs \cup {"start", "refused", "sigbus", "done", "killed"}

TypeOK ==
  /\ user \in User
  /\ pc \in [Procs -> FatherPcs \cup ChildPcs \cup ClientPcs]
  /\ pc[Father] \in FatherPcs
  /\ \A k \in Converters : pc[k] \in ChildPcs
  /\ \A c \in Clients : pc[c] \in ClientPcs
  /\ i \in 0 .. NB_CONVERTERS
  /\ csem \in [mutexf : Nat, mutexp : Nat]
  /\ sem \in [mutexf : Nat, mutexp : Nat, check : Nat]
  /\ shmc \in Segment /\ shm \in Segment

(* The loop counter: it only counts inside a loop, and a child is born     *)
(* when the counter of the forks has passed it.  The children die with the *)
(* father.                                                                 *)
Turns ==
  /\ pc[Father] \in StartPcs => i = 0 /\ \A k \in Converters : pc[k] = "unborn"
  /\ at(Father, "fork") => \A k \in Converters : k >= i => pc[k] = "unborn"
  /\ pc[Father] \in TurnPcs => i < NB_CONVERTERS
  /\ pc[Father] \in RestPcs => i = 0
  /\ at(Father, "dead") => \A k \in Converters : pc[k] = "dead"

-----------------------------------------------------------------------------
(* The steps of the three kinds of processes                               *)

(* The father is no child, the clients are neither.                        *)
LEMMA Apart ==
  /\ Father \in Procs /\ Father \notin Converters /\ Father \notin Clients
  /\ Converters \subseteq Procs /\ Clients \subseteq Procs
  /\ Converters \cap Clients = {}
  BY ConvertersAssumption, ClientsAssumption DEF Father, Converters, Procs

(* A move of one process leaves the others where they are.                 *)
LEMMA OnlyOne ==
  ASSUME TypeOK, NEW p \in Procs, NEW l, goto(p, l)
  PROVE  pc'[p] = l /\ \A q \in Procs : q # p => pc'[q] = pc[q]
  BY DEF TypeOK, goto

(* The next value of the counter in the three loops.                       *)
LEMMA NextTurn ==
  ASSUME i \in 0 .. NB_CONVERTERS - 1
  PROVE  (i + 1) % NB_CONVERTERS = IF i + 1 = NB_CONVERTERS THEN 0 ELSE i + 1
<1>1. \A n \in Nat \ {0} : n % n = 0
  OBVIOUS
<1>2. \A n \in Nat \ {0} : \A m \in 0 .. n - 1 : m % n = m
  OBVIOUS
<1> QED
  BY <1>1, <1>2, ConvertersAssumption

-----------------------------------------------------------------------------
(* Type correctness                                                        *)

(* The father's steps keep the types.                                      *)
LEMMA ServerTypes ==
  ASSUME TypeOK, Turns, Server
  PROVE  TypeOK'
<1>n. NB_CONVERTERS \in Nat \ {0}
  BY ConvertersAssumption
<1> USE <1>n, Apart DEF TypeOK, Move, goto, at, StartPcs, TurnPcs, RestPcs, FatherPcs,
        sem_wait, sem_post, csem_wait, csem_post, segments
<1>1. CASE OpenShm \/ OpenShmc \/ Truncate
  BY <1>1 DEF OpenShm, OpenShmc, Truncate
<1>2. CASE InitF \/ InitP
  BY <1>2 DEF InitF, InitP
<1>3. CASE InitShm
  BY <1>3 DEF InitShm
<1>4. CASE Fork
  <2>1. i \in Converters /\ i + 1 \in 0 .. NB_CONVERTERS
    BY <1>4 DEF Fork, Converters
  <2>2. i \in Procs /\ i # Father /\ i \notin Clients
    BY <2>1
  <2> QED
    BY <1>4, <2>1, <2>2 DEF Fork, ChildPcs
<1>5. CASE Sigaction
  BY <1>5 DEF Sigaction
<1>6. CASE TakeRequest \/ Reply
  BY <1>6 DEF TakeRequest, Reply
<1>7. CASE CopyDevise \/ CopyMontant \/ CopyResults
  BY <1>7 DEF CopyDevise, CopyMontant, CopyResults, Segment
<1>8. CASE Distribute \/ Collect \/ Release
  <2>1. pc[Father] \in TurnPcs
    BY <1>8 DEF Distribute, Collect, Release, Turn
  <2>2. i \in 0 .. NB_CONVERTERS - 1
    BY <2>1 DEF Turns
  <2>3. (i + 1) % NB_CONVERTERS \in 0 .. NB_CONVERTERS
    BY <2>2, NextTurn
  <2> QED
    BY <1>8, <2>3 DEF Distribute, Collect, Release, Turn
<1> QED
  BY <1>1, <1>2, <1>3, <1>4, <1>5, <1>6, <1>7, <1>8 DEF Server, ServerStart, ServerLoop

(* So do those of a child and of a client, and SIGINT.                     *)
LEMMA OtherTypes ==
  ASSUME TypeOK,
         \/ Interrupt
         \/ \E k \in Converters : Converter(k)
         \/ \E c \in Clients : ClientOpen(c) \/ Client(c) \/ ClientKilled(c)
  PROVE  TypeOK'
<1> USE Apart DEF TypeOK, Move, goto, at, sem_wait, sem_post, csem_wait, csem_post,
        segments, ChildPcs, ClientPcs, RunningPcs, FatherPcs
<1>1. CASE Interrupt
  BY <1>1 DEF Interrupt
<1>2. ASSUME NEW k \in Converters, Converter(k)
      PROVE  TypeOK'
  <2>1. CASE Convert(k)
    <3>1. shm' \in Segment
      BY <2>1 DEF Convert, Segment, Results, Result
    <3> QED
      BY <2>1, <3>1 DEF Convert
  <2> QED
    BY <1>2, <2>1 DEF Converter, TakeWork, PostResult, Released
<1>3. ASSUME NEW c \in Clients, ClientOpen(c) \/ Client(c) \/ ClientKilled(c)
      PROVE  TypeOK'
  <2>1. CASE ClientDevise(c) \/ ClientMontant(c)
    <3>1. shmc' \in Segment
      BY <2>1 DEF ClientDevise, ClientMontant, Segment, Written
    <3> QED
      BY <2>1, <3>1 DEF ClientDevise, ClientMontant
  <2>2. CASE ClientOpen(c) \/ ClientKilled(c) \/ ClientFault(c) \/ ClientRead(c)
    BY <2>2 DEF ClientOpen, ClientKilled, ClientFault, ClientRead
  <2>3. CASE ClientPost(c) \/ ClientWait(c)
    BY <2>3 DEF ClientPost, ClientWait
  <2> QED
    BY <1>3, <2>1, <2>2, <2>3 DEF Client
<1> QED
  BY <1>1, <1>2, <1>3

-----------------------------------------------------------------------------
(* The counter and the children                                            *)

(* The father's steps keep the relation of its counter and its children.   *)
LEMMA ServerTurns ==
  ASSUME TypeOK, Turns, Server
  PROVE  Turns'
<1>n. NB_CONVERTERS \in Nat \ {0}
  BY ConvertersAssumption
<1>o. \A l : goto(Father, l) => /\ pc'[Father] = l
                               /\ \A k \in Converters : pc'[k] = pc[k]
  BY OnlyOne, Apart
<1> USE <1>n, <1>o DEF TypeOK, Turns, Move, at, StartPcs, TurnPcs, RestPcs, FatherPcs
<1>1. CASE OpenShm \/ OpenShmc \/ Truncate \/ InitF \/ InitP \/ InitShm
  BY <1>1 DEF OpenShm, OpenShmc, Truncate, InitF, InitP, InitShm
<1>2. CASE Fork
  <2>1. i \in Converters /\ i # Father /\ i' = i + 1
    BY <1>2, Apart DEF Fork, Converters
  <2>2. pc'[Father] = "fork" /\ \A k \in Converters : k # i => pc'[k] = pc[k]
    BY <1>2, <2>1, Apart, OnlyOne DEF Fork
  <2> QED
    BY <1>2, <2>1, <2>2 DEF Fork, Converters
<1>3. CASE Sigaction
  BY <1>3 DEF Sigaction
<1>4. CASE TakeRequest \/ Reply \/ CopyDevise \/ CopyMontant \/ CopyResults
  BY <1>4 DEF TakeRequest, Reply, CopyDevise, CopyMontant, CopyResults
<1>5. CASE Distribute \/ Collect \/ Release
  <2>1. pc[Father] \in TurnPcs /\ i \in 0 .. NB_CONVERTERS - 1
    BY <1>5 DEF Distribute, Collect, Release, Turn
  <2>2. i' = IF i + 1 = NB_CONVERTERS THEN 0 ELSE i + 1
    BY <1>5, <2>1, NextTurn DEF Distribute, Collect, Release, Turn
  <2>3. \/ i + 1 = NB_CONVERTERS /\ pc'[Father] \in TurnPcs \cup RestPcs
        \/ i + 1 # NB_CONVERTERS /\ pc'[Father] \in TurnPcs
    BY <1>5 DEF Distribute, Collect, Release, Turn
  <2> QED
    BY <2>1, <2>2, <2>3
<1> QED
  BY <1>1, <1>2, <1>3, <1>4, <1>5 DEF Server, ServerStart, ServerLoop

(* A child that has a step to make is born and alive.                      *)
LEMMA OtherTurns ==
  ASSUME TypeOK, Turns,
         \/ Interrupt
         \/ \E k \in Converters : Converter(k)
         \/ \E c \in Clients : ClientOpen(c) \/ Client(c) \/ ClientKilled(c)
  PROVE  Turns'
<1> USE DEF TypeOK, Move, at
<1>1. CASE Interrupt
  BY <1>1, Apart DEF Interrupt, Turns, StartPcs, TurnPcs, RestPcs
<1>2. ASSUME NEW k \in Converters, Converter(k)
      PROVE  Turns'
  <2>1. pc[k] \notin {"unborn", "dead"} /\ (\E l : goto(k, l)) /\ i' = i
    BY <1>2 DEF Converter, TakeWork, Convert, PostResult, Released
  <2>2. pc'[Father] = pc[Father] /\ \A j \in Converters : j # k => pc'[j] = pc[j]
    BY <2>1, OnlyOne, Apart
  <2> QED
    BY <2>1, <2>2 DEF Turns
<1>3. ASSUME NEW c \in Clients, ClientOpen(c) \/ Client(c) \/ ClientKilled(c)
      PROVE  Turns'
  <2>1. (\E l : goto(c, l)) /\ i' = i
    BY <1>3 DEF ClientOpen, ClientKilled, Client, ClientDevise, ClientFault, ClientMontant,
       ClientPost, ClientWait, ClientRead
  <2>2. pc'[Father] = pc[Father] /\ \A j \in Converters : pc'[j] = pc[j]
    BY <2>1, OnlyOne, Apart
  <2> QED
    BY <2>1, <2>2 DEF Turns
<1> QED
  BY <1>1, <1>2, <1>3

-----------------------------------------------------------------------------
(* The semaphores of the children                                          *)

(* The children that stand in a set of places, counted.                    *)
Count(ls) == Cardinality(Standing(ls))

Enters(e, l, ls) == IF e \in ls <=> l \in ls THEN 0 ELSE IF l \in ls THEN 1 ELSE -1

(* A process that moves changes the counts of the places it leaves and     *)
(* enters, among any finite set of processes it belongs to.                *)
LEMMA MoveCount ==
  ASSUME TypeOK, NEW S \in SUBSET Procs, IsFiniteSet(S), NEW p \in S, NEW l, goto(p, l), NEW ls
  PROVE  /\ Cardinality({q \in S : pc[q] \in ls}) \in Nat
         /\ Cardinality({q \in S : pc'[q] \in ls})
              = Cardinality({q \in S : pc[q] \in ls}) + Enters(pc[p], l, ls)
<1> DEFINE F == {q \in S : pc[q] \in ls}
           G == {q \in S : pc'[q] \in ls}
<1>2. IsFiniteSet(F) /\ Cardinality(F) \in Nat
  BY FS_Subset, FS_CardinalityType
<1>3. pc'[p] = l /\ \A q \in S : q # p => pc'[q] = pc[q]
  BY OnlyOne
<1>4. (pc[p] \in ls <=> l \in ls) => G = F
  BY <1>3
<1>5. pc[p] \notin ls /\ l \in ls => G = F \cup {p} /\ p \notin F
  BY <1>3
<1>6. pc[p] \in ls /\ l \notin ls => G = F \ {p} /\ p \in F
  BY <1>3
<1> HIDE DEF F, G
<1>7. Cardinality(G) = Cardinality(F) + Enters(pc[p], l, ls)
  <2>1. CASE pc[p] \in ls <=> l \in ls
    BY <1>2, <1>4, <2>1 DEF Enters
  <2>2. CASE pc[p] \notin ls /\ l \in ls
    <3>1. Cardinality(F \cup {p}) = Cardinality(F) + 1
      BY <1>2, <1>5, <2>2, FS_AddElement
    <3> QED
      BY <1>5, <2>2, <3>1 DEF Enters
  <2>3. CASE pc[p] \in ls /\ l \notin ls
    <3>1. Cardinality(F \ {p}) = Cardinality(F) - 1
      BY <1>2, <1>6, <2>3, FS_RemoveElement
    <3>2. Cardinality(G) = Cardinality(F) - 1 /\ Enters(pc[p], l, ls) = -1
      BY <1>6, <2>3, <3>1 DEF Enters
    <3> QED
      BY <1>2, <3>2
  <2> QED
    BY <2>1, <2>2, <2>3
<1> QED
  BY <1>2, <1>7 DEF F, G

(* The children are finitely many.                                         *)
LEMMA FiniteChildren == IsFiniteSet(Converters)
  BY FS_Interval, ConvertersAssumption DEF Converters

(* In particular a child that moves among the children.                    *)
LEMMA ChildCount ==
  ASSUME TypeOK, NEW k \in Converters, NEW l, goto(k, l), NEW ls
  PROVE  /\ Count(ls) \in Nat
         /\ Count(ls)' = Count(ls) + Enters(pc[k], l, ls)
<1>1. Converters \in SUBSET Procs
  BY Apart
<1> QED
  BY <1>1, FiniteChildren, MoveCount DEF Count, Standing

(* The counts are natural numbers.                                         *)
LEMMA CountType == \A ls : Count(ls) \in Nat
  BY FiniteChildren, FS_Subset, FS_CardinalityType DEF Count, Standing

(* What the father still has to post, or to wait for.                      *)
Due == IF at(Father, "send") THEN i
       ELSE IF at(Father, "collect") THEN NB_CONVERTERS - i ELSE 0

Owed == IF at(Father, "collect") THEN i
        ELSE IF at(Father, "release") THEN NB_CONVERTERS - i ELSE 0

Balances ==
  ~at(Father, "dead") =>
    /\ sem.mutexf + Count({"convert", "post_p"}) + sem.mutexp = Due
    /\ Count({"wait_c"}) - sem.check = sem.mutexp + Owed

(* The account of a request is WorkTokens and CheckTokens.                 *)
LEMMA BalancesAreTokens == Balances <=> WorkTokens /\ CheckTokens
  BY DEF Balances, WorkTokens, CheckTokens, Due, Owed, Count, Converting

(* Counts stay as they are when no child moves.                            *)
LEMMA SameCount ==
  ASSUME \A k \in Converters : pc'[k] = pc[k]
  PROVE  \A ls : Count(ls)' = Count(ls)
  BY DEF Count, Standing

(* Each step of the father keeps the balances: it posts what is due and    *)
(* takes what was announced.                                               *)
LEMMA ServerBalances ==
  ASSUME TypeOK, Turns, Balances, Server
  PROVE  Balances'
<1>n. NB_CONVERTERS \in Nat \ {0}
  BY ConvertersAssumption
<1>c. Count({"convert", "post_p"}) \in Nat /\ Count({"wait_c"}) \in Nat
  BY CountType
<1>t. sem.mutexf \in Nat /\ sem.mutexp \in Nat /\ sem.check \in Nat /\ i \in 0 .. NB_CONVERTERS
  BY DEF TypeOK
<1>o. ASSUME NEW l, goto(Father, l)
      PROVE  /\ pc'[Father] = l
             /\ Count({"convert", "post_p"})' = Count({"convert", "post_p"})
             /\ Count({"wait_c"})' = Count({"wait_c"})
  BY <1>o, OnlyOne, Apart, SameCount
<1> USE DEF Move, at, Balances, Due, Owed
<1>1. CASE OpenShm \/ OpenShmc \/ Truncate \/ InitF \/ InitP
  BY <1>1, <1>o DEF OpenShm, OpenShmc, Truncate, InitF, InitP
<1>2. CASE InitShm
  <2>1. \A k \in Converters : pc[k] = "unborn"
    BY <1>2 DEF InitShm, Turns, StartPcs
  <2>2. Count({"convert", "post_p"}) = 0 /\ Count({"wait_c"}) = 0
    <3>1. Standing({"convert", "post_p"}) = {} /\ Standing({"wait_c"}) = {}
      BY <2>1 DEF Standing
    <3> QED
      BY <3>1, FS_EmptySet DEF Count
  <2>3. sem'.mutexf = 0 /\ sem'.mutexp = 0 /\ sem'.check = 0
    BY <1>2 DEF InitShm, TypeOK
  <2> QED
    BY <1>2, <1>o, <2>2, <2>3 DEF InitShm
<1>3. CASE Fork
  <2>1. i \in Converters /\ pc[i] = "unborn" /\ goto(i, "wait_f") /\ i # Father
    BY <1>3, <1>n, <1>t, Apart DEF Fork, Turns, Converters
  <2>2. /\ Count({"convert", "post_p"})' = Count({"convert", "post_p"}) + 0
        /\ Count({"wait_c"})' = Count({"wait_c"}) + 0
    BY <2>1, ChildCount DEF Enters
  <2>3. pc'[Father] = "fork"
    BY <1>3, <2>1, OnlyOne, Apart DEF Fork
  <2> QED
    BY <1>3, <1>c, <2>2, <2>3 DEF Fork
<1>4. CASE Sigaction \/ TakeRequest \/ Reply \/ CopyDevise
  BY <1>4, <1>o DEF Sigaction, TakeRequest, Reply, CopyDevise, csem_wait, csem_post
<1>5. CASE CopyMontant \/ CopyResults
  <2>1. i = 0
    BY <1>5 DEF CopyMontant, CopyResults, Turns, RestPcs
  <2> QED
    BY <1>5, <1>o, <2>1 DEF CopyMontant, CopyResults
<1>6. ASSUME pc[Father] \in TurnPcs, i' = (i + 1) % NB_CONVERTERS
      PROVE  i' = (IF i + 1 = NB_CONVERTERS THEN 0 ELSE i + 1)
  <2>1. i \in 0 .. NB_CONVERTERS - 1
    BY <1>n, <1>t, <1>6 DEF Turns
  <2> QED
    BY <1>6, <2>1, NextTurn
<1>7. CASE Distribute
  <2>1. pc[Father] = "send" /\ i' = (IF i + 1 = NB_CONVERTERS THEN 0 ELSE i + 1)
    BY <1>6, <1>7 DEF Distribute, Turn, TurnPcs
  <2>2. sem'.mutexf = sem.mutexf + 1 /\ sem'.mutexp = sem.mutexp /\ sem'.check = sem.check
    BY <1>7 DEF Distribute, Turn, sem_post, TypeOK
  <2>3. goto(Father, IF i + 1 = NB_CONVERTERS THEN "collect" ELSE "send")
    BY <1>7 DEF Distribute, Turn
  <2> QED
    BY <1>c, <1>n, <1>o, <1>t, <2>1, <2>2, <2>3
<1>8. CASE Collect
  <2>1. pc[Father] = "collect" /\ i' = (IF i + 1 = NB_CONVERTERS THEN 0 ELSE i + 1)
    BY <1>6, <1>8 DEF Collect, Turn, TurnPcs
  <2>2. sem'.mutexp = sem.mutexp - 1 /\ sem'.mutexf = sem.mutexf /\ sem'.check = sem.check
    BY <1>8 DEF Collect, Turn, sem_wait, TypeOK
  <2>3. goto(Father, IF i + 1 = NB_CONVERTERS THEN "release" ELSE "collect")
    BY <1>8 DEF Collect, Turn
  <2> QED
    BY <1>c, <1>n, <1>o, <1>t, <2>1, <2>2, <2>3
<1>9. CASE Release
  <2>1. pc[Father] = "release" /\ i' = (IF i + 1 = NB_CONVERTERS THEN 0 ELSE i + 1)
    BY <1>6, <1>9 DEF Release, Turn, TurnPcs
  <2>2. sem'.check = sem.check + 1 /\ sem'.mutexf = sem.mutexf /\ sem'.mutexp = sem.mutexp
    BY <1>9 DEF Release, Turn, sem_post, TypeOK
  <2>3. goto(Father, IF i + 1 = NB_CONVERTERS THEN "copy" ELSE "release")
    BY <1>9 DEF Release, Turn
  <2>4. /\ Due = 0 /\ Owed = NB_CONVERTERS - i
        /\ sem.mutexf + Count({"convert", "post_p"}) + sem.mutexp = 0
        /\ Count({"wait_c"}) - sem.check = sem.mutexp + (NB_CONVERTERS - i)
    BY <2>1
  <2>5. /\ sem'.mutexf + Count({"convert", "post_p"})' + sem'.mutexp = 0
        /\ Count({"wait_c"})' - sem'.check = sem'.mutexp + (NB_CONVERTERS - (i + 1))
    <3>1. /\ Count({"convert", "post_p"})' = Count({"convert", "post_p"})
          /\ Count({"wait_c"})' = Count({"wait_c"})
      BY <1>o, <2>3
    <3>2. /\ Count({"convert", "post_p"})' \in Nat /\ Count({"wait_c"})' \in Nat
          /\ sem.check + 1 \in Nat /\ NB_CONVERTERS - i \in Int
      BY <1>c, <1>n, <1>t, <3>1
    <3> HIDE DEF Balances, Due, Owed
    <3>3. NB_CONVERTERS - (i + 1) = (NB_CONVERTERS - i) - 1
      BY <1>n, <1>t
    <3>4. Count({"wait_c"}) = sem.check + sem.mutexp + (NB_CONVERTERS - i)
      BY <1>c, <1>t, <2>4, <3>2
    <3>5. Count({"wait_c"}) - (sem.check + 1) = sem.mutexp + (NB_CONVERTERS - (i + 1))
      BY <1>c, <1>t, <3>2, <3>3, <3>4
    <3> QED
      BY <2>2, <2>4, <3>1, <3>5
  <2>6. Due' = 0 /\ Owed' = NB_CONVERTERS - (i + 1)
    <3>1. CASE i + 1 = NB_CONVERTERS
      <4>1. pc'[Father] = "copy"
        BY <1>o, <2>3, <3>1
      <4> QED
        BY <1>n, <1>t, <3>1, <4>1
    <3>2. CASE i + 1 # NB_CONVERTERS
      <4>1. pc'[Father] = "release" /\ i' = i + 1
        BY <1>o, <2>1, <2>3, <3>2
      <4> QED
        BY <4>1
    <3> QED
      BY <3>1, <3>2
  <2> QED
    BY <2>5, <2>6
<1> QED
  BY <1>1, <1>2, <1>3, <1>4, <1>5, <1>7, <1>8, <1>9 DEF Server, ServerStart, ServerLoop

(* A child hands on the unit it takes; a client has none.                  *)
LEMMA OtherBalances ==
  ASSUME TypeOK, Balances,
         \/ Interrupt
         \/ \E k \in Converters : Converter(k)
         \/ \E c \in Clients : ClientOpen(c) \/ Client(c) \/ ClientKilled(c)
  PROVE  Balances'
<1>c. Count({"convert", "post_p"}) \in Nat /\ Count({"wait_c"}) \in Nat
  BY CountType
<1>t. sem.mutexf \in Nat /\ sem.mutexp \in Nat /\ sem.check \in Nat
      /\ i \in Nat /\ NB_CONVERTERS \in Nat
  BY ConvertersAssumption DEF TypeOK
<1> USE DEF Move, at, Balances, Due, Owed
<1>1. CASE Interrupt
  BY <1>1, Apart DEF Interrupt
<1>2. ASSUME NEW k \in Converters, Converter(k)
      PROVE  Balances'
  <2>f. (\E l : goto(k, l)) /\ i' = i
    BY <1>2 DEF Converter, TakeWork, Convert, PostResult, Released
  <2>g. pc'[Father] = pc[Father]
    BY <2>f, OnlyOne, Apart
  <2>h. Due' = Due /\ Owed' = Owed /\ Due \in Int /\ Owed \in Int
    BY <1>t, <2>f, <2>g
  <2> HIDE DEF Due, Owed
  <2>1. CASE TakeWork(k)
    <3>1. pc[k] = "wait_f" /\ goto(k, "convert")
      BY <2>1 DEF TakeWork
    <3>2. sem'.mutexf = sem.mutexf - 1 /\ sem'.mutexp = sem.mutexp /\ sem'.check = sem.check
      BY <2>1 DEF TakeWork, sem_wait, TypeOK
    <3>3. /\ Count({"convert", "post_p"})' = Count({"convert", "post_p"}) + 1
          /\ Count({"wait_c"})' = Count({"wait_c"}) + 0
      BY <3>1, ChildCount DEF Enters
    <3> QED
      BY <1>c, <1>t, <2>g, <2>h, <3>2, <3>3
  <2>2. CASE Convert(k)
    <3>1. pc[k] = "convert" /\ goto(k, "post_p") /\ sem' = sem
      BY <2>2 DEF Convert
    <3>2. /\ Count({"convert", "post_p"})' = Count({"convert", "post_p"}) + 0
          /\ Count({"wait_c"})' = Count({"wait_c"}) + 0
      BY <3>1, ChildCount DEF Enters
    <3> QED
      BY <1>c, <1>t, <2>g, <2>h, <3>1, <3>2
  <2>3. CASE PostResult(k)
    <3>1. pc[k] = "post_p" /\ goto(k, "wait_c")
      BY <2>3 DEF PostResult
    <3>2. sem'.mutexp = sem.mutexp + 1 /\ sem'.mutexf = sem.mutexf /\ sem'.check = sem.check
      BY <2>3 DEF PostResult, sem_post, TypeOK
    <3>3. /\ Count({"convert", "post_p"})' = Count({"convert", "post_p"}) + -1
          /\ Count({"wait_c"})' = Count({"wait_c"}) + 1
      BY <3>1, ChildCount DEF Enters
    <3> QED
      BY <1>c, <1>t, <2>g, <2>h, <3>2, <3>3
  <2>4. CASE Released(k)
    <3>1. pc[k] = "wait_c" /\ goto(k, "wait_f")
      BY <2>4 DEF Released
    <3>2. sem'.check = sem.check - 1 /\ sem'.mutexf = sem.mutexf /\ sem'.mutexp = sem.mutexp
      BY <2>4 DEF Released, sem_wait, TypeOK
    <3>3. /\ Count({"convert", "post_p"})' = Count({"convert", "post_p"}) + 0
          /\ Count({"wait_c"})' = Count({"wait_c"}) + -1
      BY <3>1, ChildCount DEF Enters
    <3> QED
      BY <1>c, <1>t, <2>g, <2>h, <3>2, <3>3
  <2> QED
    BY <1>2, <2>1, <2>2, <2>3, <2>4 DEF Converter
<1>3. ASSUME NEW c \in Clients, ClientOpen(c) \/ Client(c) \/ ClientKilled(c)
      PROVE  Balances'
  <2>1. (\E l : goto(c, l)) /\ i' = i /\ sem' = sem
    BY <1>3 DEF ClientOpen, ClientKilled, Client, ClientDevise, ClientFault, ClientMontant,
       ClientPost, ClientWait, ClientRead, csem_wait, csem_post
  <2>2. pc'[Father] = pc[Father] /\ \A k \in Converters : pc'[k] = pc[k]
    BY <2>1, OnlyOne, Apart
  <2> QED
    BY <2>1, <2>2, SameCount
<1> QED
  BY <1>1, <1>2, <1>3

-----------------------------------------------------------------------------
(* The inductive invariant, and the phases of a request.                   *)
Inv == TypeOK /\ Turns /\ Balances

(* Nothing is counted before the first child is born.                      *)
LEMMA Initially == Init => Inv
<1> SUFFICES ASSUME Init PROVE Inv
  OBVIOUS
<1>1. TypeOK
  <2>1. pc[Father] = "open_shm" /\ (\A k \in Converters : pc[k] = "unborn")
        /\ \A c \in Clients : pc[c] = "start"
    BY Apart DEF Init
  <2>2. pc \in [Procs -> FatherPcs \cup ChildPcs \cup ClientPcs]
    BY DEF Init, FatherPcs, StartPcs, ChildPcs, ClientPcs
  <2>3. EmptySegment \in Segment
    BY DEF EmptySegment, Segment, Written, Results, Result, Blank
  <2> QED
    BY <2>1, <2>2, <2>3, UsersAssumption, ConvertersAssumption
    DEF Init, TypeOK, FatherPcs, StartPcs, ChildPcs, ClientPcs
<1>2. pc[Father] = "open_shm" /\ i = 0 /\ \A k \in Converters : pc[k] = "unborn"
  BY Apart DEF Init
<1>3. Turns
  BY <1>2 DEF Turns, at, TurnPcs, RestPcs
<1>4. Standing({"convert", "post_p"}) = {} /\ Standing({"wait_c"}) = {}
  BY <1>2 DEF Standing
<1>5. Count({"convert", "post_p"}) = 0 /\ Count({"wait_c"}) = 0
  BY <1>4, FS_EmptySet DEF Count
<1>6. Balances
  BY <1>2, <1>5 DEF Init, Balances, Due, Owed, at
<1> QED
  BY <1>1, <1>3, <1>6 DEF Inv

(* Every step of the system keeps it.                                      *)
LEMMA Preserved == Inv /\ [Next]_vars => Inv'
<1> SUFFICES ASSUME Inv, [Next]_vars PROVE Inv'
  OBVIOUS
<1>1. CASE Server
  BY <1>1, ServerTypes, ServerTurns, ServerBalances DEF Inv
<1>2. CASE \/ Interrupt
           \/ \E k \in Converters : Converter(k)
           \/ \E c \in Clients : ClientOpen(c) \/ Client(c) \/ ClientKilled(c)
  BY <1>2, OtherTypes, OtherTurns, OtherBalances DEF Inv
<1>3. CASE UNCHANGED vars
  BY <1>3 DEF vars, segments, Inv, TypeOK, Turns, Balances, Due, Owed, Count, Standing, at
<1> QED
  BY <1>1, <1>2, <1>3 DEF Next

(* What the father writes and copies is not in the hands of a child: at    *)
(* these points nothing is due, so no child holds a unit of work.          *)
LEMMA ApartWhenNothingDue == Inv => PhasesApart
<1> SUFFICES ASSUME Inv PROVE PhasesApart
  OBVIOUS
<1>1. WorkTokens /\ CheckTokens
  BY BalancesAreTokens DEF Inv
<1>2. ASSUME pc[Father] \in {"devise", "montant", "copy"}
      PROVE  Converting = {}
  <2>1. sem.mutexf + Count({"convert", "post_p"}) + sem.mutexp = 0
    BY <1>2 DEF Inv, Balances, Due, at
  <2>2. Count({"convert", "post_p"}) = 0
    BY <2>1, CountType DEF Inv, TypeOK
  <2>3. IsFiniteSet(Converting)
    BY FiniteChildren, FS_Subset DEF Converting, Standing
  <2> QED
    BY <2>2, <2>3, FS_EmptySet DEF Count, Converting
<1> QED
  BY <1>1, <1>2 DEF PhasesApart

(* The processes of the server stay in their places and its counter in its *)
(* loops, and every unit of work and every release is accounted for.       *)
THEOREM ServerInvariance == Spec => []Inv
<1>1. Init => Inv
  BY Initially
<1>2. Inv /\ [Next]_vars => Inv'
  BY Preserved
<1> QED
  BY <1>1, <1>2, PTL DEF Spec

(* For any number of children the three semaphores keep the phases of a    *)
(* request apart (lines 176-217 of multi_converter.c): the father writes   *)
(* the request and copies the results while no child is converting.        *)
THEOREM PhasesNeverOverlap == Spec => []PhasesApart
<1>1. Inv => PhasesApart
  BY ApartWhenNothingDue
<1> QED
  BY <1>1, ServerInvariance, PTL

-----------------------------------------------------------------------------
(* The requests and the answers of the clients                             *)

(* The clients that wait for an answer, or were killed while they did.     *)
Waiting == {c \in Clients : pc[c] \in {"wait", "killed"}}

(* The clients that stand in a set of places, counted.                     *)
ClientCount(ls) == Cardinality({c \in Clients : pc[c] \in ls})

(* A client that moves changes them as a child does.                       *)
LEMMA ClientMoves ==
  ASSUME TypeOK, NEW c \in Clients, NEW l, goto(c, l), NEW ls
  PROVE  ClientCount(ls)' = ClientCount(ls) + Enters(pc[c], l, ls)
<1>1. Clients \in SUBSET Procs /\ IsFiniteSet(Clients)
  BY Apart, ClientsAssumption
<1> QED
  BY <1>1, MoveCount DEF ClientCount

UnderWay == csem.mutexf + csem.mutexp + (IF Serving THEN 1 ELSE 0)

(* No step of the father announces an answer without a request.            *)
LEMMA ServerAsked ==
  ASSUME TypeOK, NoUnaskedReply, Server
  PROVE  NoUnaskedReply'
<1>c. Waiting \in SUBSET Clients /\ Cardinality(Waiting) \in Nat
  BY ClientsAssumption, FS_Subset, FS_CardinalityType DEF Waiting
<1>t. csem.mutexf \in Nat /\ csem.mutexp \in Nat
  BY DEF TypeOK
<1>n. UnderWay <= Cardinality(Waiting)
  BY DEF NoUnaskedReply, UnderWay, Waiting
<1>s. (\E p \in Converters \cup {Father} : \E l : goto(p, l)) => Waiting' = Waiting
  BY OnlyOne, Apart DEF Waiting
<1>f. \A l : goto(Father, l) => pc'[Father] = l
  BY OnlyOne, Apart
<1>u. UnderWay \in Nat
  BY <1>t DEF UnderWay
<1>g. SUFFICES Waiting' = Waiting /\ UnderWay' <= UnderWay /\ UnderWay' \in Nat
  <2>1. NoUnaskedReply' <=> UnderWay' <= Cardinality(Waiting)'
    BY DEF NoUnaskedReply, UnderWay, Waiting
  <2> QED
    BY <1>c, <1>n, <1>u, <2>1
<1> USE DEF Move, at, UnderWay, Serving
<1>1. CASE OpenShm \/ OpenShmc \/ Truncate \/ InitShm \/ Sigaction
  BY <1>1, <1>s, <1>f, <1>t DEF OpenShm, OpenShmc, Truncate, InitShm, Sigaction
<1>2. CASE InitF \/ InitP
  BY <1>2, <1>s, <1>f, <1>t DEF InitF, InitP, TypeOK
<1>3. CASE Fork
  <2>1. i \in Converters /\ i # Father /\ pc[Father] = "fork"
    BY <1>3, Apart, ConvertersAssumption DEF Fork, TypeOK, Converters
  <2>2. pc'[Father] = "fork" /\ Waiting' = Waiting
    BY <1>3, <1>s, <2>1, OnlyOne, Apart DEF Fork
  <2> QED
    BY <1>3, <1>t, <2>1, <2>2 DEF Fork
<1>4. CASE TakeRequest
  BY <1>4, <1>s, <1>f, <1>t DEF TakeRequest, csem_wait, TypeOK
<1>5. CASE Reply
  BY <1>5, <1>s, <1>f, <1>t DEF Reply, csem_post, TypeOK
<1>6. CASE CopyDevise \/ CopyMontant \/ CopyResults
  BY <1>6, <1>s, <1>f, <1>t DEF CopyDevise, CopyMontant, CopyResults
<1>7. CASE Distribute \/ Collect \/ Release
  <2>1. csem' = csem /\ Serving /\ \E l \in {"send", "collect", "release", "copy"} : goto(Father, l)
    BY <1>7 DEF Distribute, Collect, Release, Turn, sem_post, sem_wait
  <2> QED
    BY <1>s, <1>f, <1>t, <2>1
<1> QED
  BY <1>1, <1>2, <1>3, <1>4, <1>5, <1>6, <1>7 DEF Server, ServerStart, ServerLoop

(* A request comes with a client that waits, an answer goes with one.      *)
LEMMA OtherAsked ==
  ASSUME TypeOK, NoUnaskedReply,
         \/ Interrupt
         \/ \E k \in Converters : Converter(k)
         \/ \E c \in Clients : ClientOpen(c) \/ Client(c) \/ ClientKilled(c)
  PROVE  NoUnaskedReply'
<1>c. Cardinality(Waiting) \in Nat
  BY ClientsAssumption, FS_Subset, FS_CardinalityType DEF Waiting
<1>t. csem.mutexf \in Nat /\ csem.mutexp \in Nat
  BY DEF TypeOK
<1>n. UnderWay <= Cardinality(Waiting)
  BY DEF NoUnaskedReply, UnderWay, Waiting
<1>g. SUFFICES UnderWay' <= Cardinality(Waiting)'
  BY DEF NoUnaskedReply, UnderWay, Waiting
<1> USE DEF Move, at
<1>1. CASE Interrupt
  <2>1. Waiting' = Waiting /\ ~Serving' /\ csem' = csem
    BY <1>1, Apart DEF Interrupt, Waiting, Serving
  <2> QED
    BY <1>c, <1>n, <1>t, <2>1 DEF UnderWay
<1>2. ASSUME NEW k \in Converters, Converter(k)
      PROVE  UnderWay' <= Cardinality(Waiting)'
  <2>1. (\E l : goto(k, l)) /\ csem' = csem
    BY <1>2 DEF Converter, TakeWork, Convert, PostResult, Released, sem_wait, sem_post
  <2>2. pc'[Father] = pc[Father] /\ Waiting' = Waiting
    BY <2>1, OnlyOne, Apart DEF Waiting
  <2> QED
    BY <1>n, <2>1, <2>2 DEF UnderWay, Serving
<1>3. ASSUME NEW c \in Clients, ClientOpen(c) \/ Client(c) \/ ClientKilled(c)
      PROVE  UnderWay' <= Cardinality(Waiting)'
  <2>1. ASSUME NEW l, goto(c, l)
        PROVE  /\ pc'[Father] = pc[Father]
               /\ Cardinality(Waiting)' = Cardinality(Waiting) + Enters(pc[c], l, {"wait", "killed"})
    <3>1. ClientCount({"wait", "killed"})'
            = ClientCount({"wait", "killed"}) + Enters(pc[c], l, {"wait", "killed"})
      BY <2>1, ClientMoves
    <3> QED
      BY <2>1, <3>1, OnlyOne, Apart DEF ClientCount, Waiting
  <2> USE DEF Enters, UnderWay, Serving
  <2>2. CASE ClientPost(c)
    BY <1>c, <1>n, <1>t, <2>1, <2>2 DEF ClientPost, csem_post, TypeOK
  <2>3. CASE ClientWait(c)
    BY <1>c, <1>n, <1>t, <2>1, <2>3 DEF ClientWait, csem_wait, TypeOK
  <2>4. CASE ClientOpen(c) \/ ClientDevise(c) \/ ClientFault(c) \/ ClientMontant(c)
             \/ ClientRead(c) \/ ClientKilled(c)
    <3>1. csem' = csem
          /\ \E l : goto(c, l) /\ (l \in {"wait", "killed"} <=> pc[c] \in {"wait", "killed"})
      BY <2>4 DEF ClientOpen, ClientDevise, ClientFault, ClientMontant, ClientRead, ClientKilled
    <3> QED
      BY <1>c, <1>n, <2>1, <3>1
  <2> QED
    BY <1>3, <2>2, <2>3, <2>4 DEF Client
<1> QED
  BY <1>1, <1>2, <1>3

(* The server posts no answer nobody asked for: at any moment the requests *)
(* and answers under way are at most the clients that wait for one         *)
(* (semaphores mutexf and mutexp of the clients' segment, lines 174 and    *)
(* 205 of multi_converter.c, 49 and 53 of converters_client.c), whichever  *)
(* clients come together or are killed.                                    *)
THEOREM RepliesAreAsked == Spec => []NoUnaskedReply
<1>1. Init => NoUnaskedReply
  <2> SUFFICES ASSUME Init PROVE NoUnaskedReply
    OBVIOUS
  <2>1. Cardinality(Waiting) \in Nat
    BY ClientsAssumption, FS_Subset, FS_CardinalityType DEF Waiting
  <2>2. UnderWay = 0
    BY Apart DEF Init, UnderWay, Serving
  <2> QED
    BY <2>1, <2>2 DEF NoUnaskedReply, UnderWay, Waiting
<1>2. Inv /\ NoUnaskedReply /\ [Next]_vars => NoUnaskedReply'
  <2> SUFFICES ASSUME Inv, NoUnaskedReply, [Next]_vars PROVE NoUnaskedReply'
    OBVIOUS
  <2>1. CASE UNCHANGED vars
    BY <2>1 DEF vars, NoUnaskedReply, Serving
  <2> QED
    BY <2>1, ServerAsked, OtherAsked DEF Inv, Next
<1> QED
  BY <1>1, <1>2, ServerInvariance, PTL DEF Spec

-----------------------------------------------------------------------------
(* Clients that come one at a time                                         *)

(* Between the two fields of the clients' segment stands at most the one   *)
(* client that is writing them; between those of the children's segment,   *)
(* the father copying what that client wrote.                              *)
WholeRequests ==
  OneByOne =>
    /\ \A c, d \in Running : c = d
    /\ \A c \in Clients : pc[c] # "killed"
    /\ \A c \in Clients : at(c, "montant") => shmc.devise = c
    /\ (\A c \in Clients : ~at(c, "montant")) => shmc.devise = shmc.montant
    /\ at(Father, "montant") => shm.devise = shmc.devise
    /\ pc[Father] \notin {"montant", "dead"} => shm.devise = shm.montant
    /\ \A k \in Converters : shm.rmontant[k].devise = shm.rmontant[k].montant

(* What holds at every step: with one client at a time, the father serves  *)
(* only a client that waits, and that client is the one that runs.         *)
LEMMA ServedWaits ==
  ASSUME TypeOK, NoUnaskedReply, WholeRequests, OneByOne, Serving
  PROVE  \E c \in Clients : /\ pc[c] = "wait"
                            /\ \A d \in Clients : pc[d] \in RunningPcs => d = c
<1>1. Waiting # {}
  <2> SUFFICES ASSUME Waiting = {} PROVE FALSE
    OBVIOUS
  <2>1. Cardinality(Waiting) = 0
    BY FS_EmptySet
  <2> QED
    BY <2>1 DEF NoUnaskedReply, Waiting, TypeOK
<1>2. PICK c \in Clients : pc[c] \in {"wait", "killed"}
  BY <1>1 DEF Waiting
<1>3. pc[c] = "wait"
  BY <1>2 DEF WholeRequests
<1> QED
  BY <1>3 DEF WholeRequests, Running, RunningPcs

(* The father writes a request only while nobody writes the next one.      *)
LEMMA ServerWhole ==
  ASSUME TypeOK, NoUnaskedReply, WholeRequests, Server
  PROVE  WholeRequests'
<1>s. user' = user
  BY DEF Server, ServerStart, ServerLoop, OpenShm, OpenShmc, Truncate, InitF, InitP, InitShm,
     Fork, Sigaction, TakeRequest, CopyDevise, CopyMontant, Distribute, Collect, Release,
     CopyResults, Reply, Turn
<1> SUFFICES ASSUME OneByOne, OneByOne' PROVE WholeRequests'
  BY <1>s DEF WholeRequests, OneByOne
<1>o. ASSUME NEW p \in Converters \cup {Father}, NEW l, goto(p, l)
      PROVE  (\A c \in Clients : pc'[c] = pc[c]) /\ Running' = Running
  <2>1. \A c \in Clients : pc'[c] = pc[c]
    BY <1>o, OnlyOne, Apart
  <2> QED
    BY <2>1 DEF Running
<1>f. \A l : goto(Father, l) => pc'[Father] = l
  BY OnlyOne, Apart
<1> USE DEF Move, at
<1>1. CASE /\ UNCHANGED <<shmc, shm>>
           /\ pc[Father] \notin {"devise", "montant", "dead"}
           /\ \E l \in FatherPcs : goto(Father, l) /\ l # "montant"
  BY <1>1, <1>o, <1>f DEF WholeRequests, FatherPcs
<1>2. CASE Fork
  <2>1. i \in Converters /\ i # Father
    BY <1>2, Apart, ConvertersAssumption DEF Fork, TypeOK, Converters
  <2>2. pc'[Father] = pc[Father]
    BY <1>2, <2>1, OnlyOne, Apart DEF Fork
  <2> QED
    BY <1>2, <1>o, <2>1, <2>2 DEF Fork, WholeRequests, segments
<1>3. CASE CopyDevise
  <2>1. \A c \in Clients : pc[c] # "montant"
    BY <1>3, ServedWaits DEF CopyDevise, Serving, RunningPcs
  <2>2. /\ shm'.devise = shmc.devise /\ shm'.rmontant = shm.rmontant /\ shmc' = shmc
        /\ pc'[Father] = "montant"
    BY <1>3, <1>f DEF CopyDevise, TypeOK, Segment
  <2> QED
    BY <1>3, <1>o, <2>1, <2>2 DEF CopyDevise, WholeRequests
<1>4. CASE CopyMontant
  <2>1. \A c \in Clients : pc[c] # "montant"
    BY <1>4, ServedWaits DEF CopyMontant, Serving, RunningPcs
  <2>2. /\ shm'.montant = shmc.montant /\ shm'.devise = shm.devise
        /\ shm'.rmontant = shm.rmontant /\ shmc' = shmc /\ pc'[Father] = "send"
    BY <1>4, <1>f DEF CopyMontant, TypeOK, Segment
  <2>3. shm.devise = shmc.devise /\ shmc.devise = shmc.montant
    BY <1>4, <2>1 DEF CopyMontant, WholeRequests
  <2> QED
    BY <1>4, <1>o, <2>1, <2>2, <2>3 DEF CopyMontant, WholeRequests
<1>5. CASE CopyResults
  <2>1. /\ shmc'.devise = shmc.devise /\ shmc'.montant = shmc.montant /\ shm' = shm
        /\ pc'[Father] = "reply" /\ pc[Father] = "copy"
    BY <1>5, <1>f DEF CopyResults, TypeOK, Segment
  <2> QED
    BY <1>5, <1>o, <2>1 DEF CopyResults, WholeRequests
<1>6. CASE OpenShm \/ OpenShmc \/ Truncate \/ InitF \/ InitP \/ InitShm \/ Sigaction
           \/ TakeRequest \/ Reply
  BY <1>1, <1>6 DEF OpenShm, OpenShmc, Truncate, InitF, InitP, InitShm, Sigaction, TakeRequest,
     Reply, segments, FatherPcs, StartPcs, TurnPcs, RestPcs
<1>7. CASE Distribute \/ Collect \/ Release
  BY <1>1, <1>7 DEF Distribute, Collect, Release, Turn, segments, FatherPcs, StartPcs, TurnPcs,
     RestPcs
<1> QED
  BY <1>2, <1>3, <1>4, <1>5, <1>6, <1>7 DEF Server, ServerStart, ServerLoop

(* A child converts only after the whole request is there, and a client    *)
(* writes its own only while the father reads none.                        *)
LEMMA OtherWhole ==
  ASSUME Inv, NoUnaskedReply, WholeRequests,
         \/ Interrupt
         \/ \E k \in Converters : Converter(k)
         \/ \E c \in Clients : ClientOpen(c) \/ Client(c) \/ ClientKilled(c)
  PROVE  WholeRequests'
<1>s. user' = user
  BY DEF Interrupt, Converter, TakeWork, Convert, PostResult, Released, Client, ClientOpen,
     ClientKilled, ClientDevise, ClientFault, ClientMontant, ClientPost, ClientWait, ClientRead
<1> SUFFICES ASSUME OneByOne, OneByOne' PROVE WholeRequests'
  BY <1>s DEF WholeRequests, OneByOne
<1>t. TypeOK
  BY DEF Inv
<1> USE DEF Move, at
<1>1. CASE Interrupt
  <2>1. /\ \A c \in Clients : pc'[c] = pc[c]
        /\ pc'[Father] = "dead" /\ shm' = shm /\ shmc' = shmc
    BY <1>1, Apart DEF Interrupt, segments
  <2>2. Running' = Running
    BY <2>1 DEF Running
  <2> QED
    BY <2>1, <2>2 DEF WholeRequests
<1>2. ASSUME NEW k \in Converters, Converter(k)
      PROVE  WholeRequests'
  <2>1. ASSUME NEW l, goto(k, l)
        PROVE  /\ \A c \in Clients : pc'[c] = pc[c]
               /\ pc'[Father] = pc[Father] /\ Running' = Running
    <3>1. (\A c \in Clients : pc'[c] = pc[c]) /\ pc'[Father] = pc[Father]
      BY <1>t, <2>1, OnlyOne, Apart
    <3> QED
      BY <3>1 DEF Running
  <2>2. CASE Convert(k)
    <3>1. pc[Father] \notin {"montant", "dead"}
      <4>1. k \in Converting
        BY <2>2 DEF Convert, Converting, Standing
      <4>2. pc[Father] # "montant"
        BY <4>1, ApartWhenNothingDue DEF PhasesApart
      <4>3. pc[Father] # "dead"
        BY <2>2 DEF Convert, Inv, Turns
      <4> QED
        BY <4>2, <4>3
    <3>2. shm.devise = shm.montant
      BY <3>1 DEF WholeRequests
    <3>3. /\ shmc' = shmc /\ shm'.devise = shm.devise /\ shm'.montant = shm.montant
          /\ \A j \in Converters : shm'.rmontant[j] =
               IF j = k THEN [devise |-> shm.devise, montant |-> shm.montant]
               ELSE shm.rmontant[j]
      BY <1>t, <2>2 DEF Convert, TypeOK, Segment, Results
    <3> QED
      BY <2>1, <2>2, <3>2, <3>3 DEF Convert, WholeRequests
  <2>3. CASE TakeWork(k) \/ PostResult(k) \/ Released(k)
    <3>1. shm' = shm /\ shmc' = shmc /\ \E l : goto(k, l)
      BY <2>3 DEF TakeWork, PostResult, Released, segments
    <3> QED
      BY <2>1, <3>1 DEF WholeRequests
  <2> QED
    BY <1>2, <2>2, <2>3 DEF Converter
<1>3. ASSUME NEW c \in Clients, ClientOpen(c) \/ Client(c) \/ ClientKilled(c)
      PROVE  WholeRequests'
  <2>1. ASSUME NEW l, goto(c, l)
        PROVE  /\ pc'[c] = l /\ \A d \in Clients : d # c => pc'[d] = pc[d]
               /\ pc'[Father] = pc[Father]
    BY <1>t, <2>1, OnlyOne, Apart
  <2>r. Running = {d \in Clients : pc[d] \in RunningPcs}
        /\ Running' = {d \in Clients : pc'[d] \in RunningPcs}
    BY DEF Running
  <2>2. CASE ClientOpen(c)
    <3>1. Running = {}
      <4>1. IsFiniteSet(Running) /\ Cardinality(Running) \in Nat /\ Cardinality(Running) < 1
        BY <2>2, ClientsAssumption, FS_Subset, FS_CardinalityType DEF ClientOpen, OneByOne, Running
      <4> QED
        BY <4>1, FS_EmptySet
    <3>2. \A d \in Running' : d = c
      BY <2>1, <2>2, <2>r, <3>1 DEF ClientOpen
    <3> QED
      BY <2>1, <2>2, <3>2 DEF ClientOpen, WholeRequests, segments
  <2>3. CASE ClientDevise(c)
    <3>1. ~Serving
      BY <1>t, <2>3, ServedWaits DEF ClientDevise, RunningPcs
    <3>2. /\ shmc'.devise = c /\ shm' = shm /\ pc[c] = "devise" /\ pc'[c] = "montant"
      BY <1>t, <2>1, <2>3 DEF ClientDevise, TypeOK, Segment
    <3>3. \A d \in Clients : pc[d] \in RunningPcs => d = c
      BY <2>r, <3>2 DEF WholeRequests, RunningPcs
    <3>4. \A d \in Clients : pc'[d] \in RunningPcs => d = c
      BY <2>1, <2>3, <3>3 DEF ClientDevise
    <3>5. \A d \in Running' : d = c
      BY <2>r, <3>4
    <3> QED
      BY <2>1, <2>3, <3>1, <3>2, <3>4, <3>5 DEF ClientDevise, WholeRequests, Serving, RunningPcs
  <2>4. CASE ClientMontant(c)
    <3>1. /\ shmc.devise = c /\ shmc'.devise = shmc.devise /\ shmc'.montant = c /\ shm' = shm
          /\ pc[c] = "montant" /\ pc'[c] = "post"
      BY <1>t, <2>1, <2>4 DEF ClientMontant, WholeRequests, TypeOK, Segment
    <3>2. \A d \in Clients : pc[d] \in RunningPcs => d = c
      BY <2>r, <3>1 DEF WholeRequests, RunningPcs
    <3>3. \A d \in Running' : d = c
      BY <2>1, <2>4, <2>r, <3>2 DEF ClientMontant
    <3> QED
      BY <2>1, <2>4, <3>1, <3>2, <3>3 DEF ClientMontant, WholeRequests, RunningPcs
  <2>5. CASE ClientFault(c) \/ ClientPost(c) \/ ClientWait(c) \/ ClientRead(c)
    <3>1. /\ shm' = shm /\ shmc' = shmc /\ pc[c] \in RunningPcs /\ pc[c] # "montant"
          /\ \E l \in {"sigbus", "wait", "read", "done"} : goto(c, l)
      BY <2>5 DEF ClientFault, ClientPost, ClientWait, ClientRead, segments, RunningPcs
    <3>2. \A d \in Clients : pc[d] \in RunningPcs => d = c
      BY <2>r, <3>1 DEF WholeRequests
    <3>3. \A d \in Running' : d = c
      BY <2>1, <2>r, <3>1, <3>2
    <3> QED
      BY <2>1, <3>1, <3>3 DEF WholeRequests
  <2>6. CASE ClientKilled(c)
    BY <2>6 DEF ClientKilled, OneByOne
  <2> QED
    BY <1>3, <2>2, <2>3, <2>4, <2>5, <2>6 DEF Client
<1> QED
  BY <1>1, <1>2, <1>3

(* Everything that is known about the states of the system.                *)
FullInv == Inv /\ NoUnaskedReply /\ WholeRequests

(* With one client at a time, requests are whole from the first one on.    *)
THEOREM RequestsAreWhole == Spec => []FullInv
<1>1. Init => WholeRequests
  <2> SUFFICES ASSUME Init PROVE WholeRequests
    OBVIOUS
  <2>1. pc[Father] = "open_shm" /\ \A c \in Clients : pc[c] = "start"
    BY Apart DEF Init
  <2>2. Running = {}
    BY <2>1 DEF Running, RunningPcs
  <2>3. /\ shmc.devise = None /\ shmc.montant = None /\ shm.devise = None /\ shm.montant = None
        /\ \A k \in Converters : shm.rmontant[k].devise = None /\ shm.rmontant[k].montant = None
    BY DEF Init, EmptySegment, Blank
  <2> QED
    BY <2>1, <2>2, <2>3 DEF WholeRequests, at
<1>2. Inv /\ NoUnaskedReply /\ WholeRequests /\ [Next]_vars => WholeRequests'
  <2> SUFFICES ASSUME Inv, NoUnaskedReply, WholeRequests, [Next]_vars PROVE WholeRequests'
    OBVIOUS
  <2>1. CASE UNCHANGED vars
    BY <2>1 DEF vars, segments, WholeRequests, OneByOne, Running, at
  <2> QED
    BY <2>1, ServerWhole, OtherWhole DEF Inv, Next
<1> QED
  BY <1>1, <1>2, ServerInvariance, RepliesAreAsked, PTL DEF Spec, FullInv

(* With one client at a time no result mixes the currency of a request     *)
(* with the amount of another (lines 42-43 of converters_client.c against  *)
(* 176-177 and 213 of multi_converter.c), for any number of clients one    *)
(* after the other, and a server that may be interrupted.                  *)
THEOREM ResultsAreWhole == Spec => []ResultsWhole
<1>1. FullInv => ResultsWhole
  BY DEF FullInv, WholeRequests, ResultsWhole
<1> QED
  BY <1>1, RequestsAreWhole, PTL

(* With one client at a time the results it displays do not change under   *)
(* it: the father writes the segment only while a client waits, and the    *)
(* only other writer is a client that has not asked yet.                   *)
THEOREM RepliesAreStable == Spec => ReplyStable
<1>1. FullInv /\ [Next]_vars =>
        [\A c \in Clients : OneByOne /\ at(c, "read") => shmc' = shmc]_vars
  <2> SUFFICES ASSUME FullInv, Next, NEW c \in Clients, OneByOne, at(c, "read"), shmc' # shmc
               PROVE  FALSE
    OBVIOUS
  <2>1. pc[c] = "read" /\ TypeOK /\ NoUnaskedReply /\ WholeRequests
    BY DEF FullInv, Inv, at
  <2>2. \/ CopyResults
        \/ \E d \in Clients : ClientDevise(d) \/ ClientMontant(d)
    BY DEF Next, Server, ServerStart, ServerLoop, OpenShm, OpenShmc, Truncate, InitF, InitP,
       InitShm, Fork, Sigaction, TakeRequest, CopyDevise, CopyMontant, Distribute, Collect,
       Release, Reply, Turn, Interrupt, Converter, TakeWork, Convert, PostResult, Released,
       Client, ClientOpen, ClientKilled, ClientFault, ClientPost, ClientWait, ClientRead, segments
  <2>3. CASE CopyResults
    BY <2>1, <2>3, ServedWaits DEF CopyResults, Move, at, Serving, RunningPcs
  <2>4. ASSUME NEW d \in Clients, ClientDevise(d) \/ ClientMontant(d)
        PROVE  FALSE
    BY <2>1, <2>4 DEF ClientDevise, ClientMontant, Move, at, WholeRequests, Running, RunningPcs
  <2> QED
    BY <2>2, <2>3, <2>4
<1> QED
  BY <1>1, RequestsAreWhole, PTL DEF Spec, ReplyStable
=============================================================================
