-------------------------- MODULE NamedPipesProofs --------------------------
(***************************************************************************)
(* The currency server of TME8 and its clients for any clients, amounts    *)
(* and number of currencies: what goes through the two named pipes, that   *)
(* with one client at a time every field is read as what it was written    *)
(* for, and that only the death of a client can then break the server's    *)
(* pipe.                                                                   *)
(***************************************************************************)
EXTENDS NamedPipes, FiniteSetTheorems, SequenceTheorems, TLAPS

(* Where the server and a client can stand; OpeningPcs is the server that  *)
(* has not read a whole request yet, EarlyPcs the client that has not      *)
(* opened its pipes yet.                                                   *)
OpeningPcs == {"open_req", "open_rep", "read"}
ServerPcs == OpeningPcs \cup {"mkfifo1", "mkfifo2", "write", "killed", "failed", "unlink1",
                              "unlink2", "exited"}
EarlyPcs == {"start", "open_req", "wait_req", "open_rep", "wait_rep"}
ClientPcs == EarlyPcs \cup {"write", "read", "done", "failed", "killed"}

(* The fields that go through the two pipes.                               *)
RequestField == [kind : {"len"}, is : Nat] \cup [kind : {"devise"}, is : Clients]
                  \cup [kind : {"montant"}, is : Seq(Digits)]
ReplyField == [kind : {"len", "currency", "value"}, devise : Clients \cup {None},
               montant : Seq(Digits)]
Display == (Clients \cup {None}) \X Seq(Digits)

TypeOK ==
  /\ user \in User
  /\ server \in ServerPcs
  /\ pc \in [Clients -> ClientPcs]
  /\ step \in [Clients -> Nat \ {0}]
  /\ sstep \in Nat \ {0}
  /\ fdw \in [Clients -> BOOLEAN]
  /\ names \subseteq {"prequete", "preponse"}
  /\ torn \subseteq {"prequete", "preponse"}
  /\ prequete \in Seq(IF "prequete" \in torn THEN {Scrap} ELSE RequestField)
  /\ preponse \in Seq(IF "preponse" \in torn THEN {Scrap} ELSE ReplyField)
  /\ len \in Nat
  /\ devise \in Clients \cup {None}
  /\ montant \in Seq(Digits)
  /\ printed \in [Clients -> Seq(Display)]

(* The places of the two counters, the pipes the server has made, and what *)
(* a client has displayed before it reads.                                 *)
Places ==
  /\ server \in OpeningPcs => sstep <= 4
  /\ server \in {"mkfifo1", "mkfifo2"} => sstep = 1
  /\ server = "write" => sstep <= ReplyLength
  /\ server \in OpeningPcs \cup {"mkfifo2", "write"} => "prequete" \in names
  /\ \A c \in Clients :
       /\ pc[c] \in EarlyPcs => step[c] = 1
       /\ pc[c] = "write" => step[c] <= 4
       /\ pc[c] = "read" => step[c] <= ReplyLength
       /\ pc[c] \in EarlyPcs \cup {"write"} => printed[c] = <<>>

-----------------------------------------------------------------------------
(* Fields and amounts                                                      *)

(* A reply has at least three fields.                                      *)
LEMMA ReplyLengthType == ReplyLength \in Nat /\ ReplyLength >= 3
  BY NBAssumption DEF ReplyLength

(* An amount is a string of one or two characters.                         *)
LEMMA AmountType ==
  ASSUME user \in User, NEW c \in Clients
  PROVE  user.amount[c] \in Seq(Digits) /\ Len(user.amount[c]) \in 1 .. 2
<1>1. user.amount[c] \in UNION {[1 .. n -> Digits] : n \in 1 .. 2}
  BY DEF User
<1>2. PICK n \in 1 .. 2 : user.amount[c] \in [1 .. n -> Digits]
  BY <1>1
<1>3. \A f \in [1 .. n -> Digits] : f \in Seq(Digits) /\ Len(f) = n
  BY SeqDef
<1> QED
  BY <1>2, <1>3

(* The fields of a request and their kinds.                                *)
LEMMA RequestFields ==
  ASSUME user \in User, NEW c \in Clients, NEW n \in 1 .. 4
  PROVE  Request(c)[n] \in RequestField /\ Request(c)[n].kind = RequestKinds[n]
<1>1. user.amount[c] \in Seq(Digits)
  BY AmountType
<1> HIDE DEF User
<1>2. CASE n = 1
  BY <1>2 DEF Request, RequestField, RequestKinds, NameLength
<1>3. CASE n = 2
  BY <1>3 DEF Request, RequestField, RequestKinds
<1>4. CASE n = 3
  BY <1>1, <1>4 DEF Request, RequestField, RequestKinds
<1>5. CASE n = 4
  BY <1>1, <1>5 DEF Request, RequestField, RequestKinds
<1> QED
  BY <1>2, <1>3, <1>4, <1>5

(* The kinds of the fields of a reply: every third one is a value.         *)
LEMMA ReplyKinds ==
  ASSUME NEW n \in Nat \ {0}
  PROVE  /\ ReplyKind(n) \in {"len", "currency", "value"}
         /\ ReplyKind(n) = "value" <=> (n - 1) % 3 = 2
<1>1. (n - 1) % 3 \in 0 .. 2
  OBVIOUS
<1>2. \A m \in 0 .. 2 : /\ <<"len", "currency", "value">>[m + 1] \in {"len", "currency", "value"}
                        /\ <<"len", "currency", "value">>[m + 1] = "value" <=> m = 2
  OBVIOUS
<1> QED
  BY <1>1, <1>2 DEF ReplyKind

(* What read leaves in the buffer: the new text, then the end of a longer  *)
(* one.                                                                    *)
LEMMA OverProperties ==
  ASSUME NEW S, NEW buffer \in Seq(S), NEW text \in Seq(S)
  PROVE  /\ Over(buffer, text) \in Seq(S)
         /\ IsPrefix(text, Over(buffer, text))
         /\ Len(buffer) <= Len(text) => Over(buffer, text) = text
<1> DEFINE end == SubSeq(buffer, Len(text) + 1, Len(buffer))
<1>1. end \in Seq(S) /\ Over(buffer, text) = text \o end
  BY SubSeqProperties DEF Over
<1>2. Len(buffer) <= Len(text) => end = <<>>
  BY <1>1
<1> HIDE DEF end
<1>3. text \o end \in Seq(S) /\ Len(text \o end) = Len(text) + Len(end)
  BY <1>1
<1>4. IsPrefix(text, text \o end)
  <2>1. \A i \in 1 .. Len(text) : (text \o end)[i] = text[i]
    BY <1>1
  <2> QED
    BY <1>1, <1>3, <2>1 DEF IsPrefix
<1>5. end = <<>> => text \o end = text
  OBVIOUS
<1> QED
  BY <1>1, <1>2, <1>3, <1>4, <1>5

-----------------------------------------------------------------------------
(* Types and places                                                        *)
IInv == TypeOK /\ Places

(* They hold before the server makes its pipes.                            *)
LEMMA Initially == Init => IInv
  BY UsersAssumption, ClientsAssumption, ReplyLengthType
  DEF Init, IInv, TypeOK, Places, ServerPcs, OpeningPcs, ClientPcs, EarlyPcs

(* What is left of a torn stream is scraps.                                *)
LEMMA ScrapsType ==
  ASSUME NEW pipe
  PROVE  Scraps(pipe) \subseteq Seq({Scrap})
<1>1. \A s : <<>> \in Seq({s}) /\ <<s>> \in Seq({s})
  OBVIOUS
<1> HIDE DEF Scrap
<1> QED
  BY <1>1 DEF Scraps

(* A field goes at the end of a pipe, or is one more scrap there.          *)
LEMMA PutType ==
  ASSUME NEW F, NEW name, NEW field \in F,
         NEW pipe \in Seq(IF name \in torn THEN {Scrap} ELSE F)
  PROVE  /\ Put(field, pipe, name) \in Seq(IF name \in torn THEN {Scrap} ELSE F)
         /\ torn = {} => Put(field, pipe, name) = Append(pipe, field)
<1> HIDE DEF Scrap
<1>1. CASE name \in torn
  <2>1. Put(field, pipe, name) = <<Scrap>>
    BY <1>1 DEF Put
  <2> QED
    BY <1>1, <2>1
<1>2. CASE name \notin torn
  <2>1. pipe \in Seq(F) /\ Put(field, pipe, name) = Append(pipe, field)
    BY <1>2 DEF Put
  <2> QED
    BY <1>2, <2>1
<1> QED
  BY <1>1, <1>2

(* The server's steps on the pipes keep the types and the places.          *)
LEMMA ServerTypes ==
  ASSUME IInv, Server \/ Interrupt
  PROVE  IInv'
<1> USE DEF IInv, TypeOK, Places, ServerPcs, OpeningPcs, ClientPcs, EarlyPcs, pipes, buffers
<1>l. ReplyLength \in Nat /\ ReplyLength >= 3
  BY ReplyLengthType
<1>1. CASE Mkfifo
  <2>1. CASE server = "mkfifo1" /\ server' = "mkfifo2" /\ names' = names \cup {"prequete"}
    BY <1>1, <2>1 DEF Mkfifo
  <2>2. CASE server = "mkfifo2" /\ server' = "open_req" /\ names' = names \cup {"preponse"}
    BY <1>1, <2>2 DEF Mkfifo
  <2> QED
    BY <1>1, <2>1, <2>2 DEF Mkfifo
<1>2. CASE OpenReq
  <2>1. /\ server = "open_req" /\ server' = "open_rep"
        /\ pc' \in [Clients -> ClientPcs] /\ fdw' \in [Clients -> BOOLEAN]
        /\ UNCHANGED <<user, step, sstep, names, prequete, preponse, torn, len, devise, montant,
                       printed>>
    BY <1>2 DEF OpenReq, At
  <2>2. \A c \in Clients : pc'[c] = pc[c] \/ (pc[c] = "wait_req" /\ pc'[c] = "open_rep")
    BY <1>2 DEF OpenReq, At
  <2> QED
    BY <2>1, <2>2
<1>3. CASE OpenRep
  <2>1. /\ server = "open_rep" /\ server' = "read"
        /\ pc' \in [Clients -> ClientPcs]
        /\ UNCHANGED <<user, step, sstep, fdw, names, prequete, preponse, torn, len, devise, montant,
                       printed>>
    BY <1>3 DEF OpenRep, At, Opened
  <2>2. \A c \in Clients : pc'[c] = pc[c] \/ (pc[c] = "wait_rep" /\ pc'[c] \in {"write", "read"})
    BY <1>3 DEF OpenRep, At, Opened
  <2> QED
    BY <1>l, <2>1, <2>2
<1>4. CASE Read
  <2>0. "prequete" \notin torn /\ prequete \in Seq(RequestField) /\ prequete # <<>>
    BY <1>4 DEF Read
  <2>1. Head(prequete) \in RequestField /\ Tail(prequete) \in Seq(RequestField)
    BY <2>0
  <2>2. devise' \in Clients \cup {None} /\ montant' \in Seq(Digits) /\ len' \in Nat
    <3>0. Head(prequete).kind = "len" => Head(prequete).is \in Nat
      BY <2>1 DEF RequestField
    <3>1. Head(prequete).kind = "devise" => Head(prequete).is \in Clients
      BY <2>1 DEF RequestField
    <3>2. Head(prequete).kind = "montant" => Over(montant, Head(prequete).is) \in Seq(Digits)
      BY <2>1, OverProperties DEF RequestField
    <3> QED
      BY <1>4, <3>0, <3>1, <3>2 DEF Read
  <2>3. /\ server' = IF sstep = 4 THEN "write" ELSE "read"
        /\ sstep' = IF sstep = 4 THEN 1 ELSE sstep + 1
        /\ server = "read" /\ prequete' = Tail(prequete)
        /\ UNCHANGED <<user, pc, step, fdw, names, preponse, torn, printed>>
    BY <1>4 DEF Read
  <2> QED
    BY <1>l, <2>0, <2>1, <2>2, <2>3
<1>5. CASE TornRead
  <2>1. /\ prequete' \in Seq({Scrap}) /\ torn' = torn \cup {"prequete"}
        /\ devise' \in Clients \cup {None} /\ montant' = <<>> /\ len' = 0 /\ server = "read"
        /\ UNCHANGED <<user, pc, step, fdw, names, preponse, printed>>
    BY <1>5, ScrapsType DEF TornRead
  <2>2. \/ /\ server' = IF sstep = 4 THEN "write" ELSE "read"
           /\ sstep' = IF sstep = 4 THEN 1 ELSE sstep + 1
        \/ server' = "killed" /\ sstep' = sstep
    BY <1>5 DEF TornRead
  <2>3. prequete' \in Seq(IF "prequete" \in torn' THEN {Scrap} ELSE RequestField)
    BY <2>1
  <2>4. "preponse" \in torn' <=> "preponse" \in torn
    BY <2>1
  <2> HIDE DEF Scrap
  <2> QED
    BY <1>l, <2>1, <2>2, <2>3, <2>4
<1>6. CASE Write
  <2>1. ReplyKind(sstep) \in {"len", "currency", "value"}
    BY ReplyKinds
  <2>2. preponse' \in Seq(IF "preponse" \in torn THEN {Scrap} ELSE ReplyField)
    <3>1. [kind |-> ReplyKind(sstep), devise |-> devise, montant |-> montant] \in ReplyField
      BY <2>1 DEF ReplyField
    <3> QED
      BY <1>6, <3>1, PutType DEF Write
  <2>3. /\ server' = IF sstep = ReplyLength THEN "read" ELSE "write"
        /\ sstep' = IF sstep = ReplyLength THEN 1 ELSE sstep + 1
        /\ server = "write"
        /\ UNCHANGED <<user, pc, step, fdw, names, prequete, torn, buffers, printed>>
    BY <1>6 DEF Write
  <2> QED
    BY <1>l, <2>2, <2>3
<1>7. CASE ConvertFails \/ Sigpipe \/ Interrupt
  BY <1>7 DEF ConvertFails, Sigpipe, Interrupt
<1>8. CASE Unlink
  BY <1>8 DEF Unlink
<1> QED
  BY <1>1, <1>2, <1>3, <1>4, <1>5, <1>6, <1>7, <1>8 DEF Server

(* A client that reads, whatever it finds in the pipe, moves its counter   *)
(* and perhaps displays something.                                         *)
LEMMA ClientReadTypes ==
  ASSUME IInv, NEW c \in Clients, ClientRead(c) \/ ClientTornRead(c)
  PROVE  IInv'
<1>t. /\ ReplyLength \in Nat /\ step[c] \in Nat \ {0} /\ step[c] <= ReplyLength
      /\ pc \in [Clients -> ClientPcs] /\ step \in [Clients -> Nat \ {0}]
      /\ torn \subseteq {"prequete", "preponse"}
      /\ preponse \in Seq(IF "preponse" \in torn THEN {Scrap} ELSE ReplyField)
      /\ printed \in [Clients -> Seq(Display)]
  BY ReplyLengthType DEF IInv, TypeOK, Places, ClientRead, ClientTornRead
<1>1. pc[c] = "read" /\ UNCHANGED <<user, server, sstep, fdw, names, prequete, len, devise, montant>>
  BY DEF ClientRead, ClientTornRead, buffers
<1>2. /\ torn' \subseteq {"prequete", "preponse"}
      /\ "prequete" \in torn' <=> "prequete" \in torn
      /\ preponse' \in Seq(IF "preponse" \in torn' THEN {Scrap} ELSE ReplyField)
  <2> HIDE DEF Scrap
  <2>1. CASE ClientRead(c)
    BY <1>t, <2>1 DEF ClientRead
  <2>2. CASE ClientTornRead(c)
    BY <1>t, <2>2, ScrapsType DEF ClientTornRead
  <2> QED
    BY <2>1, <2>2
<1>3. ASSUME NEW d \in Display, printed' = printed \/ printed' = [printed EXCEPT ![c] = Append(@, d)]
      PROVE  /\ printed' \in [Clients -> Seq(Display)]
             /\ \A e \in Clients : e # c => printed'[e] = printed[e]
  <2>1. CASE printed' = printed
    BY <2>1, <1>t
  <2>2. CASE printed' = [printed EXCEPT ![c] = Append(@, d)]
    <3>1. Append(printed[c], d) \in Seq(Display)
      BY <1>t
    <3> QED
      BY <2>2, <3>1, <1>t
  <2> QED
    BY <1>3, <2>1, <2>2
<1>4. printed' \in [Clients -> Seq(Display)] /\ \A d \in Clients : d # c => printed'[d] = printed[d]
  <2>1. CASE ClientRead(c)
    <3> DEFINE d == <<Head(preponse).devise, Head(preponse).montant>>
    <3>1. Head(preponse) \in ReplyField
      BY <1>t, <2>1 DEF ClientRead
    <3>2. d \in Display
      BY <3>1 DEF ReplyField, Display
    <3>3. printed' = printed \/ printed' = [printed EXCEPT ![c] = Append(@, d)]
      <4>1. CASE Head(preponse).kind = "value"
        BY <2>1, <4>1 DEF ClientRead
      <4>2. CASE Head(preponse).kind # "value"
        BY <2>1, <4>2 DEF ClientRead
      <4> QED
        BY <4>1, <4>2
    <3> HIDE DEF d
    <3> QED
      BY <1>3, <3>2, <3>3
  <2>2. CASE ClientTornRead(c)
    <3>0. <<>> \in Seq(Digits)
      OBVIOUS
    <3> DEFINE d == <<None, <<>>>>
    <3>1. d \in Display
      BY <3>0 DEF Display
    <3>2. printed' = printed \/ printed' = [printed EXCEPT ![c] = Append(@, d)]
      BY <2>2 DEF ClientTornRead
    <3> HIDE DEF d
    <3> QED
      BY <1>3, <3>1, <3>2
  <2> QED
    BY <2>1, <2>2
<1>5. \/ step' = step /\ pc' = [pc EXCEPT ![c] = "failed"]
      \/ /\ step' = [step EXCEPT ![c] = @ + 1]
         /\ pc' = [pc EXCEPT ![c] = IF step[c] = ReplyLength THEN "done" ELSE "read"]
  <2>1. CASE ClientRead(c)
    BY <2>1 DEF ClientRead, LastOfReply, goto
  <2>2. CASE ClientTornRead(c)
    <3>1. CASE UNCHANGED <<step, printed>> /\ goto(c, "failed")
      BY <3>1 DEF goto
    <3>2. CASE /\ step' = [step EXCEPT ![c] = @ + 1]
               /\ goto(c, IF LastOfReply(step[c]) THEN "done" ELSE "read")
      BY <3>2 DEF goto, LastOfReply
    <3> QED
      BY <2>2, <3>1, <3>2, Zenon DEF ClientTornRead
  <2> QED
    BY <2>1, <2>2
<1>6. /\ step' \in [Clients -> Nat \ {0}] /\ pc' \in [Clients -> ClientPcs]
      /\ pc'[c] \in {"done", "read", "failed"} /\ (pc'[c] = "read" => step'[c] <= ReplyLength)
      /\ \A d \in Clients : d # c => pc'[d] = pc[d] /\ step'[d] = step[d]
  <2>1. CASE step' = step /\ pc' = [pc EXCEPT ![c] = "failed"]
    BY <2>1, <1>t DEF ClientPcs
  <2>2. CASE /\ step' = [step EXCEPT ![c] = @ + 1]
             /\ pc' = [pc EXCEPT ![c] = IF step[c] = ReplyLength THEN "done" ELSE "read"]
    BY <2>2, <1>t DEF ClientPcs
  <2> QED
    BY <1>5, <2>1, <2>2
<1>7. TypeOK'
  <2>1. prequete' \in Seq(IF "prequete" \in torn' THEN {Scrap} ELSE RequestField)
    BY <1>1, <1>2 DEF IInv, TypeOK
  <2> QED
    BY <1>1, <1>2, <1>4, <1>6, <2>1 DEF IInv, TypeOK, Display
<1>8. Places'
  BY <1>1, <1>4, <1>6 DEF IInv, Places, EarlyPcs, OpeningPcs
<1> QED
  BY <1>7, <1>8 DEF IInv

(* So do the steps of a client.                                            *)
LEMMA ClientTypes ==
  ASSUME IInv, NEW c \in Clients, Start(c) \/ Client(c) \/ ClientKilled(c)
  PROVE  IInv'
<1> USE DEF IInv, TypeOK, Places, ClientPcs, EarlyPcs, pipes, buffers, goto
<1>l. ReplyLength \in Nat /\ ReplyLength >= 3
  BY ReplyLengthType
<1>1. CASE Start(c)
  BY <1>1 DEF Start
<1>2. CASE ClientOpenReq(c)
  <2>1. PICK l \in {"wait_req", "open_rep"}, met \in BOOLEAN :
          pc' = [pc EXCEPT ![c] = l] /\ fdw' = [fdw EXCEPT ![c] = met]
    BY <1>2 DEF ClientOpenReq
  <2>2. /\ pc[c] = "open_req"
        /\ UNCHANGED <<user, server, step, sstep, names, pipes, buffers, printed>>
    BY <1>2 DEF ClientOpenReq
  <2> QED
    BY <2>1, <2>2
<1>3. CASE ClientOpenRep(c)
  <2>1. PICK l \in {"failed", "write", "read", "wait_rep"} : pc' = [pc EXCEPT ![c] = l]
    BY <1>3 DEF ClientOpenRep, Opened
  <2>2. /\ pc[c] = "open_rep"
        /\ UNCHANGED <<user, server, step, sstep, fdw, names, pipes, buffers, printed>>
    BY <1>3 DEF ClientOpenRep
  <2> QED
    BY <1>l, <2>1, <2>2
<1>4. CASE ClientWrite(c)
  <2>0. pc[c] = "write"
    BY <1>4 DEF ClientWrite
  <2>1. step[c] \in 1 .. 4
    <3>1. step[c] \in Nat \ {0} /\ step[c] <= 4
      BY <2>0, Zenon
    <3> HIDE DEF IInv
    <3> QED
      BY <3>1
  <2>2. Request(c)[step[c]] \in RequestField
    BY <2>1, RequestFields
  <2>3. prequete' \in Seq(IF "prequete" \in torn THEN {Scrap} ELSE RequestField)
    <3> HIDE DEF Request
    <3> QED
      BY <1>4, <2>2, PutType DEF ClientWrite
  <2>4. step' \in [Clients -> Nat \ {0}]
    BY <1>4, <2>1 DEF ClientWrite
  <2> HIDE DEF Request
  <2> QED
    BY <1>l, <1>4, <2>1, <2>3, <2>4 DEF ClientWrite
<1>5. CASE ClientRead(c) \/ ClientTornRead(c)
  BY <1>5, ClientReadTypes
<1>6. CASE ClientSigpipe(c) \/ ClientEof(c) \/ ClientKilled(c)
  BY <1>6 DEF ClientSigpipe, ClientEof, ClientKilled
<1> QED
  BY <1>1, <1>2, <1>3, <1>4, <1>5, <1>6 DEF Client

(* The fields in the pipes and the buffers have their types, and each      *)
(* process is where its counter says.                                      *)
THEOREM TypeCorrect == Spec => []IInv
<1>1. IInv /\ [Next]_vars => IInv'
  <2> SUFFICES ASSUME IInv, [Next]_vars PROVE IInv'
    OBVIOUS
  <2>1. CASE UNCHANGED vars
    BY <2>1 DEF vars, pipes, buffers, IInv, TypeOK, Places
  <2> QED
    BY <2>1, ServerTypes, ClientTypes DEF Next
<1> QED
  BY Initially, <1>1, PTL DEF Spec

-----------------------------------------------------------------------------
(* One client at a time: what is in the pipes at each point of a conversion*)

(* A pipe holds the fields from the a-th to the one before the b-th of a   *)
(* request or a reply.                                                     *)
Holds(pipe, fields, a, b) ==
  Len(pipe) = b - a /\ \A i \in 1 .. b - a : pipe[i] = fields[a + i - 1]

(* The reply that carries the value v back to client c.                    *)
Reply(c, v) ==
  [n \in 1 .. ReplyLength |-> [kind |-> ReplyKind(n), devise |-> c, montant |-> v]]

(* All the amounts have the length of this client's; a value is the answer *)
(* due to client c.                                                        *)
SameLength(c) == \A d \in Clients : Len(user.amount[d]) = Len(user.amount[c])
Due(c, v) == IsPrefix(user.amount[c], v) /\ (SameLength(c) => v = user.amount[c])

(* The server is about to read field sstep of the request of c, which has  *)
(* written those before the n-th.                                          *)
Receiving(c, n) ==
  /\ server = "read"
  /\ sstep <= n
  /\ Holds(prequete, Request(c), sstep, n)
  /\ sstep > 2 => devise = c
  /\ sstep = 2 => len = NameLength
  /\ sstep = 4 => len = Len(user.amount[c])

(* The server has written m fields of the reply.                           *)
Sending(c, v, m) ==
  /\ prequete = <<>>
  /\ \/ server = "write" /\ sstep = m + 1 /\ devise = c /\ montant = v
     \/ server = "read" /\ sstep = 1 /\ m = ReplyLength

(* What a client has displayed: one value every three fields.              *)
Displayed(c, v) == \A i \in 1 .. Len(printed[c]) : printed[c][i] = <<c, v>>

Writing(c) == preponse = <<>> /\ (~Gone => Receiving(c, step[c]))

Waiting(c) ==
  step[c] = 1 /\ printed[c] = <<>> /\ preponse = <<>> /\ (~Gone => Receiving(c, 5))

Answered(c, v, m) ==
  /\ Due(c, v) /\ Displayed(c, v)
  /\ m <= ReplyLength /\ step[c] <= m + 1
  /\ step[c] - 1 - 3 * Len(printed[c]) \in 0 .. 2
  /\ Holds(preponse, Reply(c, v), step[c], m + 1)
  /\ ~Gone => Sending(c, v, m)

Finished(c, v) == Due(c, v) /\ Displayed(c, v) /\ Len(printed[c]) = NB

Conversing(c) ==
  /\ pc[c] = "write" => Writing(c)
  /\ pc[c] = "read" =>
       \/ Waiting(c)
       \/ \E v \in Seq(Digits), m \in Nat : Answered(c, v, m)
  /\ pc[c] = "done" => \E v \in Seq(Digits) : Finished(c, v)

(* Nobody is in the middle of a conversion.                                *)
Quiet == prequete = <<>> /\ preponse = <<>> /\ sstep = 1 /\ server # "write"

(* A client that missed the request pipe came before the server's open.    *)
Late(c) ==
  pc[c] \in {"open_rep", "wait_rep"} /\ ~fdw[c] /\ ~Gone
    => server \in {"mkfifo1", "mkfifo2", "open_req"}

Flow ==
  /\ server # "killed" /\ torn = {}
  /\ \A c, d \in Running : c = d
  /\ (\A c \in Clients : pc[c] \notin {"write", "read"}) /\ ~Gone => Quiet
  /\ \A c \in Clients : Late(c)
  /\ \A c \in Clients : SameLength(c) => Len(montant) <= Len(user.amount[c])
  /\ \A c \in Clients : Conversing(c)

FlowInv == OneByOne => Flow

(* One more field written, one field read.                                 *)
LEMMA HoldsMore ==
  ASSUME NEW S, NEW pipe \in Seq(S), NEW fields, NEW a \in Nat, NEW b \in Nat, a <= b,
         Holds(pipe, fields, a, b)
  PROVE  Holds(Append(pipe, fields[b]), fields, a, b + 1)
<1>1. Len(Append(pipe, fields[b])) = b + 1 - a
  BY DEF Holds
<1>2. ASSUME NEW i \in 1 .. b + 1 - a
      PROVE  Append(pipe, fields[b])[i] = fields[a + i - 1]
  <2>1. CASE i = b + 1 - a
    <3>1. a + i - 1 = b /\ i = Len(pipe) + 1
      BY <2>1 DEF Holds
    <3> QED
      BY <3>1
  <2>2. CASE i # b + 1 - a
    <3>1. i \in 1 .. b - a /\ Len(pipe) = b - a
      BY <2>2 DEF Holds
    <3>2. pipe[i] = fields[a + i - 1]
      BY <3>1 DEF Holds
    <3>3. Append(pipe, fields[b])[i] = pipe[i]
      BY <3>1
    <3> QED
      BY <3>2, <3>3
  <2> QED
    BY <2>1, <2>2
<1> QED
  BY <1>1, <1>2 DEF Holds

LEMMA HoldsLess ==
  ASSUME NEW S, NEW pipe \in Seq(S), NEW fields, NEW a \in Nat, NEW b \in Nat, pipe # <<>>,
         Holds(pipe, fields, a, b)
  PROVE  a < b /\ Head(pipe) = fields[a] /\ Holds(Tail(pipe), fields, a + 1, b)
<1>1. Len(pipe) = b - a /\ Len(pipe) \in Nat \ {0}
  BY DEF Holds
<1>2. Head(pipe) = pipe[1] /\ pipe[1] = fields[a]
  <2>1. 1 \in 1 .. b - a /\ a + 1 - 1 = a
    BY <1>1
  <2> QED
    BY <2>1 DEF Holds
<1>3. Len(Tail(pipe)) = b - (a + 1)
  BY <1>1
<1>4. ASSUME NEW i \in 1 .. b - (a + 1)
      PROVE  Tail(pipe)[i] = fields[(a + 1) + i - 1]
  <2>1. Tail(pipe)[i] = pipe[i + 1]
    BY <1>1
  <2>2. i + 1 \in 1 .. b - a /\ a + (i + 1) - 1 = (a + 1) + i - 1
    OBVIOUS
  <2>3. pipe[i + 1] = fields[a + (i + 1) - 1]
    BY <2>2 DEF Holds
  <2> QED
    BY <2>1, <2>2, <2>3
<1> QED
  BY <1>1, <1>2, <1>3, <1>4 DEF Holds

(* An empty pipe holds the fields from any place to the same place.        *)
LEMMA HoldsNone ==
  ASSUME NEW pipe, NEW fields, NEW a \in Nat, NEW S, pipe \in Seq(S)
  PROVE  Holds(pipe, fields, a, a) <=> pipe = <<>>
<1>1. Len(pipe) = 0 <=> pipe = <<>>
  OBVIOUS
<1> QED
  BY <1>1 DEF Holds

(* What a request asks: the currency, then the amount.                     *)
LEMMA RequestContents ==
  ASSUME NEW c \in Clients
  PROVE  Request(c)[2].is = c /\ Request(c)[4].is = user.amount[c]
BY DEF Request

(* A client whose variables do not move stays in its conversation if the   *)
(* pipes and the server do their part.                                     *)
LEMMA Converses ==
  ASSUME NEW c \in Clients, Conversing(c),
         user' = user, pc'[c] = pc[c], step'[c] = step[c], printed'[c] = printed[c],
         pc[c] = "write" /\ Writing(c) => Writing(c)',
         pc[c] = "read" /\ Waiting(c) =>
           Waiting(c)' \/ \E v \in Seq(Digits), m \in Nat : Answered(c, v, m)',
         \A v \in Seq(Digits), m \in Nat : pc[c] = "read" /\ Answered(c, v, m) =>
           \E n \in Nat : Answered(c, v, n)'
  PROVE  Conversing(c)'
<1>1. \A v \in Seq(Digits) : Finished(c, v)' = Finished(c, v)
  BY DEF Finished, Due, Displayed, SameLength
<1> HIDE DEF Writing, Waiting, Answered, Finished
<1>2. CASE pc[c] = "write"
  BY <1>2 DEF Conversing
<1>3. CASE pc[c] = "read"
  <2>1. CASE Waiting(c)
    BY <1>3, <2>1 DEF Conversing
  <2>2. CASE \E v \in Seq(Digits), m \in Nat : Answered(c, v, m)
    BY <1>3, <2>2 DEF Conversing
  <2> QED
    BY <1>3, <2>1, <2>2 DEF Conversing
<1>4. CASE pc[c] \notin {"write", "read"}
  BY <1>1, <1>4 DEF Conversing
<1> QED
  BY <1>2, <1>3, <1>4

(* A client that is in no conversation stays out of it.                    *)
LEMMA StaysOut ==
  ASSUME NEW c \in Clients, Conversing(c), pc[c] \notin {"write", "read"},
         user' = user, pc'[c] = pc[c], printed'[c] = printed[c]
  PROVE  Conversing(c)'
BY DEF Conversing, Finished, Due, Displayed, SameLength

(* The server reads a field of the only request there is, and it is the    *)
(* one it expects.                                                         *)
LEMMA ReadFlow ==
  ASSUME IInv, Flow, Read \/ TornRead
  PROVE  Read /\ Flow'
<1>0. /\ server = "read" /\ prequete # <<>> /\ torn = {}
      /\ UNCHANGED <<user, pc, step, fdw, names, preponse, printed>>
  BY DEF Read, TornRead, Flow
<1>1. PICK c \in Clients : pc[c] \in {"write", "read"}
  BY <1>0 DEF Flow, Quiet, Gone
<1>2. \A d \in Clients : d # c => pc[d] \notin {"write", "read"}
  BY <1>1 DEF Flow, Running
<1>t. /\ sstep \in 1 .. 4 /\ step[c] \in Nat \ {0} /\ (pc[c] = "write" => step[c] <= 4)
      /\ user \in User /\ prequete \in Seq(RequestField) /\ preponse \in Seq(ReplyField)
      /\ montant \in Seq(Digits)
  BY <1>0, <1>1 DEF IInv, TypeOK, Places, OpeningPcs
<1>3. (pc[c] = "write" => Writing(c)) /\ (pc[c] = "read" => Waiting(c))
  <2>1. Conversing(c)
    BY DEF Flow
  <2>2. \A v \in Seq(Digits), m \in Nat : ~Answered(c, v, m)
    BY <1>0 DEF Answered, Sending, Gone
  <2> HIDE DEF Writing, Waiting, Answered
  <2> QED
    BY <2>1, <2>2 DEF Conversing
<1>4. PICK n \in 1 .. 5 : /\ Receiving(c, n)
                          /\ pc[c] = "write" => n = step[c]
                          /\ pc[c] = "read" => n = 5
  <2>0. ~Gone
    BY <1>0 DEF Gone
  <2>1. CASE pc[c] = "write"
    <3>1. Receiving(c, step[c]) /\ step[c] \in 1 .. 5
      <4>1. Receiving(c, step[c])
        BY <1>3, <2>0, <2>1 DEF Writing
      <4> QED
        BY <1>t, <2>1, <4>1
    <3> QED
      BY <2>1, <3>1
  <2>2. CASE pc[c] = "read"
    BY <1>3, <2>0, <2>2 DEF Waiting
  <2> QED
    BY <1>1, <2>1, <2>2
<1>5. sstep < n /\ Head(prequete) = Request(c)[sstep] /\ Holds(Tail(prequete), Request(c), sstep + 1, n)
  <2>1. sstep \in Nat /\ n \in Nat /\ Holds(prequete, Request(c), sstep, n)
    BY <1>4, <1>t DEF Receiving
  <2> HIDE DEF Request, Holds
  <2>2. \A pipe \in Seq(RequestField) : \A fields : \A a, b \in Nat :
          pipe # <<>> /\ Holds(pipe, fields, a, b) =>
            a < b /\ Head(pipe) = fields[a] /\ Holds(Tail(pipe), fields, a + 1, b)
    BY HoldsLess
  <2>3. \A fields : \A a, b \in Nat : Holds(prequete, fields, a, b) =>
          a < b /\ Head(prequete) = fields[a] /\ Holds(Tail(prequete), fields, a + 1, b)
    BY <1>0, <1>t, <2>2
  <2> QED
    BY <2>1, <2>3, Zenon
<1>6. Head(prequete).kind = RequestKinds[sstep]
  BY <1>5, <1>t, RequestFields
<1>a. Read
  <2>1. Head(prequete).kind = "devise" => sstep = 2
    BY <1>6, <1>t DEF RequestKinds
  <2>2. Head(prequete).kind = "montant" => sstep = 4 /\ Head(prequete).is = user.amount[c]
    BY <1>5, <1>6, <1>t, RequestContents DEF RequestKinds
  <2>3. Expected(Head(prequete))
    BY <1>4, <1>6, <2>1, <2>2 DEF Expected, Receiving
  <2> QED
    BY <1>0, <2>3 DEF TornRead
<1>7. /\ devise' = IF Head(prequete).kind = "devise" THEN Head(prequete).is ELSE devise
      /\ montant' = IF Head(prequete).kind = "montant" THEN Over(montant, Head(prequete).is)
                    ELSE montant
      /\ server' = IF sstep = 4 THEN "write" ELSE "read"
      /\ sstep' = IF sstep = 4 THEN 1 ELSE sstep + 1
      /\ prequete' = Tail(prequete) /\ torn' = torn
  BY <1>a DEF Read
<1>b. torn' = {} /\ Running' = Running /\ ~Gone' /\ \A d \in Clients : Late(d)'
  <2>1. torn' = {} /\ Running' = Running
    BY <1>0, <1>7 DEF Running
  <2>2. server' \in {"read", "write"}
    BY <1>7
  <2>3. \A d \in Clients : pc'[d] \in {"open_rep", "wait_rep"} => fdw'[d]
    BY <1>0 DEF Flow, Late, Gone
  <2> QED
    BY <2>1, <2>2, <2>3 DEF Late, Gone
<1>c. (\A d, e \in Running : d = e)' /\ \E d \in Clients : pc'[d] \in {"write", "read"}
  BY <1>0, <1>1, <1>b DEF Flow
<1>8. CASE sstep = 4
  <2>1. pc[c] = "read" /\ Waiting(c) /\ n = 5
    BY <1>1, <1>3, <1>4, <1>5, <1>8, <1>t
  <2>2. Head(prequete).kind = "montant" /\ Head(prequete).is = user.amount[c]
    BY <1>5, <1>6, <1>8, RequestContents DEF RequestKinds
  <2>3. /\ server' = "write" /\ sstep' = 1 /\ devise' = c
        /\ montant' = Over(montant, user.amount[c])
    <3>1. devise = c
      BY <1>4, <1>8 DEF Receiving
    <3> QED
      BY <1>7, <1>8, <2>2, <3>1
  <2>4. user.amount[c] \in Seq(Digits)
    BY <1>t, AmountType
  <2>5. PICK v \in Seq(Digits) : v = montant' /\ Due(c, v)
    <3>1. SameLength(c) => Len(montant) <= Len(user.amount[c])
      BY DEF Flow
    <3>2. /\ Over(montant, user.amount[c]) \in Seq(Digits)
          /\ IsPrefix(user.amount[c], Over(montant, user.amount[c]))
          /\ Len(montant) <= Len(user.amount[c]) =>
               Over(montant, user.amount[c]) = user.amount[c]
      BY <1>t, <2>4, OverProperties
    <3> HIDE DEF Over
    <3> QED
      BY <2>3, <3>1, <3>2 DEF Due
  <2>6. \A d \in Clients : SameLength(d)' => Len(montant') <= Len(user'.amount[d])
    <3> SUFFICES ASSUME NEW d \in Clients, SameLength(d)
                 PROVE  Len(montant') <= Len(user.amount[d])
      BY <1>0 DEF SameLength
    <3>1. Len(user.amount[c]) = Len(user.amount[d]) /\ SameLength(c)
      BY DEF SameLength
    <3>2. montant' = user.amount[c]
      BY <2>5, <3>1 DEF Due
    <3>3. Len(user.amount[c]) \in Nat
      BY <2>4
    <3> QED
      BY <3>1, <3>2, <3>3
  <2>7. prequete' = <<>>
    <3>1. Holds(prequete', Request(c), 5, 5) /\ prequete' \in Seq(RequestField)
      BY <1>0, <1>5, <1>7, <1>8, <1>t, <2>1
    <3> HIDE DEF Request, Holds
    <3> QED
      BY <3>1, HoldsNone
  <2>8. Answered(c, v, 0)'
    <3>1. step'[c] = 1 /\ printed'[c] = <<>> /\ preponse' = <<>>
      BY <1>0, <2>1 DEF Waiting
    <3>2. Due(c, v)'
      BY <1>0, <2>5 DEF Due, SameLength
    <3>4. Sending(c, v, 0)'
      BY <2>3, <2>5, <2>7 DEF Sending
    <3>5. Displayed(c, v)'
      BY <3>1 DEF Displayed
    <3>6. 0 <= ReplyLength'
      BY ReplyLengthType DEF ReplyLength
    <3>7. Holds(preponse, Reply(c, v), step[c], 0 + 1)'
      BY <3>1 DEF Holds
    <3>8. step'[c] - 1 - 3 * Len(printed'[c]) \in 0 .. 2 /\ step'[c] <= 0 + 1
      <4>1. Len(printed'[c]) = 0
        BY <3>1
      <4>2. \A n1, n2 : n1 = 1 /\ n2 = 0 => n1 - 1 - 3 * n2 \in 0 .. 2 /\ n1 <= 0 + 1
        OBVIOUS
      <4> QED
        BY <3>1, <4>1, <4>2
    <3> HIDE DEF Holds, Due, Sending, Displayed
    <3> QED
      BY <3>2, <3>4, <3>5, <3>6, <3>7, <3>8 DEF Answered
  <2>9. \A d \in Clients : Conversing(d)'
    <3>1. Conversing(c)'
      BY <1>0, <2>1, <2>5, <2>8 DEF Conversing
    <3> QED
      BY <1>0, <1>2, <3>1, StaysOut DEF Flow
  <2> QED
    BY <1>0, <1>1, <1>a, <1>b, <1>c, <2>3, <2>6, <2>9 DEF Flow
<1>9. CASE sstep # 4
  <2>1. server' = "read" /\ sstep' = sstep + 1 /\ montant' = montant /\ (sstep' > 2 => devise' = c)
    <3>1. sstep \in 1 .. 3
      BY <1>t, <1>9
    <3>2. Head(prequete).kind # "montant" /\ (Head(prequete).kind = "devise" <=> sstep = 2)
      BY <1>6, <3>1 DEF RequestKinds
    <3>3. sstep = 2 => devise' = c
      BY <1>5, <1>7, <3>2, RequestContents
    <3>4. sstep = 3 => devise' = c
      BY <1>4, <1>7, <3>2 DEF Receiving
    <3> QED
      BY <1>7, <1>9, <3>1, <3>2, <3>3, <3>4
  <2>2. Receiving(c, n)'
    <3>1. Request(c)' = Request(c)
      BY <1>0 DEF Request
    <3>2. sstep' <= n
      BY <1>5, <1>t, <2>1
    <3>3. /\ sstep' = 2 => len' = NameLength
          /\ sstep' = 4 => len' = Len(user'.amount[c])
      <4>1. sstep = 1 => Head(prequete) = [kind |-> "len", is |-> NameLength]
        BY <1>5 DEF Request
      <4>2. sstep = 3 => Head(prequete) = [kind |-> "len", is |-> Len(user.amount[c])]
        BY <1>5 DEF Request
      <4>3. Head(prequete).kind = "len" => len' = Head(prequete).is
        BY <1>a DEF Read
      <4> QED
        BY <1>0, <1>t, <2>1, <4>1, <4>2, <4>3
    <3> HIDE DEF Request
    <3> QED
      BY <1>5, <1>7, <2>1, <3>1, <3>2, <3>3 DEF Receiving, Holds
  <2>3. Conversing(c)'
    <3>1. pc[c] = "write" => Writing(c)'
      BY <1>0, <1>3, <1>4, <2>2 DEF Writing
    <3>2. pc[c] = "read" => Waiting(c)'
      BY <1>0, <1>3, <1>4, <2>2 DEF Waiting
    <3> HIDE DEF Writing, Waiting
    <3> QED
      BY <1>0, <1>1, <3>1, <3>2 DEF Conversing
  <2>4. \A d \in Clients : Conversing(d)'
    BY <1>0, <1>2, <2>3, StaysOut DEF Flow
  <2>5. \A d \in Clients : SameLength(d)' => Len(montant') <= Len(user'.amount[d])
    BY <1>0, <2>1 DEF Flow, SameLength
  <2> QED
    BY <1>a, <1>b, <1>c, <2>1, <2>4, <2>5 DEF Flow
<1> QED
  BY <1>a, <1>8, <1>9

(* The server writes the next field of the reply to the client that reads. *)
LEMMA WriteFlow ==
  ASSUME IInv, Flow, Write \/ Sigpipe
  PROVE  Write /\ Flow'
<1>0. server = "write"
  BY DEF Write, Sigpipe
<1>1. PICK c \in Clients : pc[c] \in {"write", "read"}
  BY <1>0 DEF Flow, Quiet, Gone
<1>2. \A d \in Clients : d # c => pc[d] \notin {"write", "read"}
  BY <1>1 DEF Flow, Running
<1>t. /\ sstep \in 1 .. ReplyLength /\ step[c] \in Nat \ {0}
      /\ preponse \in Seq(ReplyField) /\ ReplyLength \in Nat
      /\ torn = {}
  BY <1>0, ReplyLengthType DEF IInv, TypeOK, Places, Flow
<1>3. pc[c] = "read" /\ \E v \in Seq(Digits), m \in Nat : Answered(c, v, m)
  <2>1. Conversing(c)
    BY DEF Flow
  <2>2. ~Writing(c) /\ ~Waiting(c)
    BY <1>0 DEF Writing, Waiting, Receiving, Gone
  <2> HIDE DEF Writing, Waiting, Answered
  <2> QED
    BY <1>1, <2>1, <2>2 DEF Conversing
<1>4. PICK v \in Seq(Digits), m \in Nat : Answered(c, v, m)
  BY <1>3
<1>5. Write
  BY <1>3 DEF Readers, Write, Sigpipe
<1>6. /\ prequete = <<>> /\ sstep = m + 1 /\ devise = c /\ montant = v
      /\ Holds(preponse, Reply(c, v), step[c], m + 1) /\ step[c] <= m + 1
  <2> HIDE DEF Holds
  <2> QED
    BY <1>0, <1>4 DEF Answered, Sending, Gone
<1>7. preponse' = Append(preponse, Reply(c, v)[m + 1])
  BY <1>5, <1>6, <1>t DEF Write, Reply, Put
<1>8. /\ server' = IF m + 1 = ReplyLength THEN "read" ELSE "write"
      /\ sstep' = IF m + 1 = ReplyLength THEN 1 ELSE m + 2
      /\ UNCHANGED <<user, pc, step, fdw, names, prequete, torn, len, devise, montant, printed>>
  BY <1>5, <1>6 DEF Write, buffers
<1>9. Answered(c, v, m + 1)'
  <2>1. Holds(preponse', Reply(c, v), step[c], (m + 1) + 1)
    <3>1. \A fields : \A a, b \in Nat : a <= b /\ Holds(preponse, fields, a, b) =>
            Holds(Append(preponse, fields[b]), fields, a, b + 1)
      BY <1>t, HoldsMore
    <3>2. step[c] \in Nat /\ m + 1 \in Nat
      BY <1>t
    <3> HIDE DEF Holds, Reply
    <3> QED
      BY <1>6, <1>7, <3>1, <3>2, Zenon
  <2>2. Reply(c, v)' = Reply(c, v) /\ ReplyLength' = ReplyLength
    BY DEF Reply, ReplyLength, ReplyKind
  <2>3. Due(c, v)' /\ Displayed(c, v)'
    BY <1>4, <1>8 DEF Answered, Due, Displayed, SameLength
  <2>4. Sending(c, v, m + 1)'
    BY <1>6, <1>8, <2>2 DEF Sending
  <2>5. m + 1 <= ReplyLength' /\ step'[c] <= (m + 1) + 1
    BY <1>6, <1>8, <1>t, <2>2
  <2>6. (step[c] - 1 - 3 * Len(printed[c]) \in 0 .. 2)'
    BY <1>4, <1>8 DEF Answered
  <2>7. Holds(preponse, Reply(c, v), step[c], (m + 1) + 1)'
    BY <1>8, <2>1, <2>2 DEF Holds
  <2> HIDE DEF Holds, Reply, Due, Displayed, Sending
  <2> QED
    BY <2>3, <2>4, <2>5, <2>6, <2>7 DEF Answered
<1>10. \A d \in Clients : Conversing(d)'
  <2>1. Conversing(c)'
    BY <1>3, <1>8, <1>9 DEF Conversing
  <2> QED
    BY <1>2, <1>8, <2>1, StaysOut DEF Flow
<1> QED
  BY <1>1, <1>5, <1>8, <1>10 DEF Flow, Running, SameLength, Late

(* The server's other steps.  A client that waits for the server to open   *)
(* the reply pipe has opened the request pipe: it starts to write.         *)
LEMMA OpenFlow ==
  ASSUME IInv, Flow, Mkfifo \/ OpenReq \/ OpenRep
  PROVE  Flow'
<1>0. /\ server \in {"mkfifo1", "mkfifo2", "open_req", "open_rep"} /\ ~Gone /\ ~Gone'
      /\ UNCHANGED <<user, step, sstep, prequete, preponse, torn, len, devise, montant,
                       printed>>
  BY DEF Mkfifo, OpenReq, OpenRep, pipes, buffers, Gone
<1>t. pc \in [Clients -> ClientPcs] /\ fdw \in [Clients -> BOOLEAN]
      /\ \A c \in Clients : pc[c] \in EarlyPcs => step[c] = 1 /\ printed[c] = <<>>
  BY DEF IInv, TypeOK, Places
<1>1. \A c \in Clients : pc[c] \notin {"write", "read"}
  <2> SUFFICES ASSUME NEW c \in Clients, pc[c] \in {"write", "read"} PROVE FALSE
    OBVIOUS
  <2>1. Conversing(c)
    BY DEF Flow
  <2>2. ~Writing(c) /\ ~Waiting(c)
    BY <1>0 DEF Writing, Waiting, Receiving
  <2>3. \A v \in Seq(Digits), m \in Nat : ~Answered(c, v, m)
    BY <1>0 DEF Answered, Sending
  <2> HIDE DEF Writing, Waiting, Answered
  <2> QED
    BY <2>1, <2>2, <2>3 DEF Conversing
<1>2. Quiet
  BY <1>0, <1>1 DEF Flow
<1>3. \A c \in Clients : pc'[c] = pc[c] \/ c \in At("wait_req") \/ c \in At("wait_rep")
  BY <1>t DEF Mkfifo, OpenReq, OpenRep, At
<1>4. Running' = Running
  <2>1. ASSUME NEW c \in Clients
        PROVE  pc'[c] \in {"start", "done", "failed", "killed"}
                 <=> pc[c] \in {"start", "done", "failed", "killed"}
    BY <1>t DEF Mkfifo, OpenReq, OpenRep, At, Opened
  <2> QED
    BY <2>1 DEF Running
<1>5. \A c \in Clients : Late(c)'
  <2>1. CASE Mkfifo
    BY <2>1 DEF Mkfifo, Late, Flow, Gone
  <2>2. CASE OpenReq
    <3>1. PICK c \in At("wait_req") : TRUE
      BY <2>2 DEF OpenReq
    <3>2. \A d \in Clients : d # c => pc'[d] \notin {"open_rep", "wait_rep"}
      BY <1>t, <1>3, <2>2, <3>1 DEF OpenReq, At, Flow, Running
    <3>3. fdw'[c]
      BY <1>t, <2>2, <3>1 DEF OpenReq, At
    <3> QED
      BY <3>2, <3>3 DEF Late
  <2>3. CASE OpenRep
    <3>1. \A c \in Clients : pc[c] = "open_rep" => fdw[c]
      BY <2>3 DEF OpenRep, Flow, Late, Gone
    <3>2. \A c \in Clients : pc'[c] \in {"open_rep", "wait_rep"} => pc[c] = "open_rep"
      BY <1>t, <2>3 DEF OpenRep, At, Opened
    <3> QED
      BY <2>3, <3>1, <3>2 DEF OpenRep, Late
  <2> QED
    BY <2>1, <2>2, <2>3
<1>6. \A c \in Clients : Conversing(c)' /\ (pc'[c] = "read" => FALSE)
  <2> SUFFICES ASSUME NEW c \in Clients PROVE Conversing(c)' /\ pc'[c] # "read"
    OBVIOUS
  <2>1. CASE OpenRep /\ c \in At("wait_rep")
    <3>1. pc'[c] = "write" /\ server' = "read" /\ step[c] = 1
      <4>1. fdw[c]
        BY <2>1 DEF OpenRep, At, Flow, Late, Gone
      <4> QED
        BY <1>t, <2>1, <4>1 DEF OpenRep, At, Opened, EarlyPcs
    <3>2. Receiving(c, step[c])'
      <4>1. Holds(prequete', Request(c)', 1, 1)
        BY <1>0, <1>2 DEF Quiet, Holds
      <4> HIDE DEF Holds, Request
      <4> QED
        BY <1>0, <1>2, <3>1, <4>1 DEF Receiving, Quiet
    <3>3. Writing(c)'
      BY <1>0, <1>2, <3>2 DEF Writing, Quiet
    <3> HIDE DEF Writing
    <3> QED
      BY <3>1, <3>3 DEF Conversing
  <2>2. CASE ~(OpenRep /\ c \in At("wait_rep"))
    <3>1. pc'[c] = pc[c] \/ (pc[c] = "wait_req" /\ pc'[c] = "open_rep")
      BY <1>t, <2>2 DEF Mkfifo, OpenReq, OpenRep, At
    <3>2. CASE pc'[c] = pc[c]
      BY <1>0, <1>1, <3>2, StaysOut DEF Flow
    <3>3. CASE pc'[c] = "open_rep"
      BY <3>3 DEF Conversing
    <3> QED
      BY <1>1, <3>1, <3>2, <3>3
  <2> QED
    BY <2>1, <2>2
<1>7. server' \notin {"killed", "write"} /\ torn' = {}
  BY <1>0 DEF Mkfifo, OpenReq, OpenRep, Flow
<1>8. Quiet'
  BY <1>0, <1>2, <1>7 DEF Quiet
<1> QED
  BY <1>0, <1>4, <1>5, <1>6, <1>7, <1>8 DEF Flow, SameLength

(* When the server leaves, nothing is due to a client any more.            *)
LEMMA LeaveFlow ==
  ASSUME IInv, Flow, ConvertFails \/ Interrupt \/ Unlink
  PROVE  Flow'
<1>0. /\ server' \in {"failed", "unlink1", "unlink2", "exited"}
      /\ UNCHANGED <<user, pc, step, sstep, fdw, prequete, preponse, torn, len, devise, montant,
                       printed>>
  BY DEF ConvertFails, Interrupt, Unlink, pipes, buffers
<1>1. \A d \in Clients : Conversing(d)'
  <2> SUFFICES ASSUME NEW d \in Clients PROVE Conversing(d)'
    OBVIOUS
  <2>0. Conversing(d)
    BY DEF Flow
  <2>1. Writing(d) => Writing(d)'
    BY <1>0 DEF Writing, Gone
  <2>2. Waiting(d) => Waiting(d)'
    BY <1>0 DEF Waiting, Gone
  <2>3. \A v \in Seq(Digits), m \in Nat : Answered(d, v, m) => Answered(d, v, m)'
    BY <1>0 DEF Answered, Gone, Due, SameLength, Displayed, Holds, Reply, ReplyLength, ReplyKind
  <2> HIDE DEF Writing, Waiting, Answered
  <2> QED
    BY <1>0, <2>0, <2>1, <2>2, <2>3, Converses
<1> QED
  BY <1>0, <1>1 DEF Flow, Running, SameLength, Quiet, Gone, Late

LEMMA ServerFlow ==
  ASSUME IInv, Flow, Server \/ Interrupt
  PROVE  Flow'
BY ReadFlow, WriteFlow, OpenFlow, LeaveFlow DEF Server

(* The client reads the next field of its reply, and has displayed every   *)
(* value when it has read them all.                                        *)
LEMMA ClientReadFlow ==
  ASSUME IInv, Flow, NEW c \in Clients, ClientRead(c) \/ ClientTornRead(c)
  PROVE  /\ ClientRead(c)
         /\ pc'[c] \in {"read", "done"} /\ Conversing(c)'
         /\ pc'[c] = "done" /\ ~Gone => Quiet'
<1>0. /\ pc[c] = "read" /\ preponse # <<>> /\ torn = {}
      /\ UNCHANGED <<user, server, sstep, fdw, names, prequete, len, devise, montant>>
  BY DEF ClientRead, ClientTornRead, buffers, Flow
<1>t. /\ step[c] \in 1 .. ReplyLength /\ preponse \in Seq(ReplyField) /\ ReplyLength \in Nat
      /\ pc \in [Clients -> ClientPcs] /\ step \in [Clients -> Nat \ {0}]
      /\ printed[c] \in Seq(Display)
      /\ printed \in [Clients -> Seq(Display)]
  BY <1>0, ReplyLengthType DEF IInv, TypeOK, Places
<1>1. PICK v \in Seq(Digits), m \in Nat : Answered(c, v, m)
  <2>1. Conversing(c) /\ ~Waiting(c)
    BY <1>0 DEF Flow, Waiting
  <2> HIDE DEF Writing, Waiting, Answered
  <2> QED
    BY <1>0, <2>1 DEF Conversing
<1>2. /\ m <= ReplyLength /\ Displayed(c, v) /\ step[c] - 1 - 3 * Len(printed[c]) \in 0 .. 2
      /\ Holds(preponse, Reply(c, v), step[c], m + 1) /\ Due(c, v) /\ (~Gone => Sending(c, v, m))
  BY <1>1 DEF Answered
<1>3. /\ step[c] < m + 1 /\ Head(preponse) = Reply(c, v)[step[c]]
      /\ Holds(Tail(preponse), Reply(c, v), step[c] + 1, m + 1)
  <2>1. step[c] \in Nat /\ m + 1 \in Nat
    BY <1>t
  <2>2. \A pipe \in Seq(ReplyField) : \A fields : \A a, b \in Nat :
          pipe # <<>> /\ Holds(pipe, fields, a, b) =>
            a < b /\ Head(pipe) = fields[a] /\ Holds(Tail(pipe), fields, a + 1, b)
    BY HoldsLess
  <2> HIDE DEF Reply, Holds
  <2>3. \A fields : \A a, b \in Nat : Holds(preponse, fields, a, b) =>
          a < b /\ Head(preponse) = fields[a] /\ Holds(Tail(preponse), fields, a + 1, b)
    BY <1>0, <1>t, <2>2
  <2> QED
    BY <1>2, <2>1, <2>3, Zenon
<1>4. Head(preponse) = [kind |-> ReplyKind(step[c]), devise |-> c, montant |-> v]
  BY <1>3, <1>t DEF Reply
<1>a. ClientRead(c)
  BY <1>0, <1>4 DEF ClientTornRead
<1>5. /\ step' = [step EXCEPT ![c] = step[c] + 1]
      /\ pc' = [pc EXCEPT ![c] = IF step[c] = ReplyLength THEN "done" ELSE "read"]
      /\ printed' = IF ReplyKind(step[c]) = "value"
                      THEN [printed EXCEPT ![c] = Append(@, <<c, v>>)] ELSE printed
  <2>1. /\ step' = [step EXCEPT ![c] = step[c] + 1]
        /\ pc' = [pc EXCEPT ![c] = IF step[c] = ReplyLength THEN "done" ELSE "read"]
    BY <1>a DEF ClientRead, goto, LastOfReply
  <2>2. printed' = IF Head(preponse).kind = "value"
                     THEN [printed EXCEPT ![c] =
                             Append(@, <<Head(preponse).devise, Head(preponse).montant>>)]
                     ELSE printed
    BY <1>a DEF ClientRead
  <2>3. /\ Head(preponse).kind = ReplyKind(step[c])
        /\ Head(preponse).devise = c /\ Head(preponse).montant = v
    BY <1>4
  <2> QED
    BY <2>1, <2>2, <2>3
<1>b. preponse' = Tail(preponse)
  BY <1>a DEF ClientRead
<1>6. /\ printed'[c] \in Seq(Display)
      /\ Displayed(c, v)'
      /\ Len(printed'[c]) = Len(printed[c]) + (IF (step[c] - 1) % 3 = 2 THEN 1 ELSE 0)
  <2>0. ReplyKind(step[c]) = "value" <=> (step[c] - 1) % 3 = 2
    BY <1>t, ReplyKinds
  <2>1. CASE ReplyKind(step[c]) = "value"
    <3>1. printed'[c] = Append(printed[c], <<c, v>>) /\ <<c, v>> \in Display
      BY <1>5, <1>t, <2>1 DEF Display
    <3>2. Displayed(c, v)'
      BY <1>2, <1>t, <3>1 DEF Displayed
    <3> QED
      BY <1>t, <2>0, <2>1, <3>1, <3>2
  <2>2. CASE ReplyKind(step[c]) # "value"
    <3>1. printed' = printed /\ ~((step[c] - 1) % 3 = 2)
      BY <1>5, <2>0, <2>2
    <3>2. Len(printed[c]) \in Nat
      BY <1>t
    <3> QED
      BY <1>2, <1>t, <3>1, <3>2 DEF Displayed
  <2> QED
    BY <2>1, <2>2
<1>7. step[c] - 3 * Len(printed'[c]) \in 0 .. 2
  <2>1. \A n, l \in Nat : n - 1 - 3 * l \in 0 .. 2 => (n - 1) % 3 = n - 1 - 3 * l
    OBVIOUS
  <2>2. \A n, l \in Nat : n - 1 - 3 * l \in 0 .. 2 =>
          n - 3 * (l + (IF (n - 1) % 3 = 2 THEN 1 ELSE 0)) \in 0 .. 2
    <3> SUFFICES ASSUME NEW n \in Nat, NEW l \in Nat, n - 1 - 3 * l \in 0 .. 2
                 PROVE  n - 3 * (l + (IF (n - 1) % 3 = 2 THEN 1 ELSE 0)) \in 0 .. 2
      OBVIOUS
    <3>1. CASE n - 1 - 3 * l = 2
      BY <2>1, <3>1
    <3>2. CASE n - 1 - 3 * l \in 0 .. 1
      BY <2>1, <3>2
    <3> QED
      BY <3>1, <3>2
  <2>3. Len(printed[c]) \in Nat /\ step[c] \in Nat
    BY <1>t
  <2> QED
    BY <1>2, <1>6, <2>2, <2>3
<1>8. Due(c, v)' /\ Reply(c, v)' = Reply(c, v) /\ ReplyLength' = ReplyLength
  BY <1>0, <1>2 DEF Due, SameLength, Reply, ReplyLength, ReplyKind
<1>9. CASE step[c] = ReplyLength
  <2>1. pc'[c] = "done"
    BY <1>5, <1>9, <1>t
  <2>2. Len(printed'[c]) = NB
    <3>1. 3 * NB - 3 * Len(printed'[c]) \in 0 .. 2 /\ Len(printed'[c]) \in Nat
      <4>1. Len(printed'[c]) \in Nat
        <5>1. \A s \in Seq(Display) : Len(s) \in Nat
          OBVIOUS
        <5> QED
          BY <1>6, <5>1, Zenon
      <4>2. step[c] = 3 * NB
        BY <1>9 DEF ReplyLength
      <4>3. 3 * NB - 3 * Len(printed'[c]) \in 0 .. 2
        BY <1>7, <4>2, Zenon
      <4> QED
        BY <4>1, <4>3
    <3> QED
      BY <3>1, NBAssumption
  <2>3. Finished(c, v)'
    BY <1>6, <1>8, <2>2 DEF Finished
  <2>4. ~Gone => Quiet'
    <3> SUFFICES ASSUME ~Gone PROVE Quiet'
      OBVIOUS
    <3>1. m = ReplyLength
      BY <1>2, <1>3, <1>9, <1>t
    <3>2. preponse' = <<>>
      <4>1. Tail(preponse) \in Seq(ReplyField)
        BY <1>0, <1>t
      <4>2. Len(Tail(preponse)) = (m + 1) - (step[c] + 1)
        BY <1>3 DEF Holds
      <4>3. (m + 1) - (step[c] + 1) = 0
        BY <1>9, <1>t, <3>1
      <4>4. \A s \in Seq(ReplyField) : Len(s) = 0 => s = <<>>
        OBVIOUS
      <4> QED
        BY <1>b, <4>1, <4>2, <4>3, <4>4
    <3>3. server = "read" /\ sstep = 1 /\ prequete = <<>>
      <4>1. Sending(c, v, m)
        BY <1>2
      <4>2. server = "write" => sstep <= ReplyLength
        BY DEF IInv, Places
      <4> QED
        BY <1>t, <3>1, <4>1, <4>2 DEF Sending
    <3> QED
      BY <1>0, <3>2, <3>3 DEF Quiet
  <2> HIDE DEF Finished
  <2> QED
    BY <1>a, <2>1, <2>3, <2>4 DEF Conversing
<1>10. CASE step[c] # ReplyLength
  <2>1. pc'[c] = "read" /\ step'[c] = step[c] + 1
    BY <1>5, <1>10, <1>t
  <2>2. Answered(c, v, m)'
    <3>1. (~Gone)' => Sending(c, v, m)'
      BY <1>0, <1>2, <1>8 DEF Gone, Sending
    <3>2. (m <= ReplyLength /\ step[c] <= m + 1)'
      BY <1>2, <1>3, <1>8, <1>t, <2>1
    <3>3. (step[c] - 1 - 3 * Len(printed[c]) \in 0 .. 2)'
      <4>1. step'[c] - 1 = step[c]
        BY <1>t, <2>1
      <4> QED
        BY <1>7, <4>1
    <3>4. Holds(preponse, Reply(c, v), step[c], m + 1)'
      BY <1>3, <1>b, <1>8, <2>1 DEF Holds
    <3> HIDE DEF Holds, Reply, Due, Displayed, Sending
    <3> QED
      BY <1>6, <1>8, <3>1, <3>2, <3>3, <3>4 DEF Answered
  <2> HIDE DEF Answered
  <2> QED
    BY <1>a, <2>1, <2>2 DEF Conversing
<1> QED
  BY <1>a, <1>9, <1>10

(* The steps of the only client that runs.                                 *)
LEMMA ClientFlow ==
  ASSUME IInv, OneByOne, OneByOne', Flow, NEW c \in Clients, Start(c) \/ Client(c) \/ ClientKilled(c)
  PROVE  Flow'
<1>t. /\ pc \in [Clients -> ClientPcs] /\ step \in [Clients -> Nat \ {0}]
      /\ printed \in [Clients -> Seq(Display)] /\ fdw \in [Clients -> BOOLEAN]
  BY DEF IInv, TypeOK
<1>0. /\ UNCHANGED <<user, server, sstep, names, len, devise, montant>>
      /\ \A d \in Clients : d # c =>
           /\ pc'[d] = pc[d] /\ step'[d] = step[d] /\ printed'[d] = printed[d]
           /\ fdw'[d] = fdw[d]
      /\ ~ClientTornRead(c) => torn' = torn
  BY <1>t DEF Start, Client, ClientOpenReq, ClientOpenRep, ClientWrite, ClientRead, ClientTornRead,
     ClientSigpipe, ClientEof, ClientKilled, goto, pipes, buffers
<1>1. \A d \in Clients : d # c => d \notin Running
  <2>1. CASE Start(c)
    <3>1. IsFiniteSet(Running) /\ Cardinality(Running) < 1 /\ Cardinality(Running) \in Nat
      BY <2>1, ClientsAssumption, FS_Subset, FS_CardinalityType DEF Start, OneByOne, Running
    <3> HIDE DEF Running
    <3>2. Running = {}
      BY <3>1, FS_EmptySet
    <3> QED
      BY <3>2
  <2>2. CASE ~Start(c)
    <3>1. c \in Running
      BY <2>2 DEF Client, ClientOpenReq, ClientOpenRep, ClientWrite, ClientRead, ClientTornRead,
         ClientSigpipe, ClientEof, ClientKilled, Running
    <3> QED
      BY <3>1 DEF Flow
  <2> QED
    BY <2>1, <2>2
<1>2. \A d \in Clients : d # c => pc[d] \notin {"write", "read"} /\ d \notin Running'
  BY <1>0, <1>1 DEF Running
<1>3. SUFFICES /\ torn' = {} /\ Conversing(c)' /\ Late(c)'
               /\ pc'[c] \notin {"write", "read"} /\ ~Gone => Quiet'
  <2> SUFFICES ASSUME torn' = {}, Conversing(c)', Late(c)',
                      pc'[c] \notin {"write", "read"} /\ ~Gone => Quiet'
               PROVE  Flow'
    BY <1>3
  <2>1. \A d \in Clients : Conversing(d)'
    BY <1>0, <1>2, StaysOut DEF Flow
  <2>2. \A d1, d2 \in Running' : d1 = d2
    BY <1>2 DEF Running
  <2>3. (\A d \in Clients : pc'[d] \notin {"write", "read"}) /\ ~Gone' => Quiet'
    BY <1>0 DEF Gone
  <2>4. \A d \in Clients : Late(d)'
    BY <1>0 DEF Flow, Late, Gone
  <2>5. \A d \in Clients : SameLength(d)' => Len(montant') <= Len(user'.amount[d])
    BY <1>0 DEF Flow, SameLength
  <2> HIDE DEF Conversing, Quiet, Gone, SameLength, Late
  <2> QED
    BY <1>0, <2>1, <2>2, <2>3, <2>4, <2>5 DEF Flow
<1>4. CASE Start(c) \/ ClientOpenReq(c)
  <2>1. /\ pc[c] \in {"start", "open_req"} /\ pc'[c] \in {"open_req", "wait_req", "open_rep"}
        /\ UNCHANGED <<prequete, preponse>> /\ torn' = {}
    BY <1>0, <1>4, <1>t DEF Start, ClientOpenReq, goto, pipes, Flow, ClientTornRead
  <2>2. ~Gone => Quiet
    BY <1>2, <2>1 DEF Flow
  <2>3. Late(c)'
    <3>1. server \in OpeningPcs \cup {"mkfifo2", "write"} => "prequete" \in names
      BY DEF IInv, Places
    <3>2. ClientOpenReq(c) /\ pc'[c] = "open_rep" /\ ~fdw'[c] => "prequete" \notin names
      BY <1>t DEF ClientOpenReq, goto
    <3>3. server \in OpeningPcs \cup {"mkfifo1", "mkfifo2", "write"} \/ Gone
      BY DEF IInv, TypeOK, ServerPcs, Gone
    <3>4. Start(c) => pc'[c] = "open_req"
      BY <1>t DEF Start, goto
    <3> QED
      BY <1>0, <1>4, <2>1, <3>1, <3>2, <3>3, <3>4 DEF Late, Gone
  <2> QED
    BY <1>0, <2>1, <2>2, <2>3 DEF Quiet, Conversing
<1>5. CASE ClientOpenRep(c)
  <2>1. /\ pc[c] = "open_rep" /\ fdw' = fdw /\ torn' = {}
        /\ pc' = [pc EXCEPT ![c] = IF "preponse" \notin names THEN "failed"
                    ELSE IF server \in {"read", "write"} THEN Opened(c) ELSE "wait_rep"]
        /\ UNCHANGED <<prequete, preponse, step, printed>>
    BY <1>5 DEF ClientOpenRep, goto, pipes, Flow
  <2>2. ~Gone => Quiet
    BY <1>2, <2>1 DEF Flow
  <2>3. CASE pc'[c] \in {"failed", "wait_rep"}
    BY <1>0, <2>1, <2>2, <2>3 DEF Quiet, Conversing, Flow, Late, Gone
  <2>4. CASE pc'[c] \notin {"failed", "wait_rep"}
    <3>1. server \in {"read", "write"} /\ pc'[c] = Opened(c)
      BY <1>t, <2>1, <2>4
    <3>2. server = "read" /\ Quiet
      BY <2>2, <3>1 DEF Quiet, Gone
    <3>3. pc'[c] = "write" /\ step[c] = 1
      BY <2>1, <3>1, <3>2 DEF IInv, Places, EarlyPcs, Flow, Late, Gone, Opened
    <3>4. Receiving(c, step[c])'
      <4>1. Holds(prequete', Request(c)', 1, 1)
        BY <2>1, <3>2 DEF Quiet, Holds
      <4> HIDE DEF Holds, Request
      <4> QED
        BY <1>0, <2>1, <3>2, <3>3, <4>1 DEF Receiving, Quiet
    <3>5. Writing(c)'
      BY <2>1, <3>2, <3>4 DEF Writing, Quiet
    <3> HIDE DEF Writing
    <3> QED
      BY <2>1, <3>3, <3>5 DEF Conversing, Late
  <2> QED
    BY <2>3, <2>4
<1>6. CASE ClientWrite(c)
  <2>1. /\ pc[c] = "write" /\ ~Gone /\ preponse' = preponse /\ printed' = printed
        /\ prequete' = Append(prequete, Request(c)[step[c]])
        /\ step' = [step EXCEPT ![c] = IF step[c] = 4 THEN 1 ELSE step[c] + 1]
        /\ pc' = [pc EXCEPT ![c] = IF step[c] = 4 THEN "read" ELSE "write"]
        /\ torn' = {}
    BY <1>6 DEF ClientWrite, goto, Put, Flow
  <2>2. step[c] \in 1 .. 4 /\ prequete \in Seq(RequestField) /\ printed[c] = <<>> /\ sstep \in Nat
    <3>1. step[c] <= 4 /\ printed[c] = <<>>
      BY <2>1 DEF IInv, Places
    <3>2. prequete \in Seq(RequestField) /\ sstep \in Nat /\ step[c] \in Nat \ {0}
      BY DEF IInv, TypeOK, Flow
    <3> QED
      BY <3>1, <3>2
  <2>3. Writing(c)
    BY <2>1 DEF Flow, Conversing
  <2>4. preponse = <<>> /\ Receiving(c, step[c])
    BY <2>1, <2>3 DEF Writing
  <2>5. Holds(prequete', Request(c), sstep, step[c] + 1)
    <3>1. \A fields : \A a, b \in Nat : a <= b /\ Holds(prequete, fields, a, b) =>
            Holds(Append(prequete, fields[b]), fields, a, b + 1)
      <4>1. prequete \in Seq(RequestField)
        BY <2>2
      <4> QED
        BY <4>1, HoldsMore
    <3>2. step[c] \in Nat /\ sstep <= step[c] /\ Holds(prequete, Request(c), sstep, step[c])
      BY <2>2, <2>4 DEF Receiving
    <3> HIDE DEF Holds, Request
    <3> QED
      BY <2>1, <2>2, <3>1, <3>2, Zenon
  <2>6. \A n : n = step[c] + 1 => Receiving(c, n)'
    <3>1. Request(c)' = Request(c)
      BY <1>0 DEF Request
    <3>2. sstep <= step[c] + 1 /\ server = "read" /\ (sstep > 2 => devise = c)
          /\ (sstep = 2 => len = NameLength) /\ (sstep = 4 => len = Len(user.amount[c]))
      BY <2>2, <2>4 DEF Receiving
    <3> HIDE DEF Request
    <3> QED
      BY <1>0, <2>5, <3>1, <3>2 DEF Receiving, Holds
  <2>7. CASE step[c] = 4
    <3>1. Waiting(c)'
      BY <1>t, <2>1, <2>2, <2>4, <2>6, <2>7 DEF Waiting
    <3>2. pc'[c] = "read"
      BY <1>t, <2>1, <2>7
    <3> HIDE DEF Waiting
    <3> QED
      BY <2>1, <3>1, <3>2 DEF Conversing, Late
  <2>8. CASE step[c] # 4
    <3>1. Writing(c)'
      BY <1>t, <2>1, <2>2, <2>4, <2>6, <2>8 DEF Writing
    <3>2. pc'[c] = "write"
      BY <1>t, <2>1, <2>8
    <3> HIDE DEF Writing
    <3> QED
      BY <2>1, <3>1, <3>2 DEF Conversing, Late
  <2> QED
    BY <2>7, <2>8
<1>7. CASE ClientRead(c) \/ ClientTornRead(c)
  BY <1>7, ClientReadFlow DEF ClientRead, Flow, Late
<1>8. CASE ClientSigpipe(c) \/ ClientEof(c)
  <2>1. Gone /\ pc'[c] = "failed" /\ torn' = {}
    BY <1>8, <1>t DEF ClientSigpipe, ClientEof, goto, pipes, Flow
  <2> QED
    BY <2>1 DEF Conversing, Late
<1>9. CASE ClientKilled(c)
  BY <1>9, <1>t DEF ClientKilled, goto, OneByOne
<1> QED
  BY <1>4, <1>5, <1>6, <1>7, <1>8, <1>9 DEF Client

(* A killed client stays so, and the user does not change.                 *)
LEMMA KilledForGood ==
  ASSUME IInv, [Next]_vars, OneByOne'
  PROVE  OneByOne
<1>0. pc \in [Clients -> ClientPcs]
  BY DEF IInv, TypeOK
<1>1. user' = user /\ \A d \in Clients : pc[d] = "killed" => pc'[d] = "killed"
  <2>1. CASE UNCHANGED vars
    BY <2>1 DEF vars
  <2>2. CASE Server \/ Interrupt
    BY <1>0, <2>2 DEF Server, Mkfifo, OpenReq, OpenRep, Read, TornRead, ConvertFails, Write, Sigpipe,
       Interrupt, Unlink, At
  <2>3. ASSUME NEW c \in Clients, Start(c) \/ Client(c) \/ ClientKilled(c)
        PROVE  user' = user /\ \A d \in Clients : pc[d] = "killed" => pc'[d] = "killed"
    BY <1>0, <2>3 DEF Start, Client, ClientOpenReq, ClientOpenRep, ClientWrite, ClientRead,
       ClientTornRead, ClientSigpipe, ClientEof, ClientKilled, goto
  <2> QED
    BY <2>1, <2>2, <2>3 DEF Next
<1> QED
  BY <1>1 DEF OneByOne

(* With clients that come one at a time and are not killed, what is in the *)
(* pipes is always what is left of one request or of one reply.            *)
THEOREM FlowInvariance == Spec => []FlowInv
<1>1. Init => FlowInv
  <2> SUFFICES ASSUME Init PROVE Flow
    BY DEF FlowInv
  <2>1. user \in User /\ Len(montant) = 0
    BY UsersAssumption DEF Init
  <2>2. \A c \in Clients : Len(montant) <= Len(user.amount[c])
    BY <2>1, AmountType
  <2> QED
    BY <2>2 DEF Init, Flow, Running, Quiet, Conversing, Gone, Late
<1>2. IInv /\ FlowInv /\ [Next]_vars => FlowInv'
  <2> SUFFICES ASSUME IInv, FlowInv, [Next]_vars, OneByOne' PROVE Flow'
    BY DEF FlowInv
  <2>1. OneByOne /\ Flow
    BY KilledForGood DEF FlowInv
  <2>3. CASE UNCHANGED vars
    <3>1. UNCHANGED <<user, server, pc, step, sstep, fdw, prequete, preponse, torn, len, devise, montant,
                      printed>>
      BY <2>3 DEF vars, pipes, buffers
    <3>2. \A c \in Clients : Conversing(c)' = Conversing(c)
      BY <3>1 DEF Conversing, Writing, Waiting, Answered, Finished, Receiving, Sending, Due,
         Displayed, Holds, Request, Reply, ReplyLength, ReplyKind, Gone, SameLength
    <3> QED
      BY <2>1, <3>1, <3>2 DEF Flow, Running, Quiet, Gone, SameLength, Late
  <2> QED
    BY <2>1, <2>3, ServerFlow, ClientFlow DEF Next
<1> QED
  BY <1>1, <1>2, TypeCorrect, PTL DEF Spec

(* With one client at a time no field is ever taken for another, on either *)
(* side (lines 59-72 of conversion_server.c, 27-60 of conversion_client.c),*)
(* whether or not the server is interrupted.                               *)
THEOREM NobodyAstray == Spec => []Aligned
<1>1. FlowInv => Aligned
  BY DEF FlowInv, Flow, Aligned
<1> QED
  BY <1>1, FlowInvariance, PTL

(* Then only the death of a client can kill the server: as long as it      *)
(* writes, the client that reads keeps the reply pipe open (lines 69-72 of *)
(* conversion_server.c, 40-62 of conversion_client.c).                     *)
THEOREM OnlyDeathBreaks == Spec => []BrokenByKill
<1>1. FlowInv => BrokenByKill
  BY DEF FlowInv, Flow, BrokenByKill
<1> QED
  BY <1>1, FlowInvariance, PTL

(* With one client at a time each client displays the NB conversions of    *)
(* its own request, exactly its amount when all amounts have one length    *)
(* (the buffer of line 62 of conversion_server.c is never cleared).        *)
THEOREM RightReplies == Spec => []RightReply
<1>1. FlowInv => RightReply
  <2> SUFFICES ASSUME FlowInv, NEW c \in Clients, OneByOne, pc[c] = "done"
               PROVE  /\ Len(printed[c]) = NB
                      /\ \A n \in 1 .. NB :
                           /\ printed[c][n][1] = c
                           /\ IsPrefix(user.amount[c], printed[c][n][2])
                           /\ (\A d \in Clients : Len(user.amount[d]) = Len(user.amount[c]))
                                => printed[c][n][2] = user.amount[c]
    BY DEF RightReply
  <2>1. PICK v \in Seq(Digits) : Finished(c, v)
    BY DEF FlowInv, Flow, Conversing
  <2>2. Len(printed[c]) = NB /\ \A n \in 1 .. NB : printed[c][n] = <<c, v>>
    BY <2>1 DEF Finished, Displayed
  <2>3. IsPrefix(user.amount[c], v) /\ (SameLength(c) => v = user.amount[c])
    BY <2>1 DEF Finished, Due
  <2> QED
    BY <2>2, <2>3 DEF SameLength
<1> QED
  BY <1>1, FlowInvariance, PTL
=============================================================================
