----------------------------- MODULE NamedPipes -----------------------------
(***************************************************************************)
(* The currency server of TME8 that converts alone (conversion_server.c)   *)
(* and its client (conversion_client.c), linked by two named pipes.  Each  *)
(* write puts one field into a pipe and each read takes one out, until a   *)
(* read meets a field of another kind, or of another length, than the one  *)
(* it asks for: the stream is then "torn", and whoever reads it gets some  *)
(* of the bytes that are there.                                            *)
(*                                                                         *)
(* A currency is abstracted to the client that asks for its conversion, an *)
(* amount is the sequence of its characters: the server reads it over the  *)
(* previous one in a buffer it never clears.                               *)
(***************************************************************************)
EXTENDS Integers, Sequences, FiniteSets, SequencesExt

CONSTANTS
  Clients,     \* runs of conversion_client
  Users,       \* what the user may do, see User
  Digits,      \* the characters of an amount
  NB,          \* currencies (5 in the code)
  Capacity,    \* fields that the reply pipe holds
  None         \* what the buffers contain at first

ASSUME ClientsAssumption == IsFiniteSet(Clients) /\ None \notin Clients

(* The amount each client asks for, how many clients run at the same time, *)
(* which of them may be killed, which ask for a currency that does not     *)
(* exist, and whether SIGINT may stop the server.                          *)
User == [amount : [Clients -> UNION {[1 .. n -> Digits] : n \in 1 .. 2}],
         atOnce : Nat, killed : SUBSET Clients, unknown : SUBSET Clients,
         interrupts : BOOLEAN]

ASSUME UsersAssumption == Users \subseteq User
ASSUME NBAssumption == NB \in Nat \ {0} /\ Capacity \in Nat /\ Capacity >= 3 * NB

VARIABLES
  user,      \* what this user may do
  server,    \* where the server stands
  pc,        \* where each client stands
  step,      \* the field each client is about to write or read, from 1 on
  sstep,     \* the same for the server
  fdw,       \* whether each client's open of the request pipe succeeded
  names,     \* the named pipes that exist
  prequete, preponse,  \* the fields in the two pipes
  torn,      \* the pipes of which some read has met an unexpected field
  len, devise, montant,     \* the variables of the server
  printed    \* history: what each client has displayed

pipes == <<prequete, preponse, torn>>
buffers == <<len, devise, montant>>
vars == <<user, server, pc, step, sstep, fdw, names, pipes, buffers, printed>>

RequestKinds == <<"len", "devise", "len", "montant">>

(* The name of a currency has three letters.                               *)
NameLength == 3

(* Mistake: the client writes the amount before the currency.              *)
RequestSwapped(c) == <<[kind |-> "len", is |-> Len(user.amount[c])],
                       [kind |-> "montant", is |-> user.amount[c]],
                       [kind |-> "len", is |-> NameLength], [kind |-> "devise", is |-> c]>>

Request(c) == <<[kind |-> "len", is |-> NameLength], [kind |-> "devise", is |-> c],
                [kind |-> "len", is |-> Len(user.amount[c])],
                [kind |-> "montant", is |-> user.amount[c]]>>

(* A reply is NB times: a length, the name of a currency, a value.         *)
ReplyLength == 3 * NB
ReplyKind(n) == <<"len", "currency", "value">>[((n - 1) % 3) + 1]

Init ==
  /\ user \in Users
  /\ server = "mkfifo1"
  /\ pc = [c \in Clients |-> "start"]
  /\ step = [c \in Clients |-> 1]
  /\ sstep = 1
  /\ fdw = [c \in Clients |-> FALSE]
  /\ names = {}
  /\ prequete = <<>> /\ preponse = <<>> /\ torn = {}
  /\ len = 0 /\ devise = None /\ montant = <<>>
  /\ printed = [c \in Clients |-> <<>>]

(* The server has closed its ends of the pipes.                            *)
Gone == server \in {"killed", "failed", "unlink1", "unlink2", "exited"}

goto(c, l) == pc' = [pc EXCEPT ![c] = l]

(* A client that has opened both pipes writes its request, unless the open *)
(* of the first one failed: its writes then do, and it only reads.         *)
Opened(c) == IF fdw[c] THEN "write" ELSE "read"

At(l) == {c \in Clients : pc[c] = l}

(***************************************************************************)
(* The server.  open blocks until the other end of the pipe is opened: it  *)
(* lets go on all the clients that wait for it there.                      *)
(***************************************************************************)
Mkfifo ==
  /\ \/ server = "mkfifo1" /\ server' = "mkfifo2" /\ names' = names \cup {"prequete"}
     \/ server = "mkfifo2" /\ server' = "open_req" /\ names' = names \cup {"preponse"}
  /\ UNCHANGED <<user, pc, step, sstep, fdw, pipes, buffers, printed>>

OpenReq ==
  /\ server = "open_req" /\ At("wait_req") # {}
  /\ server' = "open_rep"
  /\ pc' = [c \in Clients |-> IF c \in At("wait_req") THEN "open_rep" ELSE pc[c]]
  /\ fdw' = [c \in Clients |-> c \in At("wait_req") \/ fdw[c]]
  /\ UNCHANGED <<user, step, sstep, names, pipes, buffers, printed>>

(* Then the server opens the writing end of the request pipe as well, and  *)
(* never meets an end of file there.                                       *)
OpenRep ==
  /\ server = "open_rep" /\ At("wait_rep") # {}
  /\ server' = "read"
  /\ pc' = [c \in Clients |-> IF c \in At("wait_rep") THEN Opened(c) ELSE pc[c]]
  /\ UNCHANGED <<user, step, sstep, fdw, names, pipes, buffers, printed>>

(* What read(fdr, montant, len) leaves in the buffer.                      *)
Over(buffer, text) == text \o SubSeq(buffer, Len(text) + 1, Len(buffer))

(* A torn stream is either empty or some bytes; a read takes part of them. *)
Scrap == [kind |-> None]
Scraps(pipe) == IF pipe = <<>> THEN {<<>>} ELSE {<<>>, <<Scrap>>}
Put(field, pipe, name) == IF name \in torn THEN <<Scrap>> ELSE Append(pipe, field)

(* The next field is the one the server means to read, all of it.          *)
Expected(field) ==
  /\ field.kind = RequestKinds[sstep]
  /\ field.kind = "devise" => len = NameLength
  /\ field.kind = "montant" => len = Len(field.is)

Read ==
  /\ server = "read" /\ prequete # <<>> /\ "prequete" \notin torn
  /\ LET field == Head(prequete) IN
       /\ Expected(field)
       /\ len' = IF field.kind = "len" THEN field.is ELSE len
       /\ devise' = IF field.kind = "devise" THEN field.is ELSE devise
       /\ montant' = IF field.kind = "montant" THEN Over(montant, field.is) ELSE montant
  /\ server' = IF sstep = 4 THEN "write" ELSE "read"
  /\ sstep' = IF sstep = 4 THEN 1 ELSE sstep + 1
  /\ prequete' = Tail(prequete)
  /\ UNCHANGED <<user, pc, step, fdw, names, preponse, torn, printed>>

(* The results of read are not tested.  A length that was none may be 0 or *)
(* negative, and the read that uses it takes nothing and does not block;   *)
(* or exceed the buffer, and what lies behind it is overwritten.           *)
TornRead ==
  /\ server = "read"
  /\ IF prequete = <<>> THEN "prequete" \in torn /\ RequestKinds[sstep] # "len"
     ELSE "prequete" \in torn \/ ~Expected(Head(prequete))
  /\ prequete' \in Scraps(prequete)
  /\ torn' = torn \cup {"prequete"}
  /\ len' = 0 /\ montant' = <<>>
  /\ devise' \in IF RequestKinds[sstep] = "devise" THEN Clients \cup {None} ELSE {devise}
  /\ \/ /\ server' = IF sstep = 4 THEN "write" ELSE "read"
        /\ sstep' = IF sstep = 4 THEN 1 ELSE sstep + 1
     \/ RequestKinds[sstep] # "len" /\ server' = "killed" /\ sstep' = sstep
  /\ UNCHANGED <<user, pc, step, fdw, names, preponse, printed>>

Readers == {c \in Clients : pc[c] \in {"write", "read"}}

(* A value is converted before it is written, which ends the server if the *)
(* currency does not exist (convertfrom of converters.c).                  *)
Convertible == ReplyKind(sstep) = "value" => devise \in Clients \ user.unknown

ConvertFails ==
  /\ server = "write" /\ ~Convertible
  /\ server' = "failed"
  /\ UNCHANGED <<user, pc, step, sstep, fdw, names, pipes, buffers, printed>>

Write ==
  /\ server = "write" /\ Convertible /\ Readers # {} /\ Len(preponse) < Capacity
  /\ preponse' = Put([kind |-> ReplyKind(sstep), devise |-> devise, montant |-> montant],
                     preponse, "preponse")
  /\ server' = IF sstep = ReplyLength THEN "read" ELSE "write"
  /\ sstep' = IF sstep = ReplyLength THEN 1 ELSE sstep + 1
  /\ UNCHANGED <<user, pc, step, fdw, names, prequete, torn, buffers, printed>>

(* Writing to a pipe nobody reads kills the server.                        *)
Sigpipe ==
  /\ server = "write" /\ Convertible /\ Readers = {}
  /\ server' = "killed"
  /\ UNCHANGED <<user, pc, step, sstep, fdw, names, pipes, buffers, printed>>

(* The handler of SIGINT, installed before the pipes are made, closes the  *)
(* pipes, then removes their names.                                        *)
Interrupt ==
  /\ user.interrupts /\ ~Gone
  /\ server' = "unlink1"
  /\ UNCHANGED <<user, pc, step, sstep, fdw, names, pipes, buffers, printed>>

Unlink ==
  /\ \/ server = "unlink1" /\ server' = "unlink2" /\ names' = names \ {"prequete"}
     \/ server = "unlink2" /\ server' = "exited" /\ names' = names \ {"preponse"}
  /\ UNCHANGED <<user, pc, step, sstep, fdw, pipes, buffers, printed>>

(***************************************************************************)
(* A client.  Each open fails at once if there is no such pipe, and blocks *)
(* as long as the server has not opened it.  Their results are not tested: *)
(* without the request pipe the client goes on to open the other one.      *)
(***************************************************************************)
Running == {c \in Clients : pc[c] \notin {"start", "done", "failed", "killed"}}

Start(c) ==
  /\ pc[c] = "start"
  /\ Cardinality(Running) < user.atOnce
  /\ goto(c, "open_req")
  /\ UNCHANGED <<user, server, step, sstep, fdw, names, pipes, buffers, printed>>

ClientOpenReq(c) ==
  LET met == "prequete" \in names /\ server \in {"open_rep", "read", "write"}
  IN  /\ pc[c] = "open_req"
      /\ fdw' = [fdw EXCEPT ![c] = met]
      /\ goto(c, IF "prequete" \in names /\ ~met THEN "wait_req" ELSE "open_rep")
      /\ UNCHANGED <<user, server, step, sstep, names, pipes, buffers, printed>>

(* Without the reply pipe the first read fails, or even the first write,   *)
(* since the server has then left.                                         *)
ClientOpenRep(c) ==
  /\ pc[c] = "open_rep"
  /\ goto(c, IF "preponse" \notin names THEN "failed"
             ELSE IF server \in {"read", "write"} THEN Opened(c) ELSE "wait_rep")
  /\ UNCHANGED <<user, server, step, sstep, fdw, names, pipes, buffers, printed>>

ClientWrite(c) ==
  /\ pc[c] = "write" /\ ~Gone
  /\ prequete' = Put(Request(c)[step[c]], prequete, "prequete")
  /\ step' = [step EXCEPT ![c] = IF @ = 4 THEN 1 ELSE @ + 1]
  /\ goto(c, IF step[c] = 4 THEN "read" ELSE "write")
  /\ UNCHANGED <<user, server, sstep, fdw, names, preponse, torn, buffers, printed>>

(* Mistakes: one currency less is displayed; one more is waited for.       *)
LastOfReplyEarly(n) == n = ReplyLength - 3
LastOfReplyLate(n) == n = ReplyLength + 3

LastOfReply(n) == n = ReplyLength

ClientRead(c) ==
  /\ pc[c] = "read" /\ preponse # <<>> /\ "preponse" \notin torn
  /\ LET field == Head(preponse) IN
       /\ field.kind = ReplyKind(step[c])
       /\ printed' = IF field.kind = "value"
                       THEN [printed EXCEPT ![c] = Append(@, <<field.devise, field.montant>>)]
                       ELSE printed
  /\ step' = [step EXCEPT ![c] = @ + 1]
  /\ goto(c, IF LastOfReply(step[c]) THEN "done" ELSE "read")
  /\ preponse' = Tail(preponse)
  /\ UNCHANGED <<user, server, sstep, fdw, names, prequete, torn, buffers>>

(* A length that was none makes the next read fail, and the client exits;  *)
(* or take what there is, or nothing, and the client displays it.          *)
ClientTornRead(c) ==
  /\ pc[c] = "read"
  /\ IF preponse = <<>> THEN "preponse" \in torn /\ ReplyKind(step[c]) = "currency"
     ELSE "preponse" \in torn \/ Head(preponse).kind # ReplyKind(step[c])
  /\ preponse' \in Scraps(preponse)
  /\ torn' = torn \cup {"preponse"}
  /\ \/ /\ printed' = IF ReplyKind(step[c]) = "value"
                         THEN [printed EXCEPT ![c] = Append(@, <<None, <<>>>>)] ELSE printed
        /\ step' = [step EXCEPT ![c] = @ + 1]
        /\ goto(c, IF LastOfReply(step[c]) THEN "done" ELSE "read")
     \/ /\ ReplyKind(step[c]) = "currency"
        /\ goto(c, "failed")
        /\ UNCHANGED <<step, printed>>
  /\ UNCHANGED <<user, server, sstep, fdw, names, prequete, buffers>>

(* The server is gone: a write kills the client, a read returns 0, which   *)
(* it does not test either: the reads that are left return at once.        *)
ClientSigpipe(c) ==
  /\ pc[c] = "write" /\ Gone
  /\ goto(c, "failed")
  /\ UNCHANGED <<user, server, step, sstep, fdw, names, pipes, buffers, printed>>

ClientEof(c) ==
  /\ pc[c] = "read" /\ preponse = <<>> /\ Gone
  /\ goto(c, "failed")
  /\ UNCHANGED <<user, server, step, sstep, fdw, names, pipes, buffers, printed>>

ClientKilled(c) ==
  /\ c \in user.killed \cap Running
  /\ goto(c, "killed")
  /\ UNCHANGED <<user, server, step, sstep, fdw, names, pipes, buffers, printed>>

Server == Mkfifo \/ OpenReq \/ OpenRep \/ Read \/ TornRead \/ ConvertFails \/ Write \/ Sigpipe
            \/ Unlink

Client(c) == ClientOpenReq(c) \/ ClientOpenRep(c) \/ ClientWrite(c) \/ ClientRead(c)
               \/ ClientTornRead(c) \/ ClientSigpipe(c) \/ ClientEof(c)

Next ==
  \/ Server \/ Interrupt
  \/ \E c \in Clients : Start(c) \/ Client(c) \/ ClientKilled(c)

Spec == Init /\ [][Next]_vars

(* The processes are scheduled; the user may do nothing.                   *)
FairSpec == Spec /\ WF_vars(Server) /\ \A c \in Clients : WF_vars(Client(c))

-----------------------------------------------------------------------------
(***************************************************************************)
(* Properties                                                              *)
(***************************************************************************)
(* Clients come one at a time and none was killed.                         *)
OneByOne == user.atOnce = 1 /\ \A c \in Clients : pc[c] # "killed"

(* What a client displays are the NB conversions of its own request.  Its  *)
(* amount may be followed by the last digits of a longer one that came     *)
(* before it, since the buffer of the server is not cleared (line 62).     *)
RightReply ==
  \A c \in Clients : OneByOne /\ pc[c] = "done" =>
    /\ Len(printed[c]) = NB
    /\ \A n \in 1 .. NB :
         /\ printed[c][n][1] = c
         /\ IsPrefix(user.amount[c], printed[c][n][2])
         /\ (\A d \in Clients : Len(user.amount[d]) = Len(user.amount[c]))
              => printed[c][n][2] = user.amount[c]

(* With one client at a time nobody takes a field for another, since each  *)
(* side reads what the other wrote, in the same order (lines 59-72 of      *)
(* conversion_server.c, 27-60 of conversion_client.c).                     *)
Aligned == OneByOne => torn = {}

(* With one client at a time only the death of a client can kill the       *)
(* server: as long as a reply is due, the client that waits for it keeps   *)
(* the reply pipe open (lines 69-72 of conversion_server.c, 40-62 of       *)
(* conversion_client.c).  Two clients at once steal one another's fields,  *)
(* one may then leave before the reply is whole.                           *)
BrokenByKill == OneByOne => server # "killed"

(* The two ends are opened in the same order on both sides: a client is    *)
(* served, unless it came before the pipes.  It then leaves, or waits for  *)
(* ever on the second pipe while the server waits on the first (lines      *)
(* 23-24 of conversion_client.c, 46-48 of conversion_server.c).            *)
Served ==
  \A c \in Clients :
    (OneByOne /\ user.killed = {} /\ user.unknown = {} /\ ~user.interrupts
       /\ pc[c] = "open_req")
      ~> \/ pc[c] = "done"
         \/ ~fdw[c] /\ pc[c] \in {"failed", "wait_rep"}
=============================================================================
