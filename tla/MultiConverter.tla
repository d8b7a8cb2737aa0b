--------------------------- MODULE MultiConverter ---------------------------
(***************************************************************************)
(* The currency server of TME9 (src/multi_converter.c) and its clients     *)
(* (src/converters_client.c).  A father takes requests from the segment    *)
(* shmc it shares with the clients, hands each one to its NB_CONVERTERS    *)
(* children through the segment shm, and copies their results back.        *)
(* Every access to a field another process may use at the same time is a   *)
(* step.  Currencies and amounts are abstracted to the client that wrote   *)
(* them: a result is the pair of fields it was converted from.             *)
(*                                                                         *)
(* Operators commented "Mistake" are variants of the one that follows      *)
(* them, used by no action.                                                *)
(***************************************************************************)
EXTENDS Integers, FiniteSets

CONSTANTS
  NB_CONVERTERS,  \* children of the server (5 in converter.h)
  Clients,        \* runs of converters_client
  Users,          \* what the user may do, see User
  None            \* what a field nobody wrote contains

Converters == 0 .. NB_CONVERTERS - 1
Father == NB_CONVERTERS + 1  \* its ind: the process that is no child (line 151)
Procs == Clients \cup Converters \cup {Father}

ASSUME ConvertersAssumption == NB_CONVERTERS \in Nat \ {0}
ASSUME ClientsAssumption ==
  IsFiniteSet(Clients) /\ Clients \cap (Converters \cup {Father, None}) = {}

(* How many clients the user runs at the same time, which of them may be   *)
(* killed while they wait, and whether SIGINT may stop the server.         *)
User == [atOnce : Nat, killed : SUBSET Clients, interrupts : BOOLEAN]

ASSUME UsersAssumption == Users \subseteq User

VARIABLES
  user,     \* what this user may do
  pc,       \* where each process stands
  i,        \* the loop counter of the father
  names,    \* the shared memory names that exist
  sized,    \* the segment of the clients has been given its size
  csem,     \* the semaphores of shmc
  sem,      \* the semaphores of shm
  shmc,     \* devise, montant and rmontant of the clients' segment
  shm,      \* the same fields of the children's segment
  printed   \* history: what each client has displayed

segments == <<shmc, shm>>
vars == <<user, pc, i, names, sized, csem, sem, segments, printed>>

Written == Clients \cup {None}
Result == [devise : Written, montant : Written]
Results == [Converters -> Result]
Segment == [devise : Written, montant : Written, rmontant : Results]

Blank == [k \in Converters |-> [devise |-> None, montant |-> None]]
EmptySegment == [devise |-> None, montant |-> None, rmontant |-> Blank]

Init ==
  /\ user \in Users
  /\ pc = [p \in Procs |-> IF p = Father THEN "open_shm"
                           ELSE IF p \in Clients THEN "start" ELSE "unborn"]
  /\ i = 0
  /\ names = {}
  /\ sized = FALSE
  /\ csem = [mutexf |-> 0, mutexp |-> 0]
  /\ sem = [mutexf |-> 0, mutexp |-> 0, check |-> 0]
  /\ shmc = EmptySegment
  /\ shm = EmptySegment
  /\ printed = [c \in Clients |-> Blank]

goto(p, l) == pc' = [pc EXCEPT ![p] = l]
at(p, l) == pc[p] = l

(* A step of p from here to next.                                          *)
Move(p, here, next) == at(p, here) /\ goto(p, next)

sem_wait(s) == sem[s] > 0 /\ sem' = [sem EXCEPT ![s] = @ - 1] /\ UNCHANGED csem
sem_post(s) == sem' = [sem EXCEPT ![s] = @ + 1] /\ UNCHANGED csem
csem_wait(s) == csem[s] > 0 /\ csem' = [csem EXCEPT ![s] = @ - 1] /\ UNCHANGED sem
csem_post(s) == csem' = [csem EXCEPT ![s] = @ + 1] /\ UNCHANGED sem

(***************************************************************************)
(* The father: creation of the segments, semaphores and children           *)
(***************************************************************************)
OpenShm ==
  /\ Move(Father, "open_shm", "open_shmc")
  /\ names' = names \cup {"_myshm"}
  /\ UNCHANGED <<user, i, sized, csem, sem, segments, printed>>

OpenShmc ==
  /\ Move(Father, "open_shmc", "truncate")
  /\ names' = names \cup {"argv1"}
  /\ UNCHANGED <<user, i, sized, csem, sem, segments, printed>>

Truncate ==
  /\ Move(Father, "truncate", "init_f")
  /\ sized' = TRUE
  /\ UNCHANGED <<user, i, names, csem, sem, segments, printed>>

InitF ==
  /\ Move(Father, "init_f", "init_p")
  /\ csem' = [csem EXCEPT !.mutexf = 0]
  /\ UNCHANGED <<user, i, names, sized, sem, segments, printed>>

InitP ==
  /\ Move(Father, "init_p", "init_shm")
  /\ csem' = [csem EXCEPT !.mutexp = 0]
  /\ UNCHANGED <<user, i, names, sized, sem, segments, printed>>

(* The clients never open _myshm: its three sem_init are one step.         *)
InitShm ==
  /\ Move(Father, "init_shm", "fork")
  /\ sem' = [s \in DOMAIN sem |-> 0]
  /\ UNCHANGED <<user, i, names, sized, csem, segments, printed>>

Fork ==
  /\ at(Father, "fork") /\ i # NB_CONVERTERS
  /\ goto(i, "wait_f")
  /\ i' = i + 1
  /\ UNCHANGED <<user, names, sized, csem, sem, segments, printed>>

Sigaction ==
  /\ i = NB_CONVERTERS
  /\ Move(Father, "fork", "wait")
  /\ i' = 0
  /\ UNCHANGED <<user, names, sized, csem, sem, segments, printed>>

(***************************************************************************)
(* The father: one turn of its loop per request                            *)
(***************************************************************************)
TakeRequest ==
  /\ Move(Father, "wait", "devise")
  /\ csem_wait("mutexf")
  /\ UNCHANGED <<user, i, names, sized, segments, printed>>

CopyDevise ==
  /\ Move(Father, "devise", "montant")
  /\ shm' = [shm EXCEPT !.devise = shmc.devise]
  /\ UNCHANGED <<user, i, names, sized, csem, sem, shmc, printed>>

CopyMontant ==
  /\ Move(Father, "montant", "send")
  /\ shm' = [shm EXCEPT !.montant = shmc.montant]
  /\ UNCHANGED <<user, i, names, sized, csem, sem, shmc, printed>>

(* The three loops: one semaphore operation per turn, then i = 0.          *)
Turn(here, operation, next) ==
  /\ at(Father, here)
  /\ operation
  /\ i' = (i + 1) % NB_CONVERTERS
  /\ goto(Father, IF i + 1 = NB_CONVERTERS THEN next ELSE here)
  /\ UNCHANGED <<user, names, sized, segments, printed>>

Distribute == Turn("send", sem_post("mutexf"), "collect")

(* Mistakes: one result is waited for; the children are not released.      *)
CollectOne ==
  /\ Move(Father, "collect", "release")
  /\ sem_wait("mutexp")
  /\ UNCHANGED <<user, i, names, sized, segments, printed>>

ReleaseForgotten ==
  Move(Father, "release", "copy") /\ UNCHANGED <<user, i, names, sized, csem, sem, segments, printed>>

Collect == Turn("collect", sem_wait("mutexp"), "release")
Release == Turn("release", sem_post("check"), "copy")

CopyResults ==
  /\ Move(Father, "copy", "reply")
  /\ shmc' = [shmc EXCEPT !.rmontant = shm.rmontant]
  /\ UNCHANGED <<user, i, names, sized, csem, sem, shm, printed>>

(* Mistake: the father goes on with the request it has just served.        *)
ReplyAgain ==
  /\ Move(Father, "reply", "devise")
  /\ csem_post("mutexp")
  /\ UNCHANGED <<user, i, names, sized, segments, printed>>

Reply ==
  /\ Move(Father, "reply", "wait")
  /\ csem_post("mutexp")
  /\ UNCHANGED <<user, i, names, sized, segments, printed>>

(***************************************************************************)
(* SIGINT from the terminal reaches the server's processes.  The children  *)
(* have the default action.  The father's handler, installed after the     *)
(* forks, destroys the semaphores and removes both names; before that it   *)
(* dies like its children.  A client blocked on the destroyed semaphore    *)
(* stays blocked (sem_destroy only invalidates it on Linux).               *)
(***************************************************************************)
HandlerInstalled == pc[Father] \in {"wait", "devise", "montant", "send", "collect",
                                    "release", "copy", "reply"}

Interrupt ==
  /\ user.interrupts /\ ~at(Father, "dead")
  /\ pc' = [p \in Procs |-> IF p \in Clients THEN pc[p] ELSE "dead"]
  /\ names' = IF HandlerInstalled THEN {} ELSE names
  /\ UNCHANGED <<user, i, sized, csem, sem, segments, printed>>

(***************************************************************************)
(* A child                                                                 *)
(***************************************************************************)
TakeWork(k) ==
  /\ Move(k, "wait_f", "convert")
  /\ sem_wait("mutexf")
  /\ UNCHANGED <<user, i, names, sized, segments, printed>>

Convert(k) ==
  /\ Move(k, "convert", "post_p")
  /\ shm' = [shm EXCEPT !.rmontant[k] = [devise |-> shm.devise, montant |-> shm.montant]]
  /\ UNCHANGED <<user, i, names, sized, csem, sem, shmc, printed>>

PostResult(k) ==
  /\ Move(k, "post_p", "wait_c")
  /\ sem_post("mutexp")
  /\ UNCHANGED <<user, i, names, sized, segments, printed>>

(* Mistake: a child does not wait to be released.                          *)
ReleasedAtOnce(k) ==
  Move(k, "wait_c", "wait_f") /\ UNCHANGED <<user, i, names, sized, csem, sem, segments, printed>>

Released(k) ==
  /\ Move(k, "wait_c", "wait_f")
  /\ sem_wait("check")
  /\ UNCHANGED <<user, i, names, sized, segments, printed>>

(***************************************************************************)
(* A client.  shm_open fails without the name; the first write faults as   *)
(* long as the segment has no size.                                        *)
(***************************************************************************)
RunningPcs == {"devise", "montant", "post", "wait", "read"}
Running == {c \in Clients : pc[c] \in RunningPcs}

ClientOpen(c) ==
  /\ Cardinality(Running) < user.atOnce
  /\ Move(c, "start", IF "argv1" \in names THEN "devise" ELSE "refused")
  /\ UNCHANGED <<user, i, names, sized, csem, sem, segments, printed>>

ClientDevise(c) ==
  /\ sized
  /\ Move(c, "devise", "montant")
  /\ shmc' = [shmc EXCEPT !.devise = c]
  /\ UNCHANGED <<user, i, names, sized, csem, sem, shm, printed>>

ClientFault(c) ==
  /\ ~sized
  /\ Move(c, "devise", "sigbus")
  /\ UNCHANGED <<user, i, names, sized, csem, sem, segments, printed>>

(* Mistake: the amount is left as it was.                                  *)
ClientMontantForgotten(c) ==
  Move(c, "montant", "post") /\ UNCHANGED <<user, i, names, sized, csem, sem, segments, printed>>

ClientMontant(c) ==
  /\ Move(c, "montant", "post")
  /\ shmc' = [shmc EXCEPT !.montant = c]
  /\ UNCHANGED <<user, i, names, sized, csem, sem, shm, printed>>

ClientPost(c) ==
  /\ Move(c, "post", "wait")
  /\ csem_post("mutexf")
  /\ UNCHANGED <<user, i, names, sized, segments, printed>>

ClientWait(c) ==
  /\ Move(c, "wait", "read")
  /\ csem_wait("mutexp")
  /\ UNCHANGED <<user, i, names, sized, segments, printed>>

(* The loop that prints the results is one step: ReplyStable says that     *)
(* with one client at a time nothing changes them meanwhile.               *)
ClientRead(c) ==
  /\ Move(c, "read", "done")
  /\ printed' = [printed EXCEPT ![c] = shmc.rmontant]
  /\ UNCHANGED <<user, i, names, sized, csem, sem, segments>>

ClientKilled(c) ==
  /\ c \in user.killed
  /\ Move(c, "wait", "killed")
  /\ UNCHANGED <<user, i, names, sized, csem, sem, segments, printed>>

ServerStart ==
  \/ OpenShm \/ OpenShmc \/ Truncate \/ InitF \/ InitP \/ InitShm \/ Fork \/ Sigaction

ServerLoop ==
  \/ TakeRequest \/ CopyDevise \/ CopyMontant \/ Distribute \/ Collect \/ Release
  \/ CopyResults \/ Reply

Server == ServerStart \/ ServerLoop

Converter(k) == TakeWork(k) \/ Convert(k) \/ PostResult(k) \/ Released(k)

Client(c) ==
  \/ ClientDevise(c) \/ ClientFault(c) \/ ClientMontant(c)
  \/ ClientPost(c) \/ ClientWait(c) \/ ClientRead(c)

Next ==
  \/ Server \/ Interrupt
  \/ \E k \in Converters : Converter(k)
  \/ \E c \in Clients : ClientOpen(c) \/ Client(c) \/ ClientKilled(c)

Spec == Init /\ [][Next]_vars

(* The scheduler forgets no process; the user may start no client, kill    *)
(* none and never interrupt the server.                                    *)
FairSpec ==
  /\ Spec
  /\ WF_vars(Server)
  /\ \A k \in Converters : WF_vars(Converter(k))
  /\ \A c \in Clients : WF_vars(Client(c))

-----------------------------------------------------------------------------
(***************************************************************************)
(* Properties                                                              *)
(***************************************************************************)
Standing(ls) == {k \in Converters : pc[k] \in ls}
Converting == Standing({"convert", "post_p"})
Serving == pc[Father] \in {"devise", "montant", "send", "collect", "release", "copy", "reply"}

(* Every unit of work the father posted for the current request is waiting *)
(* for a child, in the hands of one, or announced as done (the loops of    *)
(* lines 179-191).                                                         *)
WorkTokens ==
  ~at(Father, "dead") =>
    sem.mutexf + Cardinality(Converting) + sem.mutexp =
      IF at(Father, "send") THEN i
      ELSE IF at(Father, "collect") THEN NB_CONVERTERS - i ELSE 0

(* Every child that announced a result and is not yet released has a unit  *)
(* of check reserved, or the father still owes it one: the next request    *)
(* always finds enough children (lines 195-199 and 217).                   *)
CheckTokens ==
  ~at(Father, "dead") =>
    Cardinality(Standing({"wait_c"})) - sem.check =
      sem.mutexp + IF at(Father, "collect") THEN i
                   ELSE IF at(Father, "release") THEN NB_CONVERTERS - i ELSE 0

(* The semaphores keep the phases of a request apart: the father writes it *)
(* and copies the results while no child is converting (lines 176-177 and  *)
(* 203 against line 213), whichever child takes which unit.                *)
PhasesApart ==
  /\ WorkTokens /\ CheckTokens
  /\ pc[Father] \in {"devise", "montant", "copy"} => Converting = {}

(* The server posts no answer nobody asked for: there are never more       *)
(* requests and answers under way than clients that wait for one.          *)
NoUnaskedReply ==
  csem.mutexf + csem.mutexp + (IF Serving THEN 1 ELSE 0)
    <= Cardinality({c \in Clients : pc[c] \in {"wait", "killed"}})

(* Clients come one at a time and none is killed.                          *)
OneByOne == user.atOnce = 1 /\ user.killed = {}

(* With one client at a time a result never mixes the currency of a        *)
(* request with the amount of another.                                     *)
ResultsWhole ==
  OneByOne => \A k \in Converters : shm.rmontant[k].devise = shm.rmontant[k].montant

(* With one client at a time the results stay as they are while the client *)
(* displays them (lines 58-62 of converters_client.c).                     *)
ReplyStable ==
  [][\A c \in Clients : OneByOne /\ at(c, "read") => shmc' = shmc]_vars

(* A client that comes after the semaphores of its segment are initialised *)
(* (lines 99-112) displays a reply, even while the children are not forked *)
(* yet: neither its request nor its answer is lost.                        *)
Opened == pc[Father] \notin {"open_shm", "open_shmc", "truncate", "init_f", "init_p"}

Answered ==
  \A c \in Clients :
    (OneByOne /\ ~user.interrupts /\ Opened /\ at(c, "devise")) ~> at(c, "done")

(* tme9.html: the father reads the results once every child has written    *)
(* its own: what a client displays was converted from its request.         *)
CompleteReply ==
  \A c \in Clients : at(c, "done") =>
    \A k \in Converters : printed[c][k] = [devise |-> c, montant |-> c]
=============================================================================
