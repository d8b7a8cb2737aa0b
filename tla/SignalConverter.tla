-------------------------- MODULE SignalConverter --------------------------
(***************************************************************************)
(* The currency server of TME8 (src/multi_converter.c): a father and its   *)
(* children linked by two pipes each; a child tells its father with        *)
(* SIGUSR1 that it has a result, and the father counts these signals.      *)
(*                                                                         *)
(* A request or a result is one message of its pipe: the writer makes one  *)
(* write per field and the reader reads the same fields in the same order  *)
(* with blocking reads.  Clients come one after the other, each waits for  *)
(* its NB_CONVERTERS results; requests are numbered as they come.          *)
(***************************************************************************)
EXTENDS Integers, Sequences, FiniteSets

CONSTANTS
  NB_CONVERTERS,  \* children of the server
  Requests        \* bound: requests made to the server

CountsAssumption == NB_CONVERTERS \in Nat \ {0} /\ Requests \in Nat

Converters == 0 .. NB_CONVERTERS - 1

VARIABLES
  father,    \* where the father stands
  pc,        \* where each child stands
  i,         \* the father's loop counter
  nbsigusr,  \* the signals it has counted
  pending,   \* SIGUSR1 is pending for it: a second one is merged
  asked,     \* number of the last request written to the named pipe
  current,   \* number of the request the father is working on
  tube,      \* the pipe to each child
  tuber,     \* the pipe from each child
  work,      \* the request each child is working on
  reply      \* history: results forwarded for the current request

children == <<pc, tube, tuber, work>>
vars == <<father, i, nbsigusr, pending, asked, current, children, reply>>

Init ==
  /\ father = "read"
  /\ pc = [k \in Converters |-> "read"]
  /\ i = 0
  /\ nbsigusr = 0
  /\ pending = FALSE
  /\ asked = 0 /\ current = 0
  /\ tube = [k \in Converters |-> <<>>]
  /\ tuber = [k \in Converters |-> <<>>]
  /\ work = [k \in Converters |-> 0]
  /\ reply = <<>>

Idle == father = "read" /\ asked = current

ClientRequest ==
  /\ Idle
  /\ asked < Requests
  /\ asked' = asked + 1
  /\ UNCHANGED <<father, i, nbsigusr, pending, current, children, reply>>

(* nbsigusr is not set back to 0 between two requests.                     *)
ReadRequest ==
  /\ father = "read" /\ asked # current
  /\ current' = asked
  /\ reply' = <<>>
  /\ father' = "send"
  /\ UNCHANGED <<i, nbsigusr, pending, asked, children>>

Last == i + 1 = NB_CONVERTERS

Distribute ==
  /\ father = "send"
  /\ tube' = [tube EXCEPT ![i] = Append(@, current)]
  /\ i' = IF Last THEN 0 ELSE i + 1
  /\ father' = IF Last THEN "check" ELSE "send"
  /\ UNCHANGED <<nbsigusr, pending, asked, current, pc, tuber, work, reply>>

(* Mistake: one signal less is waited for.                                 *)
CheckOneLess ==
  /\ father = "check"
  /\ father' = IF nbsigusr # NB_CONVERTERS - 1 THEN "pause" ELSE "result"
  /\ UNCHANGED <<i, nbsigusr, pending, asked, current, children, reply>>

Check ==
  /\ father = "check"
  /\ father' = IF nbsigusr # NB_CONVERTERS THEN "pause" ELSE "result"
  /\ UNCHANGED <<i, nbsigusr, pending, asked, current, children, reply>>

(* pause() blocks, unless a signal is pending when it is called.           *)
Pause ==
  /\ father = "pause" /\ ~pending
  /\ father' = "paused"
  /\ UNCHANGED <<i, nbsigusr, pending, asked, current, children, reply>>

(* Mistake: the last child's result is left in its pipe.                   *)
ResultNotLast ==
  /\ father = "result" /\ tuber[i] # <<>>
  /\ reply' = Append(reply, Head(tuber[i]))
  /\ tuber' = [tuber EXCEPT ![i] = Tail(@)]
  /\ i' = IF i + 2 >= NB_CONVERTERS THEN 0 ELSE i + 1
  /\ father' = IF i + 2 >= NB_CONVERTERS THEN "read" ELSE "result"
  /\ UNCHANGED <<nbsigusr, pending, asked, current, pc, tube, work>>

Result ==
  /\ father = "result" /\ tuber[i] # <<>>
  /\ reply' = Append(reply, Head(tuber[i]))
  /\ tuber' = [tuber EXCEPT ![i] = Tail(@)]
  /\ i' = IF Last THEN 0 ELSE i + 1
  /\ father' = IF Last THEN "read" ELSE "result"
  /\ UNCHANGED <<nbsigusr, pending, asked, current, pc, tube, work>>

(* Whether the father may be blocked in a read.                            *)
InRead == (father = "result" /\ tuber[i] = <<>>) \/ Idle

(* The handler of SIGUSR1 runs, between two instructions of the father or  *)
(* in a call that blocks: pause returns; a read, installed without         *)
(* SA_RESTART and not tested, returns -1, and from there on the father     *)
(* takes the fields of the pipes one for another ("astray").               *)
Deliver ==
  /\ pending
  /\ pending' = FALSE
  /\ nbsigusr' = nbsigusr + 1
  /\ \/ father' = IF father = "paused" THEN "check" ELSE father
     \/ InRead /\ father' = "astray"
  /\ UNCHANGED <<i, asked, current, children, reply>>

ChildRead(k) ==
  /\ pc[k] = "read" /\ tube[k] # <<>>
  /\ work' = [work EXCEPT ![k] = Head(tube[k])]
  /\ tube' = [tube EXCEPT ![k] = Tail(@)]
  /\ pc' = [pc EXCEPT ![k] = "kill"]
  /\ UNCHANGED <<father, i, nbsigusr, pending, asked, current, tuber, reply>>

(* The signal is sent before the result.                                   *)
ChildKill(k) ==
  /\ pc[k] = "kill"
  /\ pending' = TRUE
  /\ pc' = [pc EXCEPT ![k] = "write"]
  /\ UNCHANGED <<father, i, nbsigusr, asked, current, tube, tuber, work, reply>>

(* Mistake: the result is not written.                                     *)
ChildWriteForgotten(k) ==
  /\ pc[k] = "write"
  /\ pc' = [pc EXCEPT ![k] = "read"]
  /\ UNCHANGED <<father, i, nbsigusr, pending, asked, current, tube, tuber, work, reply>>

ChildWrite(k) ==
  /\ pc[k] = "write"
  /\ tuber' = [tuber EXCEPT ![k] = Append(@, [child |-> k, request |-> work[k]])]
  /\ pc' = [pc EXCEPT ![k] = "read"]
  /\ UNCHANGED <<father, i, nbsigusr, pending, asked, current, tube, work, reply>>

Father == ReadRequest \/ Distribute \/ Check \/ Pause \/ Result

Child(k) == ChildRead(k) \/ ChildKill(k) \/ ChildWrite(k)

Next == ClientRequest \/ Father \/ Deliver \/ \E k \in Converters : Child(k)

Spec == Init /\ [][Next]_vars

(* Every process runs and every signal is delivered; requests may cease.   *)
FairSpec ==
  /\ Spec
  /\ WF_vars(Father) /\ WF_vars(Deliver)
  /\ \A k \in Converters : WF_vars(Child(k))

-----------------------------------------------------------------------------
(***************************************************************************)
(* Properties                                                              *)
(***************************************************************************)
(* As long as no read fails, what the client gets is the results of its    *)
(* own request, one per child and in the order of the currencies, however  *)
(* late the children are (lines 132-141).                                  *)
WholeReply ==
  /\ \A n \in 1 .. Len(reply) : reply[n] = [child |-> n - 1, request |-> current]
  /\ Idle /\ current > 0 => Len(reply) = NB_CONVERTERS

(* For the first request the reads are never interrupted: the father       *)
(* leaves the loop on pause when every signal has been counted (line 127). *)
(* Later it does not wait for the signals, since nbsigusr is never reset:  *)
(* they come during its reads.                                             *)
ReadsUninterrupted == current <= 1 => father # "astray"

(* A father that has left the loop on pause gets every result, though the  *)
(* children write them after the signal: its reads wait for them.          *)
Forwarded ==
  (father = "result" /\ current = 1) ~> (Idle /\ Len(reply) = NB_CONVERTERS)

(* tme8.html, line 68: the father sends the complete reply when each child *)
(* has given its result.  So a request taken is replied to: neither the    *)
(* signal that comes between the test of nbsigusr and pause, nor two that  *)
(* merge, nor one that interrupts a read may prevent it (lines 127-142).   *)
Replied == (father = "send") ~> (Idle /\ Len(reply) = NB_CONVERTERS)
=============================================================================
