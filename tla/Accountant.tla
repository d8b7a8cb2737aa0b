----------------------------- MODULE Accountant -----------------------------
(***************************************************************************)
(* TME4's accountant (src/accountant.c): one handler for every signal      *)
(* counts the signals delivered, in cpt2 and in compteur[sig], and ends    *)
(* the program at the MAX_INTR-th SIGINT.  A handler blocks only its own   *)
(* signal, so handlers nest; an increment is a load and a store, as the    *)
(* Makefile builds it.                                                     *)
(***************************************************************************)
EXTENDS Integers, Sequences, FiniteSets, FiniteSetsExt

CONSTANTS
  Sigs,       \* the signals that are sent, numbered as the loop of main does
  SIGINT,     \* the one that ends the program
  MAX_INTR,   \* 5 in the code
  MaxSent     \* bound: signals sent

CountsAssumption ==
  /\ Sigs \subseteq Nat /\ IsFiniteSet(Sigs) /\ SIGINT \in Sigs
  /\ MAX_INTR \in Nat \ {0} /\ MaxSent \in Nat

VARIABLES
  nb,         \* signals below nb have their handler
  pending,
  stack,      \* the handlers that run, the last one interrupts the others
  cpt2, compteur,
  sent,       \* signals sent
  delivered,  \* history: deliveries of each signal
  nested,     \* history: a handler was interrupted between load and store
  over        \* "no", "killed" or "displayed"

vars == <<nb, pending, stack, cpt2, compteur, sent, delivered, nested, over>>

Limit == Max(Sigs) + 1

Init ==
  /\ nb = 1 /\ pending = {} /\ stack = <<>>
  /\ cpt2 = 0 /\ compteur = [s \in Sigs |-> 0]
  /\ sent = 0 /\ delivered = [s \in Sigs |-> 0] /\ nested = FALSE
  /\ over = "no"

Top == stack[Len(stack)]
Pop == SubSeq(stack, 1, Len(stack) - 1)
Handling(l) == over = "no" /\ stack # <<>> /\ Top.at = l
Running == {stack[k].sig : k \in 1 .. Len(stack)}

Install ==
  /\ over = "no" /\ stack = <<>> /\ nb < Limit
  /\ nb' = nb + 1
  /\ UNCHANGED <<pending, stack, cpt2, compteur, sent, delivered, nested, over>>

Send(s) ==
  /\ over = "no" /\ sent < MaxSent
  /\ sent' = sent + 1
  /\ pending' = pending \cup {s}
  /\ UNCHANGED <<nb, stack, cpt2, compteur, delivered, nested, over>>

(* Without its handler the signal ends the program.                        *)
Deliver(s) ==
  /\ over = "no" /\ s \in pending \ Running
  /\ pending' = pending \ {s}
  /\ IF s < nb
       THEN /\ stack' = Append(stack, [sig |-> s, at |-> "load", reg |-> 0])
            /\ delivered' = [delivered EXCEPT ![s] = @ + 1]
            /\ nested' = (nested \/ Handling("store"))
            /\ UNCHANGED over
       ELSE over' = "killed" /\ UNCHANGED <<stack, delivered, nested>>
  /\ UNCHANGED <<nb, cpt2, compteur, sent>>

Load ==
  /\ Handling("load")
  /\ stack' = Append(Pop, [Top EXCEPT !.at = "store", !.reg = cpt2])
  /\ UNCHANGED <<nb, pending, cpt2, compteur, sent, delivered, nested, over>>

Store ==
  /\ Handling("store")
  /\ cpt2' = Top.reg + 1
  /\ stack' = Append(Pop, [Top EXCEPT !.at = "count"])
  /\ UNCHANGED <<nb, pending, compteur, sent, delivered, nested, over>>

(* The handlers that could interrupt this increment use other counters:    *)
(* one step.                                                               *)
Count ==
  /\ Handling("count")
  /\ compteur' = [compteur EXCEPT ![Top.sig] = @ + 1]
  /\ stack' = Append(Pop, [Top EXCEPT !.at = "test"])
  /\ UNCHANGED <<nb, pending, cpt2, sent, delivered, nested, over>>

(* Mistake: the limit is compared with the total.                          *)
EnoughTotal == cpt2 >= MAX_INTR

Enough == compteur[SIGINT] >= MAX_INTR

Test ==
  /\ Handling("test")
  /\ IF Enough THEN over' = "displayed" /\ UNCHANGED stack
               ELSE stack' = Pop /\ UNCHANGED over
  /\ UNCHANGED <<nb, pending, cpt2, compteur, sent, delivered, nested>>

Next == Install \/ Load \/ Store \/ Count \/ Test \/ \E s \in Sigs : Send(s) \/ Deliver(s)

Spec == Init /\ [][Next]_vars

-----------------------------------------------------------------------------
(***************************************************************************)
(* Properties                                                              *)
(***************************************************************************)
(* tme4.html, exercise 6: the program ends at MAX_INTR SIGINTs, no more    *)
(* and no fewer; each counter is the number of its signals delivered, but  *)
(* for the handlers that have begun and not yet counted; the total is      *)
(* their sum unless a handler was interrupted inside its increment.        *)
Uncounted(s) ==
  Cardinality({k \in 1 .. Len(stack) : stack[k].sig = s /\ stack[k].at \in {"load", "store", "count"}})

Accounts ==
  /\ compteur[SIGINT] <= MAX_INTR
  /\ over = "displayed" => compteur[SIGINT] = MAX_INTR
  /\ \A s \in Sigs : compteur[s] + Uncounted(s) = delivered[s]
  /\ ~nested /\ over = "displayed" =>
       cpt2 + Cardinality({k \in 1 .. Len(stack) : stack[k].at \in {"load", "store"}})
         = MapThenSumSet(LAMBDA s : delivered[s], Sigs)

(* tme4.html, exercise 6: the global counter is the sum of the signals     *)
(* captured.                                                               *)
TotalIsSum ==
  over = "displayed" /\ Len(stack) = 1 =>
    cpt2 = MapThenSumSet(LAMBDA s : compteur[s], Sigs)
=============================================================================
