------------------------------- MODULE Lists -------------------------------
(***************************************************************************)
(* The two containers that TME1 links: the queue of fifo_list.c over the   *)
(* doubly linked list of list_impl.c, and the stack of stack_array.c.  The *)
(* client calls their functions in any order; as fifo_test does, it only   *)
(* dequeues while size() is not zero.  (stack_list.c is never linked:      *)
(* libstack.a takes the same functions from stack_array.o.)                *)
(***************************************************************************)
EXTENDS Integers, Sequences, SequencesExt

CONSTANTS
  STACK_SIZE,   \* 12 in the code, or SIZE given to make
  MaxIn         \* bound: elements inserted

BoundsAssumption == STACK_SIZE \in Nat \ {0} /\ MaxIn \in Nat

NULL == 0
Cells == 1 .. MaxIn   \* addresses that malloc returns, in turn

VARIABLES
  container,            \* "fifo" or "stack"
  cell,                 \* the cells malloc has returned, freed ones included
  head, tail, taille,   \* struct list_type
  contents, top,        \* struct astack
  in, out,              \* history: elements inserted, and those taken, in order
  result                \* what the last call returned

list == <<cell, head, tail, taille>>
stack == <<contents, top>>
vars == <<container, list, stack, in, out, result>>

Init ==
  /\ container \in {"fifo", "stack"}
  /\ cell = <<>>
  /\ head = NULL /\ tail = NULL /\ taille = 0
  /\ contents = [k \in 0 .. STACK_SIZE - 1 |-> NULL] /\ top = 0
  /\ in = <<>> /\ out = <<>>
  /\ result = 0

Element == Len(in) + 1

(* The second assignment of queue() makes the new cell its own successor,  *)
(* the last one then links it to the head: no cell but the first is ever   *)
(* reached through next.                                                   *)
queue ==
  LET new == Len(cell) + 1
      first == IF head = NULL THEN new ELSE head IN
  /\ container = "fifo" /\ Len(in) < MaxIn
  /\ cell' = Append(cell, [content |-> Element, previous |-> tail, next |-> first, live |-> TRUE])
  /\ tail' = new
  /\ head' = first
  /\ taille' = taille + 1
  /\ in' = Append(in, Element)
  /\ result' = taille'
  /\ UNCHANGED <<container, stack, out>>

(* Mistake: the tail stays on the cell that is freed.                      *)
PrecKept(t) == t

(* The successor of the tail t in the order of extraction.                 *)
Prec(t) == cell[t].previous

(* extract_tail; l->head is left alone, even when its cell is freed.       *)
(* dequeue has no return statement: its caller gets what extract_tail left *)
(* in the register of results, as the Makefile builds it.                  *)
dequeue ==
  /\ container = "fifo" /\ taille > 0
  /\ cell' = [cell EXCEPT ![tail].live = FALSE]
  /\ tail' = Prec(tail)
  /\ taille' = taille - 1
  /\ out' = Append(out, cell[tail].content)
  /\ result' = cell[tail].content
  /\ UNCHANGED <<container, head, stack, in>>

push ==
  /\ container = "stack" /\ Len(in) < MaxIn
  /\ IF top = STACK_SIZE
       THEN result' = -1 /\ UNCHANGED <<stack, in>>
       ELSE /\ contents' = [contents EXCEPT ![top] = Element]
            /\ top' = top + 1
            /\ in' = Append(in, Element)
            /\ result' = top'
  /\ UNCHANGED <<container, list, out>>

pop ==
  /\ container = "stack"
  /\ IF top = 0
       THEN result' = NULL /\ UNCHANGED <<stack, out>>
       ELSE /\ top' = top - 1
            /\ result' = contents[top']
            /\ out' = Append(out, result')
            /\ UNCHANGED contents
  /\ UNCHANGED <<container, list, in>>

Next == queue \/ dequeue \/ push \/ pop

Spec == Init /\ [][Next]_vars

-----------------------------------------------------------------------------
(***************************************************************************)
(* Properties                                                              *)
(***************************************************************************)
(* The cells met from the tail through previous, the newest first.         *)
Chain ==
  LET met[k \in 0 .. MaxIn] ==
        IF k = 0 THEN <<tail>>
        ELSE IF Last(met[k - 1]) = NULL THEN met[k - 1]
        ELSE Append(met[k - 1], cell[Last(met[k - 1])].previous)
  IN Front(met[MaxIn])

(* Whatever the order of the calls, the list that is walked is made of the *)
(* cells not freed, all of them, each linked to an older one, and taille   *)
(* counts them, though l->head and next may point to freed cells: they are *)
(* never followed.                                                         *)
ListWhole ==
  /\ \A k \in 1 .. Len(Chain) : cell[Chain[k]].live /\ (k > 1 => Chain[k] < Chain[k - 1])
  /\ {k \in 1 .. Len(cell) : cell[k].live} = ToSet(Chain)
  /\ taille = Len(Chain)

(* An element is taken once, the containers count those they still hold,   *)
(* the next one to be taken is one of these, and for the stack it is the   *)
(* newest (stack.h).                                                       *)
NothingLost ==
  /\ \A j, k \in 1 .. Len(out) : j # k => out[j] # out[k]
  /\ Len(in) - Len(out) = IF container = "fifo" THEN taille ELSE top
  /\ LET held == ToSet(in) \ ToSet(out)
         next == IF container = "fifo" THEN cell[tail].content ELSE contents[top - 1]
     IN held # {} =>
          /\ next \in held
          /\ container = "stack" => \A e \in held : e <= next

ContainersWhole == ListWhole /\ NothingLost
=============================================================================
