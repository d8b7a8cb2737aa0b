--------------------------- MODULE FicindexProofs ---------------------------
(***************************************************************************)
(* The indexed files of TME7 for any number of processes, files and        *)
(* descriptors, and records of any size: on a file used as the library     *)
(* asks for, the size a process keeps is the one the file begins with, a   *)
(* read returns a whole record, and indxchg leaves every record it found.  *)
(***************************************************************************)
EXTENDS Ficindex, SequenceTheorems, TLAPS

(* What a file may hold: cells of a header, of a record, or of a hole.     *)
Cell == ({"ind"} \X Nat) \cup {Junk} \cup (Values \X (Nat \ {0}))

(* The types of descriptors and of what a process is in the middle of.     *)
Descriptor == [path : Files, access : {"R", "W", "RW"}, pos : Nat]
Purpose == [caller : {"program"}]
             \cup [caller : {"old"}, to : Files, newind : Inds]
             \cup [caller : {"new"}, from : Files, old : Fds, oldind : Inds \cup {Unset}]
Opens == [step : {"open"}, path : Files, flags : Flags, ind : Inds, exist : BOOLEAN, for : Purpose]
Heads == [step : {"head"}, path : Files, flags : Flags, ind : Fds \X Inds, exist : BOOLEAN,
          for : Purpose]
Searches == [step : {"search"}, fd : Fds, key : Values]
Reads == [step : {"read"}, from : Files, to : Files, old : Fds, new : Fds,
          oldind : Inds \cup {Unset}, newind : Inds, mot : Seq(Cell)]
Writes == {o \in [step : {"write"}, from : Files, to : Files, old : Fds, new : Fds,
                  oldind : Inds \cup {Unset}, newind : Inds, mot : Seq(Cell)] :
             o.newind <= Len(o.mot)}
Operation == {Idle} \cup Opens \cup Heads \cup Searches \cup Reads \cup Writes

TypeOK ==
  /\ content \in [Files -> Seq(Cell) \cup {Missing}]
  /\ desc \in [Procs -> [Fds -> Descriptor \cup {Closed}]]
  /\ tab \in [Procs -> [Fds -> Inds \cup {Unset}]]
  /\ op \in [Procs -> Operation]

IsOpen(p, fd) == desc[p][fd] # Closed
On(p, fd, f) == IsOpen(p, fd) /\ desc[p][fd].path = f
InHead(p, f) == op[p].step = "head" /\ op[p].path = f
Settled(p, fd) == IsOpen(p, fd) /\ ~(op[p].step = "head" /\ op[p].ind[1] = fd)

(* The descriptors a process is working with are open.                     *)
Holding ==
  \A p \in Procs :
    /\ op[p].step = "head" => On(p, op[p].ind[1], op[p].path)
    /\ op[p].step \in {"open", "head"} /\ op[p].for.caller = "new" =>
         op[p].flags = Overwrite /\ IsOpen(p, op[p].for.old)
    /\ op[p].step = "search" => IsOpen(p, op[p].fd)
    /\ op[p].step \in {"read", "write"} => IsOpen(p, op[p].old) /\ IsOpen(p, op[p].new)

(* IndexKnown, and no descriptor is left inside the header.                *)
Known ==
  \A p \in Procs, fd \in Fds :
    Settled(p, fd) /\ desc[p][fd].path \notin mixed =>
      HasHeader(content[desc[p][fd].path], tab[p][fd]) /\ desc[p][fd].pos >= HEADER

(* No file that is open is missing.                                        *)
Present == \A p \in Procs, fd \in Fds : IsOpen(p, fd) => content[desc[p][fd].path] # Missing

(* A file that stat found is still there when it is opened.                *)
Stat == \A p \in Procs : op[p].step = "open" /\ op[p].exist => content[op[p].path] # Missing

(* While the header is a process's to write, the others that have the file *)
(* open are only about to read it.                                         *)
Awaits(q, fd, f) == InHead(q, f) /\ op[q].ind[1] = fd /\ ~BecomesNew(op[q])
Fresh ==
  \A f \in Files \ mixed : \A p \in Procs : InHead(p, f) /\ BecomesNew(op[p]) =>
    \A q \in Procs, fd \in Fds :
      On(q, fd, f) => (q = p /\ fd = op[p].ind[1]) \/ Awaits(q, fd, f)

(* A file whose header nobody is about to write has one.                   *)
Headed ==
  \A f \in Files \ mixed :
    \/ content[f] = Missing
    \/ \E p \in Procs : InHead(p, f) /\ BecomesNew(op[p])
    \/ \E n \in Inds : HasHeader(content[f], n)

Shared == Known /\ Present /\ Stat /\ Fresh /\ Headed

IInv == TypeOK /\ Holding /\ Shared

-----------------------------------------------------------------------------
(* Cells of a file                                                         *)

(* The cells of SubSeq, when it has any and when it has none.              *)
LEMMA SubSeqCells ==
  ASSUME NEW S, NEW c \in Seq(S), NEW a \in Nat, NEW b \in Nat, b <= Len(c)
  PROVE  /\ SubSeq(c, a + 1, b) \in Seq(S)
         /\ Len(SubSeq(c, a + 1, b)) = IF a < b THEN b - a ELSE 0
         /\ \A k \in 1 .. b - a : SubSeq(c, a + 1, b)[k] = c[a + k]
OBVIOUS

(* ReadAt returns cells of the file.                                       *)
LEMMA ReadCells ==
  ASSUME NEW c \in Seq(Cell), NEW pos \in Nat, NEW n \in Nat
  PROVE  /\ ReadAt(c, pos, n) \in Seq(Cell)
         /\ pos + n <= Len(c) => Len(ReadAt(c, pos, n)) = n
         /\ pos >= Len(c) => ReadAt(c, pos, n) = <<>>
         /\ \A k \in 1 .. n : pos + n <= Len(c) => ReadAt(c, pos, n)[k] = c[pos + k]
<1>1. Len(c) \in Nat
  OBVIOUS
<1>2. CASE pos + n < Len(c)
  <2>1. ReadAt(c, pos, n) = SubSeq(c, pos + 1, pos + n)
    BY <1>2 DEF ReadAt
  <2>2. PICK m \in Nat : m = pos + n
    OBVIOUS
  <2>3. m <= Len(c) /\ (pos < m <=> 0 < n) /\ m - pos = n
    BY <1>1, <1>2, <2>2
  <2>4. /\ SubSeq(c, pos + 1, m) \in Seq(Cell)
        /\ Len(SubSeq(c, pos + 1, m)) = IF pos < m THEN m - pos ELSE 0
        /\ \A k \in 1 .. m - pos : SubSeq(c, pos + 1, m)[k] = c[pos + k]
    BY <2>3, SubSeqCells
  <2> QED
    BY <1>1, <1>2, <2>1, <2>2, <2>3, <2>4
<1>3. CASE ~(pos + n < Len(c))
  <2>1. ReadAt(c, pos, n) = SubSeq(c, pos + 1, Len(c))
    BY <1>3 DEF ReadAt
  <2> QED
    BY <1>1, <1>3, <2>1, SubSeqCells
<1> QED
  BY <1>2, <1>3

(* Whatever the size of a record, a read returns cells of the file.        *)
LEMMA ReadType ==
  ASSUME NEW c \in Seq(Cell), NEW pos \in Nat, NEW n \in Int
  PROVE  ReadAt(c, pos, n) \in Seq(Cell) /\ Len(ReadAt(c, pos, n)) \in Nat
<1>1. PICK b \in Int : b <= Len(c) /\ b = IF pos + n < Len(c) THEN pos + n ELSE Len(c)
  OBVIOUS
<1>2. ReadAt(c, pos, n) = SubSeq(c, pos + 1, b)
  BY <1>1 DEF ReadAt
<1>3. \A k \in pos + 1 .. b : c[k] \in Cell
  BY <1>1
<1>4. PICK a \in Int : a = pos + 1
  OBVIOUS
<1>5. SubSeq(c, a, b) \in Seq(Cell)
  BY <1>3, <1>4, SubSeqProperties
<1> QED
  BY <1>2, <1>4, <1>5

(* A header is recognised by its cells.                                    *)
LEMMA HeaderCells ==
  ASSUME NEW c \in Seq(Cell), NEW n
  PROVE  HasHeader(c, n) <=> Len(c) >= HEADER /\ \A k \in 1 .. HEADER : c[k] = <<"ind", n>>
<1>1. HEADER \in Nat \ {0} /\ Len(c) \in Nat
  BY FicindexAssumption
<1>2. CASE Len(c) >= HEADER
  <2>1. /\ SubSeq(c, 1, HEADER) \in Seq(Cell) /\ Len(SubSeq(c, 1, HEADER)) = HEADER
        /\ \A k \in 1 .. HEADER : SubSeq(c, 1, HEADER)[k] = c[k]
    BY <1>1, <1>2
  <2>2. SubSeq(c, 1, HEADER) = [k \in 1 .. HEADER |-> c[k]]
    BY <2>1
  <2> QED
    BY <1>2, <2>2 DEF HasHeader, Header
<1> QED
  BY <1>2 DEF HasHeader

(* A function on the first n numbers is a sequence of n.                   *)
LEMMA CellsInOrder ==
  ASSUME NEW n \in Nat, NEW f \in [1 .. n -> Cell]
  PROVE  f \in Seq(Cell) /\ Len(f) = n
<1>1. f \in Seq(Cell)
  BY SeqDef
<1>2. DOMAIN f = 1 .. n /\ DOMAIN f = 1 .. Len(f) /\ Len(f) \in Nat
  BY <1>1
<1> QED
  BY <1>1, <1>2

(* A write leaves what is before its position, and lays its cells there.   *)
LEMMA WriteCells ==
  ASSUME NEW c \in Seq(Cell), NEW pos \in Nat, NEW s \in Seq(Cell)
  PROVE  /\ WriteAt(c, pos, s) \in Seq(Cell)
         /\ Len(WriteAt(c, pos, s)) = IF pos + Len(s) > Len(c) THEN pos + Len(s) ELSE Len(c)
         /\ \A k \in 1 .. Len(s) : WriteAt(c, pos, s)[pos + k] = s[k]
         /\ \A k \in 1 .. Len(c) : k <= pos \/ k > pos + Len(s) => WriteAt(c, pos, s)[k] = c[k]
<1> DEFINE end == IF pos + Len(s) > Len(c) THEN pos + Len(s) ELSE Len(c)
           cell(k) == IF k > pos /\ k <= pos + Len(s) THEN s[k - pos]
                      ELSE IF k <= Len(c) THEN c[k] ELSE Junk
<1>1. WriteAt(c, pos, s) = [k \in 1 .. end |-> cell(k)]
  BY DEF WriteAt
<1>2. end \in Nat /\ Len(c) \in Nat /\ Len(s) \in Nat
  OBVIOUS
<1>3. \A k \in 1 .. end : cell(k) \in Cell
  <2> SUFFICES ASSUME NEW k \in 1 .. end PROVE cell(k) \in Cell
    OBVIOUS
  <2>1. CASE k > pos /\ k <= pos + Len(s)
    <3>1. k - pos \in 1 .. Len(s)
      BY <1>2, <2>1
    <3> QED
      BY <2>1, <3>1
  <2>2. CASE ~(k > pos /\ k <= pos + Len(s)) /\ k <= Len(c)
    BY <1>2, <2>2
  <2>3. CASE ~(k > pos /\ k <= pos + Len(s)) /\ ~(k <= Len(c))
    BY <2>3 DEF Cell
  <2> QED
    BY <2>1, <2>2, <2>3
<1>4. WriteAt(c, pos, s) \in [1 .. end -> Cell]
  BY <1>1, <1>3
<1>5. WriteAt(c, pos, s) \in Seq(Cell) /\ Len(WriteAt(c, pos, s)) = end
  BY <1>2, <1>4, CellsInOrder
<1>6. \A k \in 1 .. Len(s) : pos + k \in 1 .. end /\ cell(pos + k) = s[k]
  BY <1>2
<1>7. \A k \in 1 .. Len(c) : k <= pos \/ k > pos + Len(s) => k \in 1 .. end /\ cell(k) = c[k]
  BY <1>2
<1> HIDE DEF cell, end
<1>8. /\ \A k \in 1 .. Len(s) : WriteAt(c, pos, s)[pos + k] = s[k]
      /\ \A k \in 1 .. Len(c) : k <= pos \/ k > pos + Len(s) => WriteAt(c, pos, s)[k] = c[k]
  BY <1>1, <1>6, <1>7
<1> QED
  BY <1>5, <1>8 DEF end

(* A file that is not missing is made of cells, and is not the value that  *)
(* stands for a missing one.                                               *)
LEMMA FileCells ==
  /\ Missing \notin Seq(Cell)
  /\ <<>> \in Seq(Cell) /\ <<>> # Missing
<1>1. Missing[1] = <<"missing", 0>> /\ Len(Missing) = 1
  BY DEF Missing
<1>2. <<"missing", 0>> \notin Cell
  BY DEF Cell, Junk
<1>3. Missing \in Seq(Cell) => Missing[1] \in Cell
  BY <1>1
<1> QED
  BY <1>1, <1>2, <1>3

-----------------------------------------------------------------------------
(* Steps of a process that is not opening a file: it reads, writes, moves  *)
(* or closes descriptors.                                                  *)
Quiet(p) ==
  /\ op[p].step \notin {"open", "head"} /\ op'[p].step \notin {"open", "head"}
  /\ \A q \in Procs \ {p} : op'[q] = op[q] /\ desc'[q] = desc[q]
  /\ tab' = tab
  /\ mixed \subseteq mixed'
  /\ \A fd \in Fds :
       \/ desc'[p][fd] = Closed
       \/ /\ IsOpen(p, fd)
          /\ desc'[p][fd].path = desc[p][fd].path
          /\ \/ desc[p][fd].path \in mixed'
             \/ desc[p][fd].pos >= HEADER => desc'[p][fd].pos >= HEADER
  /\ \A f \in Files :
       \/ content'[f] = content[f]
       \/ /\ content[f] # Missing /\ content'[f] # Missing
          /\ \/ f \in mixed
             \/ \A n \in Int : HasHeader(content[f], n) => HasHeader(content'[f], n)

(* Such a step leaves what the processes share as they rely on it.         *)
LEMMA QuietShared ==
  ASSUME TypeOK, Holding, Shared, TypeOK', NEW p \in Procs, Quiet(p)
  PROVE  Shared'
<1>1. \A q \in Procs : op'[q].step \in {"open", "head"} => op'[q] = op[q] /\ q # p
  BY DEF Quiet
<1>2. \A q \in Procs : op[q].step \in {"open", "head"} => op'[q] = op[q] /\ q # p
  BY DEF Quiet
<1>3. \A q \in Procs, fd \in Fds :
        desc'[q][fd] # Closed =>
          /\ IsOpen(q, fd) /\ desc'[q][fd].path = desc[q][fd].path
          /\ desc[q][fd].path \in Files
          /\ \/ desc[q][fd].path \in mixed'
             \/ desc[q][fd].pos >= HEADER => desc'[q][fd].pos >= HEADER
  <2> SUFFICES ASSUME NEW q \in Procs, NEW fd \in Fds, desc'[q][fd] # Closed
               PROVE  /\ IsOpen(q, fd) /\ desc'[q][fd].path = desc[q][fd].path
                      /\ desc[q][fd].path \in Files
                      /\ \/ desc[q][fd].path \in mixed'
                         \/ desc[q][fd].pos >= HEADER => desc'[q][fd].pos >= HEADER
    OBVIOUS
  <2>1. IsOpen(q, fd) => desc[q][fd].path \in Files
    BY DEF TypeOK, IsOpen, Descriptor
  <2>2. CASE q = p
    BY <2>1, <2>2 DEF Quiet
  <2>3. CASE q # p
    BY <2>1, <2>3 DEF Quiet, IsOpen
  <2> QED
    BY <2>2, <2>3
<1>4. \A f \in Files :
        /\ content'[f] = Missing <=> content[f] = Missing
        /\ f \notin mixed' => \A n \in Int : HasHeader(content[f], n) => HasHeader(content'[f], n)
  BY DEF Quiet
<1>5. \A f \in Files : f \notin mixed' => f \notin mixed
  BY DEF Quiet
<1>6. tab' = tab /\ \A q \in Procs, fd \in Fds : tab[q][fd] \in Int
  <2>1. Inds \cup {Unset} \subseteq Int
    BY FicindexAssumption DEF Unset
  <2>2. \A q \in Procs, fd \in Fds : tab[q][fd] \in Inds \cup {Unset}
    BY DEF TypeOK
  <2> QED
    BY <2>1, <2>2 DEF Quiet
<1>7. Known'
  <2> SUFFICES ASSUME NEW q \in Procs, NEW fd \in Fds, Settled(q, fd)', desc'[q][fd].path \notin mixed'
               PROVE  /\ HasHeader(content'[desc'[q][fd].path], tab'[q][fd])
                      /\ desc'[q][fd].pos >= HEADER
    BY DEF Known
  <2>1. /\ IsOpen(q, fd) /\ desc'[q][fd].path = desc[q][fd].path /\ desc[q][fd].path \in Files
        /\ desc[q][fd].pos >= HEADER => desc'[q][fd].pos >= HEADER
        /\ desc[q][fd].path \notin mixed
    BY <1>3, <1>5 DEF Settled, IsOpen
  <2>2. Settled(q, fd)
    BY <1>2, <2>1 DEF Settled, IsOpen
  <2>3. HasHeader(content[desc[q][fd].path], tab[q][fd]) /\ desc[q][fd].pos >= HEADER
    BY <2>1, <2>2 DEF Shared, Known
  <2> QED
    BY <1>4, <1>6, <2>1, <2>3
<1>8. Present'
  <2> SUFFICES ASSUME NEW q \in Procs, NEW fd \in Fds, desc'[q][fd] # Closed
               PROVE  content'[desc'[q][fd].path] # Missing
    BY DEF Present, IsOpen
  <2> QED
    BY <1>3, <1>4 DEF Shared, Present
<1>9. Stat'
  <2> SUFFICES ASSUME NEW q \in Procs, op'[q].step = "open", op'[q].exist
               PROVE  content'[op'[q].path] # Missing
    BY DEF Stat
  <2>1. op'[q] = op[q] /\ op[q].step = "open"
    BY <1>1
  <2>2. op[q].path \in Files
    BY <2>1 DEF TypeOK, Operation, Opens, Heads, Searches, Reads, Writes, Idle
  <2> QED
    BY <1>4, <1>5, <2>1, <2>2 DEF Shared, Stat
<1>10. \A q \in Procs, f \in Files : InHead(q, f)' <=> InHead(q, f)
  BY <1>1, <1>2 DEF InHead
<1>11. \A q \in Procs, f \in Files : InHead(q, f) => op'[q] = op[q]
  BY <1>2 DEF InHead
<1>12. \A q \in Procs, fd \in Fds, f \in Files : Awaits(q, fd, f) => Awaits(q, fd, f)'
  BY <1>10, <1>11 DEF Awaits
<1>13. Fresh'
  <2> SUFFICES ASSUME NEW f \in Files \ mixed', NEW r \in Procs, InHead(r, f)', BecomesNew(op'[r]),
                      NEW q \in Procs, NEW fd \in Fds, On(q, fd, f)'
               PROVE  (q = r /\ fd = op'[r].ind[1]) \/ Awaits(q, fd, f)'
    BY DEF Fresh
  <2>1. f \notin mixed /\ InHead(r, f) /\ op'[r] = op[r]
    BY <1>5, <1>10, <1>11
  <2>2. On(q, fd, f)
    BY <1>3 DEF On, IsOpen
  <2> QED
    BY <1>12, <2>1, <2>2 DEF Shared, Fresh
<1>14. Headed'
  <2> SUFFICES ASSUME NEW f \in Files \ mixed', content'[f] # Missing,
                      \A q \in Procs : ~(InHead(q, f)' /\ BecomesNew(op'[q]))
               PROVE  \E n \in Inds : HasHeader(content'[f], n)
    BY DEF Headed
  <2>1. f \notin mixed /\ content[f] # Missing
    BY <1>4, <1>5
  <2>2. \A q \in Procs : ~(InHead(q, f) /\ BecomesNew(op[q]))
    BY <1>10, <1>11
  <2>3. PICK n \in Inds : HasHeader(content[f], n)
    BY <2>1, <2>2 DEF Shared, Headed
  <2> QED
    BY <1>4, <2>3, FicindexAssumption
<1> QED
  BY <1>7, <1>8, <1>9, <1>13, <1>14 DEF Shared
-----------------------------------------------------------------------------
(* The calls that open a file                                              *)

(* The record of an opening.                                               *)
LEMMA OpenOfType ==
  ASSUME NEW f \in Files, NEW flags \in Flags, NEW ind \in Inds, NEW for \in Purpose
  PROVE  LET o == OpenOf(f, flags, ind, for)
         IN  /\ o \in Opens /\ o.step = "open" /\ o.path = f /\ o.flags = flags /\ o.for = for
             /\ o.exist = (content[f] # Missing)
BY DEF OpenOf, Opens

(* A process that is not opening a file becomes idle, or one that was idle *)
(* begins to open one.                                                     *)
LEMMA CallShared ==
  ASSUME TypeOK, Shared, NEW p \in Procs, NEW o, op' = [op EXCEPT ![p] = o],
         op[p].step # "head", o.step # "head",
         o.step = "open" => o \in Opens /\ o.exist = (content[o.path] # Missing),
         UNCHANGED <<content, desc, tab, mixed>>
  PROVE  Shared'
<1>1. op'[p] = o /\ \A q \in Procs : q # p => op'[q] = op[q]
  BY DEF TypeOK
<1>2. \A q \in Procs, fd \in Fds : Settled(q, fd)' <=> Settled(q, fd)
  BY <1>1 DEF Settled, IsOpen
<1>3. \A q \in Procs, f \in Files : InHead(q, f)' <=> InHead(q, f)
  BY <1>1 DEF InHead
<1>4. \A q \in Procs, f \in Files : InHead(q, f) => op'[q] = op[q]
  BY <1>1 DEF InHead
<1>5. Known' /\ Present'
  BY <1>2 DEF Shared, Known, Present, IsOpen
<1>6. Stat'
  <2> SUFFICES ASSUME NEW q \in Procs, op'[q].step = "open", op'[q].exist
               PROVE  content'[op'[q].path] # Missing
    BY DEF Stat
  <2>1. CASE q = p
    <3>1. o.exist <=> content[o.path] # Missing
      BY <1>1, <2>1
    <3> QED
      BY <1>1, <2>1, <3>1
  <2>2. CASE q # p
    BY <1>1, <2>2 DEF Shared, Stat
  <2> QED
    BY <2>1, <2>2
<1>7. \A q \in Procs, fd \in Fds, f \in Files :
        (On(q, fd, f)' <=> On(q, fd, f)) /\ (Awaits(q, fd, f) => Awaits(q, fd, f)')
  BY <1>3, <1>4 DEF On, IsOpen, Awaits
<1>8. Fresh'
  BY <1>3, <1>4, <1>7 DEF Shared, Fresh
<1>9. Headed'
  BY <1>3, <1>4 DEF Shared, Headed
<1> QED
  BY <1>5, <1>6, <1>8, <1>9 DEF Shared

(* indopen and indxchg begin with access and stat.                         *)
LEMMA BeginKept ==
  ASSUME IInv, NEW p \in Procs, indopen(p) \/ indxchg(p)
  PROVE  IInv'
<1>1. op[p] = Idle /\ UNCHANGED <<content, desc, tab, mixed>>
  BY DEF indopen, indxchg, Call
<1>2. PICK f \in Files, flags \in Flags, ind \in Inds, for \in Purpose :
        op' = [op EXCEPT ![p] = OpenOf(f, flags, ind, for)] /\ for.caller # "new"
  <2>1. CASE indopen(p)
    <3>1. [caller |-> "program"] \in Purpose
      BY DEF Purpose
    <3> QED
      BY <2>1, <3>1 DEF indopen
  <2>2. CASE indxchg(p)
    <3>1. PICK from \in Files, to \in Files, newind \in Inds, any \in Inds :
            op' = [op EXCEPT ![p] =
                     OpenOf(from, ReadOnly, any, [caller |-> "old", to |-> to, newind |-> newind])]
      BY <2>2 DEF indxchg
    <3>2. [caller |-> "old", to |-> to, newind |-> newind] \in Purpose
      BY DEF Purpose
    <3>3. ReadOnly \in Flags
      BY DEF ReadOnly, Flags
    <3> QED
      BY <3>1, <3>2, <3>3
  <2> QED
    BY <2>1, <2>2
<1>3. PICK o : o = OpenOf(f, flags, ind, for)
  OBVIOUS
<1>4. /\ o \in Opens /\ o.step = "open" /\ o.path = f /\ o.for = for
      /\ o.exist = (content[f] # Missing)
  BY <1>3, OpenOfType
<1>5. op' = [op EXCEPT ![p] = o] /\ op[p].step = "idle"
  BY <1>1, <1>2, <1>3 DEF Idle
<1>6. Shared'
  BY <1>1, <1>4, <1>5, CallShared DEF IInv
<1>7. TypeOK'
  BY <1>1, <1>4, <1>5 DEF IInv, TypeOK, Operation
<1>8. Holding'
  BY <1>1, <1>2, <1>4, <1>5 DEF IInv, TypeOK, Holding, On, IsOpen
<1> QED
  BY <1>6, <1>7, <1>8 DEF IInv

LEMMA OpenFailsKept ==
  ASSUME IInv, NEW p \in Procs, OpenFails(p)
  PROVE  IInv'
<1>1. op[p].step = "open" /\ op' = [op EXCEPT ![p] = Idle] /\ UNCHANGED <<content, desc, tab, mixed>>
  BY DEF OpenFails
<1>2. Idle.step = "idle" /\ Idle \in Operation
  BY DEF Idle, Operation
<1>3. Shared'
  BY <1>1, <1>2, CallShared DEF IInv
<1>4. TypeOK'
  BY <1>1, <1>2 DEF IInv, TypeOK
<1>5. Holding'
  BY <1>1, <1>2 DEF IInv, TypeOK, Holding, On, IsOpen
<1> QED
  BY <1>3, <1>4, <1>5 DEF IInv

(* What an operation is, from its step.                                    *)
LEMMA Steps ==
  ASSUME TypeOK, NEW p \in Procs
  PROVE  /\ op[p].step = "open" => op[p] \in Opens
         /\ op[p].step = "head" => op[p] \in Heads
         /\ op[p].step = "search" => op[p] \in Searches
         /\ op[p].step = "read" => op[p] \in Reads
         /\ op[p].step = "write" => op[p] \in Writes
BY DEF TypeOK, Operation, Opens, Heads, Searches, Reads, Writes, Idle

(* What open does against the rules of Mix.                                *)
Breaks(o, f) ==
  IF o.flags.trunc THEN Holders(f) # {} ELSE o.flags.create /\ ~o.exist /\ content[f] # Missing

(* What open does to an operation and to a free descriptor: the file keeps *)
(* its header, or is empty and belongs to whoever writes it.               *)
Opened(p, f, fd, h, d) ==
  /\ op[p] \in Opens /\ op[p].step = "open" /\ op[p].path = f
  /\ content[f] # Missing \/ op[p].flags.create
  /\ desc[p][fd] = Closed
  /\ h.step = "head" /\ h.path = f /\ h.ind[1] = fd
  /\ h.flags = op[p].flags /\ h.exist = op[p].exist /\ h.for = op[p].for
  /\ d.path = f /\ d # Closed
  /\ op' = [op EXCEPT ![p] = h] /\ desc' = [desc EXCEPT ![p][fd] = d]
  /\ content' = [content EXCEPT ![f] = IF @ = Missing \/ op[p].flags.trunc THEN <<>> ELSE @]
  /\ tab' = tab /\ last' = last
  /\ mixed' = IF Breaks(op[p], f) THEN mixed \cup {f} ELSE mixed

LEMMA Opens1 ==
  ASSUME IInv, NEW p \in Procs, Open(p)
  PROVE  \E f \in Files, fd \in Fds, h \in Heads, d \in Descriptor : Opened(p, f, fd, h, d)
<1>0. PICK f : f = op[p].path
  OBVIOUS
<1>1. op[p] \in Opens /\ op[p].step = "open"
  BY Steps DEF IInv, Open
<1>2. PICK o : o = op[p]
  OBVIOUS
<1>3. /\ o \in Opens /\ f \in Files /\ f = o.path /\ o.flags \in Flags
      /\ content[f] # Missing \/ o.flags.create
  BY <1>0, <1>1, <1>2 DEF Open, Opens
<1>4. PICK fd \in Fds :
        /\ desc[p][fd] = Closed
        /\ desc' = [desc EXCEPT ![p][fd] = [path |-> f, access |-> o.flags.access, pos |-> 0]]
        /\ op' = [op EXCEPT ![p] = [o EXCEPT !.step = "head", !.ind = <<fd, @>>]]
  <2>1. DOMAIN op = Procs
    BY DEF IInv, TypeOK
  <2>2. PICK fd \in Free(p) :
          /\ desc' = [desc EXCEPT ![p][fd] = [path |-> op[p].path,
                                             access |-> op[p].flags.access, pos |-> 0]]
          /\ op' = [op EXCEPT ![p].step = "head", ![p].ind = <<fd, @>>]
    BY DEF Open
  <2>3. fd \in Fds /\ desc[p][fd] = Closed
    BY <2>2 DEF Free
  <2>4. op' = [op EXCEPT ![p] = [o EXCEPT !.step = "head", !.ind = <<fd, @>>]]
    BY <1>2, <2>1, <2>2
  <2> QED
    BY <1>0, <1>2, <2>2, <2>3, <2>4
<1>5. /\ content' = [content EXCEPT ![f] = IF @ = Missing \/ o.flags.trunc THEN <<>> ELSE @]
      /\ tab' = tab /\ last' = last
      /\ mixed' = IF Breaks(o, f) THEN mixed \cup {f} ELSE mixed
  BY <1>0, <1>2 DEF Open, Mix, Breaks
<1>6. PICK h : h = [o EXCEPT !.step = "head", !.ind = <<fd, @>>]
  OBVIOUS
<1>7. /\ h \in Heads /\ h.step = "head" /\ h.path = f /\ h.ind[1] = fd
      /\ h.flags = o.flags /\ h.exist = o.exist /\ h.for = o.for
  BY <1>3, <1>6 DEF Opens, Heads
<1>8. PICK d \in Descriptor : d = [path |-> f, access |-> o.flags.access, pos |-> 0]
  <2>1. o.flags.access \in {"R", "W", "RW"}
    BY <1>3 DEF Flags
  <2> QED
    BY <1>3, <2>1 DEF Descriptor
<1>9. d.path = f /\ d # Closed
  <2>1. d.path = f
    BY <1>8
  <2>2. DOMAIN d # DOMAIN Closed
    BY <1>8 DEF Closed
  <2> QED
    BY <2>1, <2>2
<1>10. op' = [op EXCEPT ![p] = h] /\ desc' = [desc EXCEPT ![p][fd] = d]
  BY <1>4, <1>6, <1>8
<1>11. Opened(p, f, fd, h, d)
  BY <1>0, <1>1, <1>2, <1>3, <1>4, <1>5, <1>7, <1>9, <1>10 DEF Opened
<1> QED
  BY <1>3, <1>7, <1>8, <1>11

(* Who truncates a file, or will write its header, is alone on it.         *)
LEMMA OpenAlone ==
  ASSUME IInv, NEW p \in Procs, NEW f \in Files, NEW fd, NEW h, NEW d, Opened(p, f, fd, h, d),
         f \notin mixed'
  PROVE  /\ f \notin mixed
         /\ op[p].flags.trunc \/ BecomesNew(op[p]) => \A q \in Procs, x \in Fds : ~On(q, x, f)
<1>1. ~Breaks(op[p], f) /\ f \notin mixed
  BY DEF Opened
<1>2. content[f] = Missing => \A q \in Procs, x \in Fds : ~On(q, x, f)
  BY DEF IInv, Shared, Present, On
<1>3. op[p].flags.trunc => \A q \in Procs, x \in Fds : desc[q][x].path # f
  <2> SUFFICES ASSUME op[p].flags.trunc, NEW q \in Procs, NEW x \in Fds, desc[q][x].path = f PROVE FALSE
    OBVIOUS
  <2>1. PICK h1 \in Procs \X Fds : h1 = <<q, x>>
    OBVIOUS
  <2>2. h1 \in Holders(f)
    BY <2>1 DEF Holders
  <2> QED
    BY <1>1, <2>2 DEF Breaks
<1>4. ~op[p].flags.trunc /\ BecomesNew(op[p]) => content[f] = Missing
  BY <1>1 DEF Breaks, BecomesNew
<1> QED
  BY <1>1, <1>2, <1>3, <1>4 DEF On

LEMMA OpenKept ==
  ASSUME IInv, NEW p \in Procs, Open(p)
  PROVE  IInv'
<1>0. PICK f \in Files, fd \in Fds, h \in Heads, d \in Descriptor : Opened(p, f, fd, h, d)
  BY Opens1
<1>1. op[p] \in Opens /\ op[p].step = "open"
  BY <1>0 DEF Opened
<1>2. PICK o : o = op[p]
  OBVIOUS
<1>3. /\ o \in Opens /\ f = o.path /\ o.flags \in Flags
      /\ content[f] # Missing \/ o.flags.create
  BY <1>0, <1>1, <1>2 DEF Opened, Opens
<1>4. desc[p][fd] = Closed
  BY <1>0 DEF Opened
<1>5. /\ content' = [content EXCEPT ![f] = IF @ = Missing \/ o.flags.trunc THEN <<>> ELSE @]
      /\ tab' = tab
      /\ mixed' = IF Breaks(o, f) THEN mixed \cup {f} ELSE mixed
  BY <1>0, <1>2 DEF Opened
<1>7. /\ h.step = "head" /\ h.path = f /\ h.ind[1] = fd
      /\ h.flags = o.flags /\ h.exist = o.exist /\ h.for = o.for
  BY <1>0, <1>2 DEF Opened
<1>9. d.path = f /\ d # Closed
  BY <1>0 DEF Opened
<1>10. op' = [op EXCEPT ![p] = h] /\ desc' = [desc EXCEPT ![p][fd] = d]
  BY <1>0 DEF Opened
<1>11. op'[p] = h /\ \A q \in Procs : q # p => op'[q] = op[q]
  BY <1>10 DEF IInv, TypeOK
<1>12. /\ desc'[p][fd] = d
       /\ \A q \in Procs, x \in Fds : q # p \/ x # fd => desc'[q][x] = desc[q][x]
  BY <1>10 DEF IInv, TypeOK
<1>13. /\ \A g \in Files : g # f => content'[g] = content[g]
       /\ content'[f] = IF content[f] = Missing \/ o.flags.trunc THEN <<>> ELSE content[f]
       /\ content'[f] # Missing
  BY <1>3, <1>5, FileCells DEF IInv, TypeOK
<1>14. TypeOK'
  <2>1. content' \in [Files -> Seq(Cell) \cup {Missing}]
    BY <1>3, <1>5, FileCells DEF IInv, TypeOK
  <2>2. desc' \in [Procs -> [Fds -> Descriptor \cup {Closed}]]
    BY <1>10 DEF IInv, TypeOK
  <2>3. op' \in [Procs -> Operation]
    BY <1>7, <1>10 DEF IInv, TypeOK, Operation
  <2> QED
    BY <1>5, <2>1, <2>2, <2>3 DEF IInv, TypeOK
<1>15. Holding'
  <2>1. \A q \in Procs, x \in Fds : IsOpen(q, x) => desc'[q][x] = desc[q][x]
    BY <1>4, <1>12 DEF IsOpen
  <2> SUFFICES ASSUME NEW q \in Procs
               PROVE  /\ op'[q].step = "head" =>
                           /\ desc'[q][op'[q].ind[1]] # Closed
                           /\ desc'[q][op'[q].ind[1]].path = op'[q].path
                      /\ op'[q].step \in {"open", "head"} /\ op'[q].for.caller = "new" =>
                           op'[q].flags = Overwrite /\ desc'[q][op'[q].for.old] # Closed
                      /\ op'[q].step = "search" => desc'[q][op'[q].fd] # Closed
                      /\ op'[q].step \in {"read", "write"} =>
                           desc'[q][op'[q].old] # Closed /\ desc'[q][op'[q].new] # Closed
    BY DEF Holding, On, IsOpen
  <2>4. CASE q = p
    <3>1. desc'[p][h.ind[1]] # Closed /\ desc'[p][h.ind[1]].path = h.path
      BY <1>7, <1>9, <1>12
    <3>2. o.for.caller = "new" => o.flags = Overwrite /\ IsOpen(p, o.for.old) /\ o.for.old \in Fds
      BY <1>1, <1>2, <1>3 DEF IInv, Holding, Opens, Purpose
    <3>3. o.for.caller = "new" => desc'[p][o.for.old] # Closed
      BY <2>1, <3>2 DEF IsOpen
    <3> QED
      BY <1>7, <1>11, <2>4, <3>1, <3>2, <3>3
  <2>5. CASE q # p
    <3>1. op'[q] = op[q] /\ \A x \in Fds : desc'[q][x] = desc[q][x]
      BY <1>11, <1>12, <2>5
    <3>2. desc'[q] = desc[q]
      BY <1>14, <3>1 DEF IInv, TypeOK
    <3> QED
      BY <3>1, <3>2 DEF IInv, Holding, IsOpen, On
  <2> QED
    BY <2>4, <2>5
<1>16. /\ mixed \subseteq mixed'
       /\ \A g \in Files \ mixed' : g \notin mixed
  BY <1>5
<1>17. content[f] = Missing => \A q \in Procs, x \in Fds : ~On(q, x, f)
  BY DEF IInv, Shared, Present, On
<1>18. ASSUME f \notin mixed'
       PROVE  /\ f \notin mixed
              /\ o.flags.trunc \/ BecomesNew(o) => \A q \in Procs, x \in Fds : ~On(q, x, f)
  BY <1>0, <1>2, <1>18, OpenAlone
<1>19. \A q \in Procs, x \in Fds, g \in Files :
         On(q, x, g)' => (q = p /\ x = fd /\ g = f) \/ On(q, x, g)
  BY <1>9, <1>12 DEF On, IsOpen
<1>20. Known'
  <2> SUFFICES ASSUME NEW q \in Procs, NEW x \in Fds, Settled(q, x)', desc'[q][x].path \notin mixed'
               PROVE  /\ HasHeader(content'[desc'[q][x].path], tab'[q][x])
                      /\ desc'[q][x].pos >= HEADER
    BY DEF Known
  <2>1. ~(q = p /\ x = fd)
    BY <1>7, <1>11 DEF Settled
  <2>2. desc'[q][x] = desc[q][x] /\ IsOpen(q, x)
    BY <1>12, <2>1 DEF Settled, IsOpen
  <2>3. Settled(q, x)
    BY <1>1, <1>11, <2>2 DEF Settled
  <2>4. PICK g \in Files : g = desc[q][x].path
    BY <2>2 DEF IInv, TypeOK, IsOpen, Descriptor
  <2>5. g \notin mixed' /\ g \notin mixed /\ On(q, x, g)
    BY <1>16, <2>2, <2>4 DEF On
  <2>6. HasHeader(content[g], tab[q][x]) /\ desc[q][x].pos >= HEADER
    BY <2>3, <2>4, <2>5 DEF IInv, Shared, Known
  <2>7. content'[g] = content[g]
    BY <1>13, <1>17, <1>18, <2>5
  <2> QED
    BY <1>5, <2>2, <2>4, <2>6, <2>7
<1>21. Present'
  <2> SUFFICES ASSUME NEW q \in Procs, NEW x \in Fds, desc'[q][x] # Closed
               PROVE  content'[desc'[q][x].path] # Missing
    BY DEF Present, IsOpen
  <2>1. CASE q = p /\ x = fd
    BY <1>9, <1>12, <1>13, <2>1
  <2>2. CASE ~(q = p /\ x = fd)
    <3>1. desc'[q][x] = desc[q][x] /\ IsOpen(q, x)
      BY <1>12, <2>2 DEF IsOpen
    <3>2. desc[q][x].path \in Files /\ content[desc[q][x].path] # Missing
      BY <3>1 DEF IInv, Shared, Present, TypeOK, IsOpen, Descriptor
    <3> QED
      BY <1>13, <3>1, <3>2
  <2> QED
    BY <2>1, <2>2
<1>22. Stat'
  <2> SUFFICES ASSUME NEW q \in Procs, op'[q].step = "open", op'[q].exist
               PROVE  content'[op'[q].path] # Missing
    BY DEF Stat
  <2>1. q # p /\ op'[q] = op[q] /\ op[q].step = "open"
    BY <1>7, <1>11
  <2>2. op[q].path \in Files
    BY <2>1, Steps DEF IInv, Opens
  <2> QED
    BY <1>13, <2>1, <2>2 DEF IInv, Shared, Stat
<1>23. \A q \in Procs, g \in Files :
         InHead(q, g)' => (q = p /\ g = f) \/ (q # p /\ InHead(q, g) /\ op'[q] = op[q])
  BY <1>7, <1>11 DEF InHead
<1>24. BecomesNew(h) <=> BecomesNew(o)
  BY <1>7 DEF BecomesNew
<1>25. Fresh'
  <2> SUFFICES ASSUME NEW g \in Files \ mixed', NEW r \in Procs, InHead(r, g)', BecomesNew(op'[r]),
                      NEW q \in Procs, NEW x \in Fds, On(q, x, g)'
               PROVE  (q = r /\ x = op'[r].ind[1]) \/ Awaits(q, x, g)'
    BY DEF Fresh
  <2>1. CASE r = p /\ g = f
    <3>1. BecomesNew(o)
      BY <1>11, <1>24, <2>1
    <3>2. ~On(q, x, f)
      BY <1>18, <2>1, <3>1
    <3> QED
      BY <1>7, <1>11, <1>19, <2>1, <3>2
  <2>2. CASE r # p /\ InHead(r, g) /\ op'[r] = op[r]
    <3>1. g \notin mixed /\ On(r, op[r].ind[1], g) /\ op[r].ind[1] \in Fds
      BY <1>16, <2>2, Steps DEF IInv, Holding, InHead, Heads
    <3>2. CASE q = p /\ x = fd /\ g = f
      <4>1. ~BecomesNew(o)
        BY <1>18, <3>1, <3>2
      <4> QED
        BY <1>7, <1>11, <1>24, <3>2, <4>1 DEF Awaits, InHead
    <3>3. CASE On(q, x, g)
      <4>1. (q = r /\ x = op[r].ind[1]) \/ Awaits(q, x, g)
        BY <2>2, <3>1, <3>3 DEF IInv, Shared, Fresh
      <4>2. Awaits(q, x, g) => q # p
        BY <1>1 DEF Awaits, InHead
      <4> QED
        BY <1>11, <2>2, <4>1, <4>2 DEF Awaits, InHead
    <3> QED
      BY <1>19, <3>2, <3>3
  <2> QED
    BY <1>23, <2>1, <2>2
<1>26. Headed'
  <2> SUFFICES ASSUME NEW g \in Files \ mixed', content'[g] # Missing,
                      \A q \in Procs : ~(InHead(q, g)' /\ BecomesNew(op'[q]))
               PROVE  \E n \in Inds : HasHeader(content'[g], n)
    BY DEF Headed
  <2>1. CASE g # f
    <3>1. \A q \in Procs : InHead(q, g) => InHead(q, g)' /\ op'[q] = op[q]
      BY <1>1, <1>11 DEF InHead
    <3> QED
      BY <1>13, <1>16, <2>1, <3>1 DEF IInv, Shared, Headed
  <2>2. CASE g = f
    <3>1. InHead(p, f)'
      BY <1>7, <1>11 DEF InHead
    <3>2. ~BecomesNew(o)
      BY <1>7, <1>11, <2>2, <3>1 DEF BecomesNew
    <3>3. o.exist => content[f] # Missing
      BY <1>1, <1>2, <1>3 DEF IInv, Shared, Stat
    <3>4. /\ o.exist \in BOOLEAN /\ o.flags.create \in BOOLEAN /\ o.flags.trunc \in BOOLEAN
          /\ o.flags.trunc => o.flags.create
      BY <1>3 DEF Opens, Flags
    <3>5. ~o.flags.trunc /\ content[f] # Missing
      BY <1>3, <3>2, <3>3, <3>4 DEF BecomesNew
    <3>6. content'[f] = content[f]
      BY <1>13, <3>5
    <3>7. \A q \in Procs : InHead(q, f) => InHead(q, f)' /\ op'[q] = op[q]
      BY <1>1, <1>11 DEF InHead
    <3> QED
      BY <1>16, <2>2, <3>5, <3>6, <3>7 DEF IInv, Shared, Headed
  <2> QED
    BY <2>1, <2>2
<1> QED
  BY <1>14, <1>15, <1>20, <1>21, <1>22, <1>25, <1>26 DEF IInv, Shared
-----------------------------------------------------------------------------
(* The header                                                              *)

(* Where the caller of indopen goes on, once its descriptor has a size.    *)
LEMMA Continues ==
  ASSUME TypeOK, Holding, NEW p \in Procs, op[p].step = "head",
         NEW size \in Inds \cup {Unset}, op[p].for.caller = "new" => size \in Inds,
         Continue(p, op[p].ind[1], size)
  PROVE  \E o \in {Idle} \cup Opens \cup Reads :
           /\ op' = [op EXCEPT ![p] = o]
           /\ o.step = "open" =>
                /\ o.exist = (content[o.path] # Missing)
                /\ o.for.caller = "new" =>
                     /\ o.flags = Overwrite /\ o.for.old = op[p].ind[1]
                     /\ o.for.oldind = size /\ o.for.from = op[p].path
           /\ o.step = "read" => /\ op[p].for.caller = "new" /\ o.old = op[p].for.old
                                 /\ o.new = op[p].ind[1] /\ o.newind = size /\ o.mot = <<>>
                                 /\ o.from = op[p].for.from /\ o.to = op[p].path
                                 /\ o.oldind = op[p].for.oldind
<1>1. op[p] \in Heads
  BY Steps
<1>2. PICK h : h = op[p]
  OBVIOUS
<1>3. /\ h \in Heads /\ h.for \in Purpose /\ h.path \in Files
      /\ h.ind[1] \in Fds
  BY <1>1, <1>2 DEF Heads
<1>4. CASE h.for.caller = "program"
  <2>1. op' = [op EXCEPT ![p] = Idle]
    BY <1>2, <1>4 DEF Continue
  <2>2. Idle.step = "idle"
    BY DEF Idle
  <2> QED
    BY <2>1, <2>2
<1>5. CASE h.for.caller = "old"
  <2>1. h.for.to \in Files /\ h.for.newind \in Inds
    BY <1>3, <1>5 DEF Purpose
  <2>2. PICK for : for = [caller |-> "new", from |-> h.path, old |-> h.ind[1], oldind |-> size]
    OBVIOUS
  <2>3. for \in Purpose /\ for.old = h.ind[1] /\ for.oldind = size /\ for.from = h.path
    BY <1>3, <2>2 DEF Purpose
  <2>4. PICK o : o = OpenOf(h.for.to, Overwrite, h.for.newind, for)
    OBVIOUS
  <2>5. op' = [op EXCEPT ![p] = o]
    BY <1>2, <1>5, <2>2, <2>4 DEF Continue
  <2>6. Overwrite \in Flags
    BY DEF Overwrite, Flags
  <2>7. /\ o \in Opens /\ o.step = "open" /\ o.path = h.for.to /\ o.flags = Overwrite /\ o.for = for
        /\ o.exist = (content[h.for.to] # Missing)
    BY <2>1, <2>3, <2>4, <2>6, OpenOfType
  <2> QED
    BY <1>2, <2>3, <2>5, <2>7
<1>6. CASE h.for.caller = "new"
  <2>1. h.for.from \in Files /\ h.for.old \in Fds /\ h.for.oldind \in Inds \cup {Unset}
    BY <1>3, <1>6 DEF Purpose
  <2>2. PICK o : o = [step |-> "read", from |-> h.for.from, to |-> h.path, old |-> h.for.old,
                      new |-> h.ind[1], oldind |-> h.for.oldind, newind |-> size, mot |-> <<>>]
    OBVIOUS
  <2>3. op' = [op EXCEPT ![p] = o]
    BY <1>2, <1>6, <2>2 DEF Continue
  <2>4. size \in Inds
    BY <1>2, <1>6
  <2>5. o \in Reads /\ o.step = "read"
    BY <1>3, <2>1, <2>2, <2>4, FileCells DEF Reads
  <2>6. /\ o.old = h.for.old /\ o.new = h.ind[1] /\ o.newind = size /\ o.mot = <<>>
        /\ o.from = h.for.from /\ o.to = h.path /\ o.oldind = h.for.oldind
    BY <2>2
  <2> QED
    BY <1>2, <1>6, <2>3, <2>5, <2>6
<1> QED
  BY <1>3, <1>4, <1>5, <1>6 DEF Purpose

(* The end of an opening, whether the header was written or read: on a     *)
(* file that is not mixed its size is now known.                           *)
LEMMA HeadDone ==
  ASSUME IInv, NEW p \in Procs, op[p].step = "head",
         NEW size \in Inds \cup {Unset}, NEW pos \in Nat, NEW o,
         op' = [op EXCEPT ![p] = o], o \in {Idle} \cup Opens \cup Reads,
         o.step = "open" => o.exist = (content[o.path] # Missing),
         o.step = "open" /\ o.for.caller = "new" =>
           o.flags = Overwrite /\ o.for.old = op[p].ind[1],
         o.step = "read" =>
           op[p].for.caller = "new" /\ o.old = op[p].for.old /\ o.new = op[p].ind[1],
         tab' = [tab EXCEPT ![p][op[p].ind[1]] = size],
         desc' = [desc EXCEPT ![p][op[p].ind[1]].pos = pos],
         mixed \subseteq mixed',
         NEW c \in Seq(Cell), content' = [content EXCEPT ![op[p].path] = c],
         op[p].path \notin mixed' =>
           /\ HasHeader(c, size) /\ pos >= HEADER
           /\ \E n \in Inds : HasHeader(c, n)
           /\ c = content[op[p].path] \/ BecomesNew(op[p])
           /\ BecomesNew(op[p]) \/ ~Unwritten(op[p].path)
  PROVE  IInv'
<1>1. PICK f \in Files, fd \in Fds : f = op[p].path /\ fd = op[p].ind[1]
  BY Steps DEF IInv, Heads
<1>2. op[p] \in Heads /\ On(p, fd, f)
  BY <1>1, Steps DEF IInv, Holding
<1>3. desc[p][fd] \in Descriptor /\ desc[p][fd].path = f /\ desc[p][fd] # Closed
  BY <1>2 DEF IInv, TypeOK, On, IsOpen
<1>4. PICK d : d = [desc[p][fd] EXCEPT !.pos = pos]
  OBVIOUS
<1>5. d \in Descriptor /\ d.path = f /\ d.pos = pos
  BY <1>3, <1>4 DEF Descriptor
<1>6. d # Closed
  <2>1. "pos" \in DOMAIN d /\ "pos" \notin DOMAIN Closed
    BY <1>5 DEF Descriptor, Closed
  <2> QED
    BY <2>1
<1>7. desc' = [desc EXCEPT ![p][fd] = d]
  BY <1>1, <1>4 DEF IInv, TypeOK
<1>8. /\ desc'[p][fd] = d
      /\ \A q \in Procs, x \in Fds : q # p \/ x # fd => desc'[q][x] = desc[q][x]
  BY <1>7 DEF IInv, TypeOK
<1>9. op'[p] = o /\ \A q \in Procs : q # p => op'[q] = op[q]
  BY DEF IInv, TypeOK
<1>10. content'[f] = c /\ \A g \in Files : g # f => content'[g] = content[g]
  BY <1>1 DEF IInv, TypeOK
<1>11. /\ tab'[p][fd] = size
       /\ \A q \in Procs, x \in Fds : q # p \/ x # fd => tab'[q][x] = tab[q][x]
  BY <1>1 DEF IInv, TypeOK
<1>12. content[f] # Missing /\ c # Missing
  BY <1>2, FileCells DEF IInv, Shared, Present, On
<1>13. \A g \in Files : content'[g] # Missing <=> content[g] # Missing
  BY <1>10, <1>12
<1>14. o.step \in {"idle", "open", "read"} /\ o \in Operation
  BY DEF Idle, Opens, Reads, Operation
<1>15. TypeOK'
  <2>1. content' \in [Files -> Seq(Cell) \cup {Missing}]
    <3>1. content \in [Files -> Seq(Cell) \cup {Missing}] /\ content' = [content EXCEPT ![f] = c]
      BY <1>1 DEF IInv, TypeOK
    <3> QED
      BY <3>1
  <2>2. desc' \in [Procs -> [Fds -> Descriptor \cup {Closed}]]
    <3>1. PICK D : D = Descriptor \cup {Closed}
      OBVIOUS
    <3>2. desc \in [Procs -> [Fds -> D]] /\ d \in D
      BY <1>5, <3>1 DEF IInv, TypeOK
    <3>3. [desc EXCEPT ![p][fd] = d] \in [Procs -> [Fds -> D]]
      BY <3>2
    <3> QED
      BY <1>7, <3>1, <3>3
  <2>3. tab' \in [Procs -> [Fds -> Inds \cup {Unset}]]
    BY DEF IInv, TypeOK
  <2>4. op' \in [Procs -> Operation]
    BY <1>14 DEF IInv, TypeOK
  <2> QED
    BY <2>1, <2>2, <2>3, <2>4 DEF TypeOK
<1>16. \A q \in Procs, x \in Fds : desc'[q][x] # Closed <=> IsOpen(q, x)
  BY <1>3, <1>6, <1>8 DEF IsOpen
<1>17. \A q \in Procs, x \in Fds : desc'[q][x].path = desc[q][x].path
  BY <1>3, <1>5, <1>8
<1>18. \A q \in Procs, x \in Fds, g \in Files : On(q, x, g)' <=> On(q, x, g)
  BY <1>16, <1>17 DEF On, IsOpen
<1>19. Holding'
  <2> SUFFICES ASSUME NEW q \in Procs
               PROVE  /\ op'[q].step = "head" =>
                           /\ desc'[q][op'[q].ind[1]] # Closed
                           /\ desc'[q][op'[q].ind[1]].path = op'[q].path
                      /\ op'[q].step \in {"open", "head"} /\ op'[q].for.caller = "new" =>
                           op'[q].flags = Overwrite /\ desc'[q][op'[q].for.old] # Closed
                      /\ op'[q].step = "search" => desc'[q][op'[q].fd] # Closed
                      /\ op'[q].step \in {"read", "write"} =>
                           desc'[q][op'[q].old] # Closed /\ desc'[q][op'[q].new] # Closed
    BY DEF Holding, On, IsOpen
  <2>1. CASE q = p
    <3>1. op[p].for.caller = "new" => IsOpen(p, op[p].for.old) /\ op[p].for.old \in Fds
      BY <1>2 DEF IInv, Holding, Heads, Purpose
    <3>2. o.step = "read" => desc'[p][o.old] # Closed /\ desc'[p][o.new] # Closed
      BY <1>1, <1>6, <1>8, <1>16, <3>1
    <3>3. o.step = "open" /\ o.for.caller = "new" => o.flags = Overwrite /\ desc'[p][o.for.old] # Closed
      BY <1>1, <1>6, <1>8
    <3> QED
      BY <1>9, <1>14, <2>1, <3>2, <3>3
  <2>2. CASE q # p
    <3>1. op'[q] = op[q] /\ \A x \in Fds : desc'[q][x] = desc[q][x]
      BY <1>8, <1>9, <2>2
    <3>2. desc'[q] = desc[q]
      BY <1>15, <3>1 DEF IInv, TypeOK
    <3> QED
      BY <3>1, <3>2 DEF IInv, Holding, IsOpen, On
  <2> QED
    BY <2>1, <2>2
<1>20. \A g \in Files : g \notin mixed' => g \notin mixed
  OBVIOUS
<1>21. Known'
  <2> SUFFICES ASSUME NEW q \in Procs, NEW x \in Fds, Settled(q, x)', desc'[q][x].path \notin mixed'
               PROVE  /\ HasHeader(content'[desc'[q][x].path], tab'[q][x])
                      /\ desc'[q][x].pos >= HEADER
    BY DEF Known
  <2>1. CASE q = p /\ x = fd
    <3>1. desc'[p][fd].path = f /\ desc'[p][fd].pos = pos
      BY <1>5, <1>8
    <3>2. f \notin mixed'
      BY <2>1, <3>1
    <3>3. HasHeader(c, size) /\ pos >= HEADER
      BY <1>1, <3>2
    <3>4. HasHeader(content'[f], tab'[p][fd])
      BY <1>10, <1>11, <3>3
    <3> QED
      BY <2>1, <3>1, <3>3, <3>4
  <2>2. CASE ~(q = p /\ x = fd)
    <3>1. desc'[q][x] = desc[q][x] /\ IsOpen(q, x) /\ tab'[q][x] = tab[q][x]
      BY <1>8, <1>11, <2>2 DEF Settled, IsOpen
    <3>2. Settled(q, x)
      BY <1>1, <1>9, <2>2, <3>1 DEF Settled
    <3>3. PICK g \in Files : g = desc[q][x].path
      BY <3>1 DEF IInv, TypeOK, IsOpen, Descriptor
    <3>4. g \notin mixed' /\ g \notin mixed /\ On(q, x, g)
      BY <3>1, <3>3 DEF On
    <3>5. HasHeader(content[g], tab[q][x]) /\ desc[q][x].pos >= HEADER
      BY <3>2, <3>3, <3>4 DEF IInv, Shared, Known
    <3>6. g = f => ~BecomesNew(op[p])
      <4> SUFFICES ASSUME g = f, BecomesNew(op[p]) PROVE FALSE
        OBVIOUS
      <4>1. Awaits(q, x, f)
        BY <1>1, <2>2, <3>4 DEF IInv, Shared, Fresh, InHead
      <4> QED
        BY <3>2, <4>1 DEF Awaits, Settled, InHead
    <3>7. content'[g] = content[g]
      BY <1>1, <1>10, <3>4, <3>6
    <3> QED
      BY <3>1, <3>3, <3>5, <3>7
  <2> QED
    BY <2>1, <2>2
<1>22. Present'
  <2> SUFFICES ASSUME NEW q \in Procs, NEW x \in Fds, desc'[q][x] # Closed
               PROVE  content'[desc'[q][x].path] # Missing
    BY DEF Present, IsOpen
  <2>1. IsOpen(q, x) /\ desc[q][x].path \in Files /\ content[desc[q][x].path] # Missing
    BY <1>16 DEF IInv, Shared, Present, TypeOK, IsOpen, Descriptor
  <2> QED
    BY <1>13, <1>17, <2>1
<1>23. Stat'
  <2> SUFFICES ASSUME NEW q \in Procs, op'[q].step = "open", op'[q].exist
               PROVE  content'[op'[q].path] # Missing
    BY DEF Stat
  <2>1. op'[q].path \in Files
    BY <1>15 DEF TypeOK, Operation, Opens, Heads, Searches, Reads, Writes, Idle
  <2>2. CASE q = p
    <3>1. o.exist <=> content[o.path] # Missing
      BY <1>9, <2>2
    <3> QED
      BY <1>9, <1>13, <2>1, <2>2, <3>1
  <2>3. CASE q # p
    BY <1>9, <1>13, <1>20, <2>1, <2>3 DEF IInv, Shared, Stat
  <2> QED
    BY <2>2, <2>3
<1>24. \A q \in Procs, g \in Files : InHead(q, g)' => q # p /\ InHead(q, g) /\ op'[q] = op[q]
  BY <1>9, <1>14 DEF InHead
<1>25. f \notin mixed' => BecomesNew(op[p]) \/ ~Unwritten(f)
  BY <1>1
<1>26. Fresh'
  <2> SUFFICES ASSUME NEW g \in Files \ mixed', NEW r \in Procs, InHead(r, g)', BecomesNew(op'[r]),
                      NEW q \in Procs, NEW x \in Fds, On(q, x, g)'
               PROVE  (q = r /\ x = op'[r].ind[1]) \/ Awaits(q, x, g)'
    BY DEF Fresh
  <2>1. r # p /\ InHead(r, g) /\ op'[r] = op[r] /\ BecomesNew(op[r]) /\ g \notin mixed
    BY <1>20, <1>24
  <2>2. (q = r /\ x = op[r].ind[1]) \/ Awaits(q, x, g)
    BY <1>18, <2>1 DEF IInv, Shared, Fresh
  <2>3. Unwritten(g)
    BY <2>1 DEF Unwritten, InHead
  <2>4. Awaits(q, x, g) => q # p
    BY <1>1, <1>25, <2>3 DEF Awaits, InHead
  <2> QED
    BY <1>9, <2>1, <2>2, <2>4 DEF Awaits, InHead
<1>27. Headed'
  <2> SUFFICES ASSUME NEW g \in Files \ mixed', content'[g] # Missing,
                      \A q \in Procs : ~(InHead(q, g)' /\ BecomesNew(op'[q]))
               PROVE  \E n \in Inds : HasHeader(content'[g], n)
    BY DEF Headed
  <2>1. CASE g = f
    BY <1>1, <1>10, <2>1
  <2>2. CASE g # f
    <3>1. \A q \in Procs : InHead(q, g) => InHead(q, g)' /\ op'[q] = op[q]
      BY <1>1, <1>9, <2>2 DEF InHead
    <3> QED
      BY <1>10, <1>20, <2>2, <3>1 DEF IInv, Shared, Headed
  <2> QED
    BY <2>1, <2>2
<1> QED
  BY <1>15, <1>19, <1>21, <1>22, <1>23, <1>26, <1>27 DEF IInv, Shared

(* The cells of a header.                                                  *)
LEMMA HeaderType ==
  ASSUME NEW n \in Inds
  PROVE  /\ Header(n) \in Seq(Cell) /\ Len(Header(n)) = HEADER
         /\ \A k \in 1 .. HEADER : Header(n)[k] = <<"ind", n>>
<1>1. n \in Nat /\ HEADER \in Nat
  BY FicindexAssumption
<1>2. <<"ind", n>> \in Cell
  BY <1>1 DEF Cell
<1>3. Header(n) \in [1 .. HEADER -> Cell]
  BY <1>2 DEF Header
<1> QED
  BY <1>1, <1>3, SeqDef DEF Header

LEMMA WriteHeaderKept ==
  ASSUME IInv, NEW p \in Procs, WriteHeader(p)
  PROVE  IInv'
<1>1. op[p].step = "head" /\ op[p] \in Heads
  BY Steps DEF IInv, WriteHeader
<1>2. PICK f \in Files, fd \in Fds, ind \in Inds : f = op[p].path /\ fd = op[p].ind[1] /\ ind = op[p].ind[2]
  BY <1>1 DEF Heads
<1>3. /\ BecomesNew(op[p])
      /\ tab' = [tab EXCEPT ![p][fd] = ind]
      /\ content' = [content EXCEPT ![f] = WriteAt(@, 0, Header(ind))]
      /\ desc' = [desc EXCEPT ![p][fd].pos = HEADER]
      /\ Continue(p, fd, ind)
      /\ mixed' = mixed
  BY <1>2 DEF WriteHeader
<1>4. PICK o \in {Idle} \cup Opens \cup Reads :
        /\ op' = [op EXCEPT ![p] = o]
        /\ o.step = "open" =>
             /\ o.exist = (content[o.path] # Missing)
             /\ o.for.caller = "new" =>
                  o.flags = Overwrite /\ o.for.old = op[p].ind[1] /\ o.for.oldind = ind
        /\ o.step = "read" => /\ op[p].for.caller = "new" /\ o.old = op[p].for.old
                              /\ o.new = op[p].ind[1] /\ o.newind = ind /\ o.mot = <<>>
  BY <1>1, <1>2, <1>3, Continues DEF IInv
<1>5. content[f] \in Seq(Cell)
  <2>1. IsOpen(p, fd) /\ desc[p][fd].path = f
    BY <1>1, <1>2 DEF IInv, Holding, On
  <2> QED
    BY <2>1 DEF IInv, TypeOK, Shared, Present
<1>6. PICK s \in Seq(Cell) : s = Header(ind) /\ Len(s) = HEADER /\ \A k \in 1 .. HEADER : s[k] = <<"ind", ind>>
  BY HeaderType
<1>7. PICK c : c = WriteAt(content[f], 0, s)
  OBVIOUS
<1>8. HEADER \in Nat \ {0}
  BY FicindexAssumption
<1>9. /\ c \in Seq(Cell)
      /\ Len(c) = IF 0 + Len(s) > Len(content[f]) THEN 0 + Len(s) ELSE Len(content[f])
      /\ \A k \in 1 .. Len(s) : c[0 + k] = s[k]
  BY <1>5, <1>7, WriteCells
<1>10. HasHeader(c, ind)
  <2>1. Len(c) >= HEADER
    BY <1>5, <1>6, <1>8, <1>9
  <2>2. \A k \in 1 .. HEADER : c[k] = <<"ind", ind>>
    BY <1>6, <1>8, <1>9
  <2> QED
    BY <1>9, <2>1, <2>2, HeaderCells
<1>11. content' = [content EXCEPT ![f] = c]
  BY <1>3, <1>6, <1>7
<1>12. ind \in Inds \cup {Unset} /\ HEADER \in Nat /\ HEADER >= HEADER /\ mixed \subseteq mixed'
  BY <1>3, <1>8
<1> QED
  BY <1>1, <1>2, <1>3, <1>4, <1>9, <1>10, <1>11, <1>12, HeadDone

LEMMA ReadHeaderKept ==
  ASSUME IInv, NEW p \in Procs, ReadHeader(p)
  PROVE  IInv'
<1>1. op[p].step = "head" /\ op[p] \in Heads /\ ~BecomesNew(op[p])
  BY Steps DEF IInv, ReadHeader
<1>2. PICK f \in Files, fd \in Fds : f = op[p].path /\ fd = op[p].ind[1]
  BY <1>1 DEF Heads
<1>3. PICK n \in Inds \cup {Unset} :
        /\ op[p].flags.access # "W" /\ (\E m \in Inds : HasHeader(content[f], m)) => HasHeader(content[f], n)
        /\ tab' = [tab EXCEPT ![p][fd] = n]
        /\ Continue(p, fd, n)
  BY <1>2 DEF ReadHeader
<1>4. /\ desc' = [desc EXCEPT ![p][fd].pos =
                     IF op[p].flags.access # "W" THEN Len(ReadAt(content[f], 0, HEADER)) ELSE 0]
      /\ mixed' = IF op[p].flags.access = "W" \/ Unwritten(f) THEN mixed \cup {f} ELSE mixed
      /\ content' = content
  BY <1>2 DEF ReadHeader, Mix
<1>5. op[p].for.caller # "new"
  <2>1. op[p].for.caller = "new" => op[p].flags = Overwrite
    BY <1>1 DEF IInv, Holding
  <2>2. op[p].flags = Overwrite => BecomesNew(op[p])
    BY <1>1 DEF BecomesNew, Overwrite, Heads
  <2> QED
    BY <1>1, <2>1, <2>2
<1>6. PICK o \in {Idle} \cup Opens \cup Reads :
        /\ op' = [op EXCEPT ![p] = o]
        /\ o.step = "open" =>
             /\ o.exist = (content[o.path] # Missing)
             /\ o.for.caller = "new" =>
                  o.flags = Overwrite /\ o.for.old = op[p].ind[1] /\ o.for.oldind = n
        /\ o.step = "read" => /\ op[p].for.caller = "new" /\ o.old = op[p].for.old
                              /\ o.new = op[p].ind[1] /\ o.newind = n /\ o.mot = <<>>
  BY <1>1, <1>2, <1>3, <1>5, Continues DEF IInv
<1>7. PICK c : c = content[f]
  OBVIOUS
<1>8. c \in Seq(Cell) /\ c # Missing
  <2>1. IsOpen(p, fd) /\ desc[p][fd].path = f
    BY <1>1, <1>2 DEF IInv, Holding, On
  <2> QED
    BY <1>7, <2>1 DEF IInv, TypeOK, Shared, Present
<1>9. HEADER \in Nat \ {0}
  BY FicindexAssumption
<1>10. PICK pos \in Nat :
         pos = IF op[p].flags.access # "W" THEN Len(ReadAt(c, 0, HEADER)) ELSE 0
  <2>1. Len(ReadAt(c, 0, HEADER)) \in Nat
    BY <1>8, <1>9, ReadType
  <2> QED
    BY <2>1
<1>11. ASSUME f \notin mixed'
       PROVE  /\ HasHeader(c, n) /\ pos >= HEADER /\ \E m \in Inds : HasHeader(c, m)
              /\ ~Unwritten(f)
  <2>1. op[p].flags.access # "W" /\ f \notin mixed /\ ~Unwritten(f)
    BY <1>4, <1>11
  <2>3. \A q \in Procs : ~(InHead(q, f) /\ BecomesNew(op[q]))
    BY <2>1 DEF Unwritten, InHead
  <2>4. \E m \in Inds : HasHeader(c, m)
    BY <1>7, <1>8, <2>1, <2>3 DEF IInv, Shared, Headed
  <2>5. HasHeader(c, n)
    BY <1>3, <1>7, <2>1, <2>4
  <2>6. 0 + HEADER <= Len(c)
    BY <1>8, <1>9, <2>5, HeaderCells
  <2>7. pos = HEADER
    BY <1>8, <1>9, <1>10, <2>1, <2>6, ReadCells
  <2> QED
    BY <1>9, <2>1, <2>4, <2>5, <2>7
<1>12. content' = [content EXCEPT ![f] = c]
  BY <1>4, <1>7 DEF IInv, TypeOK
<1>13. desc' = [desc EXCEPT ![p][fd].pos = pos] /\ mixed \subseteq mixed'
  BY <1>4, <1>7, <1>10
<1> QED
  BY <1>1, <1>2, <1>3, <1>6, <1>7, <1>8, <1>11, <1>12, <1>13, HeadDone
-----------------------------------------------------------------------------
(* The other calls                                                         *)

(* A descriptor that is moved.                                             *)
MoveTo(p, fd, pos) == desc' = [desc EXCEPT ![p][fd].pos = pos]

LEMMA Moved ==
  ASSUME TypeOK, NEW p \in Procs, NEW fd \in Fds, IsOpen(p, fd), NEW pos \in Nat,
         MoveTo(p, fd, pos)
  PROVE  /\ desc' \in [Procs -> [Fds -> Descriptor \cup {Closed}]]
         /\ desc'[p][fd] # Closed /\ desc'[p][fd].path = desc[p][fd].path
         /\ desc'[p][fd].pos = pos
         /\ \A q \in Procs, x \in Fds : q # p \/ x # fd => desc'[q][x] = desc[q][x]
         /\ \A q \in Procs : q # p => desc'[q] = desc[q]
<1>1. desc[p][fd] \in Descriptor
  BY DEF TypeOK, IsOpen
<1>2. PICK d : d = [desc[p][fd] EXCEPT !.pos = pos]
  OBVIOUS
<1>3. d \in Descriptor /\ d.path = desc[p][fd].path /\ d.pos = pos
  BY <1>1, <1>2 DEF Descriptor
<1>4. d # Closed
  <2>1. "pos" \in DOMAIN d /\ "pos" \notin DOMAIN Closed
    BY <1>3 DEF Descriptor, Closed
  <2> QED
    BY <2>1
<1>5. PICK D : D = Descriptor \cup {Closed}
  OBVIOUS
<1>6. desc \in [Procs -> [Fds -> D]] /\ d \in D
  BY <1>3, <1>5 DEF TypeOK
<1>7. desc' = [desc EXCEPT ![p][fd] = d]
  BY <1>2, <1>6 DEF MoveTo
<1>8. /\ [desc EXCEPT ![p][fd] = d] \in [Procs -> [Fds -> D]]
      /\ desc'[p][fd] = d
      /\ \A q \in Procs, x \in Fds : q # p \/ x # fd => desc'[q][x] = desc[q][x]
      /\ \A q \in Procs : q # p => desc'[q] = desc[q]
  BY <1>6, <1>7
<1> QED
  BY <1>3, <1>4, <1>5, <1>7, <1>8

(* A step of a process that is not opening a file, from what it does.      *)
LEMMA QuietKept ==
  ASSUME IInv, NEW p \in Procs, Quiet(p), NEW o \in Operation, op' = [op EXCEPT ![p] = o],
         content' \in [Files -> Seq(Cell) \cup {Missing}],
         desc' \in [Procs -> [Fds -> Descriptor \cup {Closed}]],
         o.step = "search" => desc'[p][o.fd] # Closed,
         o.step \in {"read", "write"} => desc'[p][o.old] # Closed /\ desc'[p][o.new] # Closed
  PROVE  IInv'
<1>1. op'[p] = o /\ \A q \in Procs : q # p => op'[q] = op[q] /\ desc'[q] = desc[q]
  BY DEF IInv, TypeOK, Quiet
<1>2. TypeOK'
  BY DEF IInv, TypeOK, Quiet
<1>3. Holding'
  <2> SUFFICES ASSUME NEW q \in Procs
               PROVE  /\ op'[q].step = "head" =>
                           /\ desc'[q][op'[q].ind[1]] # Closed
                           /\ desc'[q][op'[q].ind[1]].path = op'[q].path
                      /\ op'[q].step \in {"open", "head"} /\ op'[q].for.caller = "new" =>
                           op'[q].flags = Overwrite /\ desc'[q][op'[q].for.old] # Closed
                      /\ op'[q].step = "search" => desc'[q][op'[q].fd] # Closed
                      /\ op'[q].step \in {"read", "write"} =>
                           desc'[q][op'[q].old] # Closed /\ desc'[q][op'[q].new] # Closed
    BY DEF Holding, On, IsOpen
  <2>1. CASE q = p
    BY <1>1, <2>1 DEF Quiet
  <2>2. CASE q # p
    BY <1>1, <2>2 DEF IInv, Holding, IsOpen, On
  <2> QED
    BY <2>1, <2>2
<1> QED
  BY <1>2, <1>3, QuietShared DEF IInv

(* A read moves its descriptor forwards.                                   *)
LEMMA ConsumeMoves ==
  ASSUME IInv, NEW p \in Procs, NEW fd \in Fds, IsOpen(p, fd), Consume(p, fd)
  PROVE  \E pos \in Nat : pos >= desc[p][fd].pos /\ MoveTo(p, fd, pos)
<1>1. desc[p][fd].path \in Files /\ desc[p][fd].pos \in Nat /\ content[desc[p][fd].path] \in Seq(Cell)
  BY DEF IInv, TypeOK, Shared, Present, IsOpen, Descriptor
<1>2. tab[p][fd] \in Int
  <2>1. Inds \cup {Unset} \subseteq Int
    BY FicindexAssumption DEF Unset
  <2> QED
    BY <2>1 DEF IInv, TypeOK
<1>3. \A c \in Seq(Cell), a \in Nat, n \in Int : Len(ReadAt(c, a, n)) \in Nat
  BY ReadType
<1>4. Len(Next1(p, fd)) \in Nat
  BY <1>1, <1>2, <1>3 DEF Next1
<1>5. PICK l \in Nat : l = Len(Next1(p, fd))
  BY <1>4
<1>6. desc' = [desc EXCEPT ![p][fd].pos = @ + l]
  BY <1>5 DEF Consume
<1>7. desc' = [desc EXCEPT ![p][fd].pos = desc[p][fd].pos + l]
  BY <1>6 DEF IInv, TypeOK
<1>8. desc[p][fd].pos + l \in Nat /\ desc[p][fd].pos + l >= desc[p][fd].pos
  BY <1>1
<1> QED
  BY <1>7, <1>8 DEF MoveTo

(* A step that only moves a descriptor, without leaving it in the header   *)
(* of a file that is not mixed, is quiet.                                  *)
LEMMA MoveQuiet ==
  ASSUME IInv, NEW p \in Procs, NEW fd \in Fds, IsOpen(p, fd), NEW pos \in Nat,
         MoveTo(p, fd, pos),
         \/ desc[p][fd].path \in mixed'
         \/ desc[p][fd].pos >= HEADER => pos >= HEADER,
         content' = content, tab' = tab, mixed \subseteq mixed',
         NEW o \in Operation, op' = [op EXCEPT ![p] = o],
         op[p].step \notin {"open", "head"}, o.step \notin {"open", "head"}
  PROVE  Quiet(p) /\ \A x \in Fds : IsOpen(p, x) => desc'[p][x] # Closed
<1>0. TypeOK
  BY DEF IInv
<1>1. /\ desc'[p][fd] # Closed /\ desc'[p][fd].path = desc[p][fd].path
      /\ desc'[p][fd].pos = pos
      /\ \A q \in Procs, x \in Fds : q # p \/ x # fd => desc'[q][x] = desc[q][x]
      /\ \A q \in Procs : q # p => desc'[q] = desc[q]
  BY <1>0, Moved
<1>2. op'[p] = o /\ \A q \in Procs : q # p => op'[q] = op[q]
  BY DEF IInv, TypeOK
<1>3. \A x \in Fds :
        \/ desc'[p][x] = Closed
        \/ /\ IsOpen(p, x)
           /\ desc'[p][x].path = desc[p][x].path
           /\ \/ desc[p][x].path \in mixed'
              \/ desc[p][x].pos >= HEADER => desc'[p][x].pos >= HEADER
  BY <1>1 DEF IsOpen
<1>4. Quiet(p)
  BY <1>1, <1>2, <1>3 DEF Quiet
<1> QED
  BY <1>1, <1>4 DEF IsOpen

(* The record of an operation is one of its type.                          *)
LEMMA OpOperation == TypeOK => Idle \in Operation /\ \A p \in Procs : op[p] \in Operation
BY DEF TypeOK, Operation

LEMMA ReadKept ==
  ASSUME IInv, NEW p \in Procs, indread(p)
  PROVE  IInv'
<1>1. PICK fd \in Fds : Use(p, fd, {"R", "RW"}) /\ Consume(p, fd)
  BY DEF indread
<1>2. UNCHANGED <<content, tab, op, mixed>>
  BY DEF indread
<1>3. op[p] = Idle /\ op[p].step = "idle" /\ IsOpen(p, fd)
  BY <1>1 DEF Use, Call, Idle, Free, IsOpen
<1>4. PICK pos \in Nat : pos >= desc[p][fd].pos /\ MoveTo(p, fd, pos)
  BY <1>1, <1>3, ConsumeMoves
<1>5. op' = [op EXCEPT ![p] = Idle] /\ Idle \in Operation /\ Idle.step = "idle"
  BY <1>2, <1>3, OpOperation DEF IInv, TypeOK
<1>6. desc[p][fd].pos >= HEADER => pos >= HEADER
  BY <1>3, <1>4, FicindexAssumption DEF IInv, TypeOK, IsOpen, Descriptor
<1>7. Quiet(p)
  BY <1>2, <1>3, <1>4, <1>5, <1>6, MoveQuiet
<1>8. desc' \in [Procs -> [Fds -> Descriptor \cup {Closed}]]
  BY <1>3, <1>4, Moved DEF IInv
<1>9. content' \in [Files -> Seq(Cell) \cup {Missing}]
  BY <1>2 DEF IInv, TypeOK
<1> QED
  BY <1>5, <1>7, <1>8, <1>9, QuietKept

LEMMA SearchKept ==
  ASSUME IInv, NEW p \in Procs, indsearch(p) \/ Search(p)
  PROVE  IInv'
<1>1. CASE indsearch(p)
  <2>1. PICK fd \in Fds, key \in Values :
          /\ Use(p, fd, {"R", "RW"})
          /\ op' = [op EXCEPT ![p] = [step |-> "search", fd |-> fd, key |-> key]]
    BY <1>1 DEF indsearch
  <2>2. UNCHANGED <<content, desc, tab, last, mixed>> /\ op[p] = Idle /\ IsOpen(p, fd)
    BY <1>1, <2>1 DEF indsearch, Use, Call, Free, IsOpen
  <2>3. PICK o : o = [step |-> "search", fd |-> fd, key |-> key]
    OBVIOUS
  <2>4. o \in Searches /\ o.step = "search" /\ o.fd = fd
    BY <2>3 DEF Searches
  <2>5. o \in Operation /\ op[p].step = "idle"
    BY <2>2, <2>4 DEF Operation, Idle
  <2>6. op'[p] = o /\ \A q \in Procs : q # p => op'[q] = op[q]
    BY <2>1, <2>3 DEF IInv, TypeOK
  <2>7. Quiet(p)
    BY <2>2, <2>4, <2>5, <2>6 DEF Quiet, IsOpen
  <2>8. /\ content' \in [Files -> Seq(Cell) \cup {Missing}]
        /\ desc' \in [Procs -> [Fds -> Descriptor \cup {Closed}]]
    BY <2>2 DEF IInv, TypeOK
  <2> QED
    BY <2>1, <2>2, <2>3, <2>4, <2>5, <2>7, <2>8, QuietKept DEF IsOpen
<1>2. CASE Search(p)
  <2>1. PICK fd : fd = op[p].fd
    OBVIOUS
  <2>2. /\ op[p].step = "search" /\ Consume(p, fd) /\ op' \in {op, [op EXCEPT ![p] = Idle]}
        /\ UNCHANGED <<content, tab, mixed>>
    BY <1>2, <2>1 DEF Search
  <2>3. fd \in Fds /\ IsOpen(p, fd)
    BY <2>1, <2>2, Steps DEF IInv, Holding, Searches
  <2>4. PICK pos \in Nat : pos >= desc[p][fd].pos /\ MoveTo(p, fd, pos)
    BY <2>2, <2>3, ConsumeMoves
  <2>5. PICK o \in {Idle, op[p]} : op' = [op EXCEPT ![p] = o]
    <3>1. [op EXCEPT ![p] = op[p]] = op
      BY DEF IInv, TypeOK
    <3> QED
      BY <2>2, <3>1
  <2>6. o \in Operation /\ o.step \in {"idle", "search"} /\ (o.step = "search" => o.fd = fd)
    BY <2>1, <2>2, <2>5, OpOperation DEF IInv, Idle
  <2>7. desc[p][fd].pos >= HEADER => pos >= HEADER
    BY <2>3, <2>4, FicindexAssumption DEF IInv, TypeOK, IsOpen, Descriptor
  <2>8. Quiet(p) /\ desc'[p][fd] # Closed
    BY <2>2, <2>3, <2>4, <2>5, <2>6, <2>7, MoveQuiet
  <2>9. desc' \in [Procs -> [Fds -> Descriptor \cup {Closed}]]
    BY <2>3, <2>4, Moved DEF IInv
  <2>10. content' \in [Files -> Seq(Cell) \cup {Missing}]
    BY <2>2 DEF IInv, TypeOK
  <2> QED
    BY <2>5, <2>6, <2>8, <2>9, <2>10, QuietKept
<1> QED
  BY <1>1, <1>2

(* indlseek leaves the header alone, or mixes the file.                    *)
LEMMA SeekKept ==
  ASSUME IInv, NEW p \in Procs, indlseek(p)
  PROVE  IInv'
<1>1. PICK fd \in Fds, whence \in {"SET", "CUR", "END"}, offset \in -1 .. 1 :
        LET f == desc[p][fd].path
            to == Target(whence, offset, tab[p][fd], desc[p][fd].pos, Len(content[f]))
        IN  /\ Use(p, fd, {"R", "W", "RW"})
            /\ to \in 0 .. Len(content[f])
            /\ desc' = [desc EXCEPT ![p][fd].pos = to]
            /\ Mix(f, IF whence = "SET" THEN offset < 0 ELSE to < HEADER)
  BY DEF indlseek
<1>2. PICK f : f = desc[p][fd].path
  OBVIOUS
<1>3. PICK to : to = Target(whence, offset, tab[p][fd], desc[p][fd].pos, Len(content[f]))
  OBVIOUS
<1>4. /\ Use(p, fd, {"R", "W", "RW"})
      /\ to \in 0 .. Len(content[f])
      /\ MoveTo(p, fd, to)
      /\ mixed' = IF (IF whence = "SET" THEN offset < 0 ELSE to < HEADER) THEN mixed \cup {f} ELSE mixed
  BY <1>1, <1>2, <1>3 DEF Mix, MoveTo
<1>5. UNCHANGED <<content, tab, op>>
  BY DEF indlseek
<1>6. op[p] = Idle /\ op[p].step = "idle" /\ IsOpen(p, fd) /\ tab[p][fd] # Unset
  BY <1>4 DEF Use, Call, Idle, Free, IsOpen
<1>7. f \in Files /\ Len(content[f]) \in Nat /\ to \in Nat
  <2>1. f \in Files /\ content[f] \in Seq(Cell)
    BY <1>2, <1>6 DEF IInv, TypeOK, Shared, Present, IsOpen, Descriptor
  <2>2. Len(content[f]) \in Nat
    BY <2>1
  <2> QED
    BY <1>4, <2>1, <2>2
<1>8. ASSUME f \notin mixed'
      PROVE  to >= HEADER
  <2>1. CASE whence = "SET"
    <3>1. PICK size \in Nat : size = tab[p][fd]
      <4>1. tab[p][fd] \in Inds \cup {Unset}
        BY DEF IInv, TypeOK
      <4> QED
        BY <1>6, <4>1, FicindexAssumption
    <3>2. offset \in {0, 1} /\ to = offset * size + HEADER
      BY <1>3, <1>4, <1>8, <2>1, <3>1 DEF Target
    <3>3. 0 * size = 0 /\ 1 * size = size
      BY <3>1
    <3> QED
      BY <3>1, <3>2, <3>3, FicindexAssumption
  <2>2. CASE whence # "SET"
    BY <1>4, <1>7, <1>8, <2>2, FicindexAssumption
  <2> QED
    BY <2>1, <2>2
<1>9. op' = [op EXCEPT ![p] = Idle] /\ Idle \in Operation /\ Idle.step = "idle" /\ mixed \subseteq mixed'
  BY <1>4, <1>5, <1>6, OpOperation DEF IInv, TypeOK
<1>10. Quiet(p)
  BY <1>2, <1>4, <1>5, <1>6, <1>7, <1>8, <1>9, MoveQuiet
<1>11. desc' \in [Procs -> [Fds -> Descriptor \cup {Closed}]]
  BY <1>4, <1>6, <1>7, Moved DEF IInv
<1>12. content' \in [Files -> Seq(Cell) \cup {Missing}]
  BY <1>5 DEF IInv, TypeOK
<1> QED
  BY <1>9, <1>10, <1>11, <1>12, QuietKept

(* indclose, and indxchg at its end, close descriptors.                    *)
LEMMA CloseKept ==
  ASSUME IInv, NEW p \in Procs, indclose(p) \/ CopyEnd(p)
  PROVE  IInv'
<1>1. UNCHANGED <<content, tab, mixed>> /\ op[p].step \in {"idle", "read"}
  BY DEF indclose, CopyEnd, Use, Call, Idle
<1>2. op' = [op EXCEPT ![p] = Idle] /\ Idle \in Operation /\ Idle.step = "idle"
  <2>1. CASE indclose(p)
    <3>1. op' = op /\ op[p] = Idle
      BY <2>1 DEF indclose, Use, Call
    <3> QED
      BY <3>1, OpOperation DEF IInv, TypeOK, Idle
  <2>2. CASE CopyEnd(p)
    BY <2>2, OpOperation DEF CopyEnd, IInv, Idle
  <2> QED
    BY <2>1, <2>2
<1>3. PICK S \in SUBSET Fds :
        desc' = [desc EXCEPT ![p] = [x \in Fds |-> IF x \in S THEN Closed ELSE desc[p][x]]]
  <2>1. CASE indclose(p)
    <3>1. PICK fd \in Fds : desc' = [desc EXCEPT ![p][fd] = Closed]
      BY <2>1 DEF indclose
    <3>2. desc' = [desc EXCEPT ![p] = [x \in Fds |-> IF x \in {fd} THEN Closed ELSE desc[p][x]]]
      BY <3>1 DEF IInv, TypeOK
    <3> QED
      BY <3>2
  <2>2. CASE CopyEnd(p)
    <3>1. PICK S \in SUBSET Fds :
            S = {x \in Fds : x = op[p].new \/ (x = op[p].old /\ op[p].oldind # Unset)}
      OBVIOUS
    <3>2. desc' = [desc EXCEPT ![p] = [x \in Fds |-> IF x \in S THEN Closed ELSE desc[p][x]]]
      BY <2>2, <3>1 DEF CopyEnd, IInv, TypeOK
    <3> QED
      BY <3>2
  <2> QED
    BY <2>1, <2>2
<1>4. PICK row : row = [x \in Fds |-> IF x \in S THEN Closed ELSE desc[p][x]]
  OBVIOUS
<1>5. PICK D : D = Descriptor \cup {Closed}
  OBVIOUS
<1>6. row \in [Fds -> D] /\ desc \in [Procs -> [Fds -> D]] /\ desc' = [desc EXCEPT ![p] = row]
  BY <1>3, <1>4, <1>5 DEF IInv, TypeOK
<1>7. desc' \in [Procs -> [Fds -> D]] /\ desc'[p] = row /\ \A q \in Procs : q # p => desc'[q] = desc[q]
  BY <1>6
<1>8. \A x \in Fds : desc'[p][x] = Closed \/ (desc'[p][x] = desc[p][x] /\ IsOpen(p, x))
  BY <1>4, <1>7 DEF IsOpen
<1>9. op'[p] = Idle /\ \A q \in Procs : q # p => op'[q] = op[q]
  BY <1>2 DEF IInv, TypeOK
<1>10. Quiet(p)
  BY <1>1, <1>2, <1>7, <1>8, <1>9 DEF Quiet
<1>11. content' \in [Files -> Seq(Cell) \cup {Missing}]
  BY <1>1 DEF IInv, TypeOK
<1> QED
  BY <1>2, <1>5, <1>7, <1>10, <1>11, QuietKept

(* The buffer that indxchg reads into and writes from.                     *)
LEMMA FitCells ==
  ASSUME NEW s \in Seq(Cell), NEW n \in Nat
  PROVE  /\ Fit(s, n) \in Seq(Cell) /\ Len(Fit(s, n)) = n
         /\ \A k \in 1 .. n : Fit(s, n)[k] = IF k <= Len(s) THEN s[k] ELSE Junk
<1>1. \A k \in 1 .. n : (IF k <= Len(s) THEN s[k] ELSE Junk) \in Cell
  BY DEF Cell
<1>2. Fit(s, n) \in [1 .. n -> Cell]
  BY <1>1 DEF Fit
<1> QED
  BY <1>2, SeqDef DEF Fit

LEMMA CopyReadKept ==
  ASSUME IInv, NEW p \in Procs, CopyRead(p)
  PROVE  IInv'
<1>1. PICK h : h = op[p]
  OBVIOUS
<1>2. /\ h \in Reads /\ h.step = "read" /\ h.oldind # Unset /\ Consume(p, h.old)
      /\ UNCHANGED <<content, tab, mixed>>
  BY <1>1, Steps DEF IInv, CopyRead
<1>3. /\ h.old \in Fds /\ h.new \in Fds /\ h.oldind \in Inds /\ h.newind \in Inds /\ h.mot \in Seq(Cell)
      /\ IsOpen(p, h.old) /\ IsOpen(p, h.new)
  BY <1>1, <1>2 DEF Reads, IInv, Holding
<1>4. PICK pos \in Nat : pos >= desc[p][h.old].pos /\ MoveTo(p, h.old, pos)
  BY <1>2, <1>3, ConsumeMoves
<1>5. PICK n \in Nat : n = (IF h.newind > h.oldind THEN h.newind ELSE h.oldind) /\ h.newind <= n
  <2>1. PICK a \in Nat, b \in Nat : a = h.newind /\ b = h.oldind
    BY <1>3, FicindexAssumption
  <2> QED
    BY <2>1
<1>6. PICK r \in Seq(Cell) : r = Next1(p, h.old)
  <2>1. desc[p][h.old].pos \in Nat /\ content[desc[p][h.old].path] \in Seq(Cell)
    BY <1>3 DEF IInv, TypeOK, Shared, Present, IsOpen, Descriptor
  <2>2. tab[p][h.old] \in Int
    <3>1. Inds \cup {Unset} \subseteq Int
      BY FicindexAssumption DEF Unset
    <3> QED
      BY <1>3, <3>1 DEF IInv, TypeOK
  <2>3. Next1(p, h.old) \in Seq(Cell)
    BY <2>1, <2>2, ReadType DEF Next1
  <2> QED
    BY <2>3
<1>7. PICK rest \in Seq(Cell) : rest = SubSeq(h.mot, Len(r) + 1, Len(h.mot))
  <2>1. PICK a \in Int, b \in Int : a = Len(r) + 1 /\ b = Len(h.mot) /\ a >= 1
    BY <1>3, <1>6
  <2>2. \A k \in a .. b : h.mot[k] \in Cell
    BY <1>3, <2>1
  <2>3. SubSeq(h.mot, a, b) \in Seq(Cell)
    BY <2>2, SubSeqProperties
  <2> QED
    BY <2>1, <2>3
<1>8. PICK mot \in Seq(Cell) : mot = Fit(r \o rest, n) /\ Len(mot) = n
  <2>1. PICK s \in Seq(Cell) : s = r \o rest
    BY <1>6, <1>7, ConcatProperties
  <2> QED
    BY <1>5, <2>1, FitCells
<1>9. op' = [op EXCEPT ![p] = [h EXCEPT !.step = "write", !.mot = mot]]
  BY <1>1, <1>5, <1>6, <1>7, <1>8 DEF CopyRead, IInv, TypeOK
<1>10. PICK o : o = [h EXCEPT !.step = "write", !.mot = mot]
  OBVIOUS
<1>11. /\ o \in Writes /\ o.step = "write" /\ o.old = h.old /\ o.new = h.new
  <2>1. /\ o.step = "write" /\ o.old = h.old /\ o.new = h.new /\ o.newind = h.newind /\ o.mot = mot
        /\ o \in [step : {"write"}, from : Files, to : Files, old : Fds, new : Fds,
                  oldind : Inds \cup {Unset}, newind : Inds, mot : Seq(Cell)]
    BY <1>2, <1>10 DEF Reads
  <2>2. o.newind <= Len(o.mot)
    BY <1>5, <1>8, <2>1
  <2> QED
    BY <2>1, <2>2 DEF Writes
<1>12. o \in Operation
  BY <1>11 DEF Operation
<1>13. desc[p][h.old].pos >= HEADER => pos >= HEADER
  <2>1. desc[p][h.old].pos \in Nat
    BY <1>3 DEF IInv, TypeOK, IsOpen, Descriptor
  <2> QED
    BY <1>4, <2>1, FicindexAssumption
<1>14. Quiet(p) /\ desc'[p][h.old] # Closed /\ desc'[p][h.new] # Closed
  BY <1>1, <1>2, <1>3, <1>4, <1>9, <1>10, <1>11, <1>12, <1>13, MoveQuiet
<1>15. desc' \in [Procs -> [Fds -> Descriptor \cup {Closed}]]
  BY <1>3, <1>4, Moved DEF IInv
<1>16. content' \in [Files -> Seq(Cell) \cup {Missing}]
  BY <1>2 DEF IInv, TypeOK
<1> QED
  BY <1>9, <1>10, <1>11, <1>12, <1>14, <1>15, <1>16, QuietKept

(* What a process writes beyond the header spares the header.              *)
LEMMA PutQuiet ==
  ASSUME IInv, NEW p \in Procs, NEW fd \in Fds, IsOpen(p, fd), NEW s \in Seq(Cell), Put(p, fd, s),
         tab' = tab, mixed \subseteq mixed', NEW o \in Operation, op' = [op EXCEPT ![p] = o],
         op[p].step \notin {"open", "head"}, o.step \notin {"open", "head"}
  PROVE  /\ Quiet(p) /\ \A x \in Fds : IsOpen(p, x) => desc'[p][x] # Closed
         /\ content' \in [Files -> Seq(Cell) \cup {Missing}]
         /\ desc' \in [Procs -> [Fds -> Descriptor \cup {Closed}]]
<1>1. PICK f \in Files : f = desc[p][fd].path
  BY DEF IInv, TypeOK, IsOpen, Descriptor
<1>2. PICK c \in Seq(Cell) : c = content[f] /\ c # Missing
  BY <1>1 DEF IInv, TypeOK, Shared, Present
<1>3. PICK pos \in Nat : pos = desc[p][fd].pos
  BY DEF IInv, TypeOK, IsOpen, Descriptor
<1>4. PICK new : new = WriteAt(c, pos, s)
  OBVIOUS
<1>5. /\ new \in Seq(Cell)
      /\ Len(new) = IF pos + Len(s) > Len(c) THEN pos + Len(s) ELSE Len(c)
      /\ \A k \in 1 .. Len(c) : k <= pos \/ k > pos + Len(s) => new[k] = c[k]
  BY <1>2, <1>4, WriteCells
<1>6. content' = [content EXCEPT ![f] = new] /\ desc' = [desc EXCEPT ![p][fd].pos = @ + Len(s)]
  BY <1>1, <1>2, <1>3, <1>4 DEF Put
<1>7. pos + Len(s) \in Nat /\ pos + Len(s) >= pos /\ pos + Len(s) = desc[p][fd].pos + Len(s)
  BY <1>3
<1>8. PICK to \in Nat : to = pos + Len(s)
  BY <1>7
<1>9. MoveTo(p, fd, to)
  BY <1>3, <1>6, <1>8 DEF MoveTo, IInv, TypeOK
<1>10. TypeOK
  BY DEF IInv
<1>11. /\ desc' \in [Procs -> [Fds -> Descriptor \cup {Closed}]]
       /\ desc'[p][fd] # Closed /\ desc'[p][fd].path = f /\ desc'[p][fd].pos = to
       /\ \A q \in Procs, x \in Fds : q # p \/ x # fd => desc'[q][x] = desc[q][x]
       /\ \A q \in Procs : q # p => desc'[q] = desc[q]
  BY <1>1, <1>9, <1>10, Moved
<1>12. ASSUME f \notin mixed, NEW n \in Int, HasHeader(c, n)
       PROVE  HasHeader(new, n)
  <2>1. pos >= HEADER
    BY <1>1, <1>3, <1>12 DEF IInv, Shared, Known, Settled
  <2>2. Len(c) >= HEADER /\ \A k \in 1 .. HEADER : c[k] = <<"ind", n>>
    BY <1>12, HeaderCells
  <2>3. Len(new) >= Len(c) /\ Len(new) \in Nat /\ Len(c) \in Nat /\ HEADER \in Nat
    BY <1>5, FicindexAssumption
  <2>4. \A k \in 1 .. HEADER : k \in 1 .. Len(c) /\ k <= pos
    BY <2>1, <2>2, <2>3
  <2>5. \A k \in 1 .. HEADER : new[k] = <<"ind", n>>
    BY <1>5, <2>2, <2>4
  <2>6. Len(new) >= HEADER
    BY <2>2, <2>3
  <2> QED
    BY <1>5, <2>5, <2>6, HeaderCells
<1>13. content'[f] = new /\ \A g \in Files : g # f => content'[g] = content[g]
  BY <1>6 DEF IInv, TypeOK
<1>14. new # Missing
  BY <1>5, FileCells
<1>15. \A g \in Files :
         \/ content'[g] = content[g]
         \/ /\ content[g] # Missing /\ content'[g] # Missing
            /\ \/ g \in mixed
               \/ \A n \in Int : HasHeader(content[g], n) => HasHeader(content'[g], n)
  BY <1>2, <1>12, <1>13, <1>14
<1>16. \A x \in Fds :
        \/ desc'[p][x] = Closed
        \/ /\ IsOpen(p, x)
           /\ desc'[p][x].path = desc[p][x].path
           /\ \/ desc[p][x].path \in mixed'
              \/ desc[p][x].pos >= HEADER => desc'[p][x].pos >= HEADER
  <2>1. desc[p][fd].pos >= HEADER => to >= HEADER
    BY <1>3, <1>7, <1>8, FicindexAssumption
  <2> QED
    BY <1>1, <1>11, <2>1 DEF IsOpen
<1>17. op'[p] = o /\ \A q \in Procs : q # p => op'[q] = op[q]
  BY DEF IInv, TypeOK
<1>18. Quiet(p)
  BY <1>11, <1>15, <1>16, <1>17 DEF Quiet
<1>19. content' \in [Files -> Seq(Cell) \cup {Missing}]
  BY <1>5, <1>6 DEF IInv, TypeOK
<1> QED
  BY <1>11, <1>18, <1>19 DEF IsOpen

(* The cells of a record.                                                  *)
LEMMA RecordType ==
  ASSUME NEW v \in Values, NEW n \in Nat
  PROVE  /\ Record(v, n) \in Seq(Cell) /\ Len(Record(v, n)) = n
         /\ \A k \in 1 .. n : Record(v, n)[k] = <<v, k>>
<1>1. \A k \in 1 .. n : <<v, k>> \in Cell
  BY DEF Cell
<1>2. Record(v, n) \in [1 .. n -> Cell]
  BY <1>1 DEF Record
<1> QED
  BY <1>2, SeqDef DEF Record

LEMMA WriteKept ==
  ASSUME IInv, NEW p \in Procs, indwrite(p)
  PROVE  IInv'
<1>1. PICK fd \in Fds, v \in Values :
        /\ Use(p, fd, {"W", "RW"})
        /\ Put(p, fd, Record(v, tab[p][fd]))
        /\ Mix(desc[p][fd].path, Disturbs(p, fd))
  BY DEF indwrite
<1>2. tab' = tab /\ op' = op /\ mixed \subseteq mixed'
  BY <1>1 DEF indwrite, Mix
<1>3. op[p] = Idle /\ op[p].step = "idle" /\ IsOpen(p, fd)
  BY <1>1 DEF Use, Call, Idle, Free, IsOpen
<1>4. PICK n \in Nat : n = tab[p][fd]
  <2>1. tab[p][fd] \in Inds \cup {Unset} /\ tab[p][fd] # Unset
    BY <1>1 DEF IInv, TypeOK, Use
  <2> QED
    BY <2>1, FicindexAssumption
<1>5. PICK s \in Seq(Cell) : s = Record(v, n)
  BY RecordType
<1>6. Put(p, fd, s)
  BY <1>1, <1>4, <1>5
<1>7. op' = [op EXCEPT ![p] = Idle] /\ Idle \in Operation /\ Idle.step = "idle"
  BY <1>2, <1>3, OpOperation DEF IInv, TypeOK
<1>8. /\ Quiet(p)
      /\ content' \in [Files -> Seq(Cell) \cup {Missing}]
      /\ desc' \in [Procs -> [Fds -> Descriptor \cup {Closed}]]
  BY <1>2, <1>3, <1>6, <1>7, PutQuiet
<1> QED
  BY <1>7, <1>8, QuietKept

LEMMA CopyWriteKept ==
  ASSUME IInv, NEW p \in Procs, CopyWrite(p)
  PROVE  IInv'
<1>1. PICK h : h = op[p]
  OBVIOUS
<1>2. /\ h \in Writes /\ h.step = "write" /\ Put(p, h.new, Copied(h))
      /\ op' = [op EXCEPT ![p].step = "read"]
      /\ tab' = tab /\ mixed \subseteq mixed'
  BY <1>1, Steps DEF IInv, CopyWrite, Mix
<1>3. /\ h.new \in Fds /\ h.old \in Fds /\ IsOpen(p, h.old) /\ IsOpen(p, h.new)
      /\ h.mot \in Seq(Cell) /\ h.newind \in Inds /\ h.newind <= Len(h.mot)
  BY <1>1, <1>2 DEF Writes, IInv, Holding
<1>4. PICK s \in Seq(Cell) : s = Copied(h)
  <2>1. h.newind \in Nat /\ Len(h.mot) \in Nat
    <3>1. PICK n \in Inds, m \in Seq(Cell) : n = h.newind /\ m = h.mot
      BY <1>3
    <3> QED
      BY <3>1, FicindexAssumption
  <2>2. \A k \in 1 .. h.newind : h.mot[k] \in Cell
    BY <1>3, <2>1
  <2>3. SubSeq(h.mot, 1, h.newind) \in Seq(Cell)
    BY <2>1, <2>2, SubSeqProperties
  <2> QED
    BY <2>3 DEF Copied
<1>5. PICK o : o = [h EXCEPT !.step = "read"]
  OBVIOUS
<1>6. op' = [op EXCEPT ![p] = o]
  BY <1>1, <1>2, <1>5 DEF IInv, TypeOK
<1>7. o \in Reads /\ o.step = "read" /\ o.old = h.old /\ o.new = h.new
  BY <1>2, <1>5 DEF Reads, Writes
<1>8. o \in Operation
  BY <1>7 DEF Operation
<1>9. /\ Quiet(p) /\ \A x \in Fds : IsOpen(p, x) => desc'[p][x] # Closed
      /\ content' \in [Files -> Seq(Cell) \cup {Missing}]
      /\ desc' \in [Procs -> [Fds -> Descriptor \cup {Closed}]]
  BY <1>1, <1>2, <1>3, <1>4, <1>6, <1>7, <1>8, PutQuiet
<1> QED
  BY <1>3, <1>6, <1>7, <1>8, <1>9, QuietKept

-----------------------------------------------------------------------------
(* The invariant and IndexKnown                                            *)

(* Multiples of a size are that size apart.                                *)
LEMMA Multiples ==
  ASSUME NEW n \in Nat \ {0}, NEW k \in Nat, NEW l \in Nat
  PROVE  /\ k * n \in Nat /\ (k + 1) * n = k * n + n
         /\ k < l => k * n + n <= l * n
         /\ k * n <= l * n => k <= l
<1>1. \A a, b \in Nat : a * n \in Nat /\ (a + b) * n = a * n + b * n
  OBVIOUS
<1>2. 1 * n = n /\ (k + 1) * n = k * n + n /\ (l + 1) * n = l * n + n
  BY <1>1
<1>3. ASSUME NEW a \in Nat, NEW b \in Nat, a < b
      PROVE  a * n + n <= b * n
  <2>1. PICK d \in Nat : b = a + 1 + d
    BY <1>3
  <2>2. b * n = (a + 1) * n + d * n /\ d * n \in Nat /\ (a + 1) * n = a * n + 1 * n
    BY <1>1, <2>1
  <2> QED
    BY <1>1, <1>2, <2>2
<1>4. k > l => l * n + n <= k * n
  BY <1>3
<1>5. k * n <= l * n => k <= l
  BY <1>1, <1>4
<1> QED
  BY <1>1, <1>2, <1>3, <1>5

(* The number of a record, and a place in it.                              *)
LEMMA Quotient ==
  ASSUME NEW n \in Nat \ {0}, NEW k \in Nat, NEW i \in 0 .. n - 1
  PROVE  (k * n + i) \div n = k /\ (k * n + i) % n = i
OBVIOUS

(* A file left by an earlier program: its header, then its records.        *)
LEMMA FoundCells ==
  ASSUME NEW n \in Inds, NEW s \in AtFirst
  PROVE  /\ n \in Nat \ {0} /\ Len(s) \in Nat /\ Len(s) * n \in Nat
         /\ FileOf(n, s) \in Seq(Cell) /\ Len(FileOf(n, s)) = HEADER + Len(s) * n
         /\ HasHeader(FileOf(n, s), n)
         /\ \A i \in 1 .. Len(s) * n :
              /\ ((i - 1) \div n) + 1 \in 1 .. Len(s) /\ s[((i - 1) \div n) + 1] \in Values
              /\ FileOf(n, s)[HEADER + i] = <<s[((i - 1) \div n) + 1], ((i - 1) % n) + 1>>
<1>1. n \in Nat \ {0} /\ HEADER \in Nat \ {0} /\ s \in Seq(Values) /\ Len(s) \in Nat
  BY FicindexAssumption
<1>2. PICK l \in Nat, m \in Nat : l = Len(s) /\ m = l * n
  BY <1>1, Multiples
<1> DEFINE cell(i) == <<s[((i - 1) \div n) + 1], ((i - 1) % n) + 1>>
<1>3. \A i \in 1 .. m : ((i - 1) \div n) + 1 \in 1 .. l /\ ((i - 1) % n) + 1 \in Nat \ {0}
  <2> SUFFICES ASSUME NEW i \in 1 .. m
               PROVE  ((i - 1) \div n) + 1 \in 1 .. l /\ ((i - 1) % n) + 1 \in Nat \ {0}
    OBVIOUS
  <2>1. PICK x \in Nat : x = i - 1
    OBVIOUS
  <2>2. x \div n \in Nat /\ x % n \in Nat /\ x = n * (x \div n) + (x % n)
    BY <1>1
  <2>3. PICK q \in Nat, a \in Nat : q = x \div n /\ a = q * n /\ a <= x
    BY <1>1, <2>2
  <2>4. q < l
    <3>1. l <= q => l * n <= q * n
      <4>1. l < q => l * n + n <= q * n
        BY <1>1, Multiples
      <4> QED
        BY <1>1, <1>2, <2>3, <4>1
    <3> QED
      BY <1>2, <2>1, <2>3, <3>1
  <2> QED
    BY <2>1, <2>2, <2>3, <2>4
<1>4. \A i \in 1 .. m : s[((i - 1) \div n) + 1] \in Values /\ cell(i) \in Cell
  BY <1>1, <1>2, <1>3 DEF Cell
<1> HIDE DEF cell
<1>5. PICK body : body = [i \in 1 .. m |-> cell(i)]
  OBVIOUS
<1>6. body \in Seq(Cell) /\ Len(body) = m /\ \A i \in 1 .. m : body[i] = cell(i)
  <2>1. body \in [1 .. m -> Cell]
    BY <1>4, <1>5
  <2> QED
    BY <1>5, <2>1, CellsInOrder
<1>7. PICK h \in Seq(Cell) : h = Header(n) /\ Len(h) = HEADER /\ \A k \in 1 .. HEADER : h[k] = <<"ind", n>>
  BY HeaderType
<1>8. PICK c : c = h \o body
  OBVIOUS
<1>9. FileOf(n, s) = c
  BY <1>2, <1>5, <1>7, <1>8 DEF FileOf, cell
<1>10. /\ c \in Seq(Cell) /\ Len(c) = HEADER + m
       /\ \A k \in 1 .. HEADER : c[k] = <<"ind", n>>
       /\ \A i \in 1 .. m : c[HEADER + i] = cell(i)
  <2>1. /\ c \in Seq(Cell) /\ Len(c) = Len(h) + Len(body)
        /\ \A k \in 1 .. Len(c) : c[k] = IF k <= Len(h) THEN h[k] ELSE body[k - Len(h)]
    <3>1. h \in Seq(Cell) /\ body \in Seq(Cell)
      BY <1>6
    <3>2. /\ h \o body \in Seq(Cell) /\ Len(h \o body) = Len(h) + Len(body)
          /\ \A k \in 1 .. Len(h) + Len(body) :
               (h \o body)[k] = IF k <= Len(h) THEN h[k] ELSE body[k - Len(h)]
      BY <3>1, ConcatProperties
    <3> QED
      BY <1>8, <3>2
  <2>2. Len(c) = HEADER + m
    BY <1>6, <1>7, <2>1
  <2>3. \A k \in 1 .. HEADER : k \in 1 .. Len(c) /\ k <= Len(h)
    BY <1>1, <1>7, <2>2
  <2>4. \A k \in 1 .. HEADER : c[k] = <<"ind", n>>
    BY <1>7, <2>1, <2>3
  <2>5. ASSUME NEW i \in 1 .. m PROVE c[HEADER + i] = body[i]
    <3>1. PICK k : k = HEADER + i
      OBVIOUS
    <3>2. k \in 1 .. Len(c) /\ ~(k <= Len(h)) /\ k - Len(h) = i
      BY <1>1, <1>7, <2>2, <3>1
    <3>3. c[k] = body[k - Len(h)]
      BY <2>1, <3>2
    <3> QED
      BY <3>1, <3>2, <3>3
  <2> QED
    BY <1>6, <2>1, <2>2, <2>4, <2>5
<1>11. HasHeader(c, n)
  <2>1. Len(c) >= HEADER
    BY <1>1, <1>10
  <2> QED
    BY <1>10, <2>1, HeaderCells
<1> QED
  BY <1>1, <1>2, <1>3, <1>4, <1>9, <1>10, <1>11 DEF cell

(* At first a file is missing or left by an earlier program.               *)
LEMMA FoundAtFirst ==
  ASSUME Init, NEW f \in Files
  PROVE  content[f] = Missing \/ \E n \in Inds, s \in AtFirst : content[f] = FileOf(n, s)
BY DEF Init

LEMMA Starts == Init => IInv
<1> SUFFICES ASSUME Init PROVE IInv
  OBVIOUS
<1>1. /\ desc = [p \in Procs |-> [fd \in Fds |-> Closed]]
      /\ tab = [p \in Procs |-> [fd \in Fds |-> Unset]]
      /\ op = [p \in Procs |-> Idle] /\ \A p \in Procs : op[p].step = "idle"
  BY DEF Init, Idle
<1>2. \A f \in Files :
        \/ content[f] = Missing
        \/ content[f] \in Seq(Cell) /\ \E n \in Inds : HasHeader(content[f], n)
  BY FoundAtFirst, FoundCells
<1>3. TypeOK
  <2>1. content \in [Files -> Seq(Cell) \cup {Missing}]
    <3>1. content \in [Files -> {Missing} \cup {FileOf(n, s) : n \in Inds, s \in AtFirst}]
      BY DEF Init
    <3>2. DOMAIN content = Files /\ content = [f \in Files |-> content[f]]
      BY <3>1
    <3> QED
      BY <1>2, <3>2
  <2> QED
    BY <1>1, <2>1 DEF TypeOK, Operation
<1>4. \A p \in Procs, fd \in Fds : ~IsOpen(p, fd)
  BY <1>1 DEF IsOpen
<1>5. Holding
  BY <1>1 DEF Holding
<1>6. Known /\ Present
  BY <1>4 DEF Known, Present, Settled
<1>7. Stat /\ Fresh /\ Headed
  BY <1>1, <1>2 DEF Stat, Fresh, InHead, Headed
<1> QED
  BY <1>3, <1>5, <1>6, <1>7 DEF IInv, Shared

LEMMA Kept == IInv /\ [Next]_vars => IInv'
<1> SUFFICES ASSUME IInv, [Next]_vars PROVE IInv'
  OBVIOUS
<1>1. ASSUME NEW p \in Procs, indopen(p) \/ indxchg(p) PROVE IInv'
  BY <1>1, BeginKept
<1>2. ASSUME NEW p \in Procs, OpenFails(p) PROVE IInv'
  BY <1>2, OpenFailsKept
<1>3. ASSUME NEW p \in Procs, Open(p) PROVE IInv'
  BY <1>3, OpenKept
<1>4. ASSUME NEW p \in Procs, WriteHeader(p) PROVE IInv'
  BY <1>4, WriteHeaderKept
<1>5. ASSUME NEW p \in Procs, ReadHeader(p) PROVE IInv'
  BY <1>5, ReadHeaderKept
<1>6. ASSUME NEW p \in Procs, indread(p) PROVE IInv'
  BY <1>6, ReadKept
<1>7. ASSUME NEW p \in Procs, indwrite(p) PROVE IInv'
  BY <1>7, WriteKept
<1>8. ASSUME NEW p \in Procs, indlseek(p) PROVE IInv'
  BY <1>8, SeekKept
<1>9. ASSUME NEW p \in Procs, indclose(p) \/ CopyEnd(p) PROVE IInv'
  BY <1>9, CloseKept
<1>10. ASSUME NEW p \in Procs, indsearch(p) \/ Search(p) PROVE IInv'
  BY <1>10, SearchKept
<1>11. ASSUME NEW p \in Procs, CopyRead(p) PROVE IInv'
  BY <1>11, CopyReadKept
<1>12. ASSUME NEW p \in Procs, CopyWrite(p) PROVE IInv'
  BY <1>12, CopyWriteKept
<1>13. CASE UNCHANGED vars
  BY <1>13 DEF IInv, TypeOK, Holding, Shared, Known, Present, Stat, Fresh, Headed,
               Awaits, Settled, On, InHead, IsOpen, vars
<1> QED
  BY <1>1, <1>2, <1>3, <1>4, <1>5, <1>6, <1>7, <1>8, <1>9, <1>10, <1>11, <1>12, <1>13 DEF Next

(* The types, what an opening process may rely on, and that every file     *)
(* that is not mixed begins with a header no descriptor is inside of.      *)
THEOREM FileInvariance == Spec => []IInv
  BY Starts, Kept, PTL DEF Spec

(* The size a process keeps for an open descriptor is the one the file     *)
(* begins with, for any number of processes and files, as long as the file *)
(* is not used as Mix lists: header overwritten by a process that believes *)
(* to create it, truncation of an open file, header not read or not there  *)
(* (indopen, indwrite, indlseek, indxchg).                                 *)
THEOREM SizesKnown == Spec => []IndexKnown
<1>1. IInv => IndexKnown
  BY DEF IInv, Shared, Known, Settled, IsOpen, IndexKnown, Free
<1> QED
  BY FileInvariance, <1>1, PTL
-----------------------------------------------------------------------------
(* Records: a position between two of them, the cells of one after a       *)
(* position, and a file made of nothing else.                              *)
Boundary(n, x) == \E k \in Nat : x = HEADER + k * n
Shaped(c, n, x) ==
  \E v \in Values, m \in Inds : \A j \in 1 .. n : c[x + j] = IF j <= m THEN <<v, j>> ELSE Junk
Filled(c, n) ==
  /\ Boundary(n, Len(c))
  /\ \A x \in Nat : Boundary(n, x) /\ x < Len(c) => Shaped(c, n, x)

LEMMA FirstBoundary == ASSUME NEW n \in Int PROVE Boundary(n, HEADER)
<1>1. HEADER = HEADER + 0 * n
  BY FicindexAssumption
<1> QED
  BY <1>1 DEF Boundary

LEMMA Boundaries ==
  ASSUME NEW n \in Nat \ {0}, NEW x, NEW y, Boundary(n, x), Boundary(n, y)
  PROVE  /\ x \in Nat /\ x >= HEADER /\ Boundary(n, x + n)
         /\ x < y => x + n <= y
<1>1. PICK k \in Nat : x = HEADER + k * n
  BY DEF Boundary
<1>2. PICK l \in Nat : y = HEADER + l * n
  BY DEF Boundary
<1>3. HEADER \in Nat
  BY FicindexAssumption
<1>4. PICK a \in Nat, b \in Nat : a = k * n /\ b = l * n
  BY Multiples
<1>5. (k < l => a + n <= b) /\ (b <= a => l <= k) /\ (k + 1) * n = a + n
  BY <1>4, Multiples
<1>6. l <= k => b <= a
  <2>1. l < k => b + n <= a
    BY <1>4, Multiples
  <2> QED
    BY <1>4, <2>1
<1>7. Boundary(n, x + n)
  <2>1. x + n = HEADER + (k + 1) * n /\ k + 1 \in Nat
    BY <1>1, <1>3, <1>4, <1>5
  <2> QED
    BY <2>1 DEF Boundary
<1> QED
  BY <1>1, <1>2, <1>3, <1>4, <1>5, <1>6, <1>7

(* One record before or after a boundary is a boundary, if not inside the  *)
(* header.                                                                 *)
LEMMA Neighbours ==
  ASSUME NEW n \in Nat \ {0}, NEW x, Boundary(n, x), NEW offset \in -1 .. 1, offset * n + x >= HEADER
  PROVE  Boundary(n, offset * n + x)
<1>1. PICK k \in Nat : x = HEADER + k * n
  BY DEF Boundary
<1>2. HEADER \in Nat /\ x \in Nat
  BY FicindexAssumption, Boundaries
<1>3. offset \in {-1, 0, 1}
  OBVIOUS
<1>4. CASE offset = 1
  BY <1>2, <1>4, Boundaries
<1>5. CASE offset = 0
  BY <1>2, <1>5
<1>6. CASE offset = -1
  <2>1. PICK a \in Nat : a = k * n
    BY Multiples
  <2>2. -1 * n + x = x - n
    BY <1>2
  <2>3. a >= n
    BY <1>1, <1>2, <1>6, <2>1, <2>2
  <2>4. k # 0
    <3>1. 0 * n = 0
      OBVIOUS
    <3> QED
      BY <2>1, <2>3, <3>1
  <2>5. PICK l \in Nat : k = l + 1
    BY <2>4
  <2>6. PICK b \in Nat : b = l * n /\ (l + 1) * n = b + n
    BY Multiples
  <2>7. x - n = HEADER + b
    BY <1>1, <1>2, <2>1, <2>5, <2>6
  <2>8. Boundary(n, x - n)
    BY <2>6, <2>7 DEF Boundary
  <2>9. offset * n + x = x - n
    BY <1>6, <2>2
  <2> QED
    BY <2>8, <2>9
<1> QED
  BY <1>3, <1>4, <1>5, <1>6

(* A file left by an earlier program is made of records.                   *)
LEMMA FoundFilled ==
  ASSUME NEW n \in Inds, NEW s \in AtFirst
  PROVE  Filled(FileOf(n, s), n)
<1>1. PICK l \in Nat, m \in Nat, c \in Seq(Cell) :
        /\ n \in Nat \ {0} /\ l = Len(s) /\ m = l * n /\ c = FileOf(n, s) /\ Len(c) = HEADER + m
        /\ \A i \in 1 .. m :
             /\ ((i - 1) \div n) + 1 \in 1 .. l /\ s[((i - 1) \div n) + 1] \in Values
             /\ c[HEADER + i] = <<s[((i - 1) \div n) + 1], ((i - 1) % n) + 1>>
  BY FoundCells
<1>2. Boundary(n, Len(c))
  BY <1>1 DEF Boundary
<1>3. ASSUME NEW x \in Nat, Boundary(n, x), x < Len(c)
      PROVE  Shaped(c, n, x)
  <2>1. PICK k \in Nat, a \in Nat : a = k * n /\ x = HEADER + a
    BY <1>1, <1>3, Multiples DEF Boundary
  <2>2. x + n <= Len(c) /\ HEADER \in Nat
    BY <1>1, <1>2, <1>3, Boundaries, FicindexAssumption
  <2>3. ASSUME NEW j \in 1 .. n
        PROVE  /\ a + j \in 1 .. m /\ HEADER + (a + j) = x + j
               /\ ((a + j - 1) \div n) = k /\ ((a + j - 1) % n) = j - 1
    <3>1. a + j \in 1 .. m /\ HEADER + (a + j) = x + j
      <4>1. n \in Nat /\ Len(c) = HEADER + m
        BY <1>1
      <4>2. j \in Int /\ 1 <= j /\ j <= n
        BY <4>1
      <4>3. a + n <= m
        BY <2>1, <2>2, <4>1
      <4> QED
        BY <2>1, <2>2, <4>1, <4>2, <4>3
    <3>2. PICK i \in 0 .. n - 1 : i = j - 1
      BY <1>1
    <3>3. (k * n + i) \div n = k /\ (k * n + i) % n = i
      BY <1>1, Quotient
    <3>4. a + j - 1 = k * n + i
      BY <2>1, <3>2
    <3> QED
      BY <3>1, <3>2, <3>3, <3>4
  <2>4. PICK v : v = s[k + 1]
    OBVIOUS
  <2>5. v \in Values
    <3>1. 1 \in 1 .. n
      BY <1>1
    <3>2. a + 1 \in 1 .. m /\ ((a + 1 - 1) \div n) = k
      BY <2>3, <3>1
    <3> QED
      BY <1>1, <2>4, <3>2
  <2>6. \A j \in 1 .. n : c[x + j] = <<v, j>>
    <3> SUFFICES ASSUME NEW j \in 1 .. n PROVE c[x + j] = <<v, j>>
      OBVIOUS
    <3>1. /\ a + j \in 1 .. m /\ HEADER + (a + j) = x + j
          /\ ((a + j - 1) \div n) = k /\ ((a + j - 1) % n) = j - 1
      BY <2>3
    <3>2. c[HEADER + (a + j)] = <<s[((a + j - 1) \div n) + 1], ((a + j - 1) % n) + 1>>
      BY <1>1, <3>1
    <3>3. (j - 1) + 1 = j
      OBVIOUS
    <3> QED
      BY <2>4, <3>1, <3>2, <3>3
  <2>7. \A j \in 1 .. n : c[x + j] = IF j <= n THEN <<v, j>> ELSE Junk
    BY <2>6
  <2> QED
    BY <2>5, <2>7 DEF Shaped
<1> QED
  BY <1>1, <1>2, <1>3 DEF Filled

(* A record written between two records leaves a file made of records.     *)
LEMMA PutFilled ==
  ASSUME NEW n \in Nat \ {0}, NEW c \in Seq(Cell), Filled(c, n),
         NEW pos \in Nat, Boundary(n, pos), pos <= Len(c),
         NEW s \in Seq(Cell), Len(s) = n, Shaped(s, n, 0)
  PROVE  /\ Filled(WriteAt(c, pos, s), n)
         /\ Len(WriteAt(c, pos, s)) >= Len(c) /\ pos + n <= Len(WriteAt(c, pos, s))
<1>1. PICK new : new = WriteAt(c, pos, s)
  OBVIOUS
<1>2. /\ new \in Seq(Cell)
      /\ Len(new) = IF pos + n > Len(c) THEN pos + n ELSE Len(c)
      /\ \A k \in 1 .. n : new[pos + k] = s[k]
      /\ \A k \in 1 .. Len(c) : k <= pos \/ k > pos + n => new[k] = c[k]
  <2>1. \A r \in Seq(Cell) :
          /\ WriteAt(c, pos, r) \in Seq(Cell)
          /\ Len(WriteAt(c, pos, r)) = IF pos + Len(r) > Len(c) THEN pos + Len(r) ELSE Len(c)
          /\ \A k \in 1 .. Len(r) : WriteAt(c, pos, r)[pos + k] = r[k]
          /\ \A k \in 1 .. Len(c) : k <= pos \/ k > pos + Len(r) => WriteAt(c, pos, r)[k] = c[k]
    BY WriteCells
  <2> QED
    BY <1>1, <2>1
<1>3. Len(c) \in Nat /\ Boundary(n, Len(c)) /\ Boundary(n, pos + n)
  BY Boundaries DEF Filled
<1>4. Boundary(n, Len(new)) /\ Len(new) >= Len(c) /\ pos + n <= Len(new)
  BY <1>2, <1>3
<1>5. ASSUME NEW x \in Nat, Boundary(n, x), x < Len(new)
      PROVE  Shaped(new, n, x)
  <2>1. CASE x = pos
    <3>1. PICK v \in Values, m \in Inds : \A j \in 1 .. n : s[0 + j] = IF j <= m THEN <<v, j>> ELSE Junk
      BY DEF Shaped
    <3>2. \A j \in 1 .. n : 0 + j = j
      OBVIOUS
    <3>3. \A j \in 1 .. n : new[x + j] = IF j <= m THEN <<v, j>> ELSE Junk
      BY <1>2, <2>1, <3>1, <3>2
    <3> QED
      BY <3>3 DEF Shaped
  <2>2. CASE x # pos
    <3>1. (x < pos => x + n <= pos) /\ (pos < x => pos + n <= x)
      BY <1>5, Boundaries
    <3>2. x < Len(c)
      BY <1>2, <1>3, <1>5, <2>2, <3>1
    <3>3. x + n <= Len(c)
      BY <1>3, <1>5, <3>2, Boundaries
    <3>4. PICK v \in Values, m \in Inds : \A j \in 1 .. n : c[x + j] = IF j <= m THEN <<v, j>> ELSE Junk
      BY <1>5, <3>2 DEF Filled, Shaped
    <3>5. \A j \in 1 .. n : x + j \in 1 .. Len(c) /\ (x + j <= pos \/ x + j > pos + n)
      BY <1>3, <2>2, <3>1, <3>3
    <3>6. \A j \in 1 .. n : new[x + j] = c[x + j]
      BY <1>2, <3>5
    <3> QED
      BY <3>4, <3>6 DEF Shaped
  <2> QED
    BY <2>1, <2>2
<1> QED
  BY <1>1, <1>4, <1>5 DEF Filled

(* A read between two records returns the next one, or nothing at the end. *)
LEMMA ReadFilled ==
  ASSUME NEW n \in Nat \ {0}, NEW c \in Seq(Cell), Filled(c, n),
         NEW pos \in Nat, Boundary(n, pos), pos <= Len(c)
  PROVE  \/ pos = Len(c) /\ ReadAt(c, pos, n) = <<>>
         \/ /\ pos + n <= Len(c) /\ Boundary(n, pos + n)
            /\ ReadAt(c, pos, n) \in Seq(Cell) /\ Len(ReadAt(c, pos, n)) = n
            /\ Shaped(ReadAt(c, pos, n), n, 0)
<1>1. Len(c) \in Nat /\ Boundary(n, Len(c))
  BY DEF Filled
<1>2. CASE pos = Len(c)
  BY <1>1, <1>2, ReadCells
<1>3. CASE pos < Len(c)
  <2>1. pos + n <= Len(c) /\ Boundary(n, pos + n)
    BY <1>1, <1>3, Boundaries
  <2>2. PICK r : r = ReadAt(c, pos, n)
    OBVIOUS
  <2>3. /\ r \in Seq(Cell) /\ Len(r) = n
        /\ \A k \in 1 .. n : r[k] = c[pos + k]
    BY <2>1, <2>2, ReadCells
  <2>4. PICK v \in Values, m \in Inds : \A j \in 1 .. n : c[pos + j] = IF j <= m THEN <<v, j>> ELSE Junk
    BY <1>3 DEF Filled, Shaped
  <2>5. \A j \in 1 .. n : r[0 + j] = IF j <= m THEN <<v, j>> ELSE Junk
    <3>1. \A j \in 1 .. n : 0 + j = j
      OBVIOUS
    <3> QED
      BY <2>3, <2>4, <3>1
  <2> QED
    BY <2>1, <2>2, <2>3, <2>5 DEF Shaped
<1> QED
  BY <1>1, <1>2, <1>3
-----------------------------------------------------------------------------
(* Whole records                                                           *)

(* A file that is not mixed is made of records of the size it begins with, *)
(* and every descriptor stands between two of them.                        *)
FilesWhole ==
  \A f \in Files \ mixed : \A n \in Inds :
    content[f] # Missing /\ HasHeader(content[f], n) => Filled(content[f], n)
PlacesWhole ==
  \A p \in Procs, fd \in Fds :
    Settled(p, fd) /\ desc[p][fd].path \notin mixed =>
      Boundary(tab[p][fd], desc[p][fd].pos) /\ desc[p][fd].pos <= Len(content[desc[p][fd].path])

(* A file whose header is about to be written is empty.                    *)
Blank ==
  \A f \in Files \ mixed : \A p \in Procs :
    InHead(p, f) /\ BecomesNew(op[p]) => content[f] = <<>>

(* What a process in operation o, with descriptors d of sizes t, works on: *)
(* indxchg keeps the paths and sizes of its two files, and in its buffer,  *)
(* once read, a record followed by junk.                                   *)
WorkOf(o, d, t, m) ==
  /\ o.step = "search" => t[o.fd] # Unset
  /\ o.step \in {"open", "head"} /\ o.for.caller = "new" =>
       d[o.for.old].path = o.for.from /\ t[o.for.old] = o.for.oldind
  /\ o.step = "head" /\ o.for.caller = "new" => o.for.old # o.ind[1]
  /\ o.step \in {"read", "write"} =>
       /\ d[o.old].path = o.from /\ d[o.new].path = o.to
       /\ t[o.old] = o.oldind /\ t[o.new] = o.newind
       /\ o.from \notin m => \A j \in 1 .. Len(o.mot) : j > o.oldind => o.mot[j] = Junk
  /\ o.step = "write" /\ o.from \notin m => Shaped(o.mot, o.newind, 0)

Works == \A p \in Procs : WorkOf(op[p], desc[p], tab[p], mixed)

RInv == FilesWhole /\ PlacesWhole /\ Blank /\ Works /\ WholeRecords

(* What is known of a descriptor on a file that is not mixed.              *)
LEMMA OnRecord ==
  ASSUME IInv, FilesWhole, PlacesWhole, NEW p \in Procs, NEW fd \in Fds, Settled(p, fd),
         desc[p][fd].path \notin mixed
  PROVE  /\ tab[p][fd] \in Inds /\ tab[p][fd] \in Nat \ {0}
         /\ desc[p][fd].path \in Files /\ content[desc[p][fd].path] \in Seq(Cell)
         /\ desc[p][fd].pos \in Nat
         /\ HasHeader(content[desc[p][fd].path], tab[p][fd])
         /\ Filled(content[desc[p][fd].path], tab[p][fd])
         /\ Boundary(tab[p][fd], desc[p][fd].pos)
         /\ desc[p][fd].pos <= Len(content[desc[p][fd].path])
<1>1. /\ desc[p][fd].path \in Files /\ content[desc[p][fd].path] \in Seq(Cell)
      /\ content[desc[p][fd].path] # Missing /\ desc[p][fd].pos \in Nat
  BY FileCells DEF IInv, TypeOK, Shared, Present, Settled, IsOpen, Descriptor
<1>2. HasHeader(content[desc[p][fd].path], tab[p][fd])
  BY DEF IInv, Shared, Known
<1>3. tab[p][fd] # Unset
  <2>1. HEADER \in Nat \ {0}
    BY FicindexAssumption
  <2>2. /\ Len(content[desc[p][fd].path]) >= HEADER
        /\ \A k \in 1 .. HEADER : content[desc[p][fd].path][k] = <<"ind", tab[p][fd]>>
    BY <1>1, <1>2, HeaderCells
  <2>3. <<"ind", tab[p][fd]>> \in Cell
    <3>1. PICK c \in Seq(Cell) : c = content[desc[p][fd].path]
      BY <1>1
    <3>2. 1 \in 1 .. HEADER /\ 1 \in 1 .. Len(c)
      BY <2>1, <2>2, <3>1
    <3> QED
      BY <2>2, <3>1, <3>2
  <2>4. <<"ind", tab[p][fd]>>[1] = "ind" /\ Junk[1] = "junk"
    BY DEF Junk
  <2>5. tab[p][fd] \in Nat
    BY <2>3, <2>4 DEF Cell, Junk
  <2> QED
    BY <2>5 DEF Unset
<1>4. tab[p][fd] \in Inds
  BY <1>3 DEF IInv, TypeOK
<1> QED
  BY <1>1, <1>2, <1>4, FicindexAssumption DEF FilesWhole, PlacesWhole

(* A step that leaves a file as it is, or made of records, and each        *)
(* descriptor as it is, or between two records.                            *)
LEMMA ShapeKept ==
  ASSUME IInv, IInv', FilesWhole, PlacesWhole, mixed \subseteq mixed',
         \A f \in Files \ mixed' :
           \/ content'[f] = content[f]
           \/ \A n \in Inds : HasHeader(content'[f], n) => Filled(content'[f], n),
         \A q \in Procs, x \in Fds : \A f \in Files \ mixed' :
           Settled(q, x)' /\ desc'[q][x].path = f =>
             \/ /\ Settled(q, x) /\ desc'[q][x] = desc[q][x] /\ tab'[q][x] = tab[q][x]
                /\ \/ content'[f] = content[f]
                   \/ Len(content'[f]) >= Len(content[f])
             \/ Boundary(tab'[q][x], desc'[q][x].pos) /\ desc'[q][x].pos <= Len(content'[f])
  PROVE  FilesWhole' /\ PlacesWhole'
<1>1. FilesWhole'
  BY DEF FilesWhole
<1>2. PlacesWhole'
  <2> SUFFICES ASSUME NEW q \in Procs, NEW x \in Fds, Settled(q, x)', desc'[q][x].path \notin mixed'
               PROVE  /\ Boundary(tab'[q][x], desc'[q][x].pos)
                      /\ desc'[q][x].pos <= Len(content'[desc'[q][x].path])
    BY DEF PlacesWhole
  <2>1. PICK f \in Files : f = desc'[q][x].path
    BY DEF IInv, TypeOK, Settled, IsOpen, Descriptor
  <2>2. CASE Boundary(tab'[q][x], desc'[q][x].pos) /\ desc'[q][x].pos <= Len(content'[f])
    BY <2>1, <2>2
  <2>3. CASE /\ Settled(q, x) /\ desc'[q][x] = desc[q][x] /\ tab'[q][x] = tab[q][x]
             /\ \/ content'[f] = content[f]
                \/ Len(content'[f]) >= Len(content[f])
    <3>1. f \notin mixed /\ desc[q][x].path = f
      BY <2>1, <2>3
    <3>2. /\ Boundary(tab[q][x], desc[q][x].pos) /\ desc[q][x].pos <= Len(content[f])
          /\ content[f] \in Seq(Cell) /\ desc[q][x].pos \in Nat
      BY <2>3, <3>1, OnRecord
    <3>3. content'[f] \in Seq(Cell)
      <4>1. content'[f] # Missing
        BY <2>1 DEF IInv, Shared, Present, Settled
      <4> QED
        BY <4>1 DEF IInv, TypeOK
    <3>4. desc[q][x].pos <= Len(content'[f])
      BY <2>3, <3>2, <3>3
    <3> QED
      BY <2>1, <2>3, <3>2, <3>4
  <2> QED
    BY <2>1, <2>2, <2>3
<1> QED
  BY <1>1, <1>2

(* The other processes work on what they worked on.                        *)
LEMMA WorksKept ==
  ASSUME Works, NEW p \in Procs, WorkOf(op'[p], desc'[p], tab'[p], mixed'), mixed \subseteq mixed',
         \A q \in Procs : q # p => op'[q] = op[q] /\ desc'[q] = desc[q] /\ tab'[q] = tab[q]
  PROVE  Works'
BY DEF Works, WorkOf

(* A step that reads nothing.                                              *)
LEMMA LastKept == WholeRecords /\ mixed \subseteq mixed' /\ last' = last => WholeRecords'
BY DEF WholeRecords

(* The end of a record as read is that of a record written in full.        *)
LEMMA ShapedFit ==
  ASSUME NEW n \in Nat, NEW r \in Seq(Cell), Len(r) = n, Shaped(r, n, 0)
  PROVE  \E v \in Values, m \in Inds : r = Fit(Record(v, m), n)
<1>1. PICK v \in Values, m \in Inds : \A j \in 1 .. n : r[0 + j] = IF j <= m THEN <<v, j>> ELSE Junk
  BY DEF Shaped
<1>2. m \in Nat
  BY FicindexAssumption
<1>3. /\ Record(v, m) \in Seq(Cell) /\ Len(Record(v, m)) = m
      /\ \A k \in 1 .. m : Record(v, m)[k] = <<v, k>>
  BY <1>2, RecordType
<1>4. PICK s \in Seq(Cell) : s = Record(v, m)
  BY <1>3
<1>5. /\ Fit(s, n) \in Seq(Cell) /\ Len(Fit(s, n)) = n
      /\ \A k \in 1 .. n : Fit(s, n)[k] = IF k <= Len(s) THEN s[k] ELSE Junk
  BY FitCells
<1>6. \A k \in 1 .. n : 0 + k = k /\ (k <= m => k \in 1 .. m)
  BY <1>2
<1>7. \A k \in 1 .. n : r[k] = Fit(s, n)[k]
  BY <1>1, <1>3, <1>4, <1>5, <1>6
<1>8. r = Fit(s, n)
  BY <1>5, <1>7, SeqEqual
<1> QED
  BY <1>4, <1>8

(* Nobody begins to wait for an empty file, and no such file is written.   *)
LEMMA BlankKept ==
  ASSUME Blank, mixed \subseteq mixed',
         \A q \in Procs, f \in Files \ mixed' : InHead(q, f)' /\ BecomesNew(op'[q]) =>
           InHead(q, f) /\ BecomesNew(op[q]) /\ content'[f] = content[f]
  PROVE  Blank'
<1> SUFFICES ASSUME NEW f \in Files \ mixed', NEW q \in Procs, InHead(q, f)', BecomesNew(op'[q])
             PROVE  content'[f] = <<>>
  BY DEF Blank
<1> QED
  BY DEF Blank

(* A process that is not opening a file leaves the others where they are.  *)
Aside(p) ==
  /\ op[p].step \notin {"open", "head"} /\ op'[p].step \notin {"open", "head"}
  /\ \A q \in Procs : q # p => op'[q] = op[q] /\ desc'[q] = desc[q]
  /\ tab' = tab /\ mixed \subseteq mixed'

LEMMA AsideHeads ==
  ASSUME NEW p \in Procs, Aside(p)
  PROVE  \A q \in Procs, f \in Files : (InHead(q, f)' <=> InHead(q, f)) /\ (InHead(q, f) => op'[q] = op[q])
BY DEF Aside, InHead

LEMMA AsideSettled ==
  ASSUME NEW p \in Procs, Aside(p)
  PROVE  /\ \A q \in Procs, x \in Fds : q # p /\ Settled(q, x)' =>
              Settled(q, x) /\ desc'[q][x] = desc[q][x] /\ tab'[q][x] = tab[q][x]
         /\ \A x \in Fds : Settled(p, x) <=> IsOpen(p, x)
         /\ \A x \in Fds : Settled(p, x)' <=> desc'[p][x] # Closed
<1>1. \A q \in Procs, x \in Fds : q # p /\ Settled(q, x)' =>
        Settled(q, x) /\ desc'[q][x] = desc[q][x] /\ tab'[q][x] = tab[q][x]
  BY DEF Aside, Settled, IsOpen
<1>2. \A x \in Fds : Settled(p, x) <=> IsOpen(p, x)
  BY DEF Aside, Settled
<1>3. \A x \in Fds : Settled(p, x)' <=> desc'[p][x] # Closed
  BY DEF Aside, Settled, IsOpen
<1> QED
  BY <1>1, <1>2, <1>3

(* indread, indsearch and indxchg read one whole record, or nothing.       *)
LEMMA ConsumeRecord ==
  ASSUME IInv, RInv, IInv', NEW p \in Procs, NEW fd \in Fds, IsOpen(p, fd), Consume(p, fd),
         Aside(p), content' = content, mixed' = mixed
  PROVE  /\ FilesWhole' /\ PlacesWhole' /\ Blank' /\ WholeRecords'
         /\ \A x \in Fds : desc'[p][x].path = desc[p][x].path
         /\ desc[p][fd].path \notin mixed =>
              \/ Next1(p, fd) = <<>>
              \/ /\ Next1(p, fd) \in Seq(Cell) /\ Len(Next1(p, fd)) = tab[p][fd]
                 /\ Shaped(Next1(p, fd), tab[p][fd], 0)
<1>1. PICK f, n, c, at :
        f \in Files /\ f = desc[p][fd].path /\ n = tab[p][fd] /\ c = content[f] /\ at = desc[p][fd].pos
  BY DEF IInv, TypeOK, IsOpen, Descriptor
<1>2. PICK r : r = Next1(p, fd) /\ r = ReadAt(c, at, n)
  BY <1>1 DEF Next1
<1>3. PICK pos \in Nat : MoveTo(p, fd, pos)
  BY ConsumeMoves
<1>4. /\ desc'[p][fd].path = f /\ desc'[p][fd].pos = pos
      /\ \A q \in Procs, x \in Fds : q # p \/ x # fd => desc'[q][x] = desc[q][x]
  BY <1>1, <1>3, Moved DEF IInv
<1>5. desc' = [desc EXCEPT ![p][fd].pos = @ + Len(r)] /\ last' = [path |-> f, ind |-> n, cells |-> r]
  BY <1>1, <1>2 DEF Consume
<1>6. pos = at + Len(r)
  <2>1. desc'[p][fd].pos = desc[p][fd].pos + Len(r)
    <3>1. desc[p][fd] \in Descriptor
      BY DEF IInv, TypeOK, IsOpen
    <3>2. "pos" \in DOMAIN desc[p][fd]
      BY <3>1 DEF Descriptor
    <3> QED
      BY <1>5, <3>2 DEF IInv, TypeOK
  <2> QED
    BY <1>1, <1>4, <2>1
<1>7. tab' = tab /\ Settled(p, fd)
  BY AsideSettled DEF Aside
<1>8. ASSUME f \notin mixed
      PROVE  /\ n \in Inds /\ n \in Nat \ {0}
             /\ Boundary(n, pos) /\ pos <= Len(c)
             /\ \/ r = <<>>
                \/ r \in Seq(Cell) /\ Len(r) = n /\ Shaped(r, n, 0)
  <2>1. /\ n \in Inds /\ n \in Nat \ {0} /\ c \in Seq(Cell) /\ at \in Nat
        /\ Filled(c, n) /\ Boundary(n, at) /\ at <= Len(c)
    BY <1>1, <1>7, <1>8, OnRecord DEF RInv
  <2>2. \/ at = Len(c) /\ r = <<>>
        \/ /\ at + n <= Len(c) /\ Boundary(n, at + n)
           /\ r \in Seq(Cell) /\ Len(r) = n
           /\ Shaped(r, n, 0)
    BY <1>2, <2>1, ReadFilled
  <2>3. CASE at = Len(c) /\ r = <<>>
    <3>1. Len(r) = 0 /\ at + 0 = at
      BY <2>1, <2>3
    <3> QED
      BY <1>6, <2>1, <2>3, <3>1
  <2>4. CASE /\ at + n <= Len(c) /\ Boundary(n, at + n)
             /\ r \in Seq(Cell) /\ Len(r) = n
             /\ Shaped(r, n, 0)
    BY <1>6, <2>1, <2>4
  <2> QED
    BY <2>2, <2>3, <2>4
<1>9. FilesWhole' /\ PlacesWhole'
  <2>1. ASSUME NEW q \in Procs, NEW x \in Fds, NEW g \in Files \ mixed', Settled(q, x)', desc'[q][x].path = g
        PROVE  \/ /\ Settled(q, x) /\ desc'[q][x] = desc[q][x] /\ tab'[q][x] = tab[q][x]
                  /\ \/ content'[g] = content[g]
                     \/ Len(content'[g]) >= Len(content[g])
               \/ Boundary(tab'[q][x], desc'[q][x].pos) /\ desc'[q][x].pos <= Len(content'[g])
    <3>1. CASE q = p /\ x = fd
      BY <1>1, <1>4, <1>7, <1>8, <2>1, <3>1
    <3>2. CASE q = p /\ x # fd
      <4>1. desc'[q][x] = desc[q][x] /\ Settled(q, x)
        BY <1>4, <2>1, <3>2, AsideSettled DEF IsOpen
      <4> QED
        BY <1>7, <4>1
    <3>3. CASE q # p
      BY <2>1, <3>3, AsideSettled
    <3> QED
      BY <3>1, <3>2, <3>3
  <2> QED
    BY <2>1, ShapeKept DEF RInv, Aside
<1>10. Blank'
  BY AsideHeads, BlankKept DEF RInv, Aside
<1>11. WholeRecords'
  <2>1. last'.path = f /\ last'.ind = n /\ last'.cells = r
    BY <1>5
  <2>2. f \notin mixed /\ r # <<>> => \E v \in Values, m \in Inds : r = Fit(Record(v, m), n)
    BY <1>8, ShapedFit
  <2> QED
    BY <2>1, <2>2 DEF WholeRecords
<1> QED
  BY <1>1, <1>2, <1>4, <1>8, <1>9, <1>10, <1>11

LEMMA ReadWhole ==
  ASSUME IInv, RInv, IInv', NEW p \in Procs, indread(p)
  PROVE  RInv'
<1>1. PICK fd \in Fds : Use(p, fd, {"R", "RW"}) /\ Consume(p, fd)
  BY DEF indread
<1>2. UNCHANGED <<content, tab, op, mixed>>
  BY DEF indread
<1>3. op[p] = Idle /\ op[p].step = "idle" /\ IsOpen(p, fd)
  BY <1>1 DEF Use, Call, Idle, Free, IsOpen
<1>4. PICK pos \in Nat : MoveTo(p, fd, pos)
  BY <1>1, <1>3, ConsumeMoves
<1>5. \A q \in Procs : q # p => desc'[q] = desc[q]
  BY <1>3, <1>4, Moved DEF IInv
<1>6. Aside(p)
  BY <1>2, <1>3, <1>5 DEF Aside
<1>7. FilesWhole' /\ PlacesWhole' /\ Blank' /\ WholeRecords'
  BY <1>1, <1>2, <1>3, <1>6, ConsumeRecord
<1>8. WorkOf(op'[p], desc'[p], tab'[p], mixed')
  BY <1>2, <1>3 DEF WorkOf
<1>9. Works'
  BY <1>6, <1>8, WorksKept DEF RInv, Aside
<1> QED
  BY <1>7, <1>9 DEF RInv

LEMMA SearchWhole ==
  ASSUME IInv, RInv, IInv', NEW p \in Procs, Search(p)
  PROVE  RInv'
<1>1. PICK fd : fd = op[p].fd
  OBVIOUS
<1>2. /\ op[p].step = "search" /\ Consume(p, fd) /\ op' \in {op, [op EXCEPT ![p] = Idle]}
      /\ UNCHANGED <<content, tab, mixed>>
  BY <1>1 DEF Search
<1>3. fd \in Fds /\ IsOpen(p, fd)
  BY <1>1, <1>2, Steps DEF IInv, Holding, Searches
<1>4. PICK pos \in Nat : MoveTo(p, fd, pos)
  BY <1>2, <1>3, ConsumeMoves
<1>5. \A q \in Procs : q # p => desc'[q] = desc[q]
  BY <1>3, <1>4, Moved DEF IInv
<1>6. op'[p] \in {Idle, op[p]} /\ \A q \in Procs : q # p => op'[q] = op[q]
  BY <1>2 DEF IInv, TypeOK
<1>7. Idle.step = "idle"
  BY DEF Idle
<1>8. Aside(p)
  BY <1>2, <1>5, <1>6, <1>7 DEF Aside
<1>9. FilesWhole' /\ PlacesWhole' /\ Blank' /\ WholeRecords'
  BY <1>2, <1>3, <1>8, ConsumeRecord
<1>10. WorkOf(op[p], desc[p], tab[p], mixed)
  BY DEF RInv, Works
<1>11. WorkOf(op'[p], desc'[p], tab'[p], mixed')
  BY <1>2, <1>6, <1>7, <1>10 DEF WorkOf
<1>12. Works'
  BY <1>8, <1>11, WorksKept DEF RInv, Aside
<1> QED
  BY <1>9, <1>12 DEF RInv

(* A step that changes neither the files nor the descriptors.              *)
LEMMA CallWhole ==
  ASSUME IInv, RInv, IInv', NEW p \in Procs, NEW o, op' = [op EXCEPT ![p] = o],
         op[p].step # "head", o.step # "head",
         UNCHANGED <<content, desc, tab, last, mixed>>,
         WorkOf(o, desc[p], tab[p], mixed)
  PROVE  RInv'
<1>1. op'[p] = o /\ \A q \in Procs : q # p => op'[q] = op[q]
  BY DEF IInv, TypeOK
<1>2. \A q \in Procs, f \in Files : InHead(q, f)' => InHead(q, f) /\ op'[q] = op[q]
  BY <1>1 DEF InHead
<1>3. \A q \in Procs, x \in Fds : Settled(q, x)' => Settled(q, x)
  BY <1>1 DEF Settled, IsOpen
<1>4. FilesWhole' /\ PlacesWhole'
  BY <1>3 DEF RInv, FilesWhole, PlacesWhole
<1>5. Blank'
  BY <1>2, BlankKept DEF RInv
<1>6. Works'
  BY <1>1, WorksKept DEF RInv
<1> QED
  BY <1>4, <1>5, <1>6, LastKept DEF RInv

LEMMA BeginWhole ==
  ASSUME IInv, RInv, IInv', NEW p \in Procs,
         indopen(p) \/ indxchg(p) \/ OpenFails(p) \/ indsearch(p)
  PROVE  RInv'
<1>1. UNCHANGED <<content, desc, tab, last, mixed>> /\ op[p].step \in {"idle", "open"}
  BY DEF indopen, indxchg, OpenFails, indsearch, Use, Call, Idle
<1>2. ASSUME NEW o, op' = [op EXCEPT ![p] = o], o.step = "open", o.for.caller # "new"
      PROVE  RInv'
  <2>1. WorkOf(o, desc[p], tab[p], mixed)
    BY <1>2 DEF WorkOf
  <2>2. op[p].step # "head" /\ o.step # "head"
    BY <1>1, <1>2
  <2> QED
    BY <1>1, <1>2, <2>1, <2>2, CallWhole
<1>3. CASE indopen(p)
  <2>1. PICK f \in Files, flags \in Flags, ind \in Inds :
          op' = [op EXCEPT ![p] = OpenOf(f, flags, ind, [caller |-> "program"])]
    BY <1>3 DEF indopen
  <2>2. PICK o : o = OpenOf(f, flags, ind, [caller |-> "program"])
    OBVIOUS
  <2>3. o.step = "open" /\ o.for.caller = "program"
    BY <2>2 DEF OpenOf
  <2> QED
    BY <1>2, <2>1, <2>2, <2>3
<1>4. CASE indxchg(p)
  <2>1. PICK from \in Files, to \in Files, newind \in Inds, any \in Inds :
          op' = [op EXCEPT ![p] =
                   OpenOf(from, ReadOnly, any, [caller |-> "old", to |-> to, newind |-> newind])]
    BY <1>4 DEF indxchg
  <2>2. PICK o : o = OpenOf(from, ReadOnly, any, [caller |-> "old", to |-> to, newind |-> newind])
    OBVIOUS
  <2>3. o.step = "open" /\ o.for.caller = "old"
    BY <2>2 DEF OpenOf
  <2> QED
    BY <1>2, <2>1, <2>2, <2>3
<1>5. CASE OpenFails(p)
  <2>1. op' = [op EXCEPT ![p] = Idle] /\ Idle.step = "idle"
    BY <1>5 DEF OpenFails, Idle
  <2>2. WorkOf(Idle, desc[p], tab[p], mixed)
    BY <2>1 DEF WorkOf
  <2> QED
    BY <1>1, <2>1, <2>2, CallWhole
<1>6. CASE indsearch(p)
  <2>1. PICK fd \in Fds, key \in Values :
          /\ tab[p][fd] # Unset
          /\ op' = [op EXCEPT ![p] = [step |-> "search", fd |-> fd, key |-> key]]
    BY <1>6 DEF indsearch, Use
  <2>2. PICK o : o = [step |-> "search", fd |-> fd, key |-> key]
    OBVIOUS
  <2>3. o.step = "search" /\ o.fd = fd
    BY <2>2
  <2>4. WorkOf(o, desc[p], tab[p], mixed)
    BY <2>1, <2>3 DEF WorkOf
  <2> QED
    BY <1>1, <2>1, <2>2, <2>3, <2>4, CallWhole
<1> QED
  BY <1>3, <1>4, <1>5, <1>6

(* indlseek goes from a boundary to another one, or mixes the file.        *)
LEMMA SeekWhole ==
  ASSUME IInv, RInv, IInv', NEW p \in Procs, indlseek(p)
  PROVE  RInv'
<1>1. PICK fd \in Fds, whence \in {"SET", "CUR", "END"}, offset \in -1 .. 1 :
        LET f == desc[p][fd].path
            to == Target(whence, offset, tab[p][fd], desc[p][fd].pos, Len(content[f]))
        IN  /\ Use(p, fd, {"R", "W", "RW"})
            /\ to \in 0 .. Len(content[f])
            /\ desc' = [desc EXCEPT ![p][fd].pos = to]
            /\ Mix(f, IF whence = "SET" THEN offset < 0 ELSE to < HEADER)
  BY DEF indlseek
<1>2. PICK f : f = desc[p][fd].path
  OBVIOUS
<1>3. PICK to : to = Target(whence, offset, tab[p][fd], desc[p][fd].pos, Len(content[f]))
  OBVIOUS
<1>4. /\ Use(p, fd, {"R", "W", "RW"})
      /\ to \in 0 .. Len(content[f])
      /\ MoveTo(p, fd, to)
      /\ mixed' = IF (IF whence = "SET" THEN offset < 0 ELSE to < HEADER) THEN mixed \cup {f} ELSE mixed
  BY <1>1, <1>2, <1>3 DEF Mix, MoveTo
<1>5. UNCHANGED <<content, tab, op, last>> /\ mixed \subseteq mixed'
  BY <1>4 DEF indlseek
<1>6. op[p] = Idle /\ op[p].step = "idle" /\ IsOpen(p, fd)
  BY <1>4 DEF Use, Call, Idle, Free, IsOpen
<1>7. PICK c \in Seq(Cell) : c = content[f]
  BY <1>2, <1>6 DEF IInv, TypeOK, Shared, Present, IsOpen, Descriptor
<1>8. to \in Nat /\ Len(c) \in Nat /\ HEADER \in Nat
  BY <1>4, <1>7, FicindexAssumption
<1>9. /\ desc'[p][fd].path = f /\ desc'[p][fd].pos = to
      /\ \A q \in Procs, x \in Fds : q # p \/ x # fd => desc'[q][x] = desc[q][x]
      /\ \A q \in Procs : q # p => desc'[q] = desc[q]
  BY <1>2, <1>4, <1>6, <1>8, Moved DEF IInv
<1>10. Aside(p)
  BY <1>5, <1>6, <1>9 DEF Aside
<1>11. ASSUME f \notin mixed'
       PROVE  Boundary(tab[p][fd], to) /\ to <= Len(c)
  <2>1. Settled(p, fd) /\ f \notin mixed
    BY <1>5, <1>6, <1>10, <1>11, AsideSettled
  <2>2. PICK n \in Nat \ {0}, at \in Nat : n = tab[p][fd] /\ at = desc[p][fd].pos
    BY <1>2, <2>1, OnRecord DEF RInv
  <2>3. Boundary(n, at) /\ Filled(c, n)
    BY <1>2, <1>7, <2>1, <2>2, OnRecord DEF RInv
  <2>4. ~(IF whence = "SET" THEN offset < 0 ELSE to < HEADER)
    BY <1>4, <1>11
  <2>5. CASE whence = "SET"
    <3>1. to = offset * n + HEADER
      BY <1>3, <2>2, <2>5 DEF Target
    <3>2. offset \in {0, 1} /\ 0 * n = 0 /\ 1 * n = n
      BY <2>2, <2>4, <2>5
    <3>3. offset * n + HEADER >= HEADER
      BY <1>8, <2>2, <3>2
    <3>4. Boundary(n, to)
      <4>1. PICK m \in Int : m = n
        BY <2>2
      <4>2. Boundary(n, HEADER)
        BY <4>1, FirstBoundary
      <4> QED
        BY <2>2, <3>1, <3>3, <4>2, Neighbours
    <3> QED
      BY <1>4, <1>7, <1>8, <2>2, <3>4
  <2>6. CASE whence = "CUR"
    <3>1. to = offset * n + at
      BY <1>3, <2>2, <2>6 DEF Target
    <3>2. offset * n + at >= HEADER
      BY <1>8, <2>4, <2>6, <3>1
    <3>3. Boundary(n, to)
      BY <2>2, <2>3, <3>1, <3>2, Neighbours
    <3> QED
      BY <1>4, <1>7, <1>8, <2>2, <3>3
  <2>7. CASE whence = "END"
    <3>1. to = offset * n + Len(c)
      BY <1>3, <1>7, <2>2, <2>7 DEF Target
    <3>2. offset * n + Len(c) >= HEADER
      BY <1>8, <2>4, <2>7, <3>1
    <3>3. Boundary(n, to)
      BY <2>2, <2>3, <3>1, <3>2, Neighbours DEF Filled
    <3> QED
      BY <1>4, <1>7, <1>8, <2>2, <3>3
  <2> QED
    BY <2>5, <2>6, <2>7
<1>12. FilesWhole' /\ PlacesWhole'
  <2>1. ASSUME NEW q \in Procs, NEW x \in Fds, NEW g \in Files \ mixed', Settled(q, x)', desc'[q][x].path = g
        PROVE  \/ /\ Settled(q, x) /\ desc'[q][x] = desc[q][x] /\ tab'[q][x] = tab[q][x]
                  /\ \/ content'[g] = content[g]
                     \/ Len(content'[g]) >= Len(content[g])
               \/ Boundary(tab'[q][x], desc'[q][x].pos) /\ desc'[q][x].pos <= Len(content'[g])
    <3>1. CASE q = p /\ x = fd
      BY <1>5, <1>7, <1>9, <1>11, <2>1, <3>1
    <3>2. CASE q = p /\ x # fd
      <4>1. desc'[q][x] = desc[q][x] /\ Settled(q, x)
        BY <1>9, <1>10, <2>1, <3>2, AsideSettled DEF IsOpen
      <4> QED
        BY <1>5, <4>1
    <3>3. CASE q # p
      BY <1>5, <1>10, <2>1, <3>3, AsideSettled
    <3> QED
      BY <3>1, <3>2, <3>3
  <2> QED
    BY <1>5, <2>1, ShapeKept DEF RInv
<1>13. Blank'
  BY <1>5, <1>10, AsideHeads, BlankKept DEF RInv
<1>14. WorkOf(op'[p], desc'[p], tab'[p], mixed')
  BY <1>5, <1>6 DEF WorkOf
<1>15. Works'
  BY <1>10, <1>14, WorksKept DEF RInv, Aside
<1> QED
  BY <1>5, <1>12, <1>13, <1>15, LastKept DEF RInv

LEMMA CloseWhole ==
  ASSUME IInv, RInv, IInv', NEW p \in Procs, indclose(p) \/ CopyEnd(p)
  PROVE  RInv'
<1>1. UNCHANGED <<content, tab, mixed, last>> /\ op[p].step \in {"idle", "read"}
  BY DEF indclose, CopyEnd, Use, Call, Idle
<1>2. op'[p] = Idle /\ Idle.step = "idle" /\ \A q \in Procs : q # p => op'[q] = op[q]
  BY DEF indclose, CopyEnd, Use, Call, Idle, IInv, TypeOK
<1>3. /\ \A q \in Procs : q # p => desc'[q] = desc[q]
      /\ \A x \in Fds : desc'[p][x] = Closed \/ desc'[p][x] = desc[p][x]
  <2>1. CASE indclose(p)
    <3>1. PICK fd \in Fds : desc' = [desc EXCEPT ![p][fd] = Closed]
      BY <2>1 DEF indclose
    <3> QED
      BY <3>1 DEF IInv, TypeOK
  <2>2. CASE CopyEnd(p)
    BY <2>2 DEF CopyEnd, IInv, TypeOK
  <2> QED
    BY <2>1, <2>2
<1>4. Aside(p)
  BY <1>1, <1>2, <1>3 DEF Aside
<1>5. FilesWhole' /\ PlacesWhole'
  <2>1. ASSUME NEW q \in Procs, NEW x \in Fds, Settled(q, x)'
        PROVE  Settled(q, x) /\ desc'[q][x] = desc[q][x] /\ tab'[q][x] = tab[q][x]
    <3>1. CASE q = p
      BY <1>1, <1>3, <1>4, <2>1, <3>1, AsideSettled DEF IsOpen
    <3>2. CASE q # p
      BY <1>4, <2>1, <3>2, AsideSettled
    <3> QED
      BY <3>1, <3>2
  <2> QED
    BY <1>1, <2>1, ShapeKept DEF RInv
<1>6. Blank'
  BY <1>1, <1>4, AsideHeads, BlankKept DEF RInv
<1>7. WorkOf(op'[p], desc'[p], tab'[p], mixed')
  BY <1>2 DEF WorkOf
<1>8. Works'
  BY <1>4, <1>7, WorksKept DEF RInv, Aside
<1> QED
  BY <1>1, <1>5, <1>6, <1>8, LastKept DEF RInv

(* A record read over a buffer that holds junk beyond the size of the old  *)

(* records leaves there that record, cut or lengthened to any size.        *)
LEMMA BufferShape ==
  ASSUME NEW b \in Inds, NEW n \in Nat, NEW a \in Nat, a <= n,
         NEW r \in Seq(Cell), Len(r) = b, Shaped(r, b, 0),
         NEW old \in Seq(Cell), \A j \in 1 .. Len(old) : j > b => old[j] = Junk
  PROVE  LET mot == Fit(r \o SubSeq(old, b + 1, Len(old)), n)
         IN  Shaped(mot, a, 0) /\ \A j \in 1 .. Len(mot) : j > b => mot[j] = Junk
<1>1. b \in Nat /\ Len(old) \in Nat
  BY FicindexAssumption
<1>2. PICK rest : rest = SubSeq(old, b + 1, Len(old))
  OBVIOUS
<1>3. /\ rest \in Seq(Cell) /\ Len(rest) = (IF b < Len(old) THEN Len(old) - b ELSE 0)
      /\ \A k \in 1 .. Len(old) - b : rest[k] = old[b + k]
  <2>1. PICK l \in Nat, i \in Nat : l = Len(old) /\ l <= Len(old) /\ i = b
    BY <1>1
  <2>2. /\ SubSeq(old, i + 1, l) \in Seq(Cell)
        /\ Len(SubSeq(old, i + 1, l)) = IF i < l THEN l - i ELSE 0
        /\ \A k \in 1 .. l - i : SubSeq(old, i + 1, l)[k] = old[i + k]
    BY <2>1, SubSeqCells
  <2>3. rest = SubSeq(old, i + 1, l)
    BY <1>2, <2>1
  <2>4. /\ rest \in Seq(Cell) /\ Len(rest) = (IF i < l THEN l - i ELSE 0)
        /\ \A k \in 1 .. l - i : rest[k] = old[i + k]
    BY <2>2, <2>3
  <2> QED
    BY <2>1, <2>4
<1>4. PICK s : s = r \o rest
  OBVIOUS
<1>5. /\ s \in Seq(Cell) /\ Len(s) = b + Len(rest)
      /\ \A k \in 1 .. Len(s) : s[k] = IF k <= b THEN r[k] ELSE rest[k - b]
  <2>1. PICK t \in Seq(Cell) : t = rest
    BY <1>3
  <2>2. /\ r \o t \in Seq(Cell) /\ Len(r \o t) = Len(r) + Len(t)
        /\ \A k \in 1 .. Len(r) + Len(t) : (r \o t)[k] = IF k <= Len(r) THEN r[k] ELSE t[k - Len(r)]
    BY ConcatProperties
  <2>3. s = r \o t
    BY <1>4, <2>1
  <2> QED
    BY <2>1, <2>2, <2>3
<1>6. ASSUME NEW k \in 1 .. Len(s), k > b
      PROVE  s[k] = Junk
  <2>1. k - b \in 1 .. Len(old) - b /\ b + (k - b) = k /\ k \in 1 .. Len(old)
    BY <1>1, <1>3, <1>5, <1>6
  <2>2. rest[k - b] = old[k]
    BY <1>3, <2>1
  <2>3. old[k] = Junk
    BY <1>6, <2>1
  <2> QED
    BY <1>5, <1>6, <2>2, <2>3
<1>7. PICK mot : mot = Fit(s, n)
  OBVIOUS
<1>8. /\ Len(mot) = n /\ \A k \in 1 .. n : mot[k] = IF k <= Len(s) THEN s[k] ELSE Junk
  BY <1>5, <1>7, FitCells
<1>9. \A k \in 1 .. n : mot[k] = IF k <= b THEN r[k] ELSE Junk
  <2> SUFFICES ASSUME NEW k \in 1 .. n PROVE mot[k] = IF k <= b THEN r[k] ELSE Junk
    OBVIOUS
  <2>1. CASE k <= b
    <3>1. k \in 1 .. Len(s)
      BY <1>1, <1>3, <1>5, <2>1
    <3> QED
      BY <1>5, <1>8, <2>1, <3>1
  <2>2. CASE ~(k <= b) /\ k <= Len(s)
    <3>1. k \in 1 .. Len(s) /\ k > b
      BY <1>1, <2>2
    <3> QED
      BY <1>6, <1>8, <2>2, <3>1
  <2>3. CASE ~(k <= b) /\ ~(k <= Len(s))
    BY <1>8, <2>3
  <2> QED
    BY <2>1, <2>2, <2>3
<1>10. \A j \in 1 .. Len(mot) : j > b => mot[j] = Junk
  BY <1>1, <1>8, <1>9
<1>11. PICK v \in Values, m \in Inds : \A j \in 1 .. b : r[0 + j] = IF j <= m THEN <<v, j>> ELSE Junk
  BY DEF Shaped
<1>12. PICK l \in Inds : l = (IF m <= b THEN m ELSE b) /\ l <= b /\ l <= m
  <2>1. m \in Nat
    BY FicindexAssumption
  <2> QED
    BY <1>1, <2>1
<1>13. \A j \in 1 .. a : mot[0 + j] = IF j <= l THEN <<v, j>> ELSE Junk
  <2> SUFFICES ASSUME NEW j \in 1 .. a PROVE mot[0 + j] = IF j <= l THEN <<v, j>> ELSE Junk
    OBVIOUS
  <2>1. m \in Nat /\ l \in Nat
    BY FicindexAssumption
  <2>2. j \in 1 .. n /\ 0 + j = j
    OBVIOUS
  <2>3. CASE j <= b
    <3>1. r[j] = IF j <= m THEN <<v, j>> ELSE Junk
      BY <1>1, <1>11, <2>3
    <3>2. j <= m <=> j <= l
      BY <1>1, <1>12, <2>1, <2>3
    <3> QED
      BY <1>9, <2>2, <2>3, <3>1, <3>2
  <2>4. CASE ~(j <= b)
    <3>1. ~(j <= l)
      BY <1>1, <1>12, <2>1, <2>4
    <3> QED
      BY <1>9, <2>2, <2>4, <3>1
  <2> QED
    BY <2>3, <2>4
<1>14. Shaped(mot, a, 0)
  BY <1>13 DEF Shaped
<1> QED
  BY <1>2, <1>4, <1>7, <1>10, <1>14

LEMMA CopyReadWhole ==
  ASSUME IInv, RInv, IInv', NEW p \in Procs, CopyRead(p)
  PROVE  RInv'
<1>1. PICK h : h = op[p]
  OBVIOUS
<1>2. /\ h \in Reads /\ h.step = "read" /\ h.oldind # Unset /\ Consume(p, h.old)
      /\ Next1(p, h.old) # <<>>
      /\ UNCHANGED <<content, tab, mixed>>
  BY <1>1, Steps DEF IInv, CopyRead
<1>3. /\ h.old \in Fds /\ h.new \in Fds /\ h.oldind \in Inds /\ h.newind \in Inds /\ h.mot \in Seq(Cell)
      /\ IsOpen(p, h.old) /\ IsOpen(p, h.new)
  BY <1>1, <1>2 DEF Reads, IInv, Holding
<1>4. /\ desc[p][h.old].path = h.from /\ desc[p][h.new].path = h.to
      /\ tab[p][h.old] = h.oldind /\ tab[p][h.new] = h.newind
      /\ h.from \notin mixed => \A j \in 1 .. Len(h.mot) : j > h.oldind => h.mot[j] = Junk
  BY <1>1, <1>2 DEF RInv, Works, WorkOf
<1>5. PICK pos \in Nat : MoveTo(p, h.old, pos)
  BY <1>2, <1>3, ConsumeMoves
<1>6. \A q \in Procs : q # p => desc'[q] = desc[q]
  BY <1>3, <1>5, Moved DEF IInv
<1>7. PICK n \in Nat : /\ n = (IF h.newind > h.oldind THEN h.newind ELSE h.oldind)
                       /\ h.newind <= n
  <2>1. PICK a \in Nat, b \in Nat : a = h.newind /\ b = h.oldind
    BY <1>3, FicindexAssumption
  <2> QED
    BY <2>1
<1>8. PICK r : r = Next1(p, h.old)
  OBVIOUS
<1>9. PICK mot : mot = Fit(r \o SubSeq(h.mot, Len(r) + 1, Len(h.mot)), n)
  OBVIOUS
<1>10. PICK o : o = [h EXCEPT !.step = "write", !.mot = mot]
  OBVIOUS
<1>11. op'[p] = o /\ \A q \in Procs : q # p => op'[q] = op[q]
  BY <1>1, <1>7, <1>8, <1>9, <1>10 DEF CopyRead, IInv, TypeOK
<1>12. /\ o.step = "write" /\ o.old = h.old /\ o.new = h.new /\ o.from = h.from /\ o.to = h.to
       /\ o.oldind = h.oldind /\ o.newind = h.newind /\ o.mot = mot
  BY <1>2, <1>10 DEF Reads
<1>13. Aside(p)
  BY <1>1, <1>2, <1>6, <1>11, <1>12 DEF Aside
<1>14. /\ FilesWhole' /\ PlacesWhole' /\ Blank' /\ WholeRecords'
       /\ \A x \in Fds : desc'[p][x].path = desc[p][x].path
       /\ h.from \notin mixed =>
              \/ Next1(p, h.old) = <<>>
              \/ /\ Next1(p, h.old) \in Seq(Cell) /\ Len(Next1(p, h.old)) = tab[p][h.old]
                 /\ Shaped(Next1(p, h.old), tab[p][h.old], 0)
  BY <1>2, <1>3, <1>4, <1>13, ConsumeRecord
<1>15. ASSUME h.from \notin mixed
       PROVE  Shaped(mot, h.newind, 0) /\ \A j \in 1 .. Len(mot) : j > h.oldind => mot[j] = Junk
  <2>1. PICK a \in Nat, b \in Inds : a = h.newind /\ b = h.oldind /\ a <= n
    BY <1>3, <1>7, FicindexAssumption
  <2>2. r \in Seq(Cell) /\ Len(r) = b /\ Shaped(r, b, 0)
    BY <1>2, <1>4, <1>8, <1>14, <1>15, <2>1
  <2>3. PICK old \in Seq(Cell) : old = h.mot /\ \A j \in 1 .. Len(old) : j > b => old[j] = Junk
    BY <1>3, <1>4, <1>15, <2>1
  <2>4. mot = Fit(r \o SubSeq(old, b + 1, Len(old)), n)
    BY <1>9, <2>2, <2>3
  <2>5. Shaped(mot, a, 0) /\ \A j \in 1 .. Len(mot) : j > b => mot[j] = Junk
    BY <2>1, <2>2, <2>3, <2>4, BufferShape
  <2> QED
    BY <2>1, <2>5
<1>16. WorkOf(o, desc'[p], tab'[p], mixed')
  BY <1>2, <1>3, <1>4, <1>12, <1>14, <1>15 DEF WorkOf
<1>17. Works'
  BY <1>11, <1>13, <1>16, WorksKept DEF RInv, Aside
<1> QED
  BY <1>14, <1>17 DEF RInv

(* A file begins with at most one size.                                    *)
LEMMA OneHeader ==
  ASSUME NEW c \in Seq(Cell), NEW m, NEW n, HasHeader(c, m), HasHeader(c, n)
  PROVE  m = n
<1>1. 1 \in 1 .. HEADER
  BY FicindexAssumption
<1>2. c[1] = <<"ind", m>> /\ c[1] = <<"ind", n>>
  BY <1>1, HeaderCells
<1> QED
  BY <1>2

(* A record written by indwrite or indxchg leaves files made of records.   *)
LEMMA PutWhole ==
  ASSUME IInv, RInv, IInv', NEW p \in Procs, NEW fd \in Fds, IsOpen(p, fd),
         NEW s \in Seq(Cell), Put(p, fd, s), Aside(p),
         desc[p][fd].path \notin mixed' => Len(s) = tab[p][fd] /\ Shaped(s, tab[p][fd], 0)
  PROVE  /\ FilesWhole' /\ PlacesWhole' /\ Blank'
         /\ \A q \in Procs, x \in Fds : desc'[q][x].path = desc[q][x].path
<1>1. PICK f \in Files : f = desc[p][fd].path
  BY DEF IInv, TypeOK, IsOpen, Descriptor
<1>2. PICK c \in Seq(Cell) : c = content[f] /\ c # Missing
  BY <1>1 DEF IInv, TypeOK, Shared, Present
<1>3. PICK pos \in Nat : pos = desc[p][fd].pos
  BY DEF IInv, TypeOK, IsOpen, Descriptor
<1>4. PICK new : new = WriteAt(c, pos, s)
  OBVIOUS
<1>5. content' = [content EXCEPT ![f] = new] /\ desc' = [desc EXCEPT ![p][fd].pos = @ + Len(s)]
  BY <1>1, <1>2, <1>3, <1>4 DEF Put
<1>6. PICK to \in Nat : to = pos + Len(s)
  OBVIOUS
<1>7. MoveTo(p, fd, to)
  BY <1>3, <1>5, <1>6 DEF MoveTo, IInv, TypeOK
<1>8. /\ desc'[p][fd] # Closed /\ desc'[p][fd].path = f /\ desc'[p][fd].pos = to
      /\ \A q \in Procs, x \in Fds : q # p \/ x # fd => desc'[q][x] = desc[q][x]
  BY <1>1, <1>7, Moved DEF IInv
<1>9. content'[f] = new /\ \A g \in Files : g # f => content'[g] = content[g]
  BY <1>5 DEF IInv, TypeOK
<1>10. Settled(p, fd) /\ Settled(p, fd)' /\ tab' = tab /\ mixed \subseteq mixed'
  BY <1>8, AsideSettled DEF Aside
<1>11. ASSUME f \notin mixed'
       PROVE  /\ Boundary(tab[p][fd], to) /\ to <= Len(new) /\ Len(new) >= Len(c)
              /\ new \in Seq(Cell)
              /\ \A n \in Inds : HasHeader(new, n) => Filled(new, n)
  <2>1. f \notin mixed
    BY <1>10, <1>11
  <2>2. PICK n \in Nat \ {0} : n = tab[p][fd]
    BY <1>1, <1>10, <2>1, OnRecord DEF RInv
  <2>3. Filled(c, n) /\ Boundary(n, pos) /\ pos <= Len(c)
    BY <1>1, <1>2, <1>3, <1>10, <2>1, <2>2, OnRecord DEF RInv
  <2>4. Len(s) = n /\ Shaped(s, n, 0)
    BY <1>1, <1>11, <2>2
  <2>5. Filled(new, n) /\ Len(new) >= Len(c) /\ pos + n <= Len(new)
    BY <1>4, <2>3, <2>4, PutFilled
  <2>6. Boundary(n, to) /\ to <= Len(new)
    BY <1>6, <2>3, <2>4, <2>5, Boundaries
  <2>7. HasHeader(new, n)
    BY <1>8, <1>9, <1>10, <1>11, <2>2 DEF IInv, Shared, Known
  <2>8. new \in Seq(Cell)
    BY <1>4, WriteCells
  <2>9. \A m \in Inds : HasHeader(new, m) => m = n
    BY <2>7, <2>8, OneHeader
  <2> QED
    BY <2>2, <2>5, <2>6, <2>8, <2>9
<1>12. FilesWhole' /\ PlacesWhole'
  <2>1. ASSUME NEW q \in Procs, NEW x \in Fds, NEW g \in Files \ mixed', Settled(q, x)', desc'[q][x].path = g
        PROVE  \/ /\ Settled(q, x) /\ desc'[q][x] = desc[q][x] /\ tab'[q][x] = tab[q][x]
                  /\ \/ content'[g] = content[g]
                     \/ Len(content'[g]) >= Len(content[g])
               \/ Boundary(tab'[q][x], desc'[q][x].pos) /\ desc'[q][x].pos <= Len(content'[g])
    <3>1. CASE q = p /\ x = fd
      BY <1>8, <1>9, <1>10, <1>11, <2>1, <3>1
    <3>2. CASE q # p \/ x # fd
      <4>1. desc'[q][x] = desc[q][x] /\ Settled(q, x)
        BY <1>8, <2>1, <3>2, AsideSettled DEF IsOpen
      <4>2. content'[g] = content[g] \/ Len(content'[g]) >= Len(content[g])
        BY <1>2, <1>9, <1>11
      <4> QED
        BY <1>10, <4>1, <4>2
    <3> QED
      BY <3>1, <3>2
  <2>2. \A g \in Files \ mixed' :
          \/ content'[g] = content[g]
          \/ \A n \in Inds : HasHeader(content'[g], n) => Filled(content'[g], n)
    BY <1>9, <1>11
  <2> QED
    BY <1>10, <2>1, <2>2, ShapeKept DEF RInv
<1>13. Blank'
  <2>1. ASSUME NEW q \in Procs, NEW g \in Files \ mixed', InHead(q, g)', BecomesNew(op'[q])
        PROVE  InHead(q, g) /\ BecomesNew(op[q]) /\ content'[g] = content[g]
    <3>1. InHead(q, g) /\ op'[q] = op[q] /\ g \notin mixed
      BY <1>10, <2>1, AsideHeads
    <3>2. g = f => q = p
      BY <1>1, <2>1, <3>1 DEF IInv, Shared, Fresh, On, Awaits, InHead, Aside
    <3>3. q # p
      BY <3>1 DEF Aside, InHead
    <3> QED
      BY <1>9, <2>1, <3>1, <3>2, <3>3
  <2> QED
    BY <1>10, <2>1, BlankKept DEF RInv
<1>14. \A q \in Procs, x \in Fds : desc'[q][x].path = desc[q][x].path
  BY <1>1, <1>8
<1> QED
  BY <1>12, <1>13, <1>14

LEMMA WriteWhole ==
  ASSUME IInv, RInv, IInv', NEW p \in Procs, indwrite(p)
  PROVE  RInv'
<1>1. PICK fd \in Fds, v \in Values :
        /\ Use(p, fd, {"W", "RW"})
        /\ Put(p, fd, Record(v, tab[p][fd]))
        /\ Mix(desc[p][fd].path, Disturbs(p, fd))
  BY DEF indwrite
<1>2. tab' = tab /\ op' = op /\ last' = last /\ mixed \subseteq mixed'
  BY <1>1 DEF indwrite, Mix
<1>3. op[p] = Idle /\ op[p].step = "idle" /\ IsOpen(p, fd)
  BY <1>1 DEF Use, Call, Idle, Free, IsOpen
<1>4. PICK n \in Nat : n = tab[p][fd] /\ n \in Inds
  <2>1. tab[p][fd] \in Inds \cup {Unset} /\ tab[p][fd] # Unset
    BY <1>1 DEF IInv, TypeOK, Use
  <2> QED
    BY <2>1, FicindexAssumption
<1>5. PICK s \in Seq(Cell) : s = Record(v, n) /\ Len(s) = n /\ \A k \in 1 .. n : s[k] = <<v, k>>
  BY RecordType
<1>6. Put(p, fd, s)
  BY <1>1, <1>4, <1>5
<1>7. Shaped(s, n, 0)
  <2>1. \A j \in 1 .. n : 0 + j = j /\ j <= n
    OBVIOUS
  <2>2. \A j \in 1 .. n : s[0 + j] = IF j <= n THEN <<v, j>> ELSE Junk
    BY <1>5, <2>1
  <2> QED
    BY <1>4, <2>2 DEF Shaped
<1>8. Aside(p)
  <2>1. \A q \in Procs : q # p => desc'[q] = desc[q]
    BY <1>6 DEF Put, IInv, TypeOK
  <2> QED
    BY <1>2, <1>3, <2>1 DEF Aside
<1>9. FilesWhole' /\ PlacesWhole' /\ Blank'
  BY <1>3, <1>4, <1>5, <1>6, <1>7, <1>8, PutWhole
<1>10. WorkOf(op'[p], desc'[p], tab'[p], mixed')
  BY <1>2, <1>3 DEF WorkOf
<1>11. Works'
  BY <1>8, <1>10, WorksKept DEF RInv, Aside
<1> QED
  BY <1>2, <1>9, <1>11, LastKept DEF RInv

(* What indxchg writes is what it read, at the new size.                   *)
LEMMA CopyWriteWhole ==
  ASSUME IInv, RInv, IInv', NEW p \in Procs, CopyWrite(p)
  PROVE  RInv'
<1>1. PICK h : h = op[p]
  OBVIOUS
<1>2. /\ h \in Writes /\ h.step = "write" /\ Put(p, h.new, Copied(h))
      /\ op' = [op EXCEPT ![p].step = "read"]
      /\ tab' = tab /\ last' = last
      /\ mixed' = IF h.from \in mixed THEN mixed \cup {h.to} ELSE mixed
  BY <1>1, Steps DEF IInv, CopyWrite, Mix
<1>3. /\ h.new \in Fds /\ h.old \in Fds /\ IsOpen(p, h.new)
      /\ h.mot \in Seq(Cell) /\ h.newind \in Inds /\ h.newind <= Len(h.mot)
  BY <1>1, <1>2 DEF Writes, IInv, Holding
<1>4. /\ desc[p][h.old].path = h.from /\ desc[p][h.new].path = h.to
      /\ tab[p][h.old] = h.oldind /\ tab[p][h.new] = h.newind
      /\ h.from \notin mixed =>
           /\ \A j \in 1 .. Len(h.mot) : j > h.oldind => h.mot[j] = Junk
           /\ Shaped(h.mot, h.newind, 0)
  BY <1>1, <1>2 DEF RInv, Works, WorkOf
<1>5. PICK n \in Nat, mot \in Seq(Cell) : n = h.newind /\ mot = h.mot /\ n <= Len(mot)
  BY <1>3, FicindexAssumption
<1>6. PICK s : s = Copied(h)
  OBVIOUS
<1>7. s \in Seq(Cell) /\ Len(s) = n /\ \A k \in 1 .. n : s[k] = mot[k]
  <2>1. s = SubSeq(mot, 0 + 1, n)
    BY <1>5, <1>6 DEF Copied
  <2>2. n <= Len(mot) /\ 0 \in Nat
    BY <1>5
  <2>3. /\ SubSeq(mot, 0 + 1, n) \in Seq(Cell)
        /\ Len(SubSeq(mot, 0 + 1, n)) = IF 0 < n THEN n - 0 ELSE 0
        /\ \A k \in 1 .. n - 0 : SubSeq(mot, 0 + 1, n)[k] = mot[0 + k]
    BY <2>2, SubSeqCells
  <2>4. \A k \in 1 .. n : 0 + k = k
    OBVIOUS
  <2> QED
    BY <2>1, <2>3, <2>4
<1>8. h.from \notin mixed => Shaped(s, n, 0)
  <2> SUFFICES ASSUME h.from \notin mixed PROVE Shaped(s, n, 0)
    OBVIOUS
  <2>1. PICK v \in Values, m \in Inds : \A j \in 1 .. n : mot[0 + j] = IF j <= m THEN <<v, j>> ELSE Junk
    BY <1>4, <1>5 DEF Shaped
  <2>2. \A j \in 1 .. n : s[0 + j] = mot[0 + j]
    BY <1>7
  <2> QED
    BY <2>1, <2>2 DEF Shaped
<1>9. h.to \notin mixed' => h.from \notin mixed
  BY <1>2
<1>10. PICK o : o = [h EXCEPT !.step = "read"]
  OBVIOUS
<1>11. /\ o.step = "read" /\ o.old = h.old /\ o.new = h.new /\ o.from = h.from /\ o.to = h.to
       /\ o.oldind = h.oldind /\ o.newind = h.newind /\ o.mot = h.mot
  BY <1>2, <1>10 DEF Writes
<1>12. op'[p] = o /\ \A q \in Procs : q # p => op'[q] = op[q]
  BY <1>1, <1>2, <1>10 DEF IInv, TypeOK
<1>13. Aside(p)
  <2>1. \A q \in Procs : q # p => desc'[q] = desc[q]
    BY <1>2 DEF Put, IInv, TypeOK
  <2> QED
    BY <1>1, <1>2, <1>11, <1>12, <2>1 DEF Aside
<1>14. /\ FilesWhole' /\ PlacesWhole' /\ Blank'
       /\ \A x \in Fds : desc'[p][x].path = desc[p][x].path
  BY <1>2, <1>3, <1>4, <1>5, <1>6, <1>7, <1>8, <1>9, <1>13, PutWhole
<1>15. mixed \subseteq mixed'
  BY <1>2
<1>16. WorkOf(o, desc'[p], tab'[p], mixed')
  BY <1>2, <1>3, <1>4, <1>11, <1>14, <1>15 DEF WorkOf
<1>17. Works'
  BY <1>12, <1>13, <1>16, WorksKept DEF RInv, Aside
<1> QED
  BY <1>2, <1>14, <1>15, <1>17, LastKept DEF RInv

(* open: the file it empties, or creates, nobody else has open.            *)
LEMMA OpenWhole ==
  ASSUME IInv, RInv, IInv', NEW p \in Procs, Open(p)
  PROVE  RInv'
<1>0. PICK f \in Files, fd \in Fds, h \in Heads, d \in Descriptor : Opened(p, f, fd, h, d)
  BY Opens1
<1>1. PICK o : o = op[p]
  OBVIOUS
<1>2. /\ o \in Opens /\ o.step = "open" /\ o.path = f
      /\ content[f] # Missing \/ o.flags.create
      /\ desc[p][fd] = Closed
      /\ h.step = "head" /\ h.path = f /\ h.ind[1] = fd
      /\ h.flags = o.flags /\ h.exist = o.exist /\ h.for = o.for
      /\ tab' = tab /\ last' = last
      /\ mixed' = IF Breaks(o, f) THEN mixed \cup {f} ELSE mixed
  BY <1>0, <1>1 DEF Opened
<1>3. op'[p] = h /\ \A q \in Procs : q # p => op'[q] = op[q]
  BY <1>0 DEF Opened, IInv, TypeOK
<1>4. /\ \A q \in Procs, x \in Fds : q # p \/ x # fd => desc'[q][x] = desc[q][x]
      /\ \A q \in Procs : q # p => desc'[q] = desc[q]
  BY <1>0 DEF Opened, IInv, TypeOK
<1>5. /\ \A g \in Files : g # f => content'[g] = content[g]
      /\ content'[f] = IF content[f] = Missing \/ o.flags.trunc THEN <<>> ELSE content[f]
  BY <1>0, <1>1 DEF Opened, IInv, TypeOK
<1>6. mixed \subseteq mixed'
  BY <1>2
<1>7. ASSUME f \notin mixed'
      PROVE  o.flags.trunc \/ BecomesNew(o) => \A q \in Procs, x \in Fds : ~On(q, x, f)
  BY <1>0, <1>1, <1>7, OpenAlone
<1>8. content[f] = Missing => \A q \in Procs, x \in Fds : ~On(q, x, f)
  BY DEF IInv, Shared, Present, On
<1>9. FilesWhole' /\ PlacesWhole'
  <2>1. ASSUME NEW n \in Inds PROVE ~HasHeader(<<>>, n)
    <3>1. HEADER \in Nat \ {0} /\ Len(<<>>) = 0
      BY FicindexAssumption
    <3> QED
      BY <3>1 DEF HasHeader
  <2>2. \A g \in Files \ mixed' :
          \/ content'[g] = content[g]
          \/ \A n \in Inds : HasHeader(content'[g], n) => Filled(content'[g], n)
    BY <1>5, <2>1
  <2>3. ASSUME NEW q \in Procs, NEW x \in Fds, NEW g \in Files \ mixed', Settled(q, x)', desc'[q][x].path = g
        PROVE  /\ Settled(q, x) /\ desc'[q][x] = desc[q][x] /\ tab'[q][x] = tab[q][x]
               /\ content'[g] = content[g]
    <3>1. ~(q = p /\ x = fd)
      BY <1>2, <1>3, <2>3 DEF Settled
    <3>2. desc'[q][x] = desc[q][x] /\ IsOpen(q, x)
      BY <1>4, <2>3, <3>1 DEF Settled, IsOpen
    <3>3. Settled(q, x) /\ On(q, x, g)
      BY <1>1, <1>2, <1>3, <2>3, <3>2 DEF Settled, On
    <3>4. content'[g] = content[g]
      BY <1>5, <1>7, <1>8, <3>3
    <3> QED
      BY <1>2, <3>2, <3>3, <3>4
  <2> QED
    BY <1>6, <2>2, <2>3, ShapeKept DEF RInv
<1>10. Blank'
  <2> SUFFICES ASSUME NEW g \in Files \ mixed', NEW q \in Procs, InHead(q, g)', BecomesNew(op'[q])
               PROVE  content'[g] = <<>>
    BY DEF Blank
  <2>1. g \notin mixed
    BY <1>6
  <2>2. CASE q = p
    <3>1. g = f /\ BecomesNew(o)
      BY <1>2, <1>3, <2>2 DEF InHead, BecomesNew
    <3>2. ~o.flags.trunc => content[f] = Missing
      BY <1>2, <3>1 DEF BecomesNew, Breaks
    <3> QED
      BY <1>5, <3>1, <3>2
  <2>3. CASE q # p
    <3>1. op'[q] = op[q] /\ InHead(q, g)
      BY <1>3, <2>3 DEF InHead
    <3>2. On(q, op[q].ind[1], g) /\ op[q].ind[1] \in Fds
      BY <3>1, Steps DEF IInv, Holding, InHead, Heads
    <3>3. content'[g] = content[g]
      BY <1>5, <1>7, <1>8, <3>2
    <3> QED
      BY <2>1, <3>1, <3>3 DEF RInv, Blank
  <2> QED
    BY <2>2, <2>3
<1>11. WorkOf(h, desc'[p], tab'[p], mixed')
  <2>1. ASSUME o.for.caller = "new"
        PROVE  /\ desc'[p][o.for.old].path = o.for.from /\ tab[p][o.for.old] = o.for.oldind
               /\ o.for.old # fd
    <3>1. desc[p][o.for.old].path = o.for.from /\ tab[p][o.for.old] = o.for.oldind
      BY <1>1, <1>2, <2>1 DEF RInv, Works, WorkOf
    <3>2. IsOpen(p, o.for.old) /\ o.for.old \in Fds
      BY <1>1, <1>2, <2>1 DEF IInv, Holding, Opens, Purpose
    <3> QED
      BY <1>2, <1>4, <3>1, <3>2 DEF IsOpen
  <2> QED
    BY <1>2, <2>1 DEF WorkOf
<1>12. Works'
  BY <1>2, <1>3, <1>4, <1>6, <1>11, WorksKept DEF RInv
<1> QED
  BY <1>2, <1>6, <1>9, <1>10, <1>12, LastKept DEF RInv

(* The descriptor that is being opened moves, on its file, and no other.    *)
LEMMA HeadMoves ==
  ASSUME IInv, NEW p \in Procs, op[p].step = "head", NEW pos \in Nat,
         MoveTo(p, op[p].ind[1], pos)
  PROVE  /\ desc'[p][op[p].ind[1]].path = op[p].path /\ desc'[p][op[p].ind[1]].pos = pos
         /\ \A q \in Procs, x \in Fds : q # p \/ x # op[p].ind[1] => desc'[q][x] = desc[q][x]
         /\ \A q \in Procs : q # p => desc'[q] = desc[q]
<1>1. PICK fd \in Fds : fd = op[p].ind[1]
  BY Steps DEF IInv, Heads
<1>2. IsOpen(p, fd) /\ desc[p][fd].path = op[p].path
  BY <1>1 DEF IInv, Holding, On
<1>3. TypeOK /\ MoveTo(p, fd, pos)
  BY <1>1 DEF IInv
<1>4. /\ desc'[p][fd].path = desc[p][fd].path /\ desc'[p][fd].pos = pos
      /\ \A q \in Procs, x \in Fds : q # p \/ x # fd => desc'[q][x] = desc[q][x]
      /\ \A q \in Procs : q # p => desc'[q] = desc[q]
  BY <1>2, <1>3, Moved
<1> QED
  BY <1>1, <1>2, <1>4

(* The end of an opening, between two records or on an empty file.         *)
LEMMA HeadWhole ==
  ASSUME IInv, RInv, IInv', NEW p \in Procs, op[p].step = "head",
         NEW size \in Inds \cup {Unset}, NEW pos \in Nat, NEW o \in {Idle} \cup Opens \cup Reads,
         op' = [op EXCEPT ![p] = o],
         o.step = "open" /\ o.for.caller = "new" =>
           o.for.old = op[p].ind[1] /\ o.for.oldind = size /\ o.for.from = op[p].path,
         o.step = "read" =>
           /\ op[p].for.caller = "new" /\ o.old = op[p].for.old /\ o.new = op[p].ind[1]
           /\ o.newind = size /\ o.mot = <<>> /\ o.from = op[p].for.from /\ o.to = op[p].path
           /\ o.oldind = op[p].for.oldind,
         tab' = [tab EXCEPT ![p][op[p].ind[1]] = size],
         MoveTo(p, op[p].ind[1], pos),
         last' = last, mixed \subseteq mixed',
         NEW c \in Seq(Cell), content' = [content EXCEPT ![op[p].path] = c],
         op[p].path \notin mixed' =>
           /\ Boundary(size, pos) /\ pos <= Len(c)
           /\ \/ c = content[op[p].path]
              \/ BecomesNew(op[p]) /\ \A n \in Inds : HasHeader(c, n) => Filled(c, n)
  PROVE  RInv'
<1>1. PICK f \in Files, fd \in Fds : f = op[p].path /\ fd = op[p].ind[1]
  BY Steps DEF IInv, Heads
<1>2. IsOpen(p, fd) /\ desc[p][fd].path = f /\ InHead(p, f)
  BY <1>1 DEF IInv, Holding, On, InHead
<1>4. /\ desc'[p][fd].path = f /\ desc'[p][fd].pos = pos
      /\ \A q \in Procs, x \in Fds : q # p \/ x # fd => desc'[q][x] = desc[q][x]
      /\ \A q \in Procs : q # p => desc'[q] = desc[q]
  BY <1>1, HeadMoves
<1>5. op'[p] = o /\ \A q \in Procs : q # p => op'[q] = op[q]
  BY DEF IInv, TypeOK
<1>6. content'[f] = c /\ \A g \in Files : g # f => content'[g] = content[g]
  BY <1>1 DEF IInv, TypeOK
<1>7. /\ tab'[p][fd] = size
      /\ \A q \in Procs, x \in Fds : q # p \/ x # fd => tab'[q][x] = tab[q][x]
      /\ \A q \in Procs : q # p => tab'[q] = tab[q]
  BY <1>1 DEF IInv, TypeOK
<1>8. o.step \in {"idle", "open", "read"}
  BY DEF Idle, Opens, Reads
<1>9. FilesWhole' /\ PlacesWhole'
  <2>1. \A g \in Files \ mixed' :
          \/ content'[g] = content[g]
          \/ \A n \in Inds : HasHeader(content'[g], n) => Filled(content'[g], n)
    BY <1>1, <1>6
  <2>2. ASSUME NEW q \in Procs, NEW x \in Fds, NEW g \in Files \ mixed', Settled(q, x)', desc'[q][x].path = g
        PROVE  \/ /\ Settled(q, x) /\ desc'[q][x] = desc[q][x] /\ tab'[q][x] = tab[q][x]
                  /\ \/ content'[g] = content[g]
                     \/ Len(content'[g]) >= Len(content[g])
               \/ Boundary(tab'[q][x], desc'[q][x].pos) /\ desc'[q][x].pos <= Len(content'[g])
    <3>1. CASE q = p /\ x = fd
      <4>1. g = f
        BY <1>4, <2>2, <3>1
      <4>2. Boundary(size, pos) /\ pos <= Len(c)
        BY <1>1, <2>2, <4>1
      <4> QED
        BY <1>4, <1>6, <1>7, <3>1, <4>1, <4>2
    <3>2. CASE q # p \/ x # fd
      <4>1. desc'[q][x] = desc[q][x] /\ tab'[q][x] = tab[q][x]
        BY <1>4, <1>7, <3>2
      <4>2. Settled(q, x) /\ On(q, x, g)
        BY <1>1, <1>5, <2>2, <3>2, <4>1 DEF Settled, IsOpen, On
      <4>3. g = f => ~BecomesNew(op[p])
        BY <1>1, <1>2, <2>2, <3>2, <4>2 DEF IInv, Shared, Fresh, Awaits, Settled, InHead
      <4>4. content'[g] = content[g]
        BY <1>1, <1>6, <2>2, <4>3
      <4> QED
        BY <4>1, <4>2, <4>4
    <3> QED
      BY <3>1, <3>2
  <2> QED
    BY <2>1, <2>2, ShapeKept DEF RInv
<1>10. Blank'
  <2>1. ASSUME NEW q \in Procs, NEW g \in Files \ mixed', InHead(q, g)', BecomesNew(op'[q])
        PROVE  InHead(q, g) /\ BecomesNew(op[q]) /\ content'[g] = content[g]
    <3>1. q # p /\ op'[q] = op[q] /\ InHead(q, g)
      BY <1>5, <1>8, <2>1 DEF InHead
    <3>2. g = f => ~BecomesNew(op[p])
      <4>1. On(q, op[q].ind[1], g) /\ op[q].ind[1] \in Fds
        BY <3>1, Steps DEF IInv, Holding, InHead, Heads
      <4> QED
        BY <1>2, <2>1, <3>1, <4>1 DEF IInv, Shared, Fresh, Awaits
    <3>3. content'[g] = content[g]
      BY <1>1, <1>6, <2>1, <3>2
    <3> QED
      BY <2>1, <3>1, <3>3
  <2> QED
    BY <2>1, BlankKept DEF RInv
<1>11. WorkOf(o, desc'[p], tab'[p], mixed')
  <2>1. ASSUME o.step = "read"
        PROVE  /\ desc'[p][o.old].path = o.from /\ tab'[p][o.old] = o.oldind
    <3>1. PICK old : old = op[p].for.old
      OBVIOUS
    <3>2. op[p].for.caller = "new" /\ o.old = old
      BY <2>1, <3>1
    <3>3. /\ desc[p][old].path = op[p].for.from /\ tab[p][old] = op[p].for.oldind
          /\ old # fd
      BY <1>1, <3>1, <3>2 DEF RInv, Works, WorkOf
    <3>4. old \in Fds
      BY <3>1, <3>2, Steps DEF IInv, Heads, Purpose
    <3>5. desc'[p][old] = desc[p][old] /\ tab'[p][old] = tab[p][old]
      BY <1>4, <1>7, <3>3, <3>4
    <3> QED
      BY <2>1, <3>2, <3>3, <3>5
  <2>2. o.step = "read" => desc'[p][o.new].path = o.to /\ tab'[p][o.new] = o.newind /\ Len(o.mot) = 0
    BY <1>1, <1>4, <1>7
  <2>3. o.step = "open" /\ o.for.caller = "new" =>
          desc'[p][o.for.old].path = o.for.from /\ tab'[p][o.for.old] = o.for.oldind
    BY <1>1, <1>4, <1>7
  <2> QED
    BY <1>8, <2>1, <2>2, <2>3 DEF WorkOf
<1>12. Works'
  BY <1>4, <1>5, <1>7, <1>11, WorksKept DEF RInv
<1> QED
  BY <1>9, <1>10, <1>12, LastKept DEF RInv

LEMMA WriteHeaderWhole ==
  ASSUME IInv, RInv, IInv', NEW p \in Procs, WriteHeader(p)
  PROVE  RInv'
<1>1. op[p].step = "head" /\ op[p] \in Heads
  BY Steps DEF IInv, WriteHeader
<1>2. PICK f \in Files, fd \in Fds, ind \in Inds : f = op[p].path /\ fd = op[p].ind[1] /\ ind = op[p].ind[2]
  BY <1>1 DEF Heads
<1>3. /\ BecomesNew(op[p])
      /\ tab' = [tab EXCEPT ![p][fd] = ind]
      /\ content' = [content EXCEPT ![f] = WriteAt(@, 0, Header(ind))]
      /\ desc' = [desc EXCEPT ![p][fd].pos = HEADER]
      /\ Continue(p, fd, ind)
      /\ mixed' = mixed /\ last' = last
  BY <1>2 DEF WriteHeader
<1>4. PICK o \in {Idle} \cup Opens \cup Reads :
        /\ op' = [op EXCEPT ![p] = o]
        /\ o.step = "open" /\ o.for.caller = "new" =>
             o.for.old = op[p].ind[1] /\ o.for.oldind = ind /\ o.for.from = op[p].path
        /\ o.step = "read" =>
             /\ op[p].for.caller = "new" /\ o.old = op[p].for.old /\ o.new = op[p].ind[1]
             /\ o.newind = ind /\ o.mot = <<>> /\ o.from = op[p].for.from /\ o.to = op[p].path
             /\ o.oldind = op[p].for.oldind
  BY <1>1, <1>2, <1>3, Continues DEF IInv
<1>5. content[f] \in Seq(Cell)
  <2>1. IsOpen(p, fd) /\ desc[p][fd].path = f
    BY <1>1, <1>2 DEF IInv, Holding, On
  <2> QED
    BY <2>1 DEF IInv, TypeOK, Shared, Present
<1>6. PICK s \in Seq(Cell) : s = Header(ind) /\ Len(s) = HEADER
  BY HeaderType
<1>7. PICK c : c = WriteAt(content[f], 0, s)
  OBVIOUS
<1>8. HEADER \in Nat \ {0} /\ HEADER \in Nat
  BY FicindexAssumption
<1>9. /\ c \in Seq(Cell)
      /\ Len(c) = IF 0 + Len(s) > Len(content[f]) THEN 0 + Len(s) ELSE Len(content[f])
  BY <1>5, <1>7, WriteCells
<1>10. content' = [content EXCEPT ![f] = c]
  BY <1>3, <1>6, <1>7
<1>11. ASSUME f \notin mixed'
       PROVE  /\ Boundary(ind, HEADER) /\ HEADER <= Len(c)
              /\ \A n \in Inds : HasHeader(c, n) => Filled(c, n)
  <2>1. content[f] = <<>>
    BY <1>1, <1>2, <1>3, <1>11 DEF RInv, Blank, InHead
  <2>2. Len(c) = HEADER
    BY <1>6, <1>8, <1>9, <2>1
  <2>3. ASSUME NEW n \in Inds PROVE Filled(c, n)
    <3>1. n \in Nat \ {0}
      BY FicindexAssumption
    <3>2. Boundary(n, Len(c))
      BY <2>2, <3>1, FirstBoundary
    <3>3. \A x \in Nat : Boundary(n, x) => x >= HEADER
      BY <3>1, <3>2, Boundaries
    <3>4. \A x \in Nat : Boundary(n, x) => ~(x < Len(c))
      BY <1>8, <2>2, <3>3
    <3> QED
      BY <3>2, <3>4 DEF Filled
  <2>4. Boundary(ind, HEADER)
    BY FirstBoundary, FicindexAssumption
  <2> QED
    BY <1>8, <2>2, <2>3, <2>4
<1>12. ind \in Inds \cup {Unset} /\ mixed \subseteq mixed' /\ MoveTo(p, op[p].ind[1], HEADER)
  BY <1>2, <1>3 DEF MoveTo
<1> QED
  BY <1>1, <1>2, <1>3, <1>4, <1>8, <1>9, <1>10, <1>11, <1>12, HeadWhole

LEMMA ReadHeaderWhole ==
  ASSUME IInv, RInv, IInv', NEW p \in Procs, ReadHeader(p)
  PROVE  RInv'
<1>1. op[p].step = "head" /\ op[p] \in Heads /\ ~BecomesNew(op[p])
  BY Steps DEF IInv, ReadHeader
<1>2. PICK f \in Files, fd \in Fds : f = op[p].path /\ fd = op[p].ind[1]
  BY <1>1 DEF Heads
<1>3. PICK n \in Inds \cup {Unset} :
        /\ op[p].flags.access # "W" /\ (\E m \in Inds : HasHeader(content[f], m)) => HasHeader(content[f], n)
        /\ tab' = [tab EXCEPT ![p][fd] = n]
        /\ Continue(p, fd, n)
  BY <1>2 DEF ReadHeader
<1>4. /\ desc' = [desc EXCEPT ![p][fd].pos =
                     IF op[p].flags.access # "W" THEN Len(ReadAt(content[f], 0, HEADER)) ELSE 0]
      /\ mixed' = IF op[p].flags.access = "W" \/ Unwritten(f) THEN mixed \cup {f} ELSE mixed
      /\ content' = content /\ last' = last
  BY <1>2 DEF ReadHeader, Mix
<1>5. op[p].for.caller # "new"
  <2>1. op[p].for.caller = "new" => op[p].flags = Overwrite
    BY <1>1 DEF IInv, Holding
  <2>2. op[p].flags = Overwrite => BecomesNew(op[p])
    BY <1>1 DEF BecomesNew, Overwrite, Heads
  <2> QED
    BY <1>1, <2>1, <2>2
<1>6. PICK o \in {Idle} \cup Opens \cup Reads :
        /\ op' = [op EXCEPT ![p] = o]
        /\ o.step = "open" /\ o.for.caller = "new" =>
             o.for.old = op[p].ind[1] /\ o.for.oldind = n /\ o.for.from = op[p].path
        /\ o.step = "read" =>
             /\ op[p].for.caller = "new" /\ o.old = op[p].for.old /\ o.new = op[p].ind[1]
             /\ o.newind = n /\ o.mot = <<>> /\ o.from = op[p].for.from /\ o.to = op[p].path
             /\ o.oldind = op[p].for.oldind
  <2>1. TypeOK /\ Holding /\ Continue(p, op[p].ind[1], n)
    BY <1>2, <1>3 DEF IInv
  <2> QED
    BY <1>1, <1>5, <2>1, Continues
<1>7. PICK c : c = content[f]
  OBVIOUS
<1>8. c \in Seq(Cell) /\ c # Missing
  <2>1. IsOpen(p, fd) /\ desc[p][fd].path = f
    BY <1>1, <1>2 DEF IInv, Holding, On
  <2> QED
    BY <1>7, <2>1 DEF IInv, TypeOK, Shared, Present
<1>9. HEADER \in Nat \ {0}
  BY FicindexAssumption
<1>10. PICK pos \in Nat :
         pos = IF op[p].flags.access # "W" THEN Len(ReadAt(c, 0, HEADER)) ELSE 0
  <2>1. Len(ReadAt(c, 0, HEADER)) \in Nat
    BY <1>8, <1>9, ReadType
  <2> QED
    BY <2>1
<1>11. ASSUME f \notin mixed'
       PROVE  Boundary(n, pos) /\ pos <= Len(c)
  <2>1. op[p].flags.access # "W" /\ f \notin mixed /\ ~Unwritten(f)
    BY <1>4, <1>11
  <2>2. \A q \in Procs : ~(InHead(q, f) /\ BecomesNew(op[q]))
    BY <2>1 DEF Unwritten, InHead
  <2>4. \E m \in Inds : HasHeader(c, m)
    BY <1>7, <1>8, <2>1, <2>2 DEF IInv, Shared, Headed
  <2>5. 0 + HEADER <= Len(c)
    BY <1>8, <1>9, <2>4, HeaderCells
  <2>6. pos = HEADER
    BY <1>8, <1>9, <1>10, <2>1, <2>5, ReadCells
  <2>7. n \in Int
    BY FicindexAssumption DEF Unset
  <2>8. Boundary(n, HEADER)
    BY <2>7, FirstBoundary
  <2> QED
    BY <1>9, <2>5, <2>6, <2>8
<1>12. content' = [content EXCEPT ![f] = c]
  BY <1>4, <1>7 DEF IInv, TypeOK
<1>13. MoveTo(p, op[p].ind[1], pos) /\ mixed \subseteq mixed'
  BY <1>2, <1>4, <1>7, <1>10 DEF MoveTo
<1> QED
  BY <1>1, <1>2, <1>3, <1>4, <1>6, <1>7, <1>8, <1>11, <1>12, <1>13, HeadWhole

-----------------------------------------------------------------------------
(* WholeRecords                                                            *)

LEMMA RStarts == Init => RInv
<1> SUFFICES ASSUME Init PROVE RInv
  OBVIOUS
<1>1. /\ desc = [p \in Procs |-> [fd \in Fds |-> Closed]]
      /\ op = [p \in Procs |-> Idle] /\ \A p \in Procs : op[p].step = "idle"
      /\ last.path = "none"
  BY DEF Init, Idle
<1>2. FilesWhole
  <2> SUFFICES ASSUME NEW f \in Files, NEW n \in Inds, content[f] # Missing, HasHeader(content[f], n)
               PROVE  Filled(content[f], n)
    BY DEF FilesWhole
  <2>1. PICK m \in Inds, s \in AtFirst : content[f] = FileOf(m, s)
    BY FoundAtFirst
  <2>2. PICK c \in Seq(Cell) : c = content[f] /\ HasHeader(c, m) /\ m \in Nat \ {0}
    BY <2>1, FoundCells
  <2>3. n = m
    BY <2>2, OneHeader
  <2> QED
    BY <2>1, <2>3, FoundFilled
<1>3. PlacesWhole
  BY <1>1 DEF PlacesWhole, Settled, IsOpen
<1>4. Blank /\ Works
  BY <1>1 DEF Blank, InHead, Works, WorkOf
<1>5. WholeRecords
  BY <1>1, FicindexAssumption DEF WholeRecords
<1> QED
  BY <1>2, <1>3, <1>4, <1>5 DEF RInv

LEMMA RKept == IInv /\ IInv' /\ RInv /\ [Next]_vars => RInv'
<1> SUFFICES ASSUME IInv, IInv', RInv, [Next]_vars PROVE RInv'
  OBVIOUS
<1>1. ASSUME NEW p \in Procs, indopen(p) \/ indxchg(p) \/ OpenFails(p) \/ indsearch(p) PROVE RInv'
  BY <1>1, BeginWhole
<1>2. ASSUME NEW p \in Procs, Open(p) PROVE RInv'
  BY <1>2, OpenWhole
<1>3. ASSUME NEW p \in Procs, WriteHeader(p) PROVE RInv'
  BY <1>3, WriteHeaderWhole
<1>4. ASSUME NEW p \in Procs, ReadHeader(p) PROVE RInv'
  BY <1>4, ReadHeaderWhole
<1>5. ASSUME NEW p \in Procs, indread(p) PROVE RInv'
  BY <1>5, ReadWhole
<1>6. ASSUME NEW p \in Procs, indwrite(p) PROVE RInv'
  BY <1>6, WriteWhole
<1>7. ASSUME NEW p \in Procs, indlseek(p) PROVE RInv'
  BY <1>7, SeekWhole
<1>8. ASSUME NEW p \in Procs, indclose(p) \/ CopyEnd(p) PROVE RInv'
  BY <1>8, CloseWhole
<1>9. ASSUME NEW p \in Procs, Search(p) PROVE RInv'
  BY <1>9, SearchWhole
<1>10. ASSUME NEW p \in Procs, CopyRead(p) PROVE RInv'
  BY <1>10, CopyReadWhole
<1>11. ASSUME NEW p \in Procs, CopyWrite(p) PROVE RInv'
  BY <1>11, CopyWriteWhole
<1>12. CASE UNCHANGED vars
  BY <1>12 DEF RInv, FilesWhole, PlacesWhole, Blank, Works, WholeRecords, Settled, IsOpen, InHead, vars
<1> QED
  BY <1>1, <1>2, <1>3, <1>4, <1>5, <1>6, <1>7, <1>8, <1>9, <1>10, <1>11, <1>12 DEF Next

(* WholeRecords: on a file used as the library asks for, a read returns    *)
(* nothing or one whole record (indread, indsearch, indxchg).              *)
THEOREM RecordsWhole == Spec => []WholeRecords
<1>1. Spec => []RInv
  <2>1. Spec => []IInv
    BY FileInvariance
  <2> QED
    BY <2>1, RStarts, RKept, PTL DEF Spec
<1>2. RInv => WholeRecords
  BY DEF RInv
<1> QED
  BY <1>1, <1>2, PTL

-----------------------------------------------------------------------------
(* indxchg: what has been copied so far                                    *)

Copier(p) == op[p].step \in {"read", "write"}

(* n cells of new after place b are the m cells of old after place a, cut  *)
(* or lengthened with junk.                                                *)
Recopied(old, a, m, new, b, n) ==
  \A i \in 1 .. n : new[b + i] = IF i <= m THEN old[a + i] ELSE Junk

(* k records have been copied, and one more has been read when the next    *)
(* step writes it.                                                         *)
CopyOf(o, old, new, oldpos, newpos, k) ==
  /\ newpos = HEADER + k * o.newind /\ Len(new) = newpos
  /\ oldpos = HEADER + (IF o.step = "write" THEN k + 1 ELSE k) * o.oldind
  /\ \A j \in 0 .. k - 1 :
       Recopied(old, HEADER + j * o.oldind, o.oldind, new, HEADER + j * o.newind, o.newind)
  /\ o.step = "write" => Recopied(old, HEADER + k * o.oldind, o.oldind, o.mot, 0, o.newind)

Copies ==
  \A p \in Procs : Copier(p) /\ op[p].from \notin mixed /\ op[p].to \notin mixed =>
    \E k \in Nat : CopyOf(op[p], content[op[p].from], content[op[p].to],
                          desc[p][op[p].old].pos, desc[p][op[p].new].pos, k)

(* A file is made by one copy at a time, and the old file of a copy that   *)
(* opens the new one stands before its first record.                       *)
Sole ==
  \A p, q \in Procs :
    Copier(p) /\ Copier(q) /\ op[p].to = op[q].to /\ op[p].to \notin mixed => p = q
OldPlaced ==
  \A p \in Procs :
    op[p].step \in {"open", "head"} /\ op[p].for.caller = "new" /\ op[p].for.from \notin mixed =>
      desc[p][op[p].for.old].pos = HEADER

CInv == Copies /\ Sole /\ OldPlaced

(* What is known of a process that copies.                                 *)
LEMMA CopierFacts ==
  ASSUME IInv, RInv, NEW p \in Procs, Copier(p)
  PROVE  /\ op[p].from \in Files /\ op[p].to \in Files /\ op[p].old \in Fds /\ op[p].new \in Fds
         /\ IsOpen(p, op[p].old) /\ IsOpen(p, op[p].new)
         /\ desc[p][op[p].old].path = op[p].from /\ desc[p][op[p].new].path = op[p].to
         /\ tab[p][op[p].old] = op[p].oldind /\ tab[p][op[p].new] = op[p].newind
         /\ op[p].from \notin mixed =>
              /\ op[p].oldind \in Inds /\ op[p].oldind \in Nat \ {0}
              /\ content[op[p].from] \in Seq(Cell) /\ HasHeader(content[op[p].from], op[p].oldind)
              /\ Filled(content[op[p].from], op[p].oldind)
              /\ desc[p][op[p].old].pos \in Nat
              /\ Boundary(op[p].oldind, desc[p][op[p].old].pos)
              /\ desc[p][op[p].old].pos <= Len(content[op[p].from])
         /\ op[p].to \notin mixed =>
              /\ op[p].newind \in Inds /\ op[p].newind \in Nat \ {0}
              /\ content[op[p].to] \in Seq(Cell) /\ HasHeader(content[op[p].to], op[p].newind)
              /\ desc[p][op[p].new].pos \in Nat
<1>1. op[p] \in Reads \cup Writes
  BY Steps DEF IInv, Copier
<1>2. op[p].from \in Files /\ op[p].to \in Files /\ op[p].old \in Fds /\ op[p].new \in Fds
  BY <1>1 DEF Reads, Writes
<1>3. IsOpen(p, op[p].old) /\ IsOpen(p, op[p].new)
  BY DEF IInv, Holding, Copier
<1>4. Settled(p, op[p].old) /\ Settled(p, op[p].new)
  BY <1>3 DEF Settled, Copier
<1>5. /\ desc[p][op[p].old].path = op[p].from /\ desc[p][op[p].new].path = op[p].to
      /\ tab[p][op[p].old] = op[p].oldind /\ tab[p][op[p].new] = op[p].newind
  BY DEF RInv, Works, WorkOf, Copier
<1>6. FilesWhole /\ PlacesWhole
  BY DEF RInv
<1> QED
  BY <1>2, <1>3, <1>4, <1>5, <1>6, OnRecord

SameUpTo(c, d, x) == \A k \in 1 .. x : d[k] = c[k]

(* What is the same up to the end is so up to any place.                   *)
LEMMA SameBefore ==
  ASSUME NEW c \in Seq(Cell), NEW d, SameUpTo(c, d, Len(c)), NEW x \in Nat, x <= Len(c)
  PROVE  SameUpTo(c, d, x)
<1>1. \A k \in 1 .. x : k \in 1 .. Len(c)
  OBVIOUS
<1> QED
  BY <1>1 DEF SameUpTo

(* Records copied stay so while what the copy has read of the old file     *)
(* does.                                                                   *)
LEMMA RecopiedStays ==
  ASSUME NEW old, NEW c, NEW x \in Nat, SameUpTo(old, c, x), NEW a \in Nat, NEW m \in Nat,
         a + m <= x, NEW new, NEW b, NEW n, Recopied(old, a, m, new, b, n)
  PROVE  Recopied(c, a, m, new, b, n)
<1> SUFFICES ASSUME NEW i \in 1 .. n, i <= m PROVE c[a + i] = old[a + i]
  BY DEF Recopied
<1>1. a + i \in 1 .. x
  OBVIOUS
<1> QED
  BY <1>1 DEF SameUpTo

(* The records before a place end there.                                   *)
LEMMA Before ==
  ASSUME NEW n \in Nat \ {0}, NEW k \in Nat, NEW j \in 0 .. k - 1
  PROVE  /\ HEADER + j * n \in Nat /\ HEADER + k * n \in Nat
         /\ HEADER + j * n + n <= HEADER + k * n
<1>1. HEADER \in Nat /\ j \in Nat /\ j < k
  BY FicindexAssumption
<1>2. j * n \in Nat /\ k * n \in Nat /\ j * n + n <= k * n
  BY <1>1, Multiples
<1> QED
  BY <1>1, <1>2

LEMMA CopyStays ==
  ASSUME NEW o, o.oldind \in Nat \ {0}, NEW old, NEW c, NEW x \in Nat, SameUpTo(old, c, x),
         NEW new, NEW y, NEW k \in Nat, CopyOf(o, old, new, x, y, k)
  PROVE  CopyOf(o, c, new, x, y, k)
<1>1. PICK m \in Nat \ {0} : m = o.oldind
  OBVIOUS
<1>2. x = HEADER + (IF o.step = "write" THEN k + 1 ELSE k) * m
  BY <1>1 DEF CopyOf
<1>3. HEADER + k * m <= x /\ k * m \in Nat /\ HEADER \in Nat
  <2>1. k * m \in Nat /\ (k + 1) * m = k * m + m /\ HEADER \in Nat
    BY Multiples, FicindexAssumption
  <2> QED
    BY <1>2, <2>1
<1>4. ASSUME NEW j \in 0 .. k - 1
      PROVE  Recopied(c, HEADER + j * m, m, new, HEADER + j * o.newind, o.newind)
  <2>1. PICK a \in Nat : a = HEADER + j * m /\ a + m <= x
    <3>1. HEADER + j * m \in Nat /\ HEADER + j * m + m <= HEADER + k * m
      BY Before
    <3> QED
      BY <1>3, <3>1
  <2>2. Recopied(old, a, m, new, HEADER + j * o.newind, o.newind)
    BY <1>1, <2>1 DEF CopyOf
  <2>3. Recopied(c, a, m, new, HEADER + j * o.newind, o.newind)
    BY <2>1, <2>2, RecopiedStays
  <2> QED
    BY <2>1, <2>3
<1>5. ASSUME o.step = "write"
      PROVE  Recopied(c, HEADER + k * m, m, o.mot, 0, o.newind)
  <2>1. PICK a \in Nat : a = HEADER + k * m /\ a + m <= x
    <3>1. (k + 1) * m = k * m + m
      BY Multiples
    <3> QED
      BY <1>2, <1>3, <1>5, <3>1
  <2>2. Recopied(old, a, m, o.mot, 0, o.newind)
    BY <1>1, <1>5, <2>1 DEF CopyOf
  <2>3. Recopied(c, a, m, o.mot, 0, o.newind)
    BY <2>1, <2>2, RecopiedStays
  <2> QED
    BY <2>1, <2>3
<1> QED
  BY <1>1, <1>4, <1>5 DEF CopyOf

Copy(p) ==
  Copier(p) /\ op[p].from \notin mixed /\ op[p].to \notin mixed =>
    \E k \in Nat : CopyOf(op[p], content[op[p].from], content[op[p].to],
                          desc[p][op[p].old].pos, desc[p][op[p].new].pos, k)

OldPlace(p) ==
  op[p].step \in {"open", "head"} /\ op[p].for.caller = "new" /\ op[p].for.from \notin mixed =>
    desc[p][op[p].for.old].pos = HEADER

(* A step of p that makes the new file of no other copy, nor changes what  *)
(* it has read of its old one.                                             *)
LEMMA CopiesKept ==
  ASSUME IInv, RInv, CInv, NEW p \in Procs, mixed \subseteq mixed',
         \A q \in Procs : q # p => op'[q] = op[q] /\ desc'[q] = desc[q],
         \A q \in Procs : q # p /\ Copier(q) /\ op[q].from \notin mixed' /\ op[q].to \notin mixed' =>
           /\ content'[op[q].to] = content[op[q].to]
           /\ SameUpTo(content[op[q].from], content'[op[q].from], desc[q][op[q].old].pos),
         Copier(p)' =>
           \/ Copier(p) /\ op'[p].to = op[p].to
           \/ \A q \in Procs : q # p /\ Copier(q) /\ op[q].to = op'[p].to => op[q].to \in mixed',
         Copy(p)', OldPlace(p)'
  PROVE  CInv'
<1>1. ASSUME NEW q \in Procs PROVE Copy(q)'
  <2>1. CASE q # p /\ Copier(q) /\ op[q].from \notin mixed' /\ op[q].to \notin mixed'
    <3>1. op[q].from \notin mixed /\ op[q].to \notin mixed
      BY <2>1
    <3>2. PICK k \in Nat : CopyOf(op[q], content[op[q].from], content[op[q].to],
                                  desc[q][op[q].old].pos, desc[q][op[q].new].pos, k)
      BY <2>1, <3>1 DEF CInv, Copies
    <3>3. op[q].oldind \in Nat \ {0} /\ desc[q][op[q].old].pos \in Nat
      BY <2>1, <3>1, CopierFacts
    <3>4. CopyOf(op[q], content'[op[q].from], content[op[q].to],
                 desc[q][op[q].old].pos, desc[q][op[q].new].pos, k)
      BY <2>1, <3>2, <3>3, CopyStays
    <3> QED
      BY <2>1, <3>4 DEF Copy
  <2>2. CASE q # p /\ ~(Copier(q) /\ op[q].from \notin mixed' /\ op[q].to \notin mixed')
    BY <2>2 DEF Copy, Copier
  <2> QED
    BY <2>1, <2>2
<1>2. Copies'
  BY <1>1 DEF Copies, Copy
<1>3. Sole'
  BY DEF Sole, CInv, Copier
<1>4. OldPlaced'
  <2>1. ASSUME NEW q \in Procs PROVE OldPlace(q)'
    BY DEF OldPlace, CInv, OldPlaced
  <2> QED
    BY <2>1 DEF OldPlaced, OldPlace
<1> QED
  BY <1>2, <1>3, <1>4 DEF CInv

(* A file that does not change.                                            *)
LEMMA Unchanged ==
  ASSUME content' = content
  PROVE  \A q \in Procs : /\ content'[op[q].to] = content[op[q].to]
                          /\ SameUpTo(content[op[q].from], content'[op[q].from], desc[q][op[q].old].pos)
BY DEF SameUpTo

(* Neither copying nor about to: the program's calls, and the end of a     *)
(* copy.                                                                   *)
Apart(o) == o.step \notin {"read", "write"} /\ (o.step \in {"open", "head"} => o.for.caller # "new")

LEMMA StillCopies ==
  ASSUME IInv, RInv, CInv, NEW p \in Procs, mixed \subseteq mixed', content' = content,
         \A q \in Procs : q # p => op'[q] = op[q] /\ desc'[q] = desc[q],
         Apart(op'[p])
  PROVE  CInv'
<1>1. Copy(p)' /\ ~Copier(p)' /\ OldPlace(p)'
  BY DEF Apart, Copy, Copier, OldPlace
<1>2. \A q \in Procs : q # p /\ Copier(q) /\ op[q].from \notin mixed' /\ op[q].to \notin mixed' =>
           /\ content'[op[q].to] = content[op[q].to]
           /\ SameUpTo(content[op[q].from], content'[op[q].from], desc[q][op[q].old].pos)
  BY Unchanged
<1>3. Copier(p)' =>
           \/ Copier(p) /\ op'[p].to = op[p].to
           \/ \A q \in Procs : q # p /\ Copier(q) /\ op[q].to = op'[p].to => op[q].to \in mixed'
  BY <1>1
<1> QED
  BY <1>1, <1>2, <1>3, CopiesKept

LEMMA BeginCopies ==
  ASSUME IInv, RInv, CInv, NEW p \in Procs,
         indopen(p) \/ indxchg(p) \/ OpenFails(p) \/ indsearch(p) \/ CopyEnd(p)
  PROVE  CInv'
<1>1. content' = content /\ mixed' = mixed
  BY DEF indopen, indxchg, OpenFails, indsearch, CopyEnd
<1>2. \A q \in Procs : q # p => op'[q] = op[q] /\ desc'[q] = desc[q]
  BY DEF indopen, indxchg, OpenFails, indsearch, CopyEnd, IInv, TypeOK
<1>3. Apart(op'[p])
  <2>1. CASE indopen(p)
    BY <2>1 DEF indopen, OpenOf, Apart, IInv, TypeOK
  <2>2. CASE indxchg(p)
    BY <2>2 DEF indxchg, OpenOf, Apart, IInv, TypeOK
  <2>3. CASE OpenFails(p) \/ CopyEnd(p)
    BY <2>3 DEF OpenFails, CopyEnd, Apart, Idle, IInv, TypeOK
  <2>4. CASE indsearch(p)
    BY <2>4 DEF indsearch, Apart, IInv, TypeOK
  <2> QED
    BY <2>1, <2>2, <2>3, <2>4
<1> QED
  BY <1>1, <1>2, <1>3, StillCopies

(* The calls on a descriptor, by a process that is doing nothing else.     *)
LEMMA CallCopies ==
  ASSUME IInv, RInv, CInv, NEW p \in Procs, indread(p) \/ indlseek(p) \/ indclose(p)
  PROVE  CInv'
<1>1. content' = content /\ mixed \subseteq mixed' /\ op' = op
  BY DEF indread, indlseek, indclose, Mix
<1>2. op[p] = Idle
  BY DEF indread, indlseek, indclose, Use, Call
<1>3. \A q \in Procs : q # p => desc'[q] = desc[q]
  BY DEF indread, indlseek, indclose, Consume, IInv, TypeOK
<1>4. Apart(op'[p])
  BY <1>1, <1>2 DEF Apart, Idle
<1> QED
  BY <1>1, <1>3, <1>4, StillCopies

LEMMA SearchCopies ==
  ASSUME IInv, RInv, CInv, NEW p \in Procs, Search(p)
  PROVE  CInv'
<1>1. content' = content /\ mixed' = mixed /\ op[p].step = "search"
  BY DEF Search
<1>2. \A q \in Procs : q # p => op'[q] = op[q] /\ desc'[q] = desc[q]
  BY DEF Search, Consume, IInv, TypeOK
<1>3. op'[p] = Idle \/ op'[p] = op[p]
  BY DEF Search, IInv, TypeOK
<1>4. Apart(op'[p])
  BY <1>1, <1>3 DEF Apart, Idle
<1> QED
  BY <1>1, <1>2, <1>4, StillCopies

(* open empties no file that a copy uses.                                  *)
LEMMA OpenCopies ==
  ASSUME IInv, RInv, CInv, NEW p \in Procs, Open(p)
  PROVE  CInv'
<1>0. PICK f \in Files, fd \in Fds, h \in Heads, d \in Descriptor : Opened(p, f, fd, h, d)
  BY Opens1
<1>1. PICK o : o = op[p]
  OBVIOUS
<1>2. /\ o \in Opens /\ o.step = "open"
      /\ desc[p][fd] = Closed
      /\ h.step = "head" /\ h.for = o.for
      /\ mixed' = IF Breaks(o, f) THEN mixed \cup {f} ELSE mixed
  BY <1>0, <1>1 DEF Opened
<1>3. op'[p] = h /\ \A q \in Procs : q # p => op'[q] = op[q]
  BY <1>0 DEF Opened, IInv, TypeOK
<1>4. /\ \A x \in Fds : x # fd => desc'[p][x] = desc[p][x]
      /\ \A q \in Procs : q # p => desc'[q] = desc[q]
  BY <1>0 DEF Opened, IInv, TypeOK
<1>5. /\ \A g \in Files : g # f => content'[g] = content[g]
      /\ content'[f] = IF content[f] = Missing \/ o.flags.trunc THEN <<>> ELSE content[f]
  BY <1>0, <1>1 DEF Opened, IInv, TypeOK
<1>6. ASSUME NEW q \in Procs, NEW x \in Fds, NEW g \in Files \ mixed', On(q, x, g)
      PROVE  content'[g] = content[g]
  <2>1. CASE g = f
    <3>1. content[f] # Missing
      BY <1>6, <2>1 DEF IInv, Shared, Present, On
    <3>2. ~o.flags.trunc
      BY <1>0, <1>1, <1>6, <2>1, OpenAlone
    <3> QED
      BY <1>5, <2>1, <3>1, <3>2
  <2>2. CASE g # f
    BY <1>5, <1>6, <2>2
  <2> QED
    BY <2>1, <2>2
<1>7. ASSUME NEW q \in Procs, q # p, Copier(q), op[q].from \notin mixed', op[q].to \notin mixed'
      PROVE  /\ content'[op[q].to] = content[op[q].to]
             /\ SameUpTo(content[op[q].from], content'[op[q].from], desc[q][op[q].old].pos)
  <2>1. /\ op[q].from \in Files /\ op[q].to \in Files /\ op[q].old \in Fds /\ op[q].new \in Fds
        /\ On(q, op[q].old, op[q].from) /\ On(q, op[q].new, op[q].to)
    BY <1>7, CopierFacts DEF On
  <2>2. content'[op[q].to] = content[op[q].to] /\ content'[op[q].from] = content[op[q].from]
    BY <1>6, <1>7, <2>1
  <2> QED
    BY <2>2 DEF SameUpTo
<1>8. Copy(p)' /\ ~Copier(p)'
  BY <1>2, <1>3 DEF Copy, Copier
<1>9. OldPlace(p)'
  <2> SUFFICES ASSUME h.for.caller = "new", h.for.from \notin mixed'
               PROVE  desc'[p][h.for.old].pos = HEADER
    BY <1>3 DEF OldPlace
  <2>1. desc[p][o.for.old].pos = HEADER
    BY <1>1, <1>2 DEF CInv, OldPlaced
  <2>2. IsOpen(p, o.for.old) /\ o.for.old \in Fds
    BY <1>1, <1>2 DEF IInv, Holding, Opens, Purpose
  <2> QED
    BY <1>2, <1>4, <2>1, <2>2 DEF IsOpen
<1>10. mixed \subseteq mixed'
  BY <1>2
<1>11. Copier(p)' =>
           \/ Copier(p) /\ op'[p].to = op[p].to
           \/ \A q \in Procs : q # p /\ Copier(q) /\ op[q].to = op'[p].to => op[q].to \in mixed'
  BY <1>8
<1> QED
  BY <1>3, <1>4, <1>7, <1>8, <1>9, <1>10, <1>11, CopiesKept

(* indwrite writes cells where its descriptor stands.                      *)
LEMMA CallWrites ==
  ASSUME IInv, NEW p \in Procs, NEW fd \in Fds, NEW v \in Values, Use(p, fd, {"W", "RW"}),
         Put(p, fd, Record(v, tab[p][fd])), desc[p][fd].path \in Files
  PROVE  \E pos \in Nat, s \in Seq(Cell) :
           /\ pos = desc[p][fd].pos
           /\ content'[desc[p][fd].path] = WriteAt(content[desc[p][fd].path], pos, s)
<1>1. desc[p][fd].pos \in Nat
  BY DEF Use, Free, IInv, TypeOK, Descriptor
<1>2. tab[p][fd] \in Inds
  BY DEF Use, IInv, TypeOK
<1>3. Record(v, tab[p][fd]) \in Seq(Cell)
  <2>1. tab[p][fd] \in Nat
    BY <1>2, FicindexAssumption
  <2> QED
    BY <2>1, RecordType
<1>4. content'[desc[p][fd].path] =
        WriteAt(content[desc[p][fd].path], desc[p][fd].pos, Record(v, tab[p][fd]))
  BY DEF Put, IInv, TypeOK
<1> QED
  BY <1>1, <1>3, <1>4

(* indwrite changes nothing a copy has read, and nothing it makes.         *)
LEMMA WriteCopies ==
  ASSUME IInv, RInv, CInv, NEW p \in Procs, indwrite(p)
  PROVE  CInv'
<1>1. PICK fd \in Fds, v \in Values :
        /\ Use(p, fd, {"W", "RW"})
        /\ Put(p, fd, Record(v, tab[p][fd]))
        /\ Mix(desc[p][fd].path, Disturbs(p, fd))
  BY DEF indwrite
<1>2. op' = op /\ op[p] = Idle /\ op[p].step = "idle"
  BY <1>1 DEF indwrite, Use, Call, Idle
<1>3. PICK f : f = desc[p][fd].path
  OBVIOUS
<1>4. mixed' = IF Disturbs(p, fd) THEN mixed \cup {f} ELSE mixed
  BY <1>1, <1>3 DEF Mix
<1>5. \A g \in Files : g # f => content'[g] = content[g]
  BY <1>1, <1>3 DEF Put, IInv, TypeOK
<1>6. \A q \in Procs : q # p => op'[q] = op[q] /\ desc'[q] = desc[q]
  BY <1>1, <1>2 DEF Put, IInv, TypeOK
<1>7. ASSUME NEW q \in Procs, q # p, Copier(q), op[q].from \notin mixed', op[q].to \notin mixed'
      PROVE  /\ content'[op[q].to] = content[op[q].to]
             /\ SameUpTo(content[op[q].from], content'[op[q].from], desc[q][op[q].old].pos)
  <2>1. PICK old, x : old = content[op[q].from] /\ x = desc[q][op[q].old].pos
    OBVIOUS
  <2>2. op[q].from \in Files /\ op[q].to \in Files /\ op[q].from \notin mixed
    BY <1>4, <1>7, CopierFacts
  <2>3. old \in Seq(Cell) /\ x \in Nat /\ x <= Len(old)
    BY <1>7, <2>1, <2>2, CopierFacts
  <2>4. f \in {op[q].from, op[q].to} => ~Disturbs(p, fd)
    BY <1>4, <1>7
  <2>5. op[q].to # f
    BY <1>3, <1>7, <2>4 DEF Disturbs, Copier
  <2>6. SameUpTo(old, content'[op[q].from], x)
    <3>1. CASE op[q].from = f
      <4>1. PICK pos \in Nat, s \in Seq(Cell) :
              pos = desc[p][fd].pos /\ content'[f] = WriteAt(old, pos, s)
        BY <1>1, <1>3, <2>1, <2>2, <3>1, CallWrites
      <4>2. x <= pos
        <5>1. ~(x > pos)
          BY <1>3, <1>7, <2>1, <2>4, <3>1, <4>1 DEF Disturbs, Copier
        <5> QED
          BY <2>3, <4>1, <5>1
      <4>3. \A k \in 1 .. Len(old) : k <= pos => WriteAt(old, pos, s)[k] = old[k]
        BY <2>3, WriteCells
      <4>4. \A k \in 1 .. x : k \in 1 .. Len(old) /\ k <= pos
        BY <2>3, <4>2
      <4> QED
        BY <3>1, <4>1, <4>3, <4>4 DEF SameUpTo
    <3>2. CASE op[q].from # f
      BY <1>5, <2>1, <2>2, <3>2 DEF SameUpTo
    <3> QED
      BY <3>1, <3>2
  <2> QED
    BY <1>5, <2>1, <2>2, <2>5, <2>6
<1>8. Copy(p)' /\ ~Copier(p)' /\ OldPlace(p)'
  BY <1>2 DEF Copy, Copier, OldPlace
<1>9. mixed \subseteq mixed'
  BY <1>4
<1>10. Copier(p)' =>
           \/ Copier(p) /\ op'[p].to = op[p].to
           \/ \A q \in Procs : q # p /\ Copier(q) /\ op[q].to = op'[p].to => op[q].to \in mixed'
  BY <1>8
<1> QED
  BY <1>6, <1>7, <1>8, <1>9, <1>10, CopiesKept

(* The end of an opening: of a file nobody else has, when its header is    *)
(* written, and the copy into it begins.                                   *)
LEMMA HeadCopies ==
  ASSUME IInv, RInv, CInv, NEW p \in Procs, op[p].step = "head",
         NEW size \in Inds \cup {Unset}, NEW pos \in Nat, NEW o \in {Idle} \cup Opens \cup Reads,
         op' = [op EXCEPT ![p] = o],
         o.step = "open" /\ o.for.caller = "new" =>
           o.for.old = op[p].ind[1] /\ o.for.from = op[p].path,
         o.step = "read" =>
           /\ BecomesNew(op[p]) /\ op[p].for.caller = "new" /\ o.old = op[p].for.old
           /\ o.new = op[p].ind[1] /\ o.from = op[p].for.from /\ o.to = op[p].path,
         MoveTo(p, op[p].ind[1], pos), mixed \subseteq mixed',
         NEW c \in Seq(Cell), content' = [content EXCEPT ![op[p].path] = c],
         c = content[op[p].path] \/ BecomesNew(op[p]),
         op[p].path \notin mixed' => pos = HEADER,
         o.step = "read" /\ op[p].path \notin mixed' => Len(c) = HEADER
  PROVE  CInv'
<1>1. PICK f \in Files, fd \in Fds : f = op[p].path /\ fd = op[p].ind[1]
  BY Steps DEF IInv, Heads
<1>2. IsOpen(p, fd) /\ desc[p][fd].path = f /\ InHead(p, f)
  BY <1>1 DEF IInv, Holding, On, InHead
<1>3. /\ desc'[p][fd].pos = pos
      /\ \A x \in Fds : x # fd => desc'[p][x] = desc[p][x]
      /\ \A q \in Procs : q # p => desc'[q] = desc[q]
  BY <1>1, HeadMoves
<1>4. op'[p] = o /\ \A q \in Procs : q # p => op'[q] = op[q]
  BY DEF IInv, TypeOK
<1>5. content'[f] = c /\ \A g \in Files : g # f => content'[g] = content[g]
  BY <1>1 DEF IInv, TypeOK
<1>6. ~Copier(p) /\ (Copier(p)' => o \in Reads /\ o.step = "read")
  BY <1>4 DEF Copier, Idle, Opens, Reads
<1>7. ASSUME NEW q \in Procs, NEW x \in Fds, q # p, Copier(q), On(q, x, f), f \notin mixed'
      PROVE  ~BecomesNew(op[p])
  <2>1. f \in Files \ mixed
    BY <1>7
  <2>2. ~InHead(q, f)
    BY <1>7 DEF Copier, InHead
  <2> QED
    BY <1>2, <1>7, <2>1, <2>2 DEF IInv, Shared, Fresh, Awaits
<1>8. ASSUME NEW q \in Procs, NEW x \in Fds, NEW g \in Files \ mixed', q # p, Copier(q), On(q, x, g)
      PROVE  content'[g] = content[g]
  <2>1. CASE g = f
    BY <1>1, <1>5, <1>7, <1>8, <2>1
  <2>2. CASE g # f
    BY <1>5, <1>8, <2>2
  <2> QED
    BY <2>1, <2>2
<1>9. ASSUME NEW q \in Procs, q # p, Copier(q), op[q].from \notin mixed', op[q].to \notin mixed'
      PROVE  /\ content'[op[q].to] = content[op[q].to]
             /\ SameUpTo(content[op[q].from], content'[op[q].from], desc[q][op[q].old].pos)
  <2>1. /\ op[q].from \in Files /\ op[q].to \in Files /\ op[q].old \in Fds /\ op[q].new \in Fds
        /\ On(q, op[q].old, op[q].from) /\ On(q, op[q].new, op[q].to)
    BY <1>9, CopierFacts DEF On
  <2>2. content'[op[q].to] = content[op[q].to] /\ content'[op[q].from] = content[op[q].from]
    BY <1>8, <1>9, <2>1
  <2> QED
    BY <2>2 DEF SameUpTo
<1>10. Copier(p)' => \A q \in Procs : q # p /\ Copier(q) /\ op[q].to = op'[p].to => op[q].to \in mixed'
  <2> SUFFICES ASSUME Copier(p)', NEW q \in Procs, q # p, Copier(q), op[q].to = op'[p].to, op[q].to \notin mixed'
               PROVE  FALSE
    OBVIOUS
  <2>1. op[q].to = f /\ BecomesNew(op[p])
    BY <1>1, <1>4, <1>6
  <2>2. op[q].new \in Fds /\ On(q, op[q].new, f)
    BY <2>1, CopierFacts DEF On
  <2> QED
    BY <1>7, <2>1, <2>2
<1>11. OldPlace(p)'
  <2> SUFFICES ASSUME o.step \in {"open", "head"}, o.for.caller = "new", o.for.from \notin mixed'
               PROVE  desc'[p][o.for.old].pos = HEADER
    BY <1>4 DEF OldPlace
  <2>1. o.step = "open"
    BY DEF Idle, Opens, Reads
  <2> QED
    BY <1>1, <1>3, <2>1
<1>12. Copy(p)'
  <2> SUFFICES ASSUME Copier(p)', o.from \notin mixed', o.to \notin mixed'
               PROVE  \E k \in Nat : CopyOf(o, content'[o.from], content'[o.to],
                                            desc'[p][o.old].pos, desc'[p][o.new].pos, k)
    BY <1>4 DEF Copy
  <2>1. /\ o \in Reads /\ o.step = "read" /\ op[p].for.caller = "new" /\ o.old = op[p].for.old
        /\ o.new = fd /\ o.from = op[p].for.from /\ o.to = f
    BY <1>1, <1>6
  <2>2. desc'[p][o.new].pos = HEADER /\ Len(content'[o.to]) = HEADER
    BY <1>1, <1>3, <1>5, <2>1
  <2>3. desc'[p][o.old].pos = HEADER
    <3>1. op[p].for.from \notin mixed
      BY <2>1
    <3>2. desc[p][o.old].pos = HEADER
      BY <2>1, <3>1 DEF CInv, OldPlaced
    <3>3. o.old # fd
      BY <1>1, <2>1 DEF RInv, Works, WorkOf
    <3>4. o.old \in Fds
      BY <2>1 DEF Reads
    <3> QED
      BY <1>3, <3>2, <3>3, <3>4
  <2>4. 0 * o.newind = 0 /\ 0 * o.oldind = 0
    <3>1. o.newind \in Int /\ o.oldind \in Int
      <4>1. Inds \cup {Unset} \subseteq Int
        BY FicindexAssumption DEF Unset
      <4> QED
        BY <2>1, <4>1 DEF Reads
    <3>2. \A i \in Int : 0 * i = 0
      OBVIOUS
    <3> QED
      BY <3>1, <3>2
  <2>5. HEADER \in Nat /\ HEADER + 0 = HEADER /\ 0 .. 0 - 1 = {}
    BY FicindexAssumption
  <2>6. CopyOf(o, content'[o.from], content'[o.to], HEADER, HEADER, 0)
    BY <2>1, <2>2, <2>4, <2>5 DEF CopyOf
  <2> QED
    BY <2>2, <2>3, <2>6
<1> QED
  BY <1>3, <1>4, <1>9, <1>10, <1>11, <1>12, CopiesKept

LEMMA WriteHeaderCopies ==
  ASSUME IInv, RInv, CInv, NEW p \in Procs, WriteHeader(p)
  PROVE  CInv'
<1>1. op[p].step = "head" /\ op[p] \in Heads
  BY Steps DEF IInv, WriteHeader
<1>2. PICK f \in Files, fd \in Fds, ind \in Inds : f = op[p].path /\ fd = op[p].ind[1] /\ ind = op[p].ind[2]
  BY <1>1 DEF Heads
<1>3. /\ BecomesNew(op[p])
      /\ content' = [content EXCEPT ![f] = WriteAt(@, 0, Header(ind))]
      /\ desc' = [desc EXCEPT ![p][fd].pos = HEADER]
      /\ Continue(p, fd, ind)
      /\ mixed' = mixed
  BY <1>2 DEF WriteHeader
<1>4. PICK o \in {Idle} \cup Opens \cup Reads :
        /\ op' = [op EXCEPT ![p] = o]
        /\ o.step = "open" /\ o.for.caller = "new" =>
             o.for.old = op[p].ind[1] /\ o.for.from = op[p].path
        /\ o.step = "read" =>
             /\ op[p].for.caller = "new" /\ o.old = op[p].for.old /\ o.new = op[p].ind[1]
             /\ o.from = op[p].for.from /\ o.to = op[p].path
  BY <1>1, <1>2, <1>3, Continues DEF IInv
<1>5. content[f] \in Seq(Cell)
  <2>1. IsOpen(p, fd) /\ desc[p][fd].path = f
    BY <1>1, <1>2 DEF IInv, Holding, On
  <2> QED
    BY <2>1 DEF IInv, TypeOK, Shared, Present
<1>6. PICK s \in Seq(Cell) : s = Header(ind) /\ Len(s) = HEADER
  BY HeaderType
<1>7. PICK c : c = WriteAt(content[f], 0, s)
  OBVIOUS
<1>8. HEADER \in Nat \ {0} /\ HEADER \in Nat
  BY FicindexAssumption
<1>9. /\ c \in Seq(Cell)
      /\ Len(c) = IF 0 + Len(s) > Len(content[f]) THEN 0 + Len(s) ELSE Len(content[f])
  BY <1>5, <1>7, WriteCells
<1>10. content' = [content EXCEPT ![f] = c]
  BY <1>3, <1>6, <1>7
<1>11. f \notin mixed' => Len(c) = HEADER
  <2> SUFFICES ASSUME f \notin mixed' PROVE Len(c) = HEADER
    OBVIOUS
  <2>1. content[f] = <<>>
    BY <1>1, <1>2, <1>3 DEF RInv, Blank, InHead
  <2> QED
    BY <1>6, <1>8, <1>9, <2>1
<1>12. ind \in Inds \cup {Unset} /\ mixed \subseteq mixed' /\ MoveTo(p, op[p].ind[1], HEADER)
  BY <1>2, <1>3 DEF MoveTo
<1> QED
  BY <1>1, <1>2, <1>3, <1>4, <1>8, <1>9, <1>10, <1>11, <1>12, HeadCopies

LEMMA ReadHeaderCopies ==
  ASSUME IInv, RInv, CInv, NEW p \in Procs, ReadHeader(p)
  PROVE  CInv'
<1>1. op[p].step = "head" /\ op[p] \in Heads /\ ~BecomesNew(op[p])
  BY Steps DEF IInv, ReadHeader
<1>2. PICK f \in Files, fd \in Fds : f = op[p].path /\ fd = op[p].ind[1]
  BY <1>1 DEF Heads
<1>3. PICK n \in Inds \cup {Unset} : Continue(p, fd, n)
  BY <1>2 DEF ReadHeader
<1>4. /\ desc' = [desc EXCEPT ![p][fd].pos =
                     IF op[p].flags.access # "W" THEN Len(ReadAt(content[f], 0, HEADER)) ELSE 0]
      /\ mixed' = IF op[p].flags.access = "W" \/ Unwritten(f) THEN mixed \cup {f} ELSE mixed
      /\ content' = content
  BY <1>2 DEF ReadHeader, Mix
<1>5. op[p].for.caller # "new"
  <2>1. op[p].for.caller = "new" => op[p].flags = Overwrite
    BY <1>1 DEF IInv, Holding
  <2>2. op[p].flags = Overwrite => BecomesNew(op[p])
    BY <1>1 DEF BecomesNew, Overwrite, Heads
  <2> QED
    BY <1>1, <2>1, <2>2
<1>6. PICK o \in {Idle} \cup Opens \cup Reads :
        /\ op' = [op EXCEPT ![p] = o]
        /\ o.step = "open" /\ o.for.caller = "new" =>
             o.for.old = op[p].ind[1] /\ o.for.from = op[p].path
        /\ o.step # "read"
  <2>1. TypeOK /\ Holding /\ Continue(p, op[p].ind[1], n)
    BY <1>2, <1>3 DEF IInv
  <2> QED
    BY <1>1, <1>5, <2>1, Continues
<1>7. PICK c : c = content[f]
  OBVIOUS
<1>8. c \in Seq(Cell) /\ c # Missing
  <2>1. IsOpen(p, fd) /\ desc[p][fd].path = f
    BY <1>1, <1>2 DEF IInv, Holding, On
  <2> QED
    BY <1>7, <2>1 DEF IInv, TypeOK, Shared, Present
<1>9. HEADER \in Nat \ {0}
  BY FicindexAssumption
<1>10. PICK pos \in Nat :
         pos = IF op[p].flags.access # "W" THEN Len(ReadAt(c, 0, HEADER)) ELSE 0
  <2>1. Len(ReadAt(c, 0, HEADER)) \in Nat
    BY <1>8, <1>9, ReadType
  <2> QED
    BY <2>1
<1>11. f \notin mixed' => pos = HEADER
  <2> SUFFICES ASSUME f \notin mixed' PROVE pos = HEADER
    OBVIOUS
  <2>1. op[p].flags.access # "W" /\ f \notin mixed /\ ~Unwritten(f)
    BY <1>4
  <2>2. \A q \in Procs : ~(InHead(q, f) /\ BecomesNew(op[q]))
    BY <2>1 DEF Unwritten, InHead
  <2>3. \E m \in Inds : HasHeader(c, m)
    BY <1>7, <1>8, <2>1, <2>2 DEF IInv, Shared, Headed
  <2>4. 0 + HEADER <= Len(c)
    BY <1>8, <1>9, <2>3, HeaderCells
  <2> QED
    BY <1>8, <1>9, <1>10, <2>1, <2>4, ReadCells
<1>12. content' = [content EXCEPT ![f] = c]
  BY <1>4, <1>7 DEF IInv, TypeOK
<1>13. MoveTo(p, op[p].ind[1], pos) /\ mixed \subseteq mixed'
  BY <1>2, <1>4, <1>7, <1>10 DEF MoveTo
<1>14. c = content[op[p].path] /\ op[p].path \notin mixed' => pos = HEADER
  BY <1>2, <1>7, <1>11
<1> QED
  BY <1>1, <1>2, <1>6, <1>7, <1>8, <1>11, <1>12, <1>13, HeadCopies

(* A record read is the one that follows the place.                        *)
LEMMA RecordRead ==
  ASSUME NEW n \in Nat \ {0}, NEW c \in Seq(Cell), Filled(c, n),
         NEW x \in Nat, Boundary(n, x), x <= Len(c), ReadAt(c, x, n) # <<>>
  PROVE  /\ x < Len(c) /\ x + n <= Len(c)
         /\ ReadAt(c, x, n) \in Seq(Cell) /\ Len(ReadAt(c, x, n)) = n
         /\ \A i \in 1 .. n : ReadAt(c, x, n)[i] = c[x + i]
<1>1. /\ x + n <= Len(c)
      /\ ReadAt(c, x, n) \in Seq(Cell) /\ Len(ReadAt(c, x, n)) = n
  BY ReadFilled
<1>2. \A i \in 1 .. n : ReadAt(c, x, n)[i] = c[x + i]
  BY <1>1, ReadCells
<1>3. x < Len(c)
  <2>1. PICK l \in Nat : l = Len(c)
    OBVIOUS
  <2>2. x + n <= l
    BY <1>1, <2>1
  <2> QED
    BY <2>1, <2>2
<1> QED
  BY <1>1, <1>2, <1>3

(* The buffer begins with what was read.                                   *)
LEMMA BufferBegins ==
  ASSUME NEW r \in Seq(Cell), NEW rest \in Seq(Cell), NEW n \in Nat,
         NEW i \in 1 .. n, i <= Len(r)
  PROVE  Fit(r \o rest, n)[i] = r[i]
<1>1. PICK s \in Seq(Cell) : s = r \o rest /\ i <= Len(s) /\ s[i] = r[i]
  <2>1. r \o rest \in Seq(Cell) /\ Len(r \o rest) = Len(r) + Len(rest)
    BY ConcatProperties
  <2>2. i \in 1 .. Len(r) /\ Len(r) \in Nat /\ Len(rest) \in Nat
    OBVIOUS
  <2>3. (r \o rest)[i] = r[i]
    BY <2>2, ConcatProperties
  <2>4. i <= Len(r \o rest)
    BY <2>1, <2>2
  <2> QED
    BY <2>1, <2>3, <2>4
<1>2. Fit(s, n)[i] = IF i <= Len(s) THEN s[i] ELSE Junk
  BY FitCells
<1> QED
  BY <1>1, <1>2

(* indxchg reads the record that follows those it has copied.              *)
LEMMA CopyReadCopies ==
  ASSUME IInv, RInv, RInv', CInv, NEW p \in Procs, CopyRead(p)
  PROVE  CInv'
<1>1. PICK h : h = op[p]
  OBVIOUS
<1>2. /\ h \in Reads /\ h.step = "read" /\ h.oldind # Unset /\ Consume(p, h.old)
      /\ Next1(p, h.old) # <<>> /\ Copier(p)
      /\ UNCHANGED <<content, tab, mixed>>
  BY <1>1, Steps DEF IInv, CopyRead, Copier
<1>3. /\ h.old \in Fds /\ h.new \in Fds /\ h.oldind \in Inds /\ h.newind \in Inds /\ h.mot \in Seq(Cell)
      /\ IsOpen(p, h.old) /\ IsOpen(p, h.new)
  BY <1>1, <1>2 DEF Reads, IInv, Holding
<1>4. PICK pos \in Nat : MoveTo(p, h.old, pos)
  BY <1>2, <1>3, ConsumeMoves
<1>5. /\ \A q \in Procs : q # p => desc'[q] = desc[q]
      /\ desc'[p][h.old].pos = pos
      /\ \A y \in Fds : y # h.old => desc'[p][y] = desc[p][y]
  BY <1>3, <1>4, Moved DEF IInv
<1>6. PICK n \in Nat : /\ n = (IF h.newind > h.oldind THEN h.newind ELSE h.oldind)
                       /\ h.newind <= n
  <2>1. PICK a \in Nat, b \in Nat : a = h.newind /\ b = h.oldind
    BY <1>3, FicindexAssumption
  <2> QED
    BY <2>1
<1>7. PICK r : r = Next1(p, h.old)
  OBVIOUS
<1>8. PICK rest : rest = SubSeq(h.mot, Len(r) + 1, Len(h.mot))
  OBVIOUS
<1>9. PICK mot : mot = Fit(r \o rest, n)
  OBVIOUS
<1>10. PICK o : o = [h EXCEPT !.step = "write", !.mot = mot]
  OBVIOUS
<1>11. op'[p] = o /\ \A q \in Procs : q # p => op'[q] = op[q]
  BY <1>1, <1>6, <1>7, <1>8, <1>9, <1>10 DEF CopyRead, IInv, TypeOK
<1>12. /\ o.step = "write" /\ o.old = h.old /\ o.new = h.new /\ o.from = h.from /\ o.to = h.to
       /\ o.oldind = h.oldind /\ o.newind = h.newind /\ o.mot = mot
  BY <1>2, <1>10 DEF Reads
<1>13. ASSUME h.from \notin mixed, h.to \notin mixed
       PROVE  \E k \in Nat : CopyOf(o, content'[o.from], content'[o.to],
                                    desc'[p][o.old].pos, desc'[p][o.new].pos, k)
  <2>1. PICK old, new, x, y, a, b :
          /\ old = content[h.from] /\ new = content[h.to]
          /\ x = desc[p][h.old].pos /\ y = desc[p][h.new].pos /\ a = h.oldind /\ b = h.newind
    OBVIOUS
  <2>2. /\ old \in Seq(Cell) /\ new \in Seq(Cell) /\ x \in Nat /\ y \in Nat
        /\ a \in Nat \ {0} /\ b \in Nat \ {0}
        /\ Filled(old, a) /\ Boundary(a, x) /\ x <= Len(old)
        /\ tab[p][h.old] = a /\ desc[p][h.old].path = h.from /\ desc[p][h.new].path = h.to
    BY <1>1, <1>2, <1>13, <2>1, CopierFacts
  <2>3. PICK k \in Nat : CopyOf(h, old, new, x, y, k)
    BY <1>1, <1>2, <1>13, <2>1 DEF CInv, Copies
  <2>4. r = ReadAt(old, x, a) /\ r # <<>>
    BY <1>2, <1>7, <2>1, <2>2 DEF Next1
  <2>5. /\ x < Len(old) /\ r \in Seq(Cell) /\ Len(r) = a
        /\ \A i \in 1 .. a : r[i] = old[x + i]
    BY <2>2, <2>4, RecordRead
  <2>6. h.new # h.old
    <3>1. y = Len(new)
      BY <2>3 DEF CopyOf
    <3>2. ~(Len(new) < Len(new))
      BY <2>2
    <3> QED
      BY <2>1, <2>2, <2>5, <3>1, <3>2
  <2>7. pos = x + a
    <3>1. desc' = [desc EXCEPT ![p][h.old].pos = @ + Len(r)]
      BY <1>2, <1>7 DEF Consume
    <3>2. desc[p][h.old] \in Descriptor
      BY <1>3 DEF IInv, TypeOK, IsOpen
    <3>3. desc \in [Procs -> [Fds -> Descriptor \cup {Closed}]]
      BY DEF IInv, TypeOK
    <3>4. desc'[p][h.old] = [desc[p][h.old] EXCEPT !.pos = @ + Len(r)]
      BY <1>3, <3>1, <3>3
    <3>5. desc'[p][h.old].pos = desc[p][h.old].pos + Len(r)
      BY <3>2, <3>4 DEF Descriptor
    <3> QED
      BY <1>5, <2>1, <2>5, <3>5
  <2>8. x = HEADER + k * a /\ y = HEADER + k * b /\ Len(new) = y
        /\ \A j \in 0 .. k - 1 : Recopied(old, HEADER + j * a, a, new, HEADER + j * b, b)
    BY <1>2, <2>1, <2>3 DEF CopyOf
  <2>9. pos = HEADER + (k + 1) * a
    <3>1. (k + 1) * a = k * a + a /\ k * a \in Nat /\ HEADER \in Nat
      BY <2>2, Multiples, FicindexAssumption
    <3>2. PICK t \in Nat : t = k * a
      BY <3>1
    <3> QED
      BY <2>2, <2>7, <2>8, <3>1, <3>2
  <2>10. Recopied(old, x, a, mot, 0, b)
    <3>1. Len(mot) = n /\ rest \in Seq(Cell)
      <4>1. PICK l \in Nat : l = Len(h.mot)
        BY <1>3
      <4>2. l <= Len(h.mot) /\ a \in Nat
        BY <2>2, <4>1
      <4>3. SubSeq(h.mot, a + 1, l) \in Seq(Cell)
        BY <1>3, <4>2, SubSeqCells
      <4>4. rest \in Seq(Cell)
        BY <1>8, <2>5, <4>1, <4>3
      <4>5. r \o rest \in Seq(Cell)
        BY <2>5, <4>4, ConcatProperties
      <4> QED
        BY <1>9, <4>4, <4>5, FitCells
    <3>2. \A j \in 1 .. n : j > a => mot[j] = Junk
      <4>1. WorkOf(o, desc'[p], tab'[p], mixed')
        BY <1>11 DEF RInv, Works
      <4>2. o.from \notin mixed'
        BY <1>2, <1>12, <1>13
      <4>3. \A j \in 1 .. Len(o.mot) : j > o.oldind => o.mot[j] = Junk
        BY <1>12, <4>1, <4>2 DEF WorkOf
      <4> QED
        BY <1>12, <2>1, <3>1, <4>3
    <3>3. b <= n
      BY <1>6, <2>1
    <3> SUFFICES ASSUME NEW i \in 1 .. b
                 PROVE  mot[0 + i] = IF i <= a THEN old[x + i] ELSE Junk
      BY DEF Recopied
    <3>4. i \in 1 .. n /\ 0 + i = i
      BY <2>2, <3>3
    <3>5. CASE i <= a
      <4>1. mot[i] = r[i]
        BY <1>9, <2>5, <3>1, <3>4, <3>5, BufferBegins
      <4>2. i \in 1 .. a
        BY <2>2, <3>5
      <4> QED
        BY <2>5, <3>4, <3>5, <4>1, <4>2
    <3>6. CASE ~(i <= a)
      <4>1. i > a
        BY <2>2, <3>6
      <4> QED
        BY <3>2, <3>4, <3>6, <4>1
    <3> QED
      BY <3>5, <3>6
  <2>11. CopyOf(o, old, new, pos, y, k)
    BY <1>12, <2>1, <2>8, <2>9, <2>10 DEF CopyOf
  <2> QED
    BY <1>2, <1>3, <1>5, <1>12, <2>1, <2>6, <2>11
<1>14. Copy(p)'
  BY <1>2, <1>11, <1>12, <1>13 DEF Copy
<1>15. OldPlace(p)'
  BY <1>11, <1>12 DEF OldPlace
<1>16. Copier(p) /\ op'[p].to = op[p].to
  BY <1>1, <1>2, <1>11, <1>12
<1>17. \A q \in Procs : q # p /\ Copier(q) /\ op[q].from \notin mixed' /\ op[q].to \notin mixed' =>
           /\ content'[op[q].to] = content[op[q].to]
           /\ SameUpTo(content[op[q].from], content'[op[q].from], desc[q][op[q].old].pos)
  BY <1>2, Unchanged
<1>18. mixed \subseteq mixed' /\ \A q \in Procs : q # p => op'[q] = op[q] /\ desc'[q] = desc[q]
  BY <1>2, <1>5, <1>11
<1> QED
  BY <1>14, <1>15, <1>16, <1>17, <1>18, CopiesKept

(* One record more is another place.                                       *)
LEMMA NextPlace ==
  ASSUME NEW n \in Nat \ {0}, NEW k \in Nat
  PROVE  HEADER + (k + 1) * n # HEADER + k * n
<1>1. PICK t \in Nat : t = k * n
  BY Multiples
<1>2. (k + 1) * n = t + n
  BY <1>1, Multiples
<1>3. HEADER \in Nat
  BY FicindexAssumption
<1>4. HEADER + (t + n) # HEADER + t
  BY <1>3
<1> QED
  BY <1>1, <1>2, <1>4

(* A record written after those copied is one more of them.                *)
LEMMA CopyGrows ==
  ASSUME NEW h, NEW o, h.step = "write", o.step = "read",
         o.oldind = h.oldind, o.newind = h.newind,
         h.oldind \in Nat \ {0}, h.newind \in Nat \ {0},
         NEW old, NEW new \in Seq(Cell), NEW x, NEW y \in Nat, NEW k \in Nat,
         CopyOf(h, old, new, x, y, k),
         NEW s \in Seq(Cell), Len(s) = h.newind, \A i \in 1 .. h.newind : s[i] = h.mot[i]
  PROVE  /\ CopyOf(o, old, WriteAt(new, y, s), x, y + h.newind, k + 1)
         /\ SameUpTo(new, WriteAt(new, y, s), Len(new))
<1>1. PICK a \in Nat \ {0}, b \in Nat \ {0} : a = h.oldind /\ b = h.newind
  OBVIOUS
<1>2. PICK c : c = WriteAt(new, y, s)
  OBVIOUS
<1>3. /\ y = HEADER + k * b /\ Len(new) = y /\ x = HEADER + (k + 1) * a
      /\ \A j \in 0 .. k - 1 : Recopied(old, HEADER + j * a, a, new, HEADER + j * b, b)
      /\ Recopied(old, HEADER + k * a, a, h.mot, 0, b)
  BY <1>1 DEF CopyOf
<1>4. /\ Len(c) = (IF y + Len(s) > Len(new) THEN y + Len(s) ELSE Len(new))
      /\ \A i \in 1 .. Len(s) : c[y + i] = s[i]
      /\ \A i \in 1 .. Len(new) : i <= y \/ i > y + Len(s) => c[i] = new[i]
  <2>1. /\ Len(WriteAt(new, y, s)) = (IF y + Len(s) > Len(new) THEN y + Len(s) ELSE Len(new))
        /\ \A i \in 1 .. Len(s) : WriteAt(new, y, s)[y + i] = s[i]
        /\ \A i \in 1 .. Len(new) : i <= y \/ i > y + Len(s) => WriteAt(new, y, s)[i] = new[i]
    BY WriteCells
  <2> QED
    BY <1>2, <2>1, Zenon
<1>5. Len(s) = b /\ \A i \in 1 .. b : s[i] = h.mot[i]
  BY <1>1
<1>6. Len(c) = y + b
  <2>1. y + b > y
    OBVIOUS
  <2> QED
    BY <1>3, <1>4, <1>5, <2>1
<1>7. \A i \in 1 .. y : c[i] = new[i]
  BY <1>3, <1>4
<1>8. SameUpTo(new, c, Len(new))
  BY <1>3, <1>7 DEF SameUpTo
<1>9. y + b = HEADER + (k + 1) * b
  <2>1. (k + 1) * b = k * b + b /\ k * b \in Nat /\ HEADER \in Nat
    BY Multiples, FicindexAssumption
  <2>2. PICK t \in Nat : t = k * b
    BY <2>1
  <2> QED
    BY <1>3, <2>1, <2>2
<1>10. ASSUME NEW j \in 0 .. k
       PROVE  Recopied(old, HEADER + j * a, a, c, HEADER + j * b, b)
  <2>1. CASE j = k
    <3>1. \A i \in 1 .. b : 0 + i = i
      OBVIOUS
    <3>2. \A i \in 1 .. b : c[y + i] = h.mot[0 + i]
      BY <1>4, <1>5, <3>1
    <3> QED
      BY <1>3, <2>1, <3>2 DEF Recopied
  <2>2. CASE j # k
    <3>1. j \in 0 .. k - 1
      BY <2>2
    <3>2. PICK at \in Nat : at = HEADER + j * b /\ at + b <= y
      <4>1. HEADER + j * b \in Nat /\ HEADER + j * b + b <= HEADER + k * b
        BY <3>1, Before
      <4> QED
        BY <1>3, <4>1
    <3>3. \A i \in 1 .. b : at + i \in 1 .. y
      BY <3>2
    <3>4. \A i \in 1 .. b : c[at + i] = new[at + i]
      BY <1>7, <3>3
    <3>5. Recopied(old, HEADER + j * a, a, new, at, b)
      BY <1>3, <3>1, <3>2
    <3> QED
      BY <3>2, <3>4, <3>5 DEF Recopied
  <2> QED
    BY <2>1, <2>2
<1>11. \A j \in 0 .. (k + 1) - 1 : j \in 0 .. k
  OBVIOUS
<1>12. CopyOf(o, old, c, x, y + b, k + 1)
  BY <1>1, <1>3, <1>6, <1>9, <1>10, <1>11 DEF CopyOf
<1> QED
  BY <1>1, <1>2, <1>8, <1>12

(* indxchg writes the record it has read after those it has copied.        *)
LEMMA CopyWriteCopies ==
  ASSUME IInv, RInv, CInv, NEW p \in Procs, CopyWrite(p)
  PROVE  CInv'
<1>1. PICK h : h = op[p]
  OBVIOUS
<1>2. /\ h \in Writes /\ h.step = "write" /\ Put(p, h.new, Copied(h)) /\ Copier(p)
      /\ op' = [op EXCEPT ![p].step = "read"]
      /\ mixed' = IF h.from \in mixed THEN mixed \cup {h.to} ELSE mixed
  BY <1>1, Steps DEF IInv, CopyWrite, Mix, Copier
<1>3. /\ h.new \in Fds /\ h.old \in Fds /\ IsOpen(p, h.new)
      /\ h.mot \in Seq(Cell) /\ h.newind \in Inds /\ h.newind <= Len(h.mot)
      /\ h.from \in Files /\ h.to \in Files
  BY <1>1, <1>2 DEF Writes, IInv, Holding
<1>4. /\ desc[p][h.old].path = h.from /\ desc[p][h.new].path = h.to
      /\ tab[p][h.old] = h.oldind /\ tab[p][h.new] = h.newind
  BY <1>1, <1>2 DEF RInv, Works, WorkOf
<1>5. PICK n \in Nat, mot \in Seq(Cell) : n = h.newind /\ mot = h.mot /\ n <= Len(mot)
  BY <1>3, FicindexAssumption
<1>6. PICK s : s = Copied(h)
  OBVIOUS
<1>7. s \in Seq(Cell) /\ Len(s) = n /\ \A k \in 1 .. n : s[k] = mot[k]
  <2>1. s = SubSeq(mot, 0 + 1, n)
    BY <1>5, <1>6 DEF Copied
  <2>2. n <= Len(mot) /\ 0 \in Nat
    BY <1>5
  <2>3. /\ SubSeq(mot, 0 + 1, n) \in Seq(Cell)
        /\ Len(SubSeq(mot, 0 + 1, n)) = IF 0 < n THEN n - 0 ELSE 0
        /\ \A k \in 1 .. n - 0 : SubSeq(mot, 0 + 1, n)[k] = mot[0 + k]
    BY <2>2, SubSeqCells
  <2>4. \A k \in 1 .. n : 0 + k = k
    OBVIOUS
  <2> QED
    BY <2>1, <2>3, <2>4
<1>8. PICK o : o = [h EXCEPT !.step = "read"]
  OBVIOUS
<1>9. /\ o.step = "read" /\ o.old = h.old /\ o.new = h.new /\ o.from = h.from /\ o.to = h.to
      /\ o.oldind = h.oldind /\ o.newind = h.newind
  BY <1>2, <1>8 DEF Writes
<1>10. op'[p] = o /\ \A q \in Procs : q # p => op'[q] = op[q]
  BY <1>1, <1>2, <1>8 DEF IInv, TypeOK
<1>11. PICK y \in Nat : y = desc[p][h.new].pos
  BY <1>3 DEF IInv, TypeOK, IsOpen, Descriptor
<1>12. MoveTo(p, h.new, y + n)
  <2>1. desc' = [desc EXCEPT ![p][h.new].pos = @ + Len(s)]
    BY <1>2, <1>6 DEF Put
  <2>2. desc' = [desc EXCEPT ![p][h.new].pos = desc[p][h.new].pos + Len(s)]
    BY <1>3, <2>1 DEF IInv, TypeOK
  <2> QED
    BY <1>7, <1>11, <2>2 DEF MoveTo
<1>13. y + n \in Nat
  OBVIOUS
<1>14. /\ \A q \in Procs : q # p => desc'[q] = desc[q]
       /\ desc'[p][h.new].pos = y + n
       /\ \A x \in Fds : x # h.new => desc'[p][x] = desc[p][x]
  BY <1>3, <1>12, <1>13, Moved DEF IInv
<1>15. PICK new : new = content[h.to]
  OBVIOUS
<1>16. /\ content'[h.to] = WriteAt(new, y, s)
       /\ \A g \in Files : g # h.to => content'[g] = content[g]
  BY <1>2, <1>3, <1>4, <1>6, <1>11, <1>15 DEF Put, IInv, TypeOK
<1>17. ASSUME h.to \notin mixed'
       PROVE  \E k \in Nat :
                /\ CopyOf(h, content[h.from], new, desc[p][h.old].pos, y, k)
                /\ CopyOf(o, content'[h.from], content'[h.to], desc'[p][h.old].pos, y + n, k + 1)
                /\ SameUpTo(new, content'[h.to], Len(new))
  <2>1. h.from \notin mixed /\ h.to \notin mixed
    BY <1>2, <1>17
  <2>2. PICK old, x, a : old = content[h.from] /\ x = desc[p][h.old].pos /\ a = h.oldind
    OBVIOUS
  <2>3. /\ old \in Seq(Cell) /\ new \in Seq(Cell) /\ x \in Nat /\ x <= Len(old)
        /\ h.oldind \in Nat \ {0} /\ h.newind \in Nat \ {0}
    BY <1>1, <1>2, <1>15, <2>1, <2>2, CopierFacts
  <2>4. PICK k \in Nat : CopyOf(h, old, new, x, y, k)
    BY <1>1, <1>2, <1>11, <1>15, <2>1, <2>2 DEF CInv, Copies
  <2>5. CopyOf(o, old, WriteAt(new, y, s), x, y + n, k + 1) /\ SameUpTo(new, WriteAt(new, y, s), Len(new))
    BY <1>2, <1>5, <1>7, <1>9, <2>3, <2>4, CopyGrows
  <2>6. SameUpTo(old, content'[h.from], x)
    <3>1. CASE h.from = h.to
      BY <1>15, <1>16, <2>2, <2>3, <2>5, <3>1, SameBefore
    <3>2. CASE h.from # h.to
      BY <1>3, <1>16, <2>2, <3>2 DEF SameUpTo
    <3> QED
      BY <3>1, <3>2
  <2>7. CopyOf(o, content'[h.from], content'[h.to], x, y + n, k + 1)
    <3>1. o.oldind \in Nat \ {0} /\ k + 1 \in Nat
      BY <1>9, <2>3
    <3> QED
      BY <1>16, <2>3, <2>5, <2>6, <3>1, CopyStays
  <2>8. h.old # h.new
    <3>1. ASSUME h.old = h.new PROVE FALSE
      <4>1. x = y /\ h.oldind = h.newind
        BY <1>4, <1>11, <2>2, <3>1
      <4>2. PICK m \in Nat \ {0} : m = h.oldind /\ m = h.newind
        BY <2>3, <4>1
      <4>3. x = HEADER + (k + 1) * m /\ y = HEADER + k * m
        BY <1>2, <2>4, <4>2 DEF CopyOf
      <4> QED
        BY <4>1, <4>2, <4>3, NextPlace
    <3> QED
      BY <3>1
  <2>9. desc'[p][h.old].pos = x
    BY <1>3, <1>14, <2>2, <2>8
  <2> QED
    BY <1>16, <2>2, <2>4, <2>5, <2>7, <2>9
<1>18. Copy(p)'
  <2> SUFFICES ASSUME o.from \notin mixed', o.to \notin mixed'
               PROVE  \E k \in Nat : CopyOf(o, content'[o.from], content'[o.to],
                                            desc'[p][o.old].pos, desc'[p][o.new].pos, k)
    BY <1>10 DEF Copy
  <2>1. PICK k \in Nat : CopyOf(o, content'[h.from], content'[h.to], desc'[p][h.old].pos, y + n, k + 1)
    BY <1>9, <1>17
  <2>2. k + 1 \in Nat
    OBVIOUS
  <2> QED
    BY <1>9, <1>14, <2>1, <2>2
<1>19. ASSUME NEW q \in Procs, q # p, Copier(q), op[q].from \notin mixed', op[q].to \notin mixed'
       PROVE  /\ content'[op[q].to] = content[op[q].to]
              /\ SameUpTo(content[op[q].from], content'[op[q].from], desc[q][op[q].old].pos)
  <2>1. op[q].from \in Files /\ op[q].to \in Files
    BY <1>19, CopierFacts
  <2>2. op[q].to # h.to
    BY <1>1, <1>2, <1>19 DEF CInv, Sole
  <2>3. SameUpTo(content[op[q].from], content'[op[q].from], desc[q][op[q].old].pos)
    <3>1. CASE op[q].from = h.to
      <4>1. SameUpTo(new, content'[h.to], Len(new))
        BY <1>17, <1>19, <3>1
      <4>2. op[q].from \notin mixed
        BY <1>2, <1>19
      <4>3. /\ new \in Seq(Cell) /\ desc[q][op[q].old].pos \in Nat
            /\ desc[q][op[q].old].pos <= Len(new)
        BY <1>15, <1>19, <3>1, <4>2, CopierFacts
      <4> QED
        BY <1>15, <3>1, <4>1, <4>3, SameBefore
    <3>2. CASE op[q].from # h.to
      BY <1>16, <2>1, <3>2 DEF SameUpTo
    <3> QED
      BY <3>1, <3>2
  <2> QED
    BY <1>16, <2>1, <2>2, <2>3
<1>20. OldPlace(p)'
  BY <1>9, <1>10 DEF OldPlace
<1>21. Copier(p) /\ op'[p].to = op[p].to
  BY <1>1, <1>2, <1>9, <1>10
<1>22. mixed \subseteq mixed' /\ \A q \in Procs : q # p => op'[q] = op[q] /\ desc'[q] = desc[q]
  BY <1>2, <1>10, <1>14
<1> QED
  BY <1>18, <1>19, <1>20, <1>21, <1>22, CopiesKept

LEMMA CStarts == Init => CInv
<1> SUFFICES ASSUME Init PROVE CInv
  OBVIOUS
<1>1. \A p \in Procs : op[p].step = "idle"
  BY DEF Init, Idle
<1> QED
  BY <1>1 DEF CInv, Copies, Sole, OldPlaced, Copier

LEMMA CKept == IInv /\ RInv /\ RInv' /\ CInv /\ [Next]_vars => CInv'
<1> SUFFICES ASSUME IInv, RInv, RInv', CInv, [Next]_vars PROVE CInv'
  OBVIOUS
<1>1. ASSUME NEW p \in Procs,
             indopen(p) \/ indxchg(p) \/ OpenFails(p) \/ indsearch(p) \/ CopyEnd(p)
      PROVE  CInv'
  BY <1>1, BeginCopies
<1>2. ASSUME NEW p \in Procs, Open(p) PROVE CInv'
  BY <1>2, OpenCopies
<1>3. ASSUME NEW p \in Procs, WriteHeader(p) PROVE CInv'
  BY <1>3, WriteHeaderCopies
<1>4. ASSUME NEW p \in Procs, ReadHeader(p) PROVE CInv'
  BY <1>4, ReadHeaderCopies
<1>5. ASSUME NEW p \in Procs, indread(p) \/ indlseek(p) \/ indclose(p) PROVE CInv'
  BY <1>5, CallCopies
<1>6. ASSUME NEW p \in Procs, indwrite(p) PROVE CInv'
  BY <1>6, WriteCopies
<1>7. ASSUME NEW p \in Procs, Search(p) PROVE CInv'
  BY <1>7, SearchCopies
<1>8. ASSUME NEW p \in Procs, CopyRead(p) PROVE CInv'
  BY <1>8, CopyReadCopies
<1>9. ASSUME NEW p \in Procs, CopyWrite(p) PROVE CInv'
  BY <1>9, CopyWriteCopies
<1>10. CASE UNCHANGED vars
  BY <1>10 DEF CInv, Copies, Sole, OldPlaced, Copier, vars
<1> QED
  BY <1>1, <1>2, <1>3, <1>4, <1>5, <1>6, <1>7, <1>8, <1>9, <1>10 DEF Next

(* A file of k records of n cells has k records.                           *)
LEMMA CountOf ==
  ASSUME NEW n \in Nat \ {0}, NEW k \in Nat
  PROVE  (k * n) \div n = k
<1>1. PICK a \in Nat : a = k * n
  OBVIOUS
<1>2. PICK q \in Int : q = a \div n
  OBVIOUS
<1>3. n * q <= a /\ a < n * q + n
  BY <1>1, <1>2
<1>4. \A x, y \in Int : x < y => x * n + n <= y * n
  OBVIOUS
<1> QED
  BY <1>1, <1>2, <1>3, <1>4

(* k records copied are, one by one, the records of the old file.          *)
LEMMA RecordsEqual ==
  ASSUME NEW old \in Seq(Cell), NEW new \in Seq(Cell), NEW x \in Nat, NEW y \in Nat,
         NEW a \in Nat \ {0}, NEW b \in Nat \ {0}, x + a <= Len(old), y + b <= Len(new),
         Recopied(old, x, a, new, y, b)
  PROVE  SubSeq(new, y + 1, y + b) = Fit(SubSeq(old, x + 1, x + a), b)
<1>1. PICK l \in Nat, m \in Nat : l = x + a /\ m = y + b
  OBVIOUS
<1>2. /\ l <= Len(old) /\ m <= Len(new) /\ l - x = a /\ m - y = b /\ x < l /\ y < m
  BY <1>1
<1>3. PICK r : r = SubSeq(old, x + 1, l)
  OBVIOUS
<1>4. r \in Seq(Cell) /\ Len(r) = a /\ \A i \in 1 .. a : r[i] = old[x + i]
  BY <1>2, <1>3, SubSeqCells
<1>5. PICK s : s = SubSeq(new, y + 1, m)
  OBVIOUS
<1>6. s \in Seq(Cell) /\ Len(s) = b /\ \A i \in 1 .. b : s[i] = new[y + i]
  BY <1>2, <1>5, SubSeqCells
<1>7. /\ Fit(r, b) \in Seq(Cell) /\ Len(Fit(r, b)) = b
      /\ \A i \in 1 .. b : Fit(r, b)[i] = IF i <= a THEN r[i] ELSE Junk
  <2>1. /\ Fit(r, b) \in Seq(Cell) /\ Len(Fit(r, b)) = b
        /\ \A i \in 1 .. b : Fit(r, b)[i] = IF i <= Len(r) THEN r[i] ELSE Junk
    BY <1>4, FitCells
  <2> QED
    BY <1>4, <2>1, Zenon
<1>8. ASSUME NEW i \in 1 .. b PROVE s[i] = Fit(r, b)[i]
  <2>1. s[i] = IF i <= a THEN old[x + i] ELSE Junk
    BY <1>6 DEF Recopied
  <2>2. i <= a => i \in 1 .. a
    OBVIOUS
  <2> QED
    BY <1>4, <1>7, <2>1, <2>2
<1>9. s = Fit(r, b)
  <2>1. PICK t \in Seq(Cell) : t = Fit(r, b) /\ Len(t) = b /\ \A i \in 1 .. b : s[i] = t[i]
    BY <1>7, <1>8
  <2> QED
    BY <1>6, <2>1
<1> QED
  BY <1>1, <1>3, <1>5, <1>9

(* What indxchg leaves when it is done.                                    *)
Reindex(old, new, a, b) ==
  LET count == (Len(old) - HEADER) \div a
      Old(k) == SubSeq(old, HEADER + (k - 1) * a + 1, HEADER + k * a)
      New(k) == SubSeq(new, HEADER + (k - 1) * b + 1, HEADER + k * b)
  IN  /\ HasHeader(new, b)
      /\ Len(new) = HEADER + count * b
      /\ \A k \in 1 .. count : New(k) = Fit(Old(k), b)

LEMMA CopyComplete ==
  ASSUME NEW o, o.step = "read", NEW a \in Nat \ {0}, NEW b \in Nat \ {0}, o.oldind = a, o.newind = b,
         NEW old \in Seq(Cell), NEW new \in Seq(Cell), HasHeader(new, b), NEW k \in Nat, NEW y,
         CopyOf(o, old, new, Len(old), y, k)
  PROVE  Reindex(old, new, a, b)
<1>1. /\ Len(old) = HEADER + k * a /\ Len(new) = HEADER + k * b
      /\ \A j \in 0 .. k - 1 : Recopied(old, HEADER + j * a, a, new, HEADER + j * b, b)
  BY DEF CopyOf
<1>2. (Len(old) - HEADER) \div a = k
  <2>1. PICK t \in Nat : t = k * a
    BY Multiples
  <2>2. HEADER \in Nat
    BY FicindexAssumption
  <2>3. Len(old) - HEADER = t
    BY <1>1, <2>1, <2>2
  <2>4. t \div a = k
    BY <2>1, CountOf
  <2> QED
    BY <2>3, <2>4
<1>3. ASSUME NEW i \in 1 .. k
      PROVE  SubSeq(new, HEADER + (i - 1) * b + 1, HEADER + i * b) =
               Fit(SubSeq(old, HEADER + (i - 1) * a + 1, HEADER + i * a), b)
  <2>1. PICK j \in 0 .. k - 1 : j = i - 1 /\ j \in Nat /\ i = j + 1
    OBVIOUS
  <2>2. PICK x \in Nat : x = HEADER + j * a /\ x + a <= Len(old)
    <3>1. HEADER + j * a \in Nat /\ HEADER + j * a + a <= HEADER + k * a
      BY Before
    <3> QED
      BY <1>1, <3>1
  <2>3. PICK y1 \in Nat : y1 = HEADER + j * b /\ y1 + b <= Len(new)
    <3>1. HEADER + j * b \in Nat /\ HEADER + j * b + b <= HEADER + k * b
      BY Before
    <3> QED
      BY <1>1, <3>1
  <2>4. Recopied(old, x, a, new, y1, b)
    BY <1>1, <2>2, <2>3
  <2>5. SubSeq(new, y1 + 1, y1 + b) = Fit(SubSeq(old, x + 1, x + a), b)
    <3>1. x + a <= Len(old) /\ y1 + b <= Len(new)
      BY <2>2, <2>3
    <3> QED
      BY <2>4, <3>1, RecordsEqual
  <2>6. HEADER + i * a = x + a
    <3>1. (j + 1) * a = j * a + a /\ j * a \in Nat /\ HEADER \in Nat
      BY <2>1, Multiples, FicindexAssumption
    <3>2. PICK t \in Nat : t = j * a
      BY <3>1
    <3> QED
      BY <2>1, <2>2, <3>1, <3>2
  <2>7. HEADER + i * b = y1 + b
    <3>1. (j + 1) * b = j * b + b /\ j * b \in Nat /\ HEADER \in Nat
      BY <2>1, Multiples, FicindexAssumption
    <3>2. PICK t \in Nat : t = j * b
      BY <3>1
    <3> QED
      BY <2>1, <2>3, <3>1, <3>2
  <2> QED
    BY <2>1, <2>2, <2>3, <2>5, <2>6, <2>7, Zenon
<1> QED
  BY <1>1, <1>2, <1>3 DEF Reindex

LEMMA EndIsCopied ==
  ASSUME IInv, RInv, CInv, NEW p \in Procs, CopyEnd(p), op[p].from \notin mixed, op[p].to \notin mixed
  PROVE  Reindex(content[op[p].from], content[op[p].to], op[p].oldind, op[p].newind)
<1>1. PICK o, old, new, x, y, a, b :
        /\ o = op[p] /\ old = content[o.from] /\ new = content[o.to]
        /\ x = desc[p][o.old].pos /\ y = desc[p][o.new].pos /\ a = o.oldind /\ b = o.newind
  OBVIOUS
<1>2. Copier(p) /\ o.step = "read"
  BY <1>1 DEF CopyEnd, Copier
<1>3. /\ old \in Seq(Cell) /\ new \in Seq(Cell) /\ x \in Nat
      /\ a \in Nat \ {0} /\ b \in Nat \ {0} /\ HasHeader(new, b)
      /\ Filled(old, a) /\ Boundary(a, x) /\ x <= Len(old)
      /\ tab[p][o.old] = a /\ desc[p][o.old].path = o.from
  BY <1>1, <1>2, CopierFacts
<1>4. ReadAt(old, x, a) = <<>>
  <2>1. a # Unset
    BY <1>3 DEF Unset
  <2> QED
    BY <1>1, <1>3, <2>1 DEF CopyEnd, Next1
<1>5. x = Len(old)
  <2>1. Len(<<>>) = 0 /\ a # 0
    BY <1>3
  <2> QED
    BY <1>3, <1>4, <2>1, ReadFilled
<1>6. PICK k \in Nat : CopyOf(o, old, new, Len(old), y, k)
  BY <1>1, <1>2, <1>5 DEF CInv, Copies
<1>7. Reindex(old, new, a, b)
  BY <1>1, <1>2, <1>3, <1>6, CopyComplete
<1> QED
  BY <1>1, <1>7

(* Only the end of a copy makes idle a process that was about to read.     *)
LEMMA OnlyCopyEnd ==
  ASSUME TypeOK, Next, NEW p \in Procs, op[p].step = "read", op'[p] = Idle
  PROVE  CopyEnd(p)
<1>1. Idle.step = "idle" /\ Idle # op[p]
  BY DEF Idle
<1>2. PICK q \in Procs :
        \/ indopen(q) \/ OpenFails(q) \/ Open(q) \/ WriteHeader(q) \/ ReadHeader(q)
        \/ indread(q) \/ indwrite(q) \/ indlseek(q) \/ indclose(q)
        \/ indsearch(q) \/ Search(q)
        \/ indxchg(q) \/ CopyRead(q) \/ CopyWrite(q) \/ CopyEnd(q)
  BY DEF Next
<1>3. CASE indread(q) \/ indwrite(q) \/ indlseek(q) \/ indclose(q)
  BY <1>1, <1>3 DEF indread, indwrite, indlseek, indclose
<1>4. CASE indopen(q) \/ indsearch(q) \/ indxchg(q)
  <2>1. op[q] = Idle
    BY <1>4 DEF indopen, indsearch, indxchg, Use, Call
  <2>2. \E o : op' = [op EXCEPT ![q] = o]
    BY <1>4 DEF indopen, indsearch, indxchg
  <2> QED
    BY <1>1, <2>1, <2>2 DEF TypeOK
<1>5. CASE OpenFails(q)
  BY <1>1, <1>5 DEF OpenFails, TypeOK
<1>6. CASE Open(q)
  BY <1>1, <1>6 DEF Open, TypeOK
<1>7. CASE WriteHeader(q) \/ ReadHeader(q)
  <2>1. op[q].step = "head" /\ q # p
    BY <1>7 DEF WriteHeader, ReadHeader
  <2>2. op'[p] = op[p]
    BY <1>7, <2>1 DEF WriteHeader, ReadHeader, Continue, TypeOK
  <2> QED
    BY <1>1, <2>2
<1>8. CASE Search(q)
  BY <1>1, <1>8 DEF Search, TypeOK
<1>9. CASE CopyRead(q)
  <2>1. q = p
    BY <1>1, <1>9 DEF CopyRead, TypeOK
  <2>2. op[p] \in Reads
    BY Steps
  <2>3. op'[p].step = "write"
    BY <1>9, <2>1, <2>2 DEF CopyRead, TypeOK, Reads
  <2> QED
    BY <1>1, <2>3
<1>10. CASE CopyWrite(q)
  <2>1. q # p
    BY <1>10 DEF CopyWrite
  <2>2. op'[p] = op[p]
    BY <1>10, <2>1 DEF CopyWrite, TypeOK
  <2> QED
    BY <1>1, <2>2
<1>11. CASE CopyEnd(q)
  <2>1. q # p => op'[p] = op[p]
    BY <1>11 DEF CopyEnd, TypeOK
  <2> QED
    BY <1>1, <1>11, <2>1
<1> QED
  BY <1>2, <1>3, <1>4, <1>5, <1>6, <1>7, <1>8, <1>9, <1>10, <1>11

(* Reindexed: when indxchg ends, the new file holds every record of the    *)
(* old one, cut or lengthened to the new size, in order, those that others *)
(* appended meanwhile too; neither file used as Mix lists (indxchg).       *)
THEOREM RecordsReindexed == Spec => Reindexed
<1>1. Spec => [](IInv /\ RInv /\ CInv)
  <2>1. Spec => []IInv
    BY FileInvariance
  <2>2. Spec => []RInv
    BY <2>1, RStarts, RKept, PTL DEF Spec
  <2> QED
    BY <2>1, <2>2, CStarts, CKept, PTL DEF Spec
<1>2. ASSUME IInv, RInv, CInv, Next
      PROVE  \A p \in Procs :
               LET o == op[p]
                   old == content[o.from]
                   count == (Len(old) - HEADER) \div o.oldind
                   Old(k) == SubSeq(old, HEADER + (k - 1) * o.oldind + 1, HEADER + k * o.oldind)
                   New(k) == SubSeq(content[o.to], HEADER + (k - 1) * o.newind + 1, HEADER + k * o.newind)
               IN  o.step = "read" /\ op'[p] = Idle /\ {o.from, o.to} \cap mixed = {} =>
                     /\ HasHeader(content[o.to], o.newind)
                     /\ Len(content[o.to]) = HEADER + count * o.newind
                     /\ \A k \in 1 .. count : New(k) = Fit(Old(k), o.newind)
  <2> SUFFICES ASSUME NEW p \in Procs, op[p].step = "read", op'[p] = Idle,
                      {op[p].from, op[p].to} \cap mixed = {}
               PROVE  Reindex(content[op[p].from], content[op[p].to], op[p].oldind, op[p].newind)
    BY DEF Reindex
  <2>1. CopyEnd(p)
    BY <1>2, OnlyCopyEnd DEF IInv
  <2>2. op[p].from \notin mixed /\ op[p].to \notin mixed
    OBVIOUS
  <2> QED
    BY <1>2, <2>1, <2>2, EndIsCopied
<1> QED
  BY <1>1, <1>2, PTL DEF Spec, Reindexed
=============================================================================
