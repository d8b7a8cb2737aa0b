------------------------------ MODULE Ficindex ------------------------------
(***************************************************************************)
(* The indexed files of TME7 (src/TME7/src/ficindex.c): a file begins with *)
(* the size of its records (an int), then come the records.  Each process  *)
(* keeps in tab the record size of each of its descriptors; the files are  *)
(* shared.  Every system call on a shared file is a step.                  *)
(*                                                                         *)
(* A file is a sequence of cells: HEADER cells for the size, then the      *)
(* cells of the records, cell i of a record of value v being <<v, i>>.     *)
(* Files may be there at first, left by earlier programs.  Rights,         *)
(* directories and errors of the device are left out, and O_RDONLY is not  *)
(* combined with O_CREAT or O_TRUNC.                                       *)
(***************************************************************************)
EXTENDS Integers, Sequences, FiniteSets

CONSTANTS
  Procs, Files,
  Inds,       \* sizes of records
  Values,     \* contents of records
  AtFirst,    \* what the files found at first hold, sequences of values
  Fds,        \* bound: descriptors of a process
  HEADER,     \* sizeof(int), in cells
  MaxLength,  \* bound on the cells of a file
  Calls       \* bound on the calls begun

ASSUME FicindexAssumption ==
  /\ IsFiniteSet(Procs) /\ IsFiniteSet(Files) /\ "none" \notin Files
  /\ Inds \subseteq Nat \ {0}
  /\ AtFirst \subseteq Seq(Values)
  /\ Fds \subseteq Nat
  /\ HEADER \in Nat \ {0}
  /\ MaxLength \in Nat
  /\ Calls \in Nat

VARIABLES
  content,  \* the cells of each file, or Missing
  desc,     \* open descriptors: [path, access, pos]
  tab,      \* the record size each process keeps for each descriptor
  op,       \* what each process is in the middle of
  last,     \* history: the last read of a record, by anyone
  mixed,    \* history: files used as the library cannot stand, see Mix
  calls     \* calls begun

vars == <<content, desc, tab, op, last, mixed, calls>>

Unset == -64
Missing == <<<<"missing", 0>>>>
Junk == <<"junk", 0>>
Closed == [path |-> "none"]
Idle == [step |-> "idle"]

Header(n) == [i \in 1 .. HEADER |-> <<"ind", n>>]
Record(v, n) == [i \in 1 .. n |-> <<v, i>>]
FileOf(n, s) ==
  Header(n) \o [i \in 1 .. Len(s) * n |-> <<s[((i - 1) \div n) + 1], ((i - 1) % n) + 1>>]
HasHeader(c, n) == Len(c) >= HEADER /\ SubSeq(c, 1, HEADER) = Header(n)

(* The first n cells of a buffer that holds s.                             *)
Fit(s, n) == [i \in 1 .. n |-> IF i <= Len(s) THEN s[i] ELSE Junk]

(* read and write of the system; a write past the end, once the file has   *)
(* been truncated, leaves a hole before it.                                *)
ReadAt(c, pos, n) == SubSeq(c, pos + 1, IF pos + n < Len(c) THEN pos + n ELSE Len(c))
WriteAt(c, pos, s) ==
  [i \in 1 .. (IF pos + Len(s) > Len(c) THEN pos + Len(s) ELSE Len(c)) |->
     IF i > pos /\ i <= pos + Len(s) THEN s[i - pos]
     ELSE IF i <= Len(c) THEN c[i] ELSE Junk]

Flags == [access : {"R", "W", "RW"}, create : {FALSE}, trunc : {FALSE}]
           \cup [access : {"W", "RW"}, create : {TRUE}, trunc : BOOLEAN]
ReadOnly == [access |-> "R", create |-> FALSE, trunc |-> FALSE]
Overwrite == [access |-> "W", create |-> TRUE, trunc |-> TRUE]

Free(p) == {fd \in Fds : desc[p][fd] = Closed}
Holders(f) == {h \in Procs \X Fds : desc[h[1]][h[2]].path = f}

(* What the library does not stand, after which it promises nothing of the *)
(* file and the properties say nothing of it:                              *)
(*   a file created by another between the stat and the open of one that   *)
(*     is to create it without O_TRUNC (Open);                             *)
(*   the truncation of a file that is open (Open);                         *)
(*   a header read before it is written, or with O_WRONLY (ReadHeader);    *)
(*   a position set before the first record (indlseek);                    *)
(*   a write to what an indxchg makes, or to what it has already copied    *)
(*     (indwrite), and the copy of such a file (CopyWrite).                *)
Mix(f, breach) == mixed' = IF breach THEN mixed \cup {f} ELSE mixed

Init ==
  /\ content \in [Files -> {Missing} \cup {FileOf(n, s) : n \in Inds, s \in AtFirst}]
  /\ desc = [p \in Procs |-> [fd \in Fds |-> Closed]]
  /\ tab = [p \in Procs |-> [fd \in Fds |-> Unset]]
  /\ op = [p \in Procs |-> Idle]
  /\ last = [path |-> "none"]
  /\ mixed = {}
  /\ calls = 0

Call(p) ==
  /\ op[p] = Idle
  /\ calls < Calls
  /\ calls' = calls + 1

(***************************************************************************)
(* indopen: access and stat, then open, then the header written or read.   *)
(* for is the caller: the program, or indxchg with what it has to copy.    *)
(***************************************************************************)
OpenOf(f, flags, ind, for) ==
  [step |-> "open", path |-> f, flags |-> flags, ind |-> ind,
   exist |-> content[f] # Missing, for |-> for]

indopen(p) ==
  /\ Call(p)
  /\ Free(p) # {}
  /\ \E f \in Files, flags \in Flags, ind \in Inds :
       op' = [op EXCEPT ![p] = OpenOf(f, flags, ind, [caller |-> "program"])]
  /\ UNCHANGED <<content, desc, tab, last, mixed>>

OpenFails(p) ==
  /\ op[p].step = "open"
  /\ content[op[p].path] = Missing
  /\ ~op[p].flags.create
  /\ op' = [op EXCEPT ![p] = Idle]
  /\ UNCHANGED <<content, desc, tab, last, mixed, calls>>

Open(p) ==
  LET f == op[p].path
      flags == op[p].flags
  IN  /\ op[p].step = "open"
      /\ content[f] # Missing \/ flags.create
      /\ \E fd \in Free(p) :
           /\ \A other \in Free(p) : fd <= other
           /\ desc' = [desc EXCEPT ![p][fd] = [path |-> f, access |-> flags.access, pos |-> 0]]
           /\ op' = [op EXCEPT ![p].step = "head", ![p].ind = <<fd, @>>]
      /\ content' = [content EXCEPT ![f] = IF @ = Missing \/ flags.trunc THEN <<>> ELSE @]
      /\ Mix(f, IF flags.trunc THEN Holders(f) # {}
                ELSE flags.create /\ ~op[p].exist /\ content[f] # Missing)
      /\ UNCHANGED <<tab, last, calls>>

(* Where the caller of indopen goes on: indxchg opens its second file, or  *)
(* begins to copy through a buffer straight from malloc.                   *)
Continue(p, fd, size) ==
  LET for == op[p].for
  IN  op' = [op EXCEPT ![p] =
        CASE for.caller = "program" -> Idle
          [] for.caller = "old" ->
               OpenOf(for.to, Overwrite, for.newind,
                      [caller |-> "new", from |-> op[p].path, old |-> fd, oldind |-> size])
          [] for.caller = "new" ->
               [step |-> "read", from |-> for.from, to |-> op[p].path, old |-> for.old,
                new |-> fd, oldind |-> for.oldind, newind |-> size, mot |-> <<>>]]

(* Mistake: only a file that did not exist gets a header.                  *)
BecomesNewOnlyMissing(o) == ~o.exist /\ o.flags.create

BecomesNew(o) == (~o.exist /\ o.flags.create) \/ (o.exist /\ o.flags.trunc)

WriteHeader(p) ==
  LET f == op[p].path
      fd == op[p].ind[1]
      ind == op[p].ind[2]
  IN  /\ op[p].step = "head"
      /\ BecomesNew(op[p])
      /\ tab' = [tab EXCEPT ![p][fd] = ind]
      /\ content' = [content EXCEPT ![f] = WriteAt(@, 0, Header(ind))]
      /\ desc' = [desc EXCEPT ![p][fd].pos = HEADER]
      /\ Continue(p, fd, ind)
      /\ UNCHANGED <<last, mixed, calls>>

(* Someone is yet to write the header of f.                                *)
Unwritten(f) ==
  \E q \in Procs : op[q].step = "head" /\ BecomesNew(op[q]) /\ op[q].path = f

(* Neither the result of read nor what it read is tested: without a header *)
(* the size is whatever the local variable held.  O_WRONLY makes read fail *)
(* and leaves the position at 0.                                           *)
ReadHeader(p) ==
  LET f == op[p].path
      fd == op[p].ind[1]
      readable == op[p].flags.access # "W"
      sized == readable /\ \E n \in Inds : HasHeader(content[f], n)
  IN  /\ op[p].step = "head"
      /\ ~BecomesNew(op[p])
      /\ \E n \in Inds \cup {Unset} :
           /\ sized => HasHeader(content[f], n)
           /\ tab' = [tab EXCEPT ![p][fd] = n]
           /\ Continue(p, fd, n)
      /\ desc' = [desc EXCEPT ![p][fd].pos =
                     IF readable THEN Len(ReadAt(content[f], 0, HEADER)) ELSE 0]
      /\ Mix(f, ~readable \/ Unwritten(f))
      /\ UNCHANGED <<content, last, calls>>

(***************************************************************************)
(* indread, indwrite, indlseek, indclose: one system call each, once the   *)
(* size is known.  The callers ask for exactly one record.                 *)
(***************************************************************************)
Use(p, fd, modes) ==
  /\ Call(p)
  /\ fd \notin Free(p)
  /\ tab[p][fd] # Unset
  /\ desc[p][fd].access \in modes

(* The cells the next read of a descriptor returns, and the read itself.   *)
Next1(p, fd) == ReadAt(content[desc[p][fd].path], desc[p][fd].pos, tab[p][fd])

Consume(p, fd) ==
  /\ desc' = [desc EXCEPT ![p][fd].pos = @ + Len(Next1(p, fd))]
  /\ last' = [path |-> desc[p][fd].path, ind |-> tab[p][fd], cells |-> Next1(p, fd)]

Put(p, fd, s) ==
  LET f == desc[p][fd].path
  IN  /\ desc[p][fd].pos + Len(s) <= MaxLength
      /\ content' = [content EXCEPT ![f] = WriteAt(@, desc[p][fd].pos, s)]
      /\ desc' = [desc EXCEPT ![p][fd].pos = @ + Len(s)]

indread(p) ==
  /\ \E fd \in Fds : Use(p, fd, {"R", "RW"}) /\ Consume(p, fd)
  /\ UNCHANGED <<content, tab, op, mixed>>

(* A write through fd of p changes what an indxchg has written or read.    *)
Disturbs(p, fd) ==
  \E q \in Procs :
    /\ op[q].step \in {"read", "write"}
    /\ \/ op[q].to = desc[p][fd].path
       \/ /\ op[q].from = desc[p][fd].path
          /\ desc[q][op[q].old].pos > desc[p][fd].pos

indwrite(p) ==
  /\ \E fd \in Fds, v \in Values :
       /\ Use(p, fd, {"W", "RW"})
       /\ Put(p, fd, Record(v, tab[p][fd]))
       /\ Mix(desc[p][fd].path, Disturbs(p, fd))
  /\ UNCHANGED <<tab, op, last>>

(* Mistake: the header is not skipped.                                     *)
TargetFromZero(whence, offset, size, pos, length) ==
  offset * size + (CASE whence = "SET" -> 0 [] whence = "CUR" -> pos [] whence = "END" -> length)

Target(whence, offset, size, pos, length) ==
  offset * size + (CASE whence = "SET" -> HEADER [] whence = "CUR" -> pos [] whence = "END" -> length)

(* Before the file lseek fails; past its end it makes a hole, left out.    *)
(* Between the two it obeys, even inside the header.                       *)
indlseek(p) ==
  /\ \E fd \in Fds, whence \in {"SET", "CUR", "END"}, offset \in -1 .. 1 :
       LET f == desc[p][fd].path
           to == Target(whence, offset, tab[p][fd], desc[p][fd].pos, Len(content[f]))
       IN  /\ Use(p, fd, {"R", "W", "RW"})
           /\ to \in 0 .. Len(content[f])
           /\ desc' = [desc EXCEPT ![p][fd].pos = to]
           /\ Mix(f, IF whence = "SET" THEN offset < 0 ELSE to < HEADER)
  /\ UNCHANGED <<content, tab, op, last>>

(* tab keeps the size of a closed descriptor.                              *)
indclose(p) ==
  /\ \E fd \in Fds :
       /\ Use(p, fd, {"R", "W", "RW"})
       /\ desc' = [desc EXCEPT ![p][fd] = Closed]
  /\ UNCHANGED <<content, tab, op, last, mixed>>

(***************************************************************************)
(* indsearch: records are read until one is the key, or the end.           *)
(***************************************************************************)
indsearch(p) ==
  /\ \E fd \in Fds, key \in Values :
       /\ Use(p, fd, {"R", "RW"})
       /\ op' = [op EXCEPT ![p] = [step |-> "search", fd |-> fd, key |-> key]]
  /\ UNCHANGED <<content, desc, tab, last, mixed>>

Search(p) ==
  LET fd == op[p].fd
      key == Record(op[p].key, tab[p][fd])
  IN  /\ op[p].step = "search"
      /\ Consume(p, fd)
      /\ op' = IF Next1(p, fd) \in {<<>>, key} THEN [op EXCEPT ![p] = Idle] ELSE op
      /\ UNCHANGED <<content, tab, mixed, calls>>

(***************************************************************************)
(* indxchg: both files opened, then one record read, one written, until    *)
(* the end; the two descriptors are closed (indclose refuses one without a *)
(* size).                                                                  *)
(***************************************************************************)
indxchg(p) ==
  /\ Call(p)
  /\ Cardinality(Free(p)) >= 2
  /\ \E from, to \in Files, newind, any \in Inds :
       /\ content[from] # Missing
       /\ op' = [op EXCEPT ![p] =
                   OpenOf(from, ReadOnly, any, [caller |-> "old", to |-> to, newind |-> newind])]
  /\ UNCHANGED <<content, desc, tab, last, mixed>>

CopyRead(p) ==
  /\ op[p].step = "read"
  /\ op[p].oldind # Unset
  /\ Next1(p, op[p].old) # <<>>
  /\ Consume(p, op[p].old)
  /\ op' = [op EXCEPT ![p].step = "write",
                      ![p].mot = Fit(Next1(p, op[p].old) \o
                                     SubSeq(@, Len(Next1(p, op[p].old)) + 1, Len(@)),
                                     IF op[p].newind > op[p].oldind THEN op[p].newind
                                     ELSE op[p].oldind)]
  /\ UNCHANGED <<content, tab, mixed, calls>>

(* Mistake: the old size is written.                                       *)
CopiedOld(o) == SubSeq(o.mot, 1, o.oldind)

Copied(o) == SubSeq(o.mot, 1, o.newind)

CopyWrite(p) ==
  /\ op[p].step = "write"
  /\ Put(p, op[p].new, Copied(op[p]))
  /\ op' = [op EXCEPT ![p].step = "read"]
  /\ Mix(op[p].to, op[p].from \in mixed)
  /\ UNCHANGED <<tab, last, calls>>

CopyEnd(p) ==
  /\ op[p].step = "read"
  /\ op[p].oldind = Unset \/ Next1(p, op[p].old) = <<>>
  /\ desc' = [desc EXCEPT ![p] = [fd \in Fds |->
                IF fd = op[p].new \/ (fd = op[p].old /\ op[p].oldind # Unset)
                THEN Closed ELSE @[fd]]]
  /\ op' = [op EXCEPT ![p] = Idle]
  /\ UNCHANGED <<content, tab, last, mixed, calls>>

Next ==
  \E p \in Procs :
    \/ indopen(p) \/ OpenFails(p) \/ Open(p) \/ WriteHeader(p) \/ ReadHeader(p)
    \/ indread(p) \/ indwrite(p) \/ indlseek(p) \/ indclose(p)
    \/ indsearch(p) \/ Search(p)
    \/ indxchg(p) \/ CopyRead(p) \/ CopyWrite(p) \/ CopyEnd(p)

Spec == Init /\ [][Next]_vars

-----------------------------------------------------------------------------
(* The size a process keeps for an open descriptor is the one the file     *)
(* begins with (indopen, indwrite, indxchg).  It speaks of the files that  *)
(* were not used as Mix lists: indopen itself breaks it otherwise.         *)
IndexKnown ==
  \A p \in Procs, fd \in Fds :
    LET f == desc[p][fd].path
    IN  \/ fd \in Free(p)
        \/ f \in mixed
        \/ op[p].step = "head" /\ op[p].ind[1] = fd
        \/ HasHeader(content[f], tab[p][fd])

(* A read returns nothing or one whole record, as written or as indxchg    *)
(* cut or lengthened it: never the header, never pieces of two records     *)
(* (indread, indsearch, indlseek), for the files not used as Mix lists.    *)
WholeRecords ==
  last.path \in Files \ mixed =>
    \/ last.cells = <<>>
    \/ \E v \in Values, n \in Inds : last.cells = Fit(Record(v, n), last.ind)

(* When indxchg ends, the new file holds every record of the old one, cut  *)
(* or lengthened to the new size, in order, those appended during the copy *)
(* too; of the files used as Mix lists it says nothing.                    *)
Reindexed ==
  [][\A p \in Procs :
       LET o == op[p]
           old == content[o.from]
           count == (Len(old) - HEADER) \div o.oldind
           Old(k) == SubSeq(old, HEADER + (k - 1) * o.oldind + 1, HEADER + k * o.oldind)
           New(k) == SubSeq(content[o.to], HEADER + (k - 1) * o.newind + 1, HEADER + k * o.newind)
       IN  o.step = "read" /\ op'[p] = Idle /\ {o.from, o.to} \cap mixed = {} =>
             /\ HasHeader(content[o.to], o.newind)
             /\ Len(content[o.to]) = HEADER + count * o.newind
             /\ \A k \in 1 .. count : New(k) = Fit(Old(k), o.newind)]_vars
=============================================================================
