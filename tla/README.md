# Posix-LI356 in TLA+

The repository is a set of small C programs about POSIX processes: signals, pipes, shared memory,
semaphores, files and, at the end, a message queue library. What is hard in them is not their
algorithms but what their processes do to one another. This directory holds TLA+ modules of the
programs where that matters, the TLC configurations that check them on small instances, and proofs
of all their safety properties for any number of processes, any capacity, any files.

`PROJECT.json` lists the components, the runs, the lines each definition stands for, and the
hazards. Every module begins with a comment that says what it models and what it abstracts.
Definitions keep the names of the code. An operator commented "Mistake" is a wrong variant of the
operator after it: no action uses it; substituted for that operator, it breaks the property it is
paired with under `mutants`, which shows that the property depends on that line of the code.

## 1. Inventory

| Part | State | Operations | How its processes meet | Status |
|---|---|---|---|---|
| Message queue, `TME10-11/src/myqueue.c` | shared segment: array of messages, array of cells `cl_mq`, `ind`, `init`, attributes, subscriber and signal; semaphores `mutex_read`, `mutex_write`, `mutex_access`, `mutex_update_nb`; per process `mqfd` | `mq_open`, `mq_send`, `mq_receive`, `mq_notify`, `mq_close`, `mq_setattr`, `mq_getattr`, `mq_unlink` | any number of processes on one segment, signals to a subscriber | `MyQueue`, `CellList`, `PrioQueue`, `QueueSessions` (`mq_getattr` changes no state) |
| Currency server in shared memory, `TME9/src/multi_converter.c`, `converters_client.c` | segment of the clients, segment of the children, five semaphores | request, distribution, conversion, collection, reply, SIGINT | clients - father - children, no lock but the counts | `MultiConverter` |
| `capitalize`, `TME9/src/capitalize.c` | one string, two semaphores | read a word, display it, SIGINT | strict alternation of two processes | `Capitalize` |
| Signalling currency server, `TME8/src/multi_converter.c` | ten pipes, `nbsigusr` | distribution, `pause`, collection | pipes, and SIGUSR1 as a counter | `SignalConverter` |
| Named pipe server and client, `TME8/src/conversion_server.c`, `conversion_client.c`, `converters.c` | two named pipes and their names, the buffers of the server | `mkfifo`, open, write and read fields, SIGINT, SIGPIPE, exit on an unknown currency | byte streams shared by all clients | `NamedPipes` |
| Three-process meeting, `TME5/src/synchro3.c` | signal masks and pending signals | `calcul_1`, meet, `calcul_2` | SIGUSR1 and SIGUSR2 with `sigsuspend` | `Barrier`, `Synchro3` |
| Command batches, `TME4/src/spy.c` | table `pid`, index `nbf` | read, fork, wake a batch, wait for it | SIGUSR1 to suspended children | `SpyBatch` |
| Indexed files, `TME7/src/ficindex.c` | files with a header; per process a table of record sizes | `indopen`, `indread`, `indwrite`, `indlseek`, `indclose`, `indsearch`, `indxchg` | processes sharing files | `Ficindex` |
| Process trees, decoder, exec exercises, `TME2/src`, `TME3/src` | processes, exit codes, tables copied by `fork` | `fork`, `wait`, `exec`, `exit` | a father waits for children that end in any order; `fork` may fail | `Family`, `MagicSquare` |
| Signal exercises, `TME4/src`, `mysleep`, `mywait` of `TME5/src` | mask, pending signals, handlers, alarm | the system calls of each program | the user's signals, the alarm, the end of a child | `SignalPrograms` |
| `accountant`, `TME4/src/accountant.c` | a counter for each signal and a total | the handler | handlers that interrupt handlers | `Accountant` |
| Queue and stack, `TME1/src` | doubly linked list and its counter; array and top | `queue`, `dequeue`, `push`, `pop` | - | `Lists` |
| `single_converter` (TME8), `control` (TME5), `stack_list.c` (TME1), `compil`, `ex4` (TME3), file programs (TME6), conversion tables (TME2, TME8, TME9) | - | - | - | not modelled, see section 7 |

What makes each part correct:

* message queue: one process at a time on the list; a token of `mutex_write` stands for a free slot
  and one of `mutex_read` for a message, so the unbounded searches of `mq_send` and `mq_receive`
  succeed; no message lost or duplicated; decreasing priority; a single notification, and none while
  a receiver is waiting; every call returns when sends and receives are matched;
* currency servers: a reply is whole, is of the client's own request, and does not change while it is
  read; the father does not touch the request while children convert; a request is answered;
* `capitalize`: each word is displayed once, in order;
* `synchro3`, `spy`: nobody passes before everybody has arrived; no wake-up is lost;
* process trees: every child asked for is made, counted once and waited for, whatever the order;
* signal exercises: a blocked signal stays pending, once; no alarm or end of child is missed;
* `accountant`: each signal delivered is counted; queue and stack: nothing lost, nothing twice;
* indexed files, used as the library stands (`Mix` lists the uses it does not): what a process believes
  of the record size agrees with the file; reads return whole records; reindexing keeps all records and
  their order.

The hard behaviours, with their lines, are the `hazards` of `PROJECT.json`. Most are interleavings
of two processes, signals that merge or come before anyone waits, state read outside its lock, and
counters and buffers that keep the value of an earlier call.

## 2. Modules and the code

| Module | Models | A step is |
|---|---|---|
| `PrioQueue` | what a priority queue promises: a bag of messages, the one received is of the highest priority | an operation |
| `MyQueue` | `mq_send`, `mq_receive`, `mq_notify`, `mq_close`, `mq_setattr` by any processes, signals, refused calls | what a process does between two accesses others can see: each `sem_wait`/`sem_trywait`/`sem_post`, each access to a field used outside `mutex_access` |
| `CellList` | the arrays behind the list: the four branches of the insertion, removal, `strncpy`/`strcpy` | a critical section |
| `QueueSessions` | several runs of test1 on one queue: `mq_open`, the children of `MyQueue`, `mq_close`, `mq_unlink`, and Ctrl-C; what survives a run is the segment and the names of the semaphores | each `sem_open`, the resets of `mq_open`, the steps of `MyQueue`, each `sem_unlink` |
| `MultiConverter` | start of the server, its loop, children, clients, SIGINT | each access to a shared field and each semaphore operation |
| `Capitalize` | both processes, Ctrl-C, the string an earlier run left | semaphore operations, each character read |
| `SignalConverter` | father, children, pipes, SIGUSR1 and its handler | each read, write, `kill`, test, `pause` |
| `NamedPipes` | server, clients, SIGPIPE, SIGINT, unknown currencies | each `mkfifo`, `open`, `read`, `write`, `unlink` |
| `Barrier`, `Synchro3` | the promise of a meeting; the three processes | each `kill` and `sigsuspend` |
| `SpyBatch` | spy and its children | each `fork`, `kill`, `waitpid`, `sigsuspend`, `exec` |
| `Ficindex` | the library in several processes | each system call on a file |
| `Family`, `MagicSquare` | nine programs of TME2 and TME3 that fork and wait, with forks that fail; the square of `decoder` | each `fork`, `wait`, `exec`, `exit` |
| `SignalPrograms` | the programs of TME4 and TME5 that wait for signals, each the sequence of its system calls (`Code`), and the kernel's signals | each system call, each signal sent, merged, delivered |
| `Accountant` | the handler of `accountant`, nested | the load and the store of `cpt2`, the increment of `compteur[sig]`, the test |
| `Lists` | the queue and the stack of TME1 | a call |
| `Exercises` | one instance of each of `Synchro3`, `SpyBatch`, `Capitalize`, `Family`, `SignalPrograms`, `Accountant`, `Lists`, `SignalConverter`; a behaviour is one of one of them | a step of that program |
| `MyQueueProofs`, `MyQueueOrderProofs` | theorems about `MyQueue` | |
| `CellListProofs`, `QueueSessionsProofs`, `MultiConverterProofs`, `NamedPipesProofs`, `FicindexProofs` | theorems about the module of that name | |
| `ProgramProofs` | theorems about `Synchro3`, `SpyBatch`, `SignalConverter`, `Capitalize`, `Accountant`, `Lists`, `SignalPrograms`, `Family`, and about `Exercises` as a whole | |
| `MC...` | constants of the runs | |

`MyQueue` and `CellList` divide the library. `MyQueue` interleaves the processes and sees the chain
of cells as the sequence `list` of slots. `CellList` takes the arrays as they are and is sequential,
because `MutualExclusion` says that the code it models runs in one process at a time. Its property
`SequenceSteps` states that each of its steps changes the chain exactly as `SendInsert` and
`ReceiveTake` of `MyQueue` change `list`: that is the contract between the two. `MyQueue` in turn
implements `PrioQueue` (`PrioQueueSpec`: the pending messages are those of the slots in `list`), and
`Synchro3` implements `Barrier` (`MeetingSpec`). `QueueSessions` extends `MyQueue`: its `ChildStep` is
the `Step` of a process there, kept from a semaphore that is a null pointer in the segment.

`Exercises` puts the small programs in one run: `program` is chosen in `Init`, the actions `Run...`
let that program alone make its steps, and each property is the one of the module of that name. It
repeats in its own terms the fairness of the `FairSpec` of each module.

Abstractions common to all modules: texts, formats, currencies and amounts are members of small
sets; system calls succeed unless a failure is named (`fork` in `SpyBatch` and `Family`, `sem_open` in
`QueueSessions`, `exec` in `Family`, `open` of a missing file
or pipe, EINTR, SIGPIPE). In `Ficindex` the program asks for exactly one record per read and write,
as `indxchg` and `indsearch` do. A counter that grows for ever is bounded by a constant in a guard:
`Calls`, `Requests`, `Commands`, `ForkFails`, `MaxTyped`, `MaxLength`, `MaxLines`, `MaxRuns`,
`MaxSent`, `MaxIn`, `Passes`, `Fds`.

In `MultiConverter` and `NamedPipes` the variable `user` says what the user may do in a behaviour:
how many clients at a time, which may be killed, whether SIGINT may come and, in `NamedPipes`, which ask
for a currency that does not exist. Properties that need a patient user (`OneByOne`) name him; the
others hold with any.

A client of `NamedPipes` opens its two pipes at two moments and tests neither result (`fdw` says whether the
first succeeded): it may miss the request pipe, meet the reply pipe and wait there. With two clients at
once a read meets a field it does not expect. From there on the bytes of that pipe are not modelled one
by one: the pipe is `torn`, a read takes part of what is there, a length that was none makes the next
read of a client fail (it exits, `failed`), take nothing, or take what there is; in the server it may
also overwrite what lies behind the buffer (`killed`).

## 3. Runs

| Run | What is instantiated | What it shows | Distinct states |
|---|---|---|---|
| `mq_core` | 2 senders and 2 receivers with 2 calls each, 2 slots, 2 priorities, both modes, one subscriber registered before the forks; symmetry on senders and on receivers | `MutualExclusion`, `ListSorted`, `NothingLost`, `PrioQueueSpec`, `BlockedReaders`, `ReaderFirst`, `NotifiedOnce`, `NoCrash` | 408 000 |
| `mq_any` | a process that sends, receives and closes, one that sends, registers and sets the mode, a receiver; 3 calls, refused arguments, all events of `mq_notify` | `Tokens`, `NoOverrun` | 1 700 000 |
| `mq_sessions` | 4 runs of 2 senders and 2 receivers, one call each, queue of 1, any run killed at any point | `SoundAfterReopen`, `CrashNeedsKill`, `RunsEnd` | 21 000 |
| `mq_fifo` | 2 senders, 2 priorities | violation of `FifoAmongEquals`, section 6 | - |
| `cl_cells` | 3 slots of 3 bytes, 2 priorities, strings of two lengths, `mq_close` at any moment | `CellsPartition`, `StringsReturned`, `SequenceSteps` | 18 000 |
| `mc_users` | 3 children, 2 clients, patient and hasty users | `PhasesApart`, `NoUnaskedReply`, `ResultsWhole`, `ReplyStable`, `Answered` | 134 000 |
| `mc_stale_result` | 2 children, 2 clients one after the other | violation of `CompleteReply`, section 6 | - |
| `np_users` | 2 clients, amounts of 1 and 2 digits, 2 currencies, a reply pipe that holds one reply; four users: patient, with a shorter amount after a longer one, the same who also kills a client, asks for an unknown currency and stops the server, the same with both clients at once | `RightReply`, `Aligned`, `BrokenByKill`, `Served` | 199 000 |
| `exercises` | `synchro3` as it is; `spy` with batches of 3, 7 commands, 1 failing `fork`; `capitalize` with 2 words of 1 or 2 letters, a segment of 1, an earlier run; `Family` with 3 passes (5 candidates for `decoder`, which include its solution) and 2 failing forks; `SignalPrograms` with 3 signals of the user; `accountant` with 2 signals and a limit of 2; a stack of 2 and 4 elements; the signalling server with 3 children and 3 requests | `MeetingSpec`, `BatchesApart`, `BatchTogether`, `LinesAreWords`, `FamilyOutcome`, `SignalOutcome`, `Accounts`, `ContainersWhole`, `WholeReply`, `ReadsUninterrupted`, `Forwarded`, `ProgramsEnd` | 37 000 |
| `sc_asleep` | the signalling server, 2 children, 1 request | violation of `Replied`, section 6 | - |
| `accountant_total` | `accountant` as in `exercises` | violation of `TotalIsSum`, section 6 | - |
| `fi_files` | 2 processes, 2 files of at most 7 cells, each missing or with two different records, sizes of 1 and 2 cells, 3 calls in all; symmetry on processes and on files | `IndexKnown`, `WholeRecords`, `Reindexed` | 2 606 000 |

`PhasesApart` joins the account of the semaphores of the currency server (`WorkTokens`, `CheckTokens`)
with the rule that the father works alone. `TypeOK` of `MyQueue` is proved for every instance and
therefore in no run.

Why these bounds reach the interesting cases. Queue: with two slots, two senders and two receivers the
queue is full, empty and in between; every pair of operations overlaps on every boundary; two calls
per process reuse slots, and two priorities give insertions at the head, in the middle and at the end.
Cells: three cells are needed for a cell with both neighbours to be inserted or freed. Converters:
three children are the least for one to be overtaken while two others are at different stages; two
clients are enough for one request to meet what the previous one left. Sessions: four runs are one
that works, one that is killed, the one that meets what it left and one after that; with a queue of
one, one sender and one receiver sleep while the other two work. Exercises: `spy` has two full batches
and an incomplete one, the failing `fork` anywhere; two failing forks can hit two passes or one pass
of two loops; three signals are two that merge and a third; the limit of `accountant` is reached while
handlers are interrupted; words are longer and shorter than the segment. Files: seven cells are a
header and three records of two cells; three calls are the open, the write and the read of a file, or
an open and a write while another process copies. The records of a file differ, so that one copied
twice or in another place shows. `SomeFileUnmixed` stops a behaviour when both files are in `mixed`:
`mixed` never shrinks and no property speaks of its files. Named pipes: with both clients at once the
reply pipe is full while a client leaves it, and the server can block or be killed.

CHECK_DEADLOCK is FALSE where the programs stop: calls are bounded, clients leave, the input ends, the
exercises exit. TLC's coverage of `exercises` is by program (`RunFamily`, ...): the actions of each are
those of its module.
`cl_cells` has no such line: a list can always be used.

## 4. Fairness

Liveness is checked under weak fairness of each process (and of the delivery of its signals, which
the kernel owes it), nothing stronger. The kernel schedules every process that can run; a blocking
call whose condition stays true is left. The user, on the contrary, is never obliged to anything:
starting a client, killing it, interrupting a server, typing a command have no fairness.

In `QueueSessions` main and each child have it, and nobody has to start or kill a run. In `Exercises`
each process of `Synchro3`, `SpyBatch`, `Capitalize` and `SignalConverter` has its own; `Family` and the
one process of `SignalPrograms` have it as a whole, which for programs whose loops all end is the same.
`Accountant` and `Lists` have none: the user need not send a signal nor a client call anything.

`sem_wait` under weak fairness may starve a process when others keep taking the token. `RunsEnd`
and `Answered` hold without more because calls are finite or clients come one by one; no property
claims that an individual caller of `mq_send` is served among others that send for ever.

## 5. Proofs

Eight modules hold the theorems, one module or two per component. Constants are constrained by the
assumptions of the modules themselves, and a theorem that needs more of the instance says so in its
`ASSUME`. These hypotheses are choices of the programs or of the user, each met by the runs that check
the same property, and each needed: section 6 shows what happens without.

| Hypothesis | Meaning | Used by |
|---|---|---|
| `NoInterrupts` | no process that sends or receives has a handler that may interrupt its waits (test1 uses no signal, test2 masks them in all but its parent) | all of `MyQueueProofs` but `TypeCorrect`, and the two modules that extend it |
| `NoSetter` | nobody changes the mode of the queue while it is used (`Setters = {}`) | `ReadersCounted`, `ReadersServedFirst` |
| `NoLateNotify` | the calls of `mq_notify` after the forks are refused: the subscriber registered before, as in test2 | `NotifiedAtMostOnce`, `NeverCrashes` |
| `NoClose` | nobody calls `mq_close` while others use the queue: the next `mq_send` would reuse slots that are still in the list | `MyQueueOrderProofs` |
| `NoSubscriber` | test1 never calls `mq_notify` | `CrashesNeedAKill` |
| `IsString` | the messages end with the first NUL they contain, inside the buffer | `StringsComeBack` |

"With one client at a time" is no hypothesis: it is `OneByOne`, a part of the properties of the two servers.

### The message queue

`Invariance`: `Spec => []IInv` with `IInv == TypeOK /\ Roles /\ Tokens /\ UsedInList`, and from it
`TokensExact`, `ListLocked`, `NeverOverrun`. Neither mutual exclusion nor the absence of overruns is
inductive: they are consequences of counts. An overrun (the search of `mq_send` without a free slot,
`mq_receive` with an empty chain) is undefined behaviour and the model has no step for it: `NoOverrun`
says that no process ever stands there. `Tokens` says that the lock plus its holders are one; that
`mutex_write`, the senders that have taken a unit and not inserted, the messages in the list and the
receivers that have taken a message and not posted add up to the capacity; and that `mutex_read`, the
receivers that hold a unit and the senders that have inserted and not posted add up to the length of
the list. With one process in the critical section, a sender there makes the list shorter than the
capacity, and a receiver there makes it not empty. A free slot then exists because the slots in use
are all in the list (`UsedInList`): this part survives `mq_close`, which sets `init` to 0 and makes the
next `mq_send` forget all lengths, since it can only make the set of used slots smaller. `Roles` says
that a process that stands in `mq_send` or `mq_receive` is one that may call it: `NoInterrupts` then
applies to it. The notification needs two more invariants: the counter of sleeping receivers is
compared with the receivers by place (`ReadersCounted`, `ReadersServedFirst`), and `OnceInv` says that
the pid and the signal of a subscription go together and who may still use them (`NotifiedAtMostOnce`,
`NeverCrashes`).

`MyQueueOrderProofs` adds `OrderInv`: no slot twice in the list (`Distinct`), the used slots are those
of the list from the first `mq_send` on (`Chained`), priorities are arguments (`Asked`), `LatestFirst`
and `NothingLost`. `LatestFirst` is the order the walk makes, which is more than `ListSorted` says:
decreasing priority and, among equals, the last sent first. The last two need each other: a new
message is the last of its priority in the order of numbers because its number is larger than all
those ever sent. `ImplementsPrioQueue` then shows that the critical section of `mq_send` is a send of
`PrioQueue`, that of `mq_receive` a reception of a message of the highest priority, and that every
other step stutters.

`CellListProofs` is about the arrays. The invariant is existential: there is a sequence `s` such that
the chain of cells from `shm->ind` is `s` (`Linked`: it passes no cell twice, ends with -1, all other
cells are free) and, until a `mq_close`, its cells have the slots in use (`SlotsOf`). `Chain` is a
recursive function on the places of the chain. That it computes `s` is an induction, done through the
least place where they would differ (lemma `Least`, from the theorem `WFMin` on well-founded relations,
which takes a set and not an operator). From there `StepsAreSequenceSteps`, the contract with `MyQueue`,
is one lemma for the four branches of the insertion and one for the removal. `StringsComeBack` compares
the bytes that `strncpy` wrote with those `strcpy` reads.

`QueueSessionsProofs` uses the steps of `MyQueueProofs` for the children and proves that what `mq_open` sets
up makes `IInv` true whatever a killed run left in the segment (`Reopened`). `CrashesNeedAKill` is about
names: a run that nobody kills leaves none (`CleanNames`), so the next one gets both its semaphores.

### The servers

`MultiConverterProofs`: `Inv == TypeOK /\ Turns /\ Balances`. `Turns` says how far the father has come when
it is in each of its loops; `Balances`, that `mutexf`, the children at work and `mutexp` add up to what the
father has sent and not collected, and that the children that wait for `check` exceed its units by those
they are still owed. `PhasesNeverOverlap` follows since nothing is due outside the loops. The other
theorems add one invariant for the clients: no answer without a request (`RepliesAreAsked`) and, for
clients one by one, whose fields the segment holds at each stage (`WholeRequests`), from which
`ResultsAreWhole` and `RepliesAreStable`. As `mc_stale_result` shows, nothing here says that all the
results of a reply are of the same request.

`NamedPipesProofs`: all its theorems rest on `FlowInv`, for clients one by one. It says which fields of the
request of the client that runs are in the pipe, which fields of its reply it has read and which are
due (`Conversing`), that nobody is in the middle of a conversion otherwise (`Quiet`), and that a client that
missed the request pipe came before the server opened it (`Late`), so that no reply meets it. From it:
no read meets an unexpected field (`NobodyAstray`); a reply is due only to a client that keeps the reply
pipe open, so that the server is not killed (`OnlyDeathBreaks`); and `RightReplies`, with the digits that an
earlier longer amount may leave, as the code has it. Two clients at once are outside these theorems:
there the model has the torn streams and the server killed though nobody killed a client.

### The exercises

`EachProgram` shows that the specification of `Exercises` implies that of each program, and the
theorems are about the latter. `Synchro3Meets` is the refinement of `Barrier`, from what a pending signal
tells (`SynInv`). `BatchesDoNotMix` and `BatchesStartTogether` hold for any `NBUF`: each slot's child is in
the state its place before or after `nbf` implies, and the commands entered are a multiple of `NBUF` when
a batch runs. `RepliesAreWhole` and `FirstReadsUninterrupted` hold for any number of children: each child is
in a stage of the current or the next request, and for the first request the signals counted, pending
and still to come add up to the children. `LinesComeOutRight` follows from the alternation of `capitalize`
(`Turn`) and what the segment holds then. `SignalsAreCounted` is about `accountant` with any signals and
any limit; its total is a sum over a set, a fold of the community modules, and the lemmas `SumExists`, `SumZero` and `SumMore`
are inductions on the smallest set where they would fail. `ContainersLoseNothing` is about the list and the
stack of any size: there is an increasing sequence of the elements inserted and not taken (`HeldIs`) that
the cells link by `previous` from the tail (`InCells`), or that the array holds (`InArray`). That the walk
of `Chain` meets it is the induction of `CellListProofs` again, on the number of cells met.

`SignalsBehave` has an invariant for each program of `SignalPrograms`, joined in `SigInv`. It says what the
calls made so far imply: which signals are blocked, which have a handler or are ignored, which may be
pending, whether the alarm is set and whether there is a child. For `pending_signals_2` (`CountsInv`): INT
is blocked from the second call until it is counted, so that what the user sends early is delivered once.
For `mysleep` (`SleepInv`): everything is blocked but while the alarm is waited for, so that the alarm
cannot come before the wait. For `mywait` (`WaitInv`): SIGCHLD is pending only when the child has ended.

`FamiliesComeOut` is about the programs that fork and wait, with any number of forks that fail and ends
in any order. All its parts rest on what a call does to the set of children not yet waited for (`Kids`).
`FlatInv`: where one process forks, the processes made and the forks that failed add up to the index of
the loop. `WaitersInv`: those children are at most the calls of `wait` left. `AnyInv`:
`waitFilsQuelconque` stops when the second pid of its table is the one returned, or when no child is
left if that fork failed. `DecInv`: `nbsolution` is at least the solutions waited for, and exceeds them
by no more than the calls of `wait` that found nobody; that the square has one solution is
arithmetic (`SolveIs`, `SolutionsAre`). `ChainInv`: the table each process of `passageDonnee` got from its
father is the chain above it, and who has left its loop has left nobody below it. `TreeInv`: each
pass of `arbreCreation` grows one chain, numbered without a gap and without repetition, and the father has
fewer children than calls of `wait` left. Its processes then are as many as the pairs of a triangle
(`TreeCount`), which is counted row by row (`TriangleGrows`). The assumption `PassesAssumption` says no more
than the programs do: the table of `waitFilsQuelconque` has the second element it reads, `arbreCreation`
forks less often than its eleven waits, `fork_exec` forks once. All other numbers of passes are free.

`ExercisesComeOut` joins them: the specification that the runs of `Exercises` check implies all its ten
safety properties, for any values of the constants that `BoundsAssumption` admits.

### Indexed files

`FicindexProofs` has three layers. `IInv` is what processes know of files not in `mixed`: the size kept with
a descriptor is the one the file begins with (`Known`), open files exist (`Present`), what `stat` said is
still true (`Stat`), while a process is about to write a header the others that have the file open are
only about to read it (`Fresh`: opens may overlap, and `mixed` gets the file when such a read comes before
the write), and other files have a header (`Headed`). It gives `SizesKnown`. Relative to it, `RInv` is about the shape of
files: a header and whole records (`FilesWhole`), descriptors that stand between two records
(`PlacesWhole`), and what an operation in progress holds (`Works`). It gives `RecordsWhole`. It uses no
arithmetic but that multiples of a size are that size apart (`Boundary`).

The third, `CInv`, is about `indxchg` between its reads and writes. There is a number `k` of records copied
so far: each is the record of the old file at that place, cut or lengthened, the new file ends after
them, and both descriptors stand where the next record begins (`Copies`; between a read and the write
that follows, the record in `mot` is the next one). That number is an existential of the invariant and not
a variable of the program. A file is made by one copy at a time (`Sole`: a second copy to the
same name truncates an open file, which puts it in `mixed`), and the old file is at its first record when
the new one is opened (`OldPlaced`). Others may meanwhile append to the old file or write records that
are not copied yet, and read either file: what has been copied stays as it was (`SameUpTo`). A read that returns nothing means that `k` records are all there are (`RecordsReindexed`).

### What is only model-checked

Every safety invariant and every action property of a passing run, and both refinements, is stated by
a theorem. Five liveness properties are not: `RunsEnd`, `Answered`, `Served`, `Forwarded`, `ProgramsEnd`.
They need fairness, and the prover has no rule for it. TLC checks them at the bounds of section 3.

## 6. What the code does otherwise than documented

Run `mc_stale_result` shows a disagreement of `TME9/src/multi_converter.c` with its exercise
(`tme9.html` line 39: the father reads the results once each child has written its own). All
children share `mutexf`, `mutexp` and `check`. A child released from request 1 can take the unit of
`mutexf` of a second child that still waits on `check`, convert twice, and let the father reply
with a result of the previous request for that second child. One semaphore per child would be needed.

Run `mq_fifo`: `tme10-11.html` line 36 asks that messages be inserted "de manière FIFO par ordre de
priorité". The walk of `mq_send` (`myqueue.c` line 237) stops at the first message that is not of higher
priority and inserts before it: equals are received last in, first out. `ListSorted` states what both agree
on, decreasing priority.

Run `accountant_total`: `tme4.html` line 63 says that the global counter is the sum of the signals
captured. The handlers block only their own signal, and `cpt2++` (`accountant.c` line 19) is a load and a
store: a handler that runs between the two is not counted in the total. `Accounts` says that nothing
else goes wrong: each signal's own counter is exact, and so is the total when no handler came there.

Run `sc_asleep` is about the signalling server of TME8. `tme8.html` line 68 says that the father replies
when each child has given its result. It tests `nbsigusr` and then calls `pause` (`multi_converter.c`
lines 127-128) with SIGUSR1 not blocked: the last signal may come between the two, or two signals may
be pending together and be delivered as one, and the father sleeps for ever with all results in its
pipes (`Replied`).

Other divergences met while modelling. Each is in the models as the code has it; the properties
were stated so that they say what the code does keep, and the comments name the limit.

* `mq_close` by one process clears `shm->init` for all: the next `mq_send` may write over a queued
  message. `NothingLost` is checked without `Closers`, `Tokens` and `NoOverrun` with them.
* A `sem_wait` interrupted by a handler returns without the token, and the result is ignored: with a
  sender or receiver in `Interruptible`, `MutualExclusion` and `Tokens` fail.
* In non-blocking mode `mq_receive` increments `nb_blocked_readers` without having decremented it
  (`BlockedReaders` is about the blocking mode). `nb_blocked_writers` is given the value of
  `mutex_write`, the number of free places.
* `mq_notify` writes the signal and the pid in two steps without the lock; a `mq_send` in between
  calls `kill(0, ...)` and then reads through NULL. `NoCrash` holds when the registration precedes the forks.
* A run killed by Ctrl-C leaves the names of its semaphores, and `mq_open` stores the null pointer that
  `sem_open` then returns. With both names left, the children of the next run crash and its father
  unlinks the names; with that of `mutex_read` alone (a Ctrl-C between the two `sem_open` or the two
  `sem_unlink`) the next run hangs: `RunsEnd` excludes it.
* A string without NUL comes out of the queue followed by bytes of an older message.
* TME9: a client that opens the segment before its semaphores exist is lost; the answer to a killed
  client goes to the next one; `capitalize` displays the last word again at the end of the input.
* TME8, signals: `tme8.html` line 71 says that a child signals when it has finished writing its result. It
  does so before (`multi_converter.c` line 155), and the father may leave its loop when no result is there.
  Its reads wait for them: `Forwarded` and `WholeReply` hold nevertheless.
  And `nbsigusr` is never reset, so that from the second request on the father may not wait, may
  have a read interrupted, or may sleep for ever in `pause` (`ReadsUninterrupted` and `Forwarded` are
  about the first request).
* TME8, named pipes: an amount shorter than the one before it keeps the last digits of that one
  (`RightReply` says exactly when). Two clients at once take one another's fields: one reads a length
  that was none, its read fails and it exits, and the server may be killed by SIGPIPE with nobody
  killed; a length that was none may also make the server write past a buffer. A client that opens the
  first pipe before it exists and the second one after waits for ever on the latter, while the server
  waits on the former for another client: `Served` lets it off. An unknown currency ends the server
  (`converters.c` line 22).
* TME1: `extract_tail` leaves `head` on a freed cell; `dequeue` has no `return`. Nothing follows `head`.
  Its README (line 8) calls the queue a FIFO; `queue` puts an element at the tail and `dequeue` (`fifo_list.c`
  line 47) takes one from the tail: it is a stack. `ContainersWhole` says nothing of its order.
* TME2: the father of `arbreCreation` waits for eleven children, has three, and exits with 2 (its README
  says so); `decoder` adds the status of a `wait` that failed (`SolutionsCounted` says by how much).
* TME9: the handler of `capitalize` destroys the semaphores after it has unmapped them.
* TME7: `indlseek` adds the header only for `SEEK_SET`; a move from the current position or the end to before the
  first record lands in the header. `indopen` with `O_WRONLY` on an existing file takes the
  record size from an uninitialised variable and leaves the position at 0, where the next write
  replaces the header.
* TME7, files shared: the history variable `mixed` of `Ficindex` collects the files used in a way the
  library does not stand, and `IndexKnown`, `WholeRecords` and `Reindexed` say nothing of those. They
  are (operator `Mix`): a file created by another process between the `stat` and the `open` of one that is
  to create it (both then write their size, and the first keeps one the file no longer has, where
  `Ficindex.h` line 23 says that `ind` is of use only to who creates or overwrites the file); a file truncated while it is open; a header read before it is written; the opens with
  O_WRONLY and the moves into the header above; a write to what a copy makes or to what it has already
  read; the copy of such a file. Many uses that overlap are not in the list: several processes that open
  one file while another is still to read its header, one that writes while others read, search or copy
  what comes next. It is about those that the properties speak. In the others the size kept in `tab`,
  the records or the copy are wrong, and nothing in the code prevents it.
* `TME7/README` line 51 marks `indxchg` "NOT" where the other functions are "OK". `Reindexed` and the theorem
  `RecordsReindexed` say what it does: it keeps every record and the order. What is wrong with it: to a
  larger size it writes what `malloc` left behind the record; it returns success when a read or a write
  failed; with one name for both files it truncates the file before it reads it.

## 7. Not modelled, and the plan

Not modelled:

* `single_converter` (TME8): a child writes five results into a pipe, its father reads five; the fields
  are those of `NamedPipes`, the pipe that of one child of `SignalConverter`.
* `control` (TME5) installs its handler with `sa_flags` and `sa_mask` it never initialises.
* `compil` (TME3) writes past the end of `arg_vect2`; `ex4` replaces itself by itself until its argument is 0.
* `stack_list.c` and the operations at the head of the list (TME1): never linked, since
  the linker takes the same functions from `stack_array.o`, the first of `libstack.a`.
* The file programs of TME6: one process that copies characters or makes one system call, and ends.
* The conversion tables: floating point products.
* The opening of the pipes and SIGINT in the signalling server: as in `NamedPipes`.
* `mutex_update_nb` is folded into the steps it protects. Rights and device errors are left out everywhere.

The order of the work, most important first; all of it is done:

1. `PrioQueue`, `MyQueue`, its runs and `MyQueueProofs`; `CellList`; `MultiConverter`;
   `SignalConverter`, `NamedPipes`; `Synchro3`, `SpyBatch`, `Capitalize`; `Ficindex`.
2. The rest of the models: `QueueSessions`, `Family` and `MagicSquare`, `SignalPrograms`, `Accountant`,
   `Lists`, and `Exercises` that runs the small programs.
3. Proofs of the queue, its cells and its sessions, of the servers, of the indexed files, and of the
   exercises program by program: section 5.

What could follow are the programs of the list above, first `single_converter`.
