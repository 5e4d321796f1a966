# Specifications of cse3100

This directory holds TLA+ models of the concurrent programs of the repository,
the TLC configurations that check them on small instances, and TLAPS proofs
about all of them for every value of the constants.

The repository is a semester of systems programming exercises: about 6500
lines of C in 25 directories, each with a `main` of its own.  What the programs
have in common is their subject: processes and threads that share memory,
semaphores, mutexes, a condition variable, pipes and sockets.  All of those are
modelled.  Sequential exercises on numbers and text are listed and left out.

## 1. Inventory

| component | state it keeps | operations | what is hard | what makes it correct |
|---|---|---|---|---|
| **Task farm** (`lab8`): a boss process, worker processes | two ring buffers in shared memory, five named semaphores, a table of worker pids | create and open the named objects; enqueue, dequeue; solve; SIGTERM; unlink | two-step ring operations, a full ring, answers in any order, workers launched at any time, the kill at the end | rings used by one process at a time, no answer overwritten, each task tallied once, workers killed idle |
| **Dining philosophers** (`final/philo.c`) | a mutex per fork, a state and a count per philosopher | `muse`, `doActivity`, `makeTable`, `clearTable` | lock order, `n` odd, `n = 1`, destruction of the mutexes | neighbours exclude each other, no deadlock, everybody eats |
| **Guessing game** (`ps9`) | a mutex, a condition variable, `status`, the last guess and its result, an interval | wait, guess, check, signal | lost signals, spurious wake-ups, ends of the interval, a value out of range | turns alternate, results are fresh, the interval keeps the value and halves |
| **Search tree** (`ps8`) | nodes with a lock each, the lock of the tree, slices of an array | `insertIntoTree`, `divideWork` | hand-over-hand locking, two insertions at one place, the unused lock of the root | search order, links are never overwritten, all values are inserted |
| **Sorted list** (`lab10`) | doubly linked nodes with a lock each | `insertSortedList`, `printListForward` | a lock guards one's own `next` and the successor's `prv`; two link steps | both directions agree, order, a printer sees what was there |
| **Hash map** (`lab9`) | sorted list and lock per bucket, counter with a lock of its own | `insertHashMap`, `deleteEntry`, `retrieveValue` | two locks taken one after the other, search and change apart, deletion of an absent key | an atomic set, an exact counter |
| **Shell** (`ps5`) | a parsed command, pipe ends and children per shell process | parse, redirect, open pipes, fork, exec, wait | a failed exec that leaves a second shell, inherited ends, a fork that fails, children nobody waits for | the line is parsed as written, the output is the composition of the stages, no end stays open, sessions end |
| **Fixed pipes** (`lab6`, `mt2` Q1) | three pipes, a growing buffer; two pipes | read, encrypt, write a message; exec | ends that stay open, the last place of the buffer | the message comes back, all processes end |
| **File transfer** (`ps6`) | a stream each way, a child per connection | ls, get, put, exit; accept, reap | short receives, end of stream, killed clients, a server that dies of its reaping | whole files are received, sessions end |
| **SQLite server** (`mt2`, Q2) | two listening sockets, children; a poll loop on each side | dispatch, shut down, reap; send, receive | polling against buffered input, a failed exec, a client that sends nothing | lines and answers in order, the dead are reaped, shutdown ends the server |
| **Fork and join**: matrix product (`ps7`), pair sampler, determinant (`final`) | a shared result, workers | divide, compute, collect | remainders, more workers than work, failed forks | the result of the definition, once, and only when complete |
| Containers (`ps3`) | vector, list, two-stack queue | push, pop, expand | capacity | a sequence, a FIFO queue |
| Other exercises (`ps1`, `ps2`, `ps4`, `mt1`, `lab2` to `lab5`, `lab7`, `practice-mt2`) | none that is shared | arithmetic, parsing, file reads | - | their results |

The programs do not call one another.  Inside a program the parts interact
through shared memory and kernel objects: the boss and the workers of `lab8`
through rings and semaphores, the threads of `ps9` through `shared` and one
condition variable, the threads of `ps8`, `lab9` and `lab10` through the nodes
they lock, the processes of `ps5` and `lab6` through pipes and `waitpid`, the
clients and servers of `ps6` and `mt2` through streams.  `PROJECT.json` lists the components with their sources and status,
and the hazards at the lines where they bite.

## 2. Modules

| module | models | checked by | proved in |
|---|---|---|---|
| `TaskPool` | abstract: tasks submitted, answers collected once | refined by `TaskFarm` | `TaskFarmProofs` (refinement) |
| `TaskFarm` | `lab8/buffer.c`, `prog1.c`, `prog2.c` | `MCTaskFarm.cfg` | `TaskFarmProofs` |
| `Philosophers` | `final/philo.c` | `MCPhilosophers.cfg` | `FinalProofs` |
| `GuessGame` | `ps9/pclock.c`, `guess-mt.c` | `MCGuessGame` | `ProblemSetProofs` |
| `ConcurrentSet` | abstract: a set with atomic additions and removals | refined by `TreeMT` and `HashMap` | `TreeMTProofs`, `HashMapProofs` (refinements) |
| `TreeMT` | `ps8/treeMT.c`, `treeMTTest.c` | `MCTreeMT` | `TreeMTProofs` |
| `SortedList` | `lab10/dllist.c`, `dltest.c` | `MCSortedList.cfg` | `SortedListProofs` |
| `HashMap` | `lab9/hashMap.c`, `dllist.c`, `hmtest.c` | `MCHashMap` (two configurations) | `HashMapProofs` |
| `Pipes` | external: processes, descriptors, pipes, files, executed programs | through `Shell`, `FixedPipes` | with them |
| `Shell` | `ps5/shellp.c` | `MCPipelines` | `ProblemSetProofs` |
| `FixedPipes` | `lab6/pipes.c`, `mt2/Q1.c` | `MCPipelines` | `ProblemSetProofs` |
| `ForkJoin` | `ps7`, `final/rpair.c`, `final/matrix.c` | `MCForkJoin` | `FinalProofs` |
| `FileTransfer` | `ps6` | `MCFileTransfer` (two configurations) | `FileTransferProofs` |
| `SqlServer` | `mt2/Q2server.c`, `Q2client.c`, `Q2service.c` | `MCSqlServer` | `SqlServerProofs` |

Conventions.  A process or thread has a program counter `pc[p]`; `Goto(p,
from, to)` is its move from one statement to the next.  A step is what runs
between two accesses to shared state that another process could observe; a
critical section is split at every access, so that removing a lock is visible.
Blocking calls are guards: `sem_wait` is enabled while the value is positive,
`pthread_mutex_lock` while the mutex has no owner.  Definitions whose comment
begins with *Mutant of* belong to no specification: each is an operation with a
plausible mistake, kept beside the operation to show that a property notices
it.

### TaskFarm

`pc`, `sent` and `got` (the two loop variables), `collected` (the tasks added
to `check`, hence the entries of `workers[]`), `ring`, `sem`, `named` (the
names in `/dev/shm`), `handles` (what each process opened), `task` (the local
`Task t`) and `sigterm`.  `Create` is one call of `setupBuffer` or `sem_open`
of `prog1.c:38-45`, in their order; the objects exist one by one and a worker
may be launched in between.  `Open` is the same on the worker's side: a missing
ring ends it (`exited`), a missing semaphore gives the null handle, and the
first operation on it is `Segfault`.  `Store` and `Advance`, `Load` and
`Shift` are the two halves of `bufferEnQueue` and `bufferDeQueue`.
`UnlockAndSolve` is `sem_post(lock2)` with `solve`, which only touches the
worker's own copy.  `PostSlots` is `sem_post(slots)` with the tally,
`remember_worker` and the loop test.  `KillAllWorkers` and `TermHandler` are
the signal and its handler, which runs wherever the worker is.  Launching is
the user's step, without fairness.

Abstractions: `answer` is set together with `worker` and is a function of
`query`, so a solved task is one with a worker; the table of pids is the set of
workers in `collected`, with the assumption that it does not overflow;
`setupBuffer` is one step (workers read the capacity only behind a `sem_wait`
the boss has to post first).  The two `assert`s of `tearDownBuffer` contain the
calls they test, as the build files leave assertions on.

### Philosophers

`created` is the loop of `main`, `pc`, `state` and `ate` belong to the
threads, `fork` holds the owner of each mutex.  `Hunger`, `LockFirst`,
`LockSecond`, `Eat`, `UnlockSecond`, `UnlockFirst`, `Think` are the steps of
`muse`; the three calls after its loop are those of its case `EAT`.  With
`Cycles = 0` the program unlocks forks it never locked and exits; the model
assumes a positive number.

### GuessGame

`waiting` holds the threads inside `pthread_cond_wait`: `CondWait` releases
the mutex and sleeps, `Signal` wakes one of them, `SpuriousWakeup` wakes one
for no reason, `Wakeup` takes the mutex again and goes back to the test.
`ParentGuess` is one iteration of `thread_p` between test and unlock,
`ChildCheck` one of `thread_c`.

### TreeMT

A slot of the model is a `TNode *` of the program, the root or a child field;
since the tree never holds a value twice, a node is its value.  The numbers
are any array over the given values: `main` uses a shuffled range, the model
also covers repeated values, which `insertIntoTree` handles.

### SortedList

A node is the rank of its `malloc`; `succ` and `prv` are the two links,
`succ[TheList]` is `head`.  `Link` is everything up to the forward link,
`BackLink` the assignment to `nxt->prv` or `tail`.  `dltest.c` prints after
joining the threads; the model lets the printer run at any time, which
`printListForward`, with its own locks, is written for.

### HashMap

A bucket is the set of its keys, its list being sorted and without duplicates;
`cur` is where the search stopped.  `numItems += rc` and `numItems--` are a
read and a write.  The hash function is arbitrary, chosen in the initial
state.  The width of `numItems` is `UIntSize`.

### Pipes, Shell and FixedPipes

`Pipes` is the operating system as these programs use it.  A process has the
ends behind descriptors 0 and 1, the set of its other ends (`more`), its working
directory, its parent and its memory `mem`, which `fork` copies.  A read of a pipe returns 0 only when
nobody holds the writing end (`AtEnd`), a write fails only when nobody holds the
reading end (`Broken`): so every `close` that is forgotten can be seen.  An
executed program writes what it gives, then copies up to a number of items it
reads; `Flow` is what a sequence of programs computes.  Files are numbered and
`dir` gives the number behind a path, so a file outlives its name (`rm`) and may
have several (`ln`).

`Shell` extends it with `shellp.c`.  A line is a sequence of tokens, blanks
among them (quotes are no tokens: the code only strips them off a word);
`ExtractRedirect`, `SplitToken` and `MakeCommand` are the parser.
`ReadLine` is one turn of `main` up to the dispatch, `ChangeDirectory`, `Link`
and `Unlink` are the built-in commands that change something, `BasicFork` and
`BasicChild` are the two sides of `basicExecute`, `Setup` is
`setupCommandPipeline` up to its loop, `SpawnStage` and `StageChild` the two
sides of `spawnStage`, `Wait` is `waitStage`.  A child whose `execvp` fails
returns into the code of the shell: the processes at a prompt are any number,
and what stdio has read ahead (`ahead`) is copied with them.  `ForkFails` is the
branch for -1.  `line` and `before` are history.

`FixedPipes` has the two programs with pipes laid out by hand.  In `lab6` the
descriptors are used explicitly: `in` and `out` are the two ends a process works
on, `CloseUnneeded` its list of calls of `close`.  `Grown` is the growth of the
buffer of `read_message`, whose size is part of the state.

### ForkJoin

One module for three programs of the same form; `prog` says which one runs.
`Share` and `ShareStart` are the division of rows, trials or columns, `Setup` is
what `main` creates before its loop, `Work` is one iteration of a worker's loop (an element of the product, a sample, a term),
`Finish` its last statements, `SemWait`, `WaitChild` and `JoinThread` the three
ways to wait.  `Det` is `detMatrix` with its minors as sets of columns.  Whether
a sample is an event is arbitrary; `events` counts them as history.

### FileTransfer

A stream is a sequence of words; a `Command` and a `Payload` are two words each,
a file none or more.  `recv` takes what is there, up to what was asked for, or,
as a fault, less of it (`Receivable`); every `recv` stores at the beginning of
its buffer (`Put`), as the code does.  The actions of the client follow the
functions of `client.c`, those of the child the cases of `handleNewConnection`:
its command is not reset between turns and not read again when `recv` returns 0.
A `recv` that asks for nothing, for an empty file, sleeps on an empty queue like any
other and returns without taking anything once words are there or the other end is
closed (`Amounts`).  `get` therefore hangs on an empty file: the client sleeps in
`command.c:86` for words that are not sent, and its child in `server.c:76` for
the next command; a `put` of an empty file is only stored when the next command
arrives.  `ls` prints what it got only if the payload is a text (`Expected`).
`Swap` is `ntohl`, applied a second time to the same command.  `AfterReap` is
`waitpid` with `checkError`, which ends the server when it has no child left.
A killed client is `Kill`, its consequences are `Reply` (`SIGPIPE` or words
that are lost) and `ResetChild`.

### SqlServer

The client has its input (`lines`, `at`, and whether it is a file, a terminal
or a pipe, since stdio and `poll` see these differently: `InputReady`), what
`poll` said about the socket (`ready`) and what it has shown.  An answer is
counted in halves of the 64 bytes the client receives at once, so that
an answer of two units fills its buffer.  `server` is a set of processes: the
one that was started, and any child of `handle_client` whose `execlp` failed and
which goes on in the loop of `main`, competing for the same connections.
`Poll` remembers whether the service port was ready (`asked`) before the
connection of the other port is accepted.  `sqlite3` stops reading at `.exit`;
lines that come behind it stay unread in `up`, and closing a connection with
unread lines resets it (`Reset`), so the client may lose answers it has not
received yet.  `UntilExit` is the part of a sequence of lines that is answered.

## 3. What the runs check

| run | instance | states | what it shows |
|---|---|---|---|
| `task_farm` | 2 workers, 3 tasks, 2 answer slots | 321,680 | ring exclusion, slots, indices and tally in order (`FarmConsistent`), idle kill, refinement of `TaskPool`, termination |
| `philosophers` | 5 philosophers, 2 meals | 361,489 | exclusion, no deadlock, clean destruction, everybody eats |
| `guess_game` | `MAX_VALUE` = 1000, values -2 .. 1002 | 291,354 | no lost wake-up, both assertions, bisection, termination for every value in range, none outside (`GameEnds`) |
| `tree_insert` | 3 threads, arrays of 4 numbers out of 4 | 204,024 | search order, lock coupling and completeness (`TreeWellFormed`), links that stay, refinement of `ConcurrentSet`, termination |
| `sorted_list` | 3 threads, 2 values each, a printer | 127,599 | order and mirrored links (`ListWellFormed`), the right lock held, the printed snapshot, termination |
| `hash_map` | 2 threads, 4 keys, 2 buckets, all hash functions | 15,004 | counter, valid searches and final contents (`MapWellFormed`), refinement of `ConcurrentSet`, termination |
| `hash_map_absent` | 2 threads, one deletes an absent key | a few | wrong deletion (below) |
| `pipelines` | 10 sessions, all short lines; a message; `ls`, `xargs`, `cut` | 3,535 | composed output, parsing, no end left open, termination |
| `fork_join` | 1 to 3 workers; 3 products, 3 counts of trials, 4 squares | 3,084 | the reported result is the defined one, `main` ends |
| `file_transfer` | 2 clients, 4 assignments of sessions | 147,863 | whole files, clients served to the end, sessions end, or hang on an empty file |
| `transfer_short` | the same | a few | a list in pieces (below) |
| `sql_server` | 2 clients, 1 run of `Q2service`, 3 assignments of sessions | 284,380 | order of lines and answers, reaping, shutdown, sessions end |

Each run has the invariants and temporal properties named in `PROJECT.json`,
where every one of them also has a mutant that breaks it.

Bounds.  Three tasks over two answer slots make both rings wrap and the answers
ring fill; two workers suffice for every pair of processes on a ring, and one of
them may be missing, late or crashed.  Five philosophers are the smallest odd
table with neighbours of equal parity and a pair that shares no fork; two meals
make a philosopher lock again after others.  The guessing game is checked with
its real range.  Three threads on four values give the tree insertions that
meet at every slot and a slice of uneven size (4 = 2 + 1 + 1); three threads
with duplicates give the list an insertion between two link steps of another.
Two buckets over four keys include all keys in one bucket.

A pipe of two items fills up; pipelines have up to three stages, so a stage
inherits ends of a pipe it does not use; the sessions hold a misspelt command in
every place, a stage that stops reading, a missing and a doubled redirection,
a linked and a removed file, one name in two directories, and lines of up to five words with redirections at every position.  One call of
`fork` may fail (`MaxForkFailures`), no run has more than eight processes
(`MaxProcs`).  The buffer of `lab6` starts with three places, so a message of four
characters makes it grow.  Workers of `ForkJoin` are more than the rows, trials
or columns in some cases, divide them evenly or with a remainder in others; one
fork fails at most.  In `FileTransfer` two clients suffice for one connection
that is served while another is accepted, killed or waiting; at most one fault
(`MaxFaults`: a short `recv`, a killed client, a failed fork) happens, at any
point; files have none or two words and the list has two, so that it can arrive in pieces; an empty
file is put in one session, and got after that in another; uninitialized words (`StackWords`) are a
code or a word that is none.  `SqlServer` has two clients that cover the three kinds of
input, and a session with a line after `.exit`, an answer that fills the buffer and one that does not, and one fault: a
failed `fork`, a failed `exec` or a command cut in two.

Programs end, so `CHECK_DEADLOCK` is off; that they end where they should is
the liveness property of each run.  The servers stop when they are told to, or never.

Fairness.  Every thread and process is weakly fair as a whole: the scheduler
runs what can run.  Mutexes and semaphores get no fairness of their own.
`GuessGame` assumes that spurious wake-ups do not go on for ever, since an
endless alternation of wake-ups could keep the mutex busy.  `BossFinishes` is
conditional: some worker must have opened every object, for nobody obliges the
user to launch one, and no worker may have crashed on a missing semaphore.
Users of the clients of `ps6` and `mt2` type on; nobody has to kill a client, to
run `Q2service`, or to let a call fail.  `poll` returns after its second even
if nothing is ready, which is why the polling loop of the server is always
enabled.  `PatientSessionEnds` is about sessions in which every program exists
and every later stage reads to its end; with others the inherited ends do keep
processes waiting.  `SessionsEnd` of `SqlServer` lists the ways in which a client
may wait for ever (the inner receive loop after a filled buffer, a pipe as its
input) or end early (with its input, or in sending a line behind `.exit`), and
shows that there is no further one; that of
`FileTransfer` is about sessions without a fault that the server accepted, and
says that they end, except those that get an empty file, which stop there for good
with everything before it received (`Hung`).

Two statements of the repository are refuted:

* `hashMap.c:98-99`, "If they key isn't in the bucket, don't do anything.":
  `removeFromList` (`lab9/dllist.c:75`) tests only that the search stopped at a
  node, not that the node has the key.  `hmtest.c` deletes present keys only,
  and for those the map is an atomic set.
* `client.c:79`, "read a payload and message.": after a `recv` that returned a
  part of the list, the loop of `get_payload` receives the rest into the beginning
  of the buffer (`client.c:92`), so `ls` prints a damaged list.  `SLURP`, which by
  `client.c:61` is to "eat an entire message on the socket.", does the same with
  the payload; then `ls` usually prints "Unexpected payload" instead, and `get`
  takes a wrong length.  Without a short `recv` everything arrives whole
  (`ReceivedWhole`).

One more defect contradicts no statement of the repository and is part of a
property that holds: `get` of an empty file hangs client and child
(`SessionsEnd` of `FileTransfer`).

Two boundary cases lie outside the instances: a table with one philosopher, which
`makeTable` admits and which locks its only fork twice (the proof of `DeadlockFree`
assumes two), and a determinant of a 0x0 matrix, for which `detMatrixPar`
returns 0 although `final/matrix.c:151-152` asks for the base case.

## 4. What is proved

For every value of the constants that satisfies the named assumption of the
module, from that assumption alone.

**TaskFarmProofs** (any finite set of fewer than 256 workers, any number of
tasks and slots).  `FarmInv` is `TypeOK`, bounds of the two loop variables
(`LoopsBounded`, without which the last `sent + 1` leaves its type) and, for
each ring, `Mutex(r)`: its lock is 0 or 1, is 0 while somebody is on the ring,
there is at most one such process, and nobody is on the ring before `prog1`
created the lock.  The last part is what makes `Create` preserve it.  Each step
is classified as taking the lock, giving it back, or leaving the ring alone
(`MutexTake`, `MutexGive`, `MutexQuiet`).  From it `TypeCorrect`, `Exclusion`.
What the counting semaphores achieve is not visible in one state, since a worker
may crash between two posts.  `BooksKept` therefore says that *some* number of
tasks taken, number of answers put and order of the answers explain the state
(`Books`): each semaphore plus those that passed it counts no more than was
submitted, than there are slots, than was put; a task that was taken is in the
hands of one worker, lost with one that crashed, or among the answers once; the
requests ring holds task k at position k, the answers ring the answers put and
not yet consumed.  The numbers are existentially quantified, so the model
needs no history variable.  Theorems: `Bookkeeping`, `Consistency` (slots
conserved, final tally), `KillsIdle`, and `PoolImplemented`, the refinement of
`TaskPool`.

**FinalProofs**, first part (any `N` and `Cycles`).  The invariant `TableInv` says that forks
and program counters agree about who owns what.  From it `Exclusion`,
`ClearsIdleTable`, and, for `N >= 2`, `NoDeadlock`: a philosopher that holds
its first fork and waits for the second one waits for a neighbour of the other
parity or for one that holds both forks, so a chain of three waiting ones is
impossible (`NoChain`).

**FinalProofs**, second part (any matrices, counts of trials, numbers of workers
and of failed forks).  Before the programs stand the facts about sums their
results rest on: what `MapThenSumSet` and the folds of the community modules give
for a set that is empty, grows by one, is united, partitioned or renamed
(`SumIs`, `SumUnion`, `SumPartition`, `SumRename`), the same for products, and
that the shares of the workers begin at 0, follow one another without a gap and
end at the total, with and without a remainder (`StartIs`, `SharesApart`,
`SharesCover`).  `Laplace` says that `detMatrix`, the expansion by the first row
with its minors, computes the Leibniz formula: permutations are taken as
matchings of a set of rows with a set of columns, and the formula is expanded by
the column of the first row.  `ForkJoinInv` then says that each worker's cells or
its local sum are those of the iterations it did (`Stored`, `Sampled`,
`Added`), that it did all of its share before it ended (`Duties`), and that
`main` has waited for as many as its loop counted (`Waits`: the value of the
semaphore, the children reaped, the threads joined), and unless a fork failed
all were started (`AllStarted`).  Theorems: `DeterminantAlone` (the threads report
what one call of `detMatrix` computes, for every matrix with a row) and `ResultsRight`, the property
`ResultRight` of the run.  Its hypothesis `<<>> \notin Squares` leaves out the matrix
without rows, for which the program reports 0 (section 3).

**ProblemSetProofs**, first part (any `MAX_VALUE`, any set of values).  The invariant has
two parts, `Protocol` (the mutex, the sleepers and the turn) and `Bisection`
(the interval).  Theorems: `SignalsArrive`, `AssertionsHold`,
`BisectionKeepsValue`, `NoEndOutside`, `Halving`.

**ProblemSetProofs**, second part: the shell and the operating system under it
(any lines, programs, files, number of failed forks, and any number of shells
left behind by a failed exec).  `ShellInv` has two parts.  `SystemOK` says that the
objects and files behind descriptors, offsets and names exist.  `ProcessesOK`
says what a process has in its memory where it stands, and of the first shell
(`FirstOK`) that it never executes a program or becomes a child, that descriptors
0 and 1 are the terminal wherever it is, and, unless a fork failed, that
all it holds besides are ends of stages it has still to spawn (`EndsToCome`).
The last part is what makes the induction work: the shell opens the pipes of all
stages and the redirected files at once (`Setup`) and closes two ends per stage
(`SpawnStage`), so that nothing is left after the last one.  What
is opened, pipes and at most a file at either end, is sound beside what was open
before (`OpeningAll`).  The parser is a fold over the tokens of the line; of what
it returns the proof needs that a pipeline has a stage (`CommandOK`).
Theorems: `ShellInvariance`, and `PromptClean`, which is `PromptHoldsNothing` of
the run.

**ProblemSetProofs**, third part: the fixed pipes (any capacity, any number of
failed forks).  What is in a pipe, a buffer or on the screen is a `Part` of a
text that is known beforehand, from one place in it to another, so an item
written or read moves a place by one and nothing else changes.  For `lab6`
(any message that ends at its only newline, any first size of the buffer)
`CaesarInv` says of each pipe how many characters of its text were written and
read, that every process stands where these counts say (`Place`), that each of
the three roles is played once, which is why a count changes only in one
process (`OthersStay`), and that a reader's buffer has room for the next
character and a null.  For `mt2` Q1 (any `ls`, `xargs` and `cut` that execvp
finds: the hypothesis `Installed`; without it there is nothing to compare with)
the texts are what each of the three programs delivers of the text before.  `CutInv`
says how far each program is in both (`Working`), and when a program may be
gone: `ls` and `xargs` when all is written or their reader is gone, `cut` only
when it has written everything (`CutPlace`, `LsPlace`, `XargsPlace`).  That a reader sees the end of its input
only after the writer is done needs that nobody else holds the writing end,
so the invariant lists the ends each process holds.  Theorems: `LetterRight`,
and `FixedRight`, which is `FixedCorrect` of the run.

**TreeMTProofs** (any array, any number of threads).  `Below`, the contents of a
subtree, is a recursive function over the slots.  Wherever the links end
(`Founded`), a least counterexample shows that its defining equation has one
solution, so what `Attach` changes can be computed: the new value is added below
the slots on the way to it and nowhere else.  `TreeInv` is the types, `Shape`
(the slots form a search tree and hold nothing outside it), `LockCoupling`,
`Place` (each thread stands on the search path of its value, `OnPath`, and holds
the mutex above the slot) and `Holds` (the tree holds what was inserted).  The
slices cover the array, also with a remainder.  Theorems: `WellFormed`,
`LinksKept` (an action property), `SetImplemented`, the refinement of
`ConcurrentSet`.

**SortedListProofs** (any finite set of threads, any number of values, one
printer).  The recursive function `From`, the list behind a pointer, is computed
along a path through the links (`Linked`).  `ListInv` says that one sorted path
goes through all linked nodes (`Sorted`), the back links mirror it except where
one is being set (`Mirrored`), mutexes are held where the threads stand
(`LockCoupling`, `Place`), an inserting thread holds the mutex in front of its
spot and a node it linked stays right behind that mutex (`Inserting`), and
threads do not allocate more nodes than they have values (`Accounted`, by an
injection from the nodes).  For the printer, `Printing` says that what it wrote
together with what is behind it covers what was there when it began.  Theorems:
`WellFormed`, `PrevLocked`, `Snapshot`.

**HashMapProofs** (any finite set of threads, any hash function, any width of
the counter).  `MapInv` says who owns which of the two kinds of locks, that keys
are in the bucket they hash to, what a search found (`SearchStaysValid`), and
that the counter is the number of entries up to the threads in `Pending`, which
changed the map and did not count yet.  From it `CountsEntries`.  Since
`removeFromList` does not compare keys, the contents are right only for drivers
like `hmtest.c` (lines 61-68), which delete keys they inserted, each of them once:
that is the hypothesis `DeletesItsKeys` of `WellFormed` and of
`SetImplemented`, the refinement of `ConcurrentSet`.  The run `hash_map`
satisfies it, `hash_map_absent` shows what happens without it.

**SqlServerProofs** (any clients, sessions, sizes of answers and number of
faults).  The first half is about sequences: what `FlattenSeq`, a recursive
function inside, makes of a sequence that grows or is concatenated
(`FlattenAppend`, `FlattenConcat`), and where the first `.exit` cuts a sequence
(`UntilExitOf`).  `SqlInv` says of each connection that is alive, while no call
has failed, that some prefix of the lines sent is answered, that no `.exit` is
among these, and that the other lines are on their way or the next one is the
`.exit` that ended `sqlite3` (`Accounted`).  It needs that a
connection waits once in the queue and before it is served (`Queued`), that
without a fault no child is a second server (`NoFaultYet`), and that nothing is
read behind the end of the input (`InputPlace`).  Theorems: `TypeCorrect`, and
`AnsweredOnce`, which is `NothingLost` of the run.

**FileTransferProofs** (any clients, sessions that end with `exit`, files, and
number of faults).  Again the first part is about sequences: what `recv` takes
off a stream and where it stores it (`FromTwice`, `PutWhole`).  `TransferInv`
says of each connection whose session was not ended from outside, as long as no
`recv` was short, that the child is at some command j of the script, that what
is on its way up is what the client has sent from command j on, without the
words the child has read of it (`Upward`), and that what is on its way down
is what the child has given of the one answer the client awaits, without
what it has received (`Downward`); both sides expect as many words as the
other one announced.  `rest`, what was sent from each command on, is a function
that satisfies a recurrence (`Stream`), so that no recursion over the script
is needed.  A client that came to its end has sent `exit`, hence a child whose
stream is empty is not in the middle of a command (`NoCommandLacks`).  Beside it
stand the place of a client in its script (`AllPlaced`), `Queued` as above, and
that the server ends only without children (`DeadIsAlone`).  Theorems:
`TypeCorrect`, `ReceivedIsWhole` (`ReceivedWhole` of the run) and
`NobodyLeftBehind` (`ServedToTheEnd`).

The runs check the theorems' properties, except that the type invariants stand
inside `FarmConsistent` and the `WellFormed` properties or beside the run's
properties: `TypeOK` of `Philosophers`, `GuessGame`, `SqlServer` and `FileTransfer` is proved and
left out of their runs, and `OutsideNeverEnds` is a part of `GameEnds`.

The library's induction theorems cannot be used by the installed provers.  Where a
proof needs an induction over numbers (the recursive functions of the tree, the list
and `FlattenSeq`), it takes a least counterexample instead, whose existence is
`WFMin` of the library applied to a set.  Each inductive invariant was checked by
TLC on the instance of its run before it was proved.

Only model-checked, and why:

* all liveness properties and conditions with `ENABLED`, which are out of reach
  of the proof system;
* `OutputComposed` of the shell, which does not hold for arbitrary constants: a
  stage whose exec failed goes on as a shell on the pipe and may execute lines
  that write files, so the property depends on what the sessions of the instance
  contain;
* `ParsedAsWritten`, likewise a statement about the lines of the instance: in
  `cat <` without a name `extractRedirect` keeps an empty one, which the
  reference definition does not describe.

## 5. Not modelled

Values and `retrieveValue` of the hash map (nothing calls it), printing and
destruction of the tree and the lists (they run alone), `makeBuffer` (an empty
function), the restart of a boss over leftover semaphores.  Failures of
`malloc`, `pthread_create`, `mmap` and `ftruncate` are left out: the programs
exit or do not test them.  What the shell
itself prints, its prompts and reports, is left out; it matters only where a stage was not found
and the child goes on as a shell on the pipe, of which no property speaks.  `send` is complete: it
blocks until it has sent everything unless a signal interrupts it, and no
program handles one.  Reading and printing matrices, the directory scan behind
`ls` and SQL itself are data.  The components marked `not_modelled` in
`PROJECT.json` are sequential programs over numbers and text, and containers
with one user: what is hard about them is arithmetic and memory, not order.

## 6. Plan

1. `Containers` (`ps3`): the two-stack queue as a refinement of a FIFO queue.
2. A boss that crashes and is started again in `TaskFarm`.
