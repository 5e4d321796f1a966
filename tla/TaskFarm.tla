------------------------------ MODULE TaskFarm ------------------------------
(***************************************************************************)
(* The bounded-buffer task farm of lab8: one boss process (prog1.c) and    *)
(* any number of worker processes (prog2.c) share two ring buffers in      *)
(* named shared memory (buffer.c) and five named semaphores.               *)
(*                                                                         *)
(* The boss queues NTasks tasks, then collects NTasks answers; a worker    *)
(* repeatedly takes a task, solves it and queues the answer.  A ring       *)
(* operation is two steps (touch the slot, advance the index), so an       *)
(* unprotected pair of operations is visible to the model.                 *)
(*                                                                         *)
(* The fields answer and worker of a Task are set together by solve(), so  *)
(* a Task is its query and its worker: an unsolved task has worker 0.      *)
(***************************************************************************)
EXTENDS Integers, Sequences, FiniteSets

CONSTANTS
  Workers,   \* the worker processes a user may launch; workers[] has 256 entries
  NTasks,    \* capacity of "/requests" and number of tasks (100000 in prog1)
  NSlots,    \* capacity of "/answers" (200 in prog1)
  Boss,      \* the process running prog1
  NoWorker   \* the pid 0 of an unsolved Task

\* remember_worker stops at a zero entry of workers[]: the table must keep one.
ASSUME FarmAssumption ==
  /\ IsFiniteSet(Workers) /\ Cardinality(Workers) < 256
  /\ NTasks \in Nat \ {0}
  /\ NSlots \in Nat \ {0}
  /\ Boss \notin Workers /\ NoWorker \notin Workers

Procs == Workers \union {Boss}

VARIABLES
  pc,         \* the statement each process is at
  sent,       \* i of prog1's first loop
  got,        \* i of prog1's second loop
  collected,  \* the tasks added to check, whose workers are in workers[]
  ring,       \* the two SBuffers
  sem,        \* the value of each semaphore
  named,      \* the shared memory and semaphore names that exist
  handles,    \* the objects each process opened with success
  task,       \* the local Task t of each process
  sigterm     \* the workers that were sent SIGTERM

tally  == <<sent, got, collected>>
opened == <<named, handles>>
vars   == <<pc, tally, ring, sem, opened, task, sigterm>>

-----------------------------------------------------------------------------
(* Rings and semaphores.                                                   *)

Queries == 0 .. NTasks - 1

Task == [worker : Workers \union {NoWorker}, query : Queries]

ZeroTask == [worker |-> NoWorker, query |-> 0]

Rings      == {"requests", "answers"}
Semaphores == {"slots", "tasks", "asw", "lock", "lock2"}

\* The order in which prog1 creates, and prog2 opens, the named objects.
Objects == <<"requests", "answers", "slots", "tasks", "asw", "lock", "lock2">>

Cap == [requests |-> NTasks, answers |-> NSlots]

\* Mutant of Initially: lock2 admits two processes.
InitiallyLoose == [slots |-> NSlots, tasks |-> 0, asw |-> 0, lock |-> 1, lock2 |-> 2]

\* The value sem_open(O_CREAT) gives to a new semaphore.
Initially == [slots |-> NSlots, tasks |-> 0, asw |-> 0, lock |-> 1, lock2 |-> 1]

\* The semaphore of the statement at a program counter, the same in both programs.
SemAt == [lockRequests |-> "lock2", unlockRequests |-> "lock2",
          lockAnswers |-> "lock", unlockAnswers |-> "lock",
          postTasks |-> "tasks", waitTasks |-> "tasks",
          postAsw |-> "asw", waitAsw |-> "asw",
          postSlots |-> "slots", waitSlots |-> "slots"]

Goto(p, from, to) == pc[p] = from /\ pc' = [pc EXCEPT ![p] = to]

SemWait(p, from, to) ==
  /\ Goto(p, from, to)
  /\ SemAt[from] \in handles[p]
  /\ sem[SemAt[from]] > 0
  /\ sem' = [sem EXCEPT ![SemAt[from]] = @ - 1]
  /\ UNCHANGED <<ring, opened>>

SemPost(p, from, to) ==
  /\ Goto(p, from, to)
  /\ SemAt[from] \in handles[p]
  /\ sem' = [sem EXCEPT ![SemAt[from]] = @ + 1]
  /\ UNCHANGED <<ring, opened>>

\* bufferEnQueue: the slot, then head.
Store(p, r, t) ==
  /\ Goto(p, "store", "advance")
  /\ ring' = [ring EXCEPT ![r].data[ring[r].head] = t]
  /\ UNCHANGED <<tally, sem, opened, task, sigterm>>

Advance(p, r, to) ==
  /\ Goto(p, "advance", to)
  /\ ring' = [ring EXCEPT ![r].head = (@ + 1) % Cap[r]]
  /\ UNCHANGED <<tally, sem, opened, task, sigterm>>

\* bufferDeQueue: the slot, then tail.
Load(p, r) ==
  /\ Goto(p, "load", "shift")
  /\ task' = [task EXCEPT ![p] = ring[r].data[ring[r].tail]]
  /\ UNCHANGED <<tally, ring, sem, opened, sigterm>>

Shift(p, r, to) ==
  /\ Goto(p, "shift", to)
  /\ ring' = [ring EXCEPT ![r].tail = (@ + 1) % Cap[r]]
  /\ UNCHANGED <<tally, sem, opened, task, sigterm>>

Init ==
  /\ pc = [p \in Procs |-> IF p = Boss THEN "setup" ELSE "off"]
  /\ sent = 0 /\ got = 0 /\ collected = {}
  /\ ring = [r \in Rings |-> [head |-> 0, tail |-> 0, data |-> [k \in 0 .. Cap[r] - 1 |-> ZeroTask]]]
  /\ sem = [s \in Semaphores |-> 0]
  /\ named = {}
  /\ handles = [p \in Procs |-> {}]
  /\ task = [p \in Procs |-> ZeroTask]
  /\ sigterm = {}

-----------------------------------------------------------------------------
(* The boss, prog1.c.                                                      *)

\* setupBuffer or sem_open(O_CREAT) of the next object.
Create ==
  \E k \in DOMAIN Objects :
    LET o == Objects[k] IN
    /\ o \notin named /\ \A j \in 1 .. k - 1 : Objects[j] \in named
    /\ Goto(Boss, "setup", IF k < Len(Objects) THEN "setup" ELSE "lockRequests")
    /\ named' = named \union {o}
    /\ handles' = [handles EXCEPT ![Boss] = @ \union {o}]
    /\ sem' = IF o \in Semaphores THEN [sem EXCEPT ![o] = Initially[o]] ELSE sem
    /\ UNCHANGED <<tally, ring, task, sigterm>>

BossSame == UNCHANGED <<tally, task, sigterm>>

BossLockRequests   == SemWait(Boss, "lockRequests", "store") /\ BossSame
BossStore          == Store(Boss, "requests", [worker |-> NoWorker, query |-> sent])
BossAdvance        == Advance(Boss, "requests", "unlockRequests")
BossUnlockRequests == SemPost(Boss, "unlockRequests", "postTasks") /\ BossSame

\* sem_post(tasks), i++ and the loop test.
PostTasks ==
  /\ SemPost(Boss, "postTasks", IF sent + 1 < NTasks THEN "lockRequests" ELSE "waitAsw")
  /\ sent' = sent + 1
  /\ UNCHANGED <<got, collected, task, sigterm>>

BossWaitAsw       == SemWait(Boss, "waitAsw", "lockAnswers") /\ BossSame
BossLockAnswers   == SemWait(Boss, "lockAnswers", "load") /\ BossSame
BossLoad          == Load(Boss, "answers")
BossShift         == Shift(Boss, "answers", "unlockAnswers")
BossUnlockAnswers == SemPost(Boss, "unlockAnswers", "postSlots") /\ BossSame

\* Mutant of PostSlots: the loop ends one answer early.
PostSlotsEarly ==
  /\ SemPost(Boss, "postSlots", IF got + 2 < NTasks THEN "waitAsw" ELSE "dropRings")
  /\ collected' = collected \union {task[Boss]}
  /\ got' = got + 1
  /\ UNCHANGED <<sent, task, sigterm>>

\* sem_post(slots), check += t.answer, remember_worker(t.worker), i++, the loop test.
PostSlots ==
  /\ SemPost(Boss, "postSlots", IF got + 1 < NTasks THEN "waitAsw" ELSE "dropRings")
  /\ collected' = collected \union {task[Boss]}
  /\ got' = got + 1
  /\ UNCHANGED <<sent, task, sigterm>>

\* tearDownBuffer or sem_unlink of the next of objs: open handles stay usable.
Unlink(from, objs, to) ==
  \E k \in DOMAIN Objects :
    /\ Objects[k] \in named \intersect objs
    /\ \A j \in 1 .. k - 1 : Objects[j] \notin named
    /\ named' = named \ {Objects[k]}
    /\ Goto(Boss, from, IF objs \intersect named' = {} THEN to ELSE from)
    /\ UNCHANGED <<tally, ring, sem, handles, task, sigterm>>

DropRings      == Unlink("dropRings", Rings, "kill")
DropSemaphores == Unlink("dropSems", Semaphores, "done")

\* killallworkers: SIGTERM to every pid remember_worker put in workers[].
KillAllWorkers ==
  /\ Goto(Boss, "kill", "dropSems")
  /\ sigterm' = sigterm \union {t.worker : t \in collected}
  /\ UNCHANGED <<tally, ring, sem, opened, task>>

BossNext ==
  \/ Create
  \/ BossLockRequests \/ BossStore \/ BossAdvance \/ BossUnlockRequests \/ PostTasks
  \/ BossWaitAsw \/ BossLockAnswers \/ BossLoad \/ BossShift \/ BossUnlockAnswers \/ PostSlots
  \/ DropRings \/ KillAllWorkers \/ DropSemaphores

-----------------------------------------------------------------------------
(* A worker, prog2.c.                                                      *)

WorkerGoto(w, from, to) ==
  Goto(w, from, to) /\ UNCHANGED <<tally, ring, sem, opened, task, sigterm>>

\* A user launches prog2, at any time.
Launch(w) == WorkerGoto(w, "off", Objects[1])

\* getBuffer exits when the name is missing; sem_open returns SEM_FAILED, unchecked.
Open(w) ==
  \E k \in DOMAIN Objects :
    LET o == Objects[k] IN
    /\ Goto(w, o, IF o \in Rings \ named THEN "exited"
                  ELSE IF k < Len(Objects) THEN Objects[k + 1] ELSE "waitTasks")
    /\ handles' = [handles EXCEPT ![w] = @ \union ({o} \intersect named)]
    /\ UNCHANGED <<tally, ring, sem, named, task, sigterm>>

\* A semaphore operation through SEM_FAILED, the null pointer, kills the worker.
Segfault(w) ==
  \E at \in DOMAIN SemAt : SemAt[at] \notin handles[w] /\ WorkerGoto(w, at, "crashed")

WorkerSame == UNCHANGED <<tally, task, sigterm>>

\* Mutants of WorkerLockRequests, WorkerWaitSlots and WorkerPostAsw: the
\* semaphore operation is missing.
LockRequestsMissing(w) == WorkerGoto(w, "lockRequests", "load")
WaitSlotsMissing(w)    == WorkerGoto(w, "waitSlots", "lockAnswers")
PostAswMissing(w)      == WorkerGoto(w, "postAsw", "waitTasks")

WorkerWaitTasks(w)    == SemWait(w, "waitTasks", "lockRequests") /\ WorkerSame
WorkerLockRequests(w) == SemWait(w, "lockRequests", "load") /\ WorkerSame
WorkerLoad(w)         == Load(w, "requests")
WorkerShift(w)        == Shift(w, "requests", "unlockRequests")

\* sem_post(lock2), then solve(&t) on the worker's own copy.
UnlockAndSolve(w) ==
  /\ SemPost(w, "unlockRequests", "waitSlots")
  /\ task' = [task EXCEPT ![w].worker = w]
  /\ UNCHANGED <<tally, sigterm>>

WorkerWaitSlots(w)     == SemWait(w, "waitSlots", "lockAnswers") /\ WorkerSame
WorkerLockAnswers(w)   == SemWait(w, "lockAnswers", "store") /\ WorkerSame
WorkerStore(w)         == Store(w, "answers", task[w])
WorkerAdvance(w)       == Advance(w, "answers", "unlockAnswers")
WorkerUnlockAnswers(w) == SemPost(w, "unlockAnswers", "postAsw") /\ WorkerSame
WorkerPostAsw(w)       == SemPost(w, "postAsw", "waitTasks") /\ WorkerSame

\* term_handler, wherever the worker is: sem_close is local, then exit(0).
TermHandler(w) ==
  /\ w \in sigterm
  /\ pc[w] # "crashed"
  /\ WorkerGoto(w, pc[w], "exited")

\* What a launched worker does on its own.
WorkerStep(w) ==
  \/ Open(w) \/ Segfault(w)
  \/ WorkerWaitTasks(w) \/ WorkerLockRequests(w) \/ WorkerLoad(w) \/ WorkerShift(w)
  \/ UnlockAndSolve(w)
  \/ WorkerWaitSlots(w) \/ WorkerLockAnswers(w) \/ WorkerStore(w) \/ WorkerAdvance(w)
  \/ WorkerUnlockAnswers(w) \/ WorkerPostAsw(w)
  \/ TermHandler(w)

Next == BossNext \/ \E w \in Workers : Launch(w) \/ WorkerStep(w)

Spec == Init /\ [][Next]_vars

\* Every process that can run eventually runs.  A user need not launch a worker.
FairSpec == Spec /\ WF_vars(BossNext) /\ \A w \in Workers : WF_vars(WorkerStep(w))

-----------------------------------------------------------------------------
(* Properties.                                                             *)

BossPC == {"setup", "lockRequests", "store", "advance", "unlockRequests", "postTasks",
           "waitAsw", "lockAnswers", "load", "shift", "unlockAnswers", "postSlots",
           "dropRings", "kill", "dropSems", "done"}

WorkerPC == {"off", "requests", "answers", "slots", "tasks", "asw", "lock", "lock2",
             "waitTasks", "lockRequests", "load", "shift", "unlockRequests", "waitSlots",
             "lockAnswers", "store", "advance", "unlockAnswers", "postAsw", "exited", "crashed"}

SBuffer(cap) == [head : 0 .. cap - 1, tail : 0 .. cap - 1, data : [0 .. cap - 1 -> Task]]

\* Types: ring indices stay inside their mapping and no semaphore goes below zero.
TypeOK ==
  /\ pc \in [Procs -> BossPC \union WorkerPC]
  /\ pc[Boss] \in BossPC /\ \A w \in Workers : pc[w] \in WorkerPC
  /\ sent \in 0 .. NTasks /\ got \in 0 .. NTasks /\ collected \subseteq Task
  /\ DOMAIN ring = Rings /\ \A r \in Rings : ring[r] \in SBuffer(Cap[r])
  /\ sem \in [Semaphores -> Nat]
  /\ named \subseteq Rings \union Semaphores
  /\ handles \in [Procs -> SUBSET (Rings \union Semaphores)]
  /\ task \in [Procs -> Task]
  /\ sigterm \subseteq Workers \union {NoWorker}

UsesRequests(p) == pc[p] = "unlockRequests" \/ pc[p] \in (IF p = Boss THEN {"store", "advance"} ELSE {"load", "shift"})
UsesAnswers(p)  == pc[p] = "unlockAnswers" \/ pc[p] \in (IF p = Boss THEN {"load", "shift"} ELSE {"store", "advance"})

\* Between sem_wait and sem_post of lock2 (of lock) a process is alone on the
\* requests (the answers) ring: the two-step ring operations never interleave.
RingExclusion ==
  \A p, q \in Procs : p # q => /\ ~(UsesRequests(p) /\ UsesRequests(q))
                               /\ ~(UsesAnswers(p) /\ UsesAnswers(q))

\* Processes that took a slot or an announced answer and have not posted its counterpart.
Transferring ==
  {p \in Procs : pc[p] \in {"unlockAnswers", "lockAnswers", "postAsw", "postSlots"} \/ UsesAnswers(p)}

\* Every slot of the answers ring is free (slots), announced (asw), being filled
\* by a worker or being emptied by the boss; the counts never exceed the ring,
\* so no worker overwrites an answer the boss has not read.
SlotsConserved ==
  pc[Boss] # "setup" => sem["slots"] + sem["asw"] + Cardinality(Transferring) <= NSlots

\* When the boss prints "Final", every task was solved and tallied exactly
\* once, whatever the number of workers and their order.
FinalCorrect ==
  pc[Boss] \in {"dropRings", "kill", "dropSems", "done"} =>
    /\ got = NTasks /\ Cardinality(collected) = NTasks
    /\ {t.query : t \in collected} = Queries
    /\ \A t \in collected : t.worker # NoWorker

\* The accounts of the farm: ring indices, counts and answers agree in every
\* state, whenever the workers are launched (prog1.c:46-64, prog2.c:49-61).
FarmConsistent == TypeOK /\ SlotsConserved /\ FinalCorrect

\* SIGTERM reaches only workers that hold no lock, no slot and no task.
KilledIdle ==
  \A w \in sigterm : pc[w] \in {"waitTasks", "exited"}

\* The farm implements the pool: a task is submitted by the post of tasks and
\* its answer is collected, once, when the boss adds it to check.
Pool == INSTANCE TaskPool WITH submitted <- sent, answered <- got,
                               done <- {t.query : t \in collected}
ImplementsPool == Pool!Spec

\* If some worker opened every object, and none ran into an object the boss
\* had not created yet, the boss collects every answer and terminates.
BossFinishes ==
  (/\ <>(\E w \in Workers : handles[w] = Rings \union Semaphores)
   /\ [](\A w \in Workers : pc[w] # "crashed"))
  => <>(pc[Boss] = "done")

=============================================================================
