--------------------------- MODULE TaskFarmProofs ---------------------------
(***************************************************************************)
(* Proofs about the task farm of lab8, for any number of workers, of tasks *)
(* and of answer slots.  The first part proves the types and the exclusion *)
(* of the two locks; the second keeps books of what passed through the two *)
(* rings, and reads the promises of the farm off them.                     *)
(***************************************************************************)
EXTENDS TaskFarm, FiniteSetTheorems, FunctionTheorems, TLAPS

(* The domains of the constant tables. *)
LEMMA Tables ==
  /\ DOMAIN Objects = 1 .. 7 /\ Len(Objects) = 7
  /\ \A k \in 1 .. 7 : Objects[k] \in Rings \union Semaphores /\ Objects[k] \in WorkerPC
  /\ Cap \in [Rings -> Nat \ {0}]
  /\ Initially \in [Semaphores -> Nat]
  /\ SemAt \in [DOMAIN SemAt -> Semaphores]
<1>1. DOMAIN Objects = 1 .. 7 /\ Len(Objects) = 7
  BY DEF Objects
<1>2. \A k \in 1 .. 7 : Objects[k] \in Rings \union Semaphores /\ Objects[k] \in WorkerPC
  BY DEF Objects, Rings, Semaphores, WorkerPC
<1>3. Cap \in [Rings -> Nat \ {0}]
  BY FarmAssumption DEF Cap, Rings
<1>4. Initially \in [Semaphores -> Nat]
  BY FarmAssumption DEF Initially, Semaphores
<1>5. SemAt \in [DOMAIN SemAt -> Semaphores]
  BY DEF SemAt, Semaphores
<1> QED BY <1>1, <1>2, <1>3, <1>4, <1>5

-----------------------------------------------------------------------------
(* Type correctness, by the parts of the state.                            *)

PcOK   == /\ pc \in [Procs -> BossPC \union WorkerPC]
          /\ pc[Boss] \in BossPC /\ \A w \in Workers : pc[w] \in WorkerPC
RingOK == DOMAIN ring = Rings /\ \A r \in Rings : ring[r] \in SBuffer(Cap[r])

(* A process moves to a statement of its own program. *)
LEMMA GotoTyped ==
  ASSUME PcOK, NEW p \in Procs, NEW from, NEW to, Goto(p, from, to),
         p = Boss => to \in BossPC, p \in Workers => to \in WorkerPC
  PROVE  PcOK'
  BY FarmAssumption DEF PcOK, Goto, Procs

(* A semaphore operation leaves natural numbers in the semaphores. *)
LEMMA SemTyped ==
  ASSUME sem \in [Semaphores -> Nat], NEW p, NEW from \in DOMAIN SemAt, NEW to,
         SemWait(p, from, to) \/ SemPost(p, from, to)
  PROVE  sem' \in [Semaphores -> Nat]
<1>1. SemAt[from] \in Semaphores
  BY Tables
<1> QED BY <1>1 DEF SemWait, SemPost

(* The two halves of each ring operation keep a ring well formed. *)
LEMMA StoreTyped ==
  ASSUME RingOK, NEW r \in Rings, NEW t \in Task,
         ring' = [ring EXCEPT ![r].data[ring[r].head] = t]
  PROVE  RingOK'
<1>1. ring[r] \in SBuffer(Cap[r])
  BY DEF RingOK
<1>2. [ring[r] EXCEPT !.data[ring[r].head] = t] \in SBuffer(Cap[r])
  BY <1>1 DEF SBuffer
<1> QED BY <1>2 DEF RingOK

(* Advancing head or tail modulo the capacity keeps a ring well formed. *)
LEMMA AdvanceTyped ==
  ASSUME RingOK, NEW r \in Rings,
         \/ ring' = [ring EXCEPT ![r].head = (@ + 1) % Cap[r]]
         \/ ring' = [ring EXCEPT ![r].tail = (@ + 1) % Cap[r]]
  PROVE  RingOK'
<1>1. ring[r] \in SBuffer(Cap[r]) /\ Cap[r] \in Nat \ {0}
  BY Tables DEF RingOK
<1>2. ring[r].head \in 0 .. Cap[r] - 1 /\ ring[r].tail \in 0 .. Cap[r] - 1
  BY <1>1 DEF SBuffer
<1>3. (ring[r].head + 1) % Cap[r] \in 0 .. Cap[r] - 1 /\ (ring[r].tail + 1) % Cap[r] \in 0 .. Cap[r] - 1
  BY <1>1, <1>2
<1>4. /\ [ring[r] EXCEPT !.head = (@ + 1) % Cap[r]] \in SBuffer(Cap[r])
      /\ [ring[r] EXCEPT !.tail = (@ + 1) % Cap[r]] \in SBuffer(Cap[r])
  BY <1>1, <1>3 DEF SBuffer
<1> QED BY <1>4 DEF RingOK

(* A slot holds a task. *)
LEMMA LoadTyped ==
  ASSUME RingOK, NEW r \in Rings PROVE ring[r].data[ring[r].tail] \in Task
  BY DEF RingOK, SBuffer

(* Objects that exist, and handles on them. *)
LEMMA NamesTyped ==
  ASSUME TypeOK, NEW p \in Procs, NEW k \in DOMAIN Objects
  PROVE  /\ named \union {Objects[k]} \subseteq Rings \union Semaphores
         /\ [handles EXCEPT ![p] = @ \union {Objects[k]}]
              \in [Procs -> SUBSET (Rings \union Semaphores)]
  BY Tables DEF TypeOK

(* The initial state, before prog1 creates anything. *)
LEMMA InitTypes == Init => TypeOK
<1> SUFFICES ASSUME Init PROVE TypeOK
  OBVIOUS
<1> USE FarmAssumption DEF Init
<1>1. ZeroTask \in Task
  BY DEF ZeroTask, Task, Queries
<1>2. PcOK
  BY DEF PcOK, Procs, BossPC, WorkerPC
<1>3. RingOK
  <2>1. \A r \in Rings : Cap[r] \in Nat \ {0}
    BY Tables
  <2>2. \A r \in Rings : [k \in 0 .. Cap[r] - 1 |-> ZeroTask] \in [0 .. Cap[r] - 1 -> Task]
    BY <1>1
  <2>3. \A r \in Rings : 0 \in 0 .. Cap[r] - 1
    BY <2>1
  <2> QED BY <2>2, <2>3 DEF RingOK, SBuffer
<1>4. sent \in 0 .. NTasks /\ got \in 0 .. NTasks /\ collected \subseteq Task
  OBVIOUS
<1> QED BY <1>1, <1>2, <1>3, <1>4 DEF TypeOK, PcOK, RingOK

(* The boss has a task left to submit, an answer left to collect. *)
LoopsBounded ==
  /\ pc[Boss] \in {"lockRequests", "store", "advance", "unlockRequests", "postTasks"}
       => sent < NTasks
  /\ pc[Boss] \in {"waitAsw", "lockAnswers", "load", "shift", "unlockAnswers", "postSlots"}
       => got < NTasks
  /\ pc[Boss] \in {"setup", "lockRequests", "store", "advance", "unlockRequests", "postTasks"}
       => got = 0
  /\ pc[Boss] = "setup" => sent = 0

(* Steps of the boss. *)
LEMMA BossTypes == TypeOK /\ LoopsBounded /\ BossNext => TypeOK'
<1> SUFFICES ASSUME TypeOK, LoopsBounded, BossNext PROVE TypeOK'
  OBVIOUS
<1>0. PcOK /\ RingOK /\ Boss \in Procs /\ Boss \notin Workers /\ sem \in [Semaphores -> Nat]
  BY FarmAssumption DEF TypeOK, PcOK, RingOK, Procs
<1>1. CASE Create
  <2>1. PICK k \in DOMAIN Objects :
          /\ Goto(Boss, "setup", IF k < Len(Objects) THEN "setup" ELSE "lockRequests")
          /\ named' = named \union {Objects[k]}
          /\ handles' = [handles EXCEPT ![Boss] = @ \union {Objects[k]}]
          /\ sem' = IF Objects[k] \in Semaphores
                    THEN [sem EXCEPT ![Objects[k]] = Initially[Objects[k]]] ELSE sem
          /\ UNCHANGED <<tally, ring, task, sigterm>>
    BY <1>1 DEF Create
  <2>2. PcOK'
    BY <1>0, <2>1, GotoTyped DEF BossPC
  <2>3. sem' \in [Semaphores -> Nat]
    BY <1>0, <2>1, Tables
  <2> QED BY <1>0, <2>1, <2>2, <2>3, NamesTyped DEF TypeOK, PcOK, tally
<1>2. ASSUME NEW from \in DOMAIN SemAt, NEW to \in BossPC,
             SemWait(Boss, from, to) \/ SemPost(Boss, from, to),
             sent' \in 0 .. NTasks, got' \in 0 .. NTasks, collected' \subseteq Task,
             UNCHANGED <<task, sigterm>>
      PROVE  TypeOK'
  <2>1. PcOK'
    BY <1>0, <1>2, GotoTyped DEF SemWait, SemPost
  <2>2. sem' \in [Semaphores -> Nat]
    BY <1>0, <1>2, SemTyped
  <2>3. UNCHANGED <<ring, named, handles>>
    BY <1>2 DEF SemWait, SemPost, opened
  <2> QED BY <1>2, <2>1, <2>2, <2>3 DEF TypeOK, PcOK
<1>3. CASE BossLockRequests \/ BossUnlockRequests \/ BossWaitAsw \/ BossLockAnswers \/ BossUnlockAnswers
  BY <1>2, <1>3 DEF TypeOK, BossLockRequests, BossUnlockRequests, BossWaitAsw, BossLockAnswers,
                    BossUnlockAnswers, BossSame, BossPC, SemAt, tally
<1>4. CASE PostTasks
  <2>1. sent' \in 0 .. NTasks
    BY <1>4, FarmAssumption DEF TypeOK, LoopsBounded, PostTasks, SemPost, Goto
  <2> QED BY <1>2, <1>4, <2>1 DEF TypeOK, PostTasks, BossPC, SemAt
<1>5. CASE PostSlots
  <2>1. got' \in 0 .. NTasks
    BY <1>5, FarmAssumption DEF TypeOK, LoopsBounded, PostSlots, SemPost, Goto
  <2>2. collected' \subseteq Task
    BY <1>0, <1>5 DEF TypeOK, PostSlots
  <2> QED BY <1>2, <1>5, <2>1, <2>2 DEF TypeOK, PostSlots, BossPC, SemAt
<1>6. CASE BossStore
  <2>1. [worker |-> NoWorker, query |-> sent] \in Task
    BY <1>6, FarmAssumption DEF TypeOK, LoopsBounded, BossStore, Store, Goto, Task, Queries
  <2>2. PcOK'
    BY <1>0, <1>6, GotoTyped DEF BossStore, Store, BossPC
  <2>3. RingOK'
    BY <1>0, <1>6, <2>1, StoreTyped DEF BossStore, Store, Rings
  <2> QED BY <1>6, <2>2, <2>3 DEF TypeOK, PcOK, RingOK, BossStore, Store, tally, opened
<1>7. CASE BossAdvance
  <2>2. PcOK'
    BY <1>0, <1>7, GotoTyped DEF BossAdvance, Advance, BossPC
  <2>3. RingOK'
    BY <1>0, <1>7, AdvanceTyped DEF BossAdvance, Advance, Rings
  <2> QED BY <1>7, <2>2, <2>3 DEF TypeOK, PcOK, RingOK, BossAdvance, Advance, tally, opened
<1>8. CASE BossLoad
  <2>1. task' \in [Procs -> Task]
    BY <1>0, <1>8, LoadTyped DEF TypeOK, BossLoad, Load, Rings
  <2>2. PcOK'
    BY <1>0, <1>8, GotoTyped DEF BossLoad, Load, BossPC
  <2> QED BY <1>8, <2>1, <2>2 DEF TypeOK, PcOK, BossLoad, Load, tally, opened
<1>9. CASE BossShift
  <2>2. PcOK'
    BY <1>0, <1>9, GotoTyped DEF BossShift, Shift, BossPC
  <2>3. RingOK'
    BY <1>0, <1>9, AdvanceTyped DEF BossShift, Shift, Rings
  <2> QED BY <1>9, <2>2, <2>3 DEF TypeOK, PcOK, RingOK, BossShift, Shift, tally, opened
<1>10. CASE DropRings \/ DropSemaphores
  <2>1. PcOK' /\ named' \subseteq named /\ UNCHANGED <<tally, ring, sem, handles, task, sigterm>>
    BY <1>0, <1>10, GotoTyped DEF DropRings, DropSemaphores, Unlink, BossPC
  <2> QED BY <2>1 DEF TypeOK, PcOK, tally
<1>11. CASE KillAllWorkers
  <2>1. sigterm' \subseteq Workers \union {NoWorker}
    BY <1>11 DEF KillAllWorkers, TypeOK, Task
  <2>2. PcOK'
    BY <1>0, <1>11, GotoTyped DEF KillAllWorkers, BossPC
  <2> QED BY <1>11, <2>1, <2>2 DEF TypeOK, PcOK, KillAllWorkers, tally, opened
<1> QED BY <1>1, <1>3, <1>4, <1>5, <1>6, <1>7, <1>8, <1>9, <1>10, <1>11 DEF BossNext

(* Steps of a worker. *)
LEMMA WorkerTypes ==
  ASSUME TypeOK, NEW w \in Workers, Launch(w) \/ WorkerStep(w) PROVE TypeOK'
<1>0. PcOK /\ RingOK /\ w \in Procs /\ w # Boss /\ sem \in [Semaphores -> Nat]
  BY FarmAssumption DEF TypeOK, PcOK, RingOK, Procs
<1>1. ASSUME NEW from, NEW to \in WorkerPC, WorkerGoto(w, from, to) PROVE TypeOK'
  <2>1. PcOK' /\ UNCHANGED <<tally, ring, sem, opened, task, sigterm>>
    BY <1>0, <1>1, GotoTyped DEF WorkerGoto
  <2> QED BY <2>1 DEF TypeOK, PcOK, tally, opened
<1>2. CASE Launch(w) \/ Segfault(w) \/ TermHandler(w)
  BY <1>1, <1>2, Tables DEF Launch, Segfault, TermHandler, WorkerPC
<1>3. CASE Open(w)
  <2>1. PICK k \in DOMAIN Objects :
          /\ Goto(w, Objects[k], IF Objects[k] \in Rings \ named THEN "exited"
                                 ELSE IF k < Len(Objects) THEN Objects[k + 1] ELSE "waitTasks")
          /\ handles' = [handles EXCEPT ![w] = @ \union ({Objects[k]} \intersect named)]
          /\ UNCHANGED <<tally, ring, sem, named, task, sigterm>>
    BY <1>3 DEF Open
  <2>2. k < Len(Objects) => Objects[k + 1] \in WorkerPC
    BY Tables
  <2>3. PcOK'
    BY <1>0, <2>1, <2>2, GotoTyped DEF WorkerPC
  <2>4. handles' \in [Procs -> SUBSET (Rings \union Semaphores)]
    BY <1>0, <2>1 DEF TypeOK
  <2> QED BY <2>1, <2>3, <2>4 DEF TypeOK, PcOK, tally
<1>4. ASSUME NEW from \in DOMAIN SemAt, NEW to \in WorkerPC,
             SemWait(w, from, to) \/ SemPost(w, from, to),
             task' \in [Procs -> Task], UNCHANGED <<tally, sigterm>>
      PROVE  TypeOK'
  <2>1. PcOK'
    BY <1>0, <1>4, GotoTyped DEF SemWait, SemPost
  <2>2. sem' \in [Semaphores -> Nat]
    BY <1>0, <1>4, SemTyped
  <2>3. UNCHANGED <<ring, named, handles>>
    BY <1>4 DEF SemWait, SemPost, opened
  <2> QED BY <1>4, <2>1, <2>2, <2>3 DEF TypeOK, PcOK, tally
<1>5. CASE WorkerWaitTasks(w) \/ WorkerLockRequests(w) \/ WorkerWaitSlots(w) \/ WorkerLockAnswers(w)
           \/ WorkerUnlockAnswers(w) \/ WorkerPostAsw(w)
  BY <1>4, <1>5 DEF TypeOK, WorkerWaitTasks, WorkerLockRequests, WorkerWaitSlots,
       WorkerLockAnswers, WorkerUnlockAnswers, WorkerPostAsw, WorkerSame, WorkerPC, SemAt
<1>6. CASE UnlockAndSolve(w)
  <2>1. task' \in [Procs -> Task]
    BY <1>0, <1>6 DEF TypeOK, UnlockAndSolve, Task
  <2> QED BY <1>4, <1>6, <2>1 DEF UnlockAndSolve, WorkerPC, SemAt
<1>7. CASE WorkerLoad(w)
  <2>1. task' \in [Procs -> Task]
    BY <1>0, <1>7, LoadTyped DEF TypeOK, WorkerLoad, Load, Rings
  <2>2. PcOK'
    BY <1>0, <1>7, GotoTyped DEF WorkerLoad, Load, WorkerPC
  <2> QED BY <1>7, <2>1, <2>2 DEF TypeOK, PcOK, WorkerLoad, Load, tally, opened
<1>8. CASE WorkerShift(w)
  <2>2. PcOK'
    BY <1>0, <1>8, GotoTyped DEF WorkerShift, Shift, WorkerPC
  <2>3. RingOK'
    BY <1>0, <1>8, AdvanceTyped DEF WorkerShift, Shift, Rings
  <2> QED BY <1>8, <2>2, <2>3 DEF TypeOK, PcOK, RingOK, WorkerShift, Shift, tally, opened
<1>9. CASE WorkerStore(w)
  <2>2. PcOK'
    BY <1>0, <1>9, GotoTyped DEF WorkerStore, Store, WorkerPC
  <2>3. RingOK'
    BY <1>0, <1>9, StoreTyped DEF TypeOK, WorkerStore, Store, Rings
  <2> QED BY <1>9, <2>2, <2>3 DEF TypeOK, PcOK, RingOK, WorkerStore, Store, tally, opened
<1>10. CASE WorkerAdvance(w)
  <2>2. PcOK'
    BY <1>0, <1>10, GotoTyped DEF WorkerAdvance, Advance, WorkerPC
  <2>3. RingOK'
    BY <1>0, <1>10, AdvanceTyped DEF WorkerAdvance, Advance, Rings
  <2> QED BY <1>10, <2>2, <2>3 DEF TypeOK, PcOK, RingOK, WorkerAdvance, Advance, tally, opened
<1> QED BY <1>2, <1>3, <1>5, <1>6, <1>7, <1>8, <1>9, <1>10 DEF WorkerStep

(* The loop counters move at the loop tests only. *)
LEMMA LoopsKept == TypeOK /\ LoopsBounded /\ [Next]_vars => LoopsBounded'
<1> SUFFICES ASSUME TypeOK, LoopsBounded, [Next]_vars PROVE LoopsBounded'
  OBVIOUS
<1>0. Boss \in Procs /\ Boss \notin Workers /\ NTasks \in Nat \ {0} /\ pc \in [Procs -> BossPC \union WorkerPC]
      /\ sent \in 0 .. NTasks /\ got \in 0 .. NTasks
  BY FarmAssumption DEF TypeOK, Procs
<1>1. ASSUME pc'[Boss] = pc[Boss], UNCHANGED tally PROVE LoopsBounded'
  BY <1>1 DEF LoopsBounded, tally
<1>2. CASE UNCHANGED vars
  BY <1>1, <1>2 DEF vars
<1>3. CASE \E w \in Workers : Launch(w) \/ WorkerStep(w)
  <2>1. PICK w \in Workers : Launch(w) \/ WorkerStep(w)
    BY <1>3
  <2>2. UNCHANGED tally /\ \E to : pc' = [pc EXCEPT ![w] = to]
    BY <2>1 DEF Launch, WorkerStep, WorkerGoto, Open, Segfault, WorkerWaitTasks, WorkerLockRequests,
         WorkerLoad, Load, WorkerShift, Shift, UnlockAndSolve, WorkerWaitSlots, WorkerLockAnswers,
         WorkerStore, Store, WorkerAdvance, Advance, WorkerUnlockAnswers, WorkerPostAsw, WorkerSame,
         TermHandler, SemWait, SemPost, Goto, tally
  <2> QED BY <1>0, <1>1, <2>1, <2>2
<1>4. CASE Create
  BY <1>0, <1>4 DEF Create, Goto, LoopsBounded, tally
<1>5. CASE BossLockRequests \/ BossUnlockRequests \/ BossStore \/ BossAdvance \/ PostTasks
  BY <1>0, <1>5 DEF BossLockRequests, BossUnlockRequests, BossStore, BossAdvance, PostTasks, BossSame,
       SemWait, SemPost, Store, Advance, Goto, LoopsBounded, tally
<1>6. CASE BossWaitAsw \/ BossLockAnswers \/ BossLoad \/ BossShift \/ BossUnlockAnswers \/ PostSlots
  BY <1>0, <1>6 DEF BossWaitAsw, BossLockAnswers, BossLoad, BossShift, BossUnlockAnswers, PostSlots,
       BossSame, SemWait, SemPost, Load, Shift, Goto, LoopsBounded, tally
<1>7. CASE DropRings \/ DropSemaphores \/ KillAllWorkers
  BY <1>0, <1>7 DEF DropRings, DropSemaphores, KillAllWorkers, Unlink, Goto, LoopsBounded, tally
<1> QED BY <1>2, <1>3, <1>4, <1>5, <1>6, <1>7 DEF Next, BossNext

(* A step that changes nothing keeps the types. *)
LEMMA StutterTypes == TypeOK /\ UNCHANGED vars => TypeOK'
  BY DEF TypeOK, vars, tally, opened

-----------------------------------------------------------------------------
(* Mutual exclusion on each ring.                                          *)

LockOf     == [requests |-> "lock2", answers |-> "lock"]
Uses(p, r) == IF r = "requests" THEN UsesRequests(p) ELSE UsesAnswers(p)
Uncreated(r) == pc[Boss] = "setup" /\ LockOf[r] \notin named

(* The lock of a ring is a binary semaphore, up exactly when nobody is on  *)
(* the ring, except that prog1 has not created it yet.                     *)
Mutex(r) ==
  /\ sem[LockOf[r]] \in {0, 1}
  /\ \A p \in Procs : Uses(p, r) => sem[LockOf[r]] = 0
  /\ \A p, q \in Procs : Uses(p, r) /\ Uses(q, r) => p = q
  /\ Uncreated(r) => sem[LockOf[r]] = 0 /\ \A p \in Procs : ~Uses(p, r)

(* A step of p that does not enter the ring and leaves its lock alone. *)
LEMMA MutexQuiet ==
  ASSUME NEW r \in Rings, Mutex(r), NEW p \in Procs, \A q \in Procs \ {p} : pc'[q] = pc[q],
         Uses(p, r)' => Uses(p, r), sem'[LockOf[r]] = sem[LockOf[r]], Uncreated(r)' => Uncreated(r)
  PROVE  Mutex(r)'
<1>1. \A q \in Procs : Uses(q, r)' => Uses(q, r)
  BY DEF Uses, UsesRequests, UsesAnswers
<1> QED BY <1>1 DEF Mutex

(* sem_wait on the lock of the ring. *)
LEMMA MutexTake ==
  ASSUME NEW r \in Rings, Mutex(r), NEW p \in Procs, \A q \in Procs \ {p} : pc'[q] = pc[q],
         sem[LockOf[r]] > 0, sem'[LockOf[r]] = sem[LockOf[r]] - 1, Uncreated(r)' => Uncreated(r)
  PROVE  Mutex(r)'
<1>1. sem[LockOf[r]] = 1 /\ \A q \in Procs : ~Uses(q, r)
  BY DEF Mutex
<1>2. \A q \in Procs \ {p} : ~Uses(q, r)'
  BY <1>1 DEF Uses, UsesRequests, UsesAnswers
<1>3. ~Uncreated(r)
  BY <1>1 DEF Mutex
<1> QED BY <1>1, <1>2, <1>3 DEF Mutex

(* sem_post on the lock by the process on the ring. *)
LEMMA MutexGive ==
  ASSUME NEW r \in Rings, Mutex(r), NEW p \in Procs, \A q \in Procs \ {p} : pc'[q] = pc[q],
         Uses(p, r), ~Uses(p, r)', sem'[LockOf[r]] = sem[LockOf[r]] + 1, Uncreated(r)' => Uncreated(r)
  PROVE  Mutex(r)'
<1>1. sem[LockOf[r]] = 0 /\ \A q \in Procs \ {p} : ~Uses(q, r)
  BY DEF Mutex
<1>2. \A q \in Procs : ~Uses(q, r)'
  BY <1>1 DEF Uses, UsesRequests, UsesAnswers
<1>3. ~Uncreated(r)
  BY DEF Mutex
<1> QED BY <1>1, <1>2, <1>3 DEF Mutex

(* Which statements name a lock. *)
LEMMA LockStatements ==
  ASSUME NEW from \in DOMAIN SemAt
  PROVE  /\ SemAt[from] = "lock2" <=> from \in {"lockRequests", "unlockRequests"}
         /\ SemAt[from] = "lock" <=> from \in {"lockAnswers", "unlockAnswers"}
<1>1. from \in {"lockRequests", "unlockRequests", "lockAnswers", "unlockAnswers", "postTasks",
                "waitTasks", "postAsw", "waitAsw", "postSlots", "waitSlots"}
  BY DEF SemAt
<1>2. /\ SemAt["lockRequests"] = "lock2" /\ SemAt["unlockRequests"] = "lock2"
      /\ SemAt["lockAnswers"] = "lock" /\ SemAt["unlockAnswers"] = "lock"
      /\ SemAt["postTasks"] = "tasks" /\ SemAt["waitTasks"] = "tasks"
      /\ SemAt["postAsw"] = "asw" /\ SemAt["waitAsw"] = "asw"
      /\ SemAt["postSlots"] = "slots" /\ SemAt["waitSlots"] = "slots"
  BY DEF SemAt
<1> QED BY <1>1, <1>2

(* Any semaphore operation of either program: it is a take or a give for   *)
(* the ring whose lock it names, and quiet for the other.                  *)
LEMMA MutexSem ==
  ASSUME TypeOK, NEW r \in Rings, Mutex(r), NEW p \in Procs, NEW from \in DOMAIN SemAt, NEW to,
         \/ /\ SemWait(p, from, to)
            /\ from \in {"waitTasks", "waitAsw", "waitSlots", "lockRequests", "lockAnswers"}
         \/ /\ SemPost(p, from, to)
            /\ from \in {"postTasks", "postAsw", "postSlots", "unlockRequests", "unlockAnswers"},
         from \notin {"lockRequests", "lockAnswers"} =>
           to \in {"lockRequests", "lockAnswers", "waitTasks", "waitAsw", "waitSlots",
                   "postTasks", "postAsw", "postSlots", "dropRings"},
         from = "lockRequests" => to = (IF p = Boss THEN "store" ELSE "load"),
         from = "lockAnswers" => to = (IF p = Boss THEN "load" ELSE "store")
  PROVE  Mutex(r)'
<1>0. pc \in [Procs -> BossPC \union WorkerPC] /\ sem \in [Semaphores -> Nat] /\ LockOf[r] \in Semaphores
      /\ Boss \in Procs
  BY DEF TypeOK, LockOf, Rings, Semaphores, Procs
<1>1. pc[p] = from /\ pc'[p] = to /\ (\A q \in Procs \ {p} : pc'[q] = pc[q]) /\ named' = named
  BY <1>0 DEF SemWait, SemPost, Goto, opened
<1>2. Uncreated(r)' => Uncreated(r)
  BY <1>0, <1>1 DEF Uncreated
<1>3. SemAt[from] \in Semaphores
  BY Tables
<1>4. CASE SemWait(p, from, to) /\ SemAt[from] = LockOf[r]
  <2>1. sem[LockOf[r]] > 0 /\ sem'[LockOf[r]] = sem[LockOf[r]] - 1
    BY <1>0, <1>4 DEF SemWait
  <2> QED BY <1>1, <1>2, <2>1, MutexTake
<1>5. CASE /\ SemPost(p, from, to) /\ SemAt[from] = LockOf[r]
           /\ from \in {"postTasks", "postAsw", "postSlots", "unlockRequests", "unlockAnswers"}
  <2>1. sem'[LockOf[r]] = sem[LockOf[r]] + 1
    BY <1>0, <1>5 DEF SemPost
  <2>2. (r = "requests" /\ from = "unlockRequests") \/ (r = "answers" /\ from = "unlockAnswers")
    BY <1>5, LockStatements DEF LockOf, Rings
  <2>3. Uses(p, r) /\ ~Uses(p, r)'
    BY <1>1, <2>2 DEF Uses, UsesRequests, UsesAnswers
  <2> QED BY <1>1, <1>2, <2>1, <2>3, MutexGive
<1>6. CASE SemAt[from] # LockOf[r]
  <2>1. sem'[LockOf[r]] = sem[LockOf[r]]
    BY <1>0, <1>3, <1>6 DEF SemWait, SemPost
  <2>2. (r = "requests" /\ from # "lockRequests") \/ (r = "answers" /\ from # "lockAnswers")
    BY <1>6, LockStatements DEF LockOf, Rings
  <2>3. Uses(p, r)' => Uses(p, r)
    BY <1>1, <2>2 DEF Uses, UsesRequests, UsesAnswers, SemAt
  <2> QED BY <1>1, <1>2, <2>1, <2>3, MutexQuiet
<1> QED BY <1>4, <1>5, <1>6

(* Steps that operate no semaphore: the ring is entered only through its   *)
(* lock, and creating a semaphore finds nobody on the ring.                *)
LEMMA MutexOther ==
  ASSUME TypeOK, NEW r \in Rings, Mutex(r), NEW p \in Procs, NEW from, NEW to, Goto(p, from, to),
         sem' = sem, pc[Boss] = "setup" => named' = named,
         \/ to \in WorkerPC \ {"store", "advance", "load", "shift", "unlockRequests", "unlockAnswers"}
         \/ to \in {"setup", "kill", "dropRings", "dropSems", "done"}
         \/ from = "store" /\ to = "advance"
         \/ from = "load" /\ to = "shift"
         \/ from = "advance" /\ to = (IF p = Boss THEN "unlockRequests" ELSE "unlockAnswers")
         \/ from = "shift" /\ to = (IF p = Boss THEN "unlockAnswers" ELSE "unlockRequests"),
         to = "setup" => from = "setup"
  PROVE  Mutex(r)'
<1>0. pc \in [Procs -> BossPC \union WorkerPC] /\ Boss \in Procs
  BY DEF TypeOK, Procs
<1>1. pc[p] = from /\ pc'[p] = to /\ \A q \in Procs \ {p} : pc'[q] = pc[q]
  BY <1>0 DEF Goto
<1>2. Uncreated(r)' => Uncreated(r)
  BY <1>0, <1>1 DEF Uncreated
<1>3. Uses(p, r)' => Uses(p, r)
  BY <1>1 DEF Uses, UsesRequests, UsesAnswers, WorkerPC
<1>4. sem'[LockOf[r]] = sem[LockOf[r]]
  OBVIOUS
<1> QED BY <1>1, <1>2, <1>3, <1>4, MutexQuiet

(* Every step of the boss keeps a ring exclusive. *)
LEMMA BossMutex ==
  ASSUME TypeOK, NEW r \in Rings, Mutex(r), BossNext PROVE Mutex(r)'
<1>0. /\ pc \in [Procs -> BossPC \union WorkerPC] /\ sem \in [Semaphores -> Nat]
      /\ Boss \in Procs /\ LockOf[r] \in Semaphores
  BY DEF TypeOK, Procs, LockOf, Rings, Semaphores
<1>1. CASE Create
  <2>1. PICK k \in DOMAIN Objects :
          /\ Objects[k] \notin named
          /\ Goto(Boss, "setup", IF k < Len(Objects) THEN "setup" ELSE "lockRequests")
          /\ named' = named \union {Objects[k]}
          /\ sem' = IF Objects[k] \in Semaphores
                    THEN [sem EXCEPT ![Objects[k]] = Initially[Objects[k]]] ELSE sem
    BY <1>1 DEF Create
  <2>2. /\ pc[Boss] = "setup" /\ pc'[Boss] \in {"setup", "lockRequests"}
        /\ \A q \in Procs \ {Boss} : pc'[q] = pc[q]
    BY <1>0, <2>1 DEF Goto
  <2>3. \A q \in Procs : Uses(q, r)' => Uses(q, r)
    BY <2>2 DEF Uses, UsesRequests, UsesAnswers
  <2>4. CASE Objects[k] = LockOf[r]
    <3>1. Uncreated(r) /\ ~Uncreated(r)'
      BY <2>1, <2>2, <2>4 DEF Uncreated
    <3>2. sem'[LockOf[r]] = 1
      BY <1>0, <2>1, <2>4 DEF Initially, LockOf, Rings, Semaphores
    <3> QED BY <2>3, <3>1, <3>2 DEF Mutex
  <2>5. CASE Objects[k] # LockOf[r]
    <3>1. sem'[LockOf[r]] = sem[LockOf[r]]
      BY <1>0, <2>1, <2>5
    <3>2. Uncreated(r)' => Uncreated(r)
      BY <2>1, <2>2 DEF Uncreated
    <3> QED BY <1>0, <2>2, <2>3, <3>1, <3>2, MutexQuiet
  <2> QED BY <2>4, <2>5
<1>2. CASE BossLockRequests \/ BossWaitAsw \/ BossLockAnswers
  BY <1>0, <1>2, MutexSem DEF BossLockRequests, BossWaitAsw, BossLockAnswers, SemAt
<1>3. CASE BossUnlockRequests \/ PostTasks \/ BossUnlockAnswers \/ PostSlots
  BY <1>0, <1>3, MutexSem DEF BossUnlockRequests, PostTasks, BossUnlockAnswers, PostSlots, SemAt
<1>4. CASE BossStore \/ BossAdvance \/ BossLoad \/ BossShift
  BY <1>0, <1>4, MutexOther DEF BossStore, BossAdvance, BossLoad, BossShift, Store, Advance, Load, Shift,
       opened
<1>5. CASE DropRings \/ DropSemaphores \/ KillAllWorkers
  <2>1. PICK from \in {"dropRings", "dropSems", "kill"}, to \in {"kill", "dropRings", "dropSems", "done"} :
          Goto(Boss, from, to) /\ sem' = sem
    BY <1>5 DEF DropRings, DropSemaphores, KillAllWorkers, Unlink
  <2>2. pc[Boss] # "setup"
    BY <2>1 DEF Goto
  <2> QED BY <1>0, <2>1, <2>2, MutexOther
<1> QED BY <1>1, <1>2, <1>3, <1>4, <1>5 DEF BossNext

(* Every step of a worker keeps a ring exclusive. *)
LEMMA WorkerMutex ==
  ASSUME TypeOK, NEW r \in Rings, Mutex(r), NEW w \in Workers, Launch(w) \/ WorkerStep(w)
  PROVE  Mutex(r)'
<1>0. w \in Procs /\ w # Boss
  BY FarmAssumption DEF Procs
<1>1. CASE Launch(w) \/ Segfault(w) \/ TermHandler(w)
  <2>1. PICK to \in {"requests", "crashed", "exited"} : WorkerGoto(w, pc[w], to)
    BY <1>1 DEF Launch, Segfault, TermHandler, Objects, WorkerGoto, Goto
  <2> QED BY <1>0, <2>1, MutexOther DEF WorkerGoto, opened, WorkerPC
<1>2. CASE Open(w)
  <2>1. PICK k \in DOMAIN Objects :
          /\ Goto(w, Objects[k], IF Objects[k] \in Rings \ named THEN "exited"
                                 ELSE IF k < Len(Objects) THEN Objects[k + 1] ELSE "waitTasks")
          /\ sem' = sem /\ named' = named
    BY <1>2 DEF Open
  <2>2. PICK to \in Rings \union Semaphores \union {"exited", "waitTasks"} : Goto(w, Objects[k], to)
    <3>1. k < Len(Objects) => Objects[k + 1] \in Rings \union Semaphores
      BY Tables
    <3> QED BY <2>1, <3>1
  <2> QED BY <1>0, <2>1, <2>2, MutexOther DEF WorkerPC, Rings, Semaphores
<1>3. CASE \/ WorkerWaitTasks(w) \/ WorkerLockRequests(w) \/ UnlockAndSolve(w) \/ WorkerWaitSlots(w)
           \/ WorkerLockAnswers(w) \/ WorkerUnlockAnswers(w) \/ WorkerPostAsw(w)
  BY <1>0, <1>3, MutexSem DEF WorkerWaitTasks, WorkerLockRequests, UnlockAndSolve, WorkerWaitSlots,
       WorkerLockAnswers, WorkerUnlockAnswers, WorkerPostAsw, SemAt
<1>4. CASE WorkerLoad(w) \/ WorkerShift(w) \/ WorkerStore(w) \/ WorkerAdvance(w)
  BY <1>0, <1>4, MutexOther DEF WorkerLoad, WorkerShift, WorkerStore, WorkerAdvance, Store, Advance,
       Load, Shift, opened
<1> QED BY <1>1, <1>2, <1>3, <1>4 DEF WorkerStep

-----------------------------------------------------------------------------
(* The inductive invariant and what follows from it.                       *)

FarmInv == TypeOK /\ LoopsBounded /\ \A r \in Rings : Mutex(r)

(* The inductive invariant holds in every reachable state. *)
THEOREM Invariance == Spec => []FarmInv
<1>1. Init => FarmInv
  <2> SUFFICES ASSUME Init PROVE LoopsBounded /\ \A r \in Rings : Mutex(r)
    BY InitTypes DEF FarmInv
  <2>1. pc[Boss] = "setup" /\ \A p \in Procs \ {Boss} : pc[p] = "off"
    BY DEF Init, Procs
  <2>2. LoopsBounded
    BY <2>1, FarmAssumption DEF Init, LoopsBounded
  <2>3. ASSUME NEW r \in Rings PROVE Mutex(r)
    <3>1. sem[LockOf[r]] = 0
      <4>1. LockOf[r] \in Semaphores
        BY DEF LockOf, Rings, Semaphores
      <4> QED BY <4>1 DEF Init
    <3>2. \A p \in Procs : ~Uses(p, r)
      BY <2>1 DEF Uses, UsesRequests, UsesAnswers
    <3> QED BY <3>1, <3>2 DEF Mutex
  <2> QED BY <2>2, <2>3
<1>2. FarmInv /\ [Next]_vars => FarmInv'
  <2> SUFFICES ASSUME FarmInv, [Next]_vars PROVE FarmInv'
    OBVIOUS
  <2>1. TypeOK'
    BY BossTypes, WorkerTypes, StutterTypes DEF FarmInv, Next
  <2>2. LoopsBounded'
    BY LoopsKept DEF FarmInv
  <2>3. ASSUME NEW r \in Rings PROVE Mutex(r)'
    <3>1. CASE UNCHANGED vars
      BY <3>1 DEF FarmInv, vars, opened, Mutex, Uses, UsesRequests, UsesAnswers, Uncreated
    <3> QED BY <3>1, BossMutex, WorkerMutex DEF FarmInv, Next
  <2> QED BY <2>1, <2>2, <2>3 DEF FarmInv
<1> QED BY <1>1, <1>2, PTL DEF Spec

(* Ring indices stay inside their mapping and no semaphore goes below zero, *)
(* whatever the number of workers, tasks and slots.                         *)
THEOREM TypeCorrect == Spec => []TypeOK
<1>1. FarmInv => TypeOK
  BY DEF FarmInv
<1> QED BY <1>1, Invariance, PTL

(* No two processes are ever between sem_wait and sem_post of the lock of  *)
(* the same ring: bufferEnQueue and bufferDeQueue are effectively atomic.  *)
THEOREM Exclusion == Spec => []RingExclusion
<1>1. FarmInv => RingExclusion
  <2> SUFFICES ASSUME FarmInv, NEW p \in Procs, NEW q \in Procs, p # q
               PROVE  ~(UsesRequests(p) /\ UsesRequests(q)) /\ ~(UsesAnswers(p) /\ UsesAnswers(q))
    BY DEF RingExclusion
  <2>1. Mutex("requests") /\ Mutex("answers")
    BY DEF FarmInv, Rings
  <2> QED BY <2>1 DEF Mutex, Uses
<1> QED BY <1>1, Invariance, PTL

-----------------------------------------------------------------------------
(* Positions of a ring, as remainders.                                     *)

(* Division with remainder. *)
LEMMA ModSplit == ASSUME NEW n \in Nat \ {0}, NEW x \in Nat
  PROVE \E q \in Nat, r \in 0 .. n - 1 : r = x % n /\ x = n * q + r
<1>1. x % n \in 0 .. n - 1 /\ x \div n \in Nat /\ x = n * (x \div n) + (x % n)
  OBVIOUS
<1> WITNESS x \div n \in Nat, x % n \in 0 .. n - 1
<1> QED BY <1>1

(* Only the remainder counts modulo n. *)
LEMMA ModOnly == ASSUME NEW n \in Nat \ {0}, NEW q \in Int, NEW r \in 0 .. n - 1
  PROVE (n * q + r) % n = r
  OBVIOUS

(* A multiple of n is at the start of a ring of n. *)
LEMMA ModZero == ASSUME NEW n \in Nat \ {0}, NEW q \in Int
  PROVE (n * q) % n = 0
  OBVIOUS

(* The next position of a ring of n, from the number of steps taken. *)
LEMMA ModNext == ASSUME NEW n \in Nat \ {0}, NEW x \in Nat
  PROVE ((x % n) + 1) % n = (x + 1) % n
<1>1. PICK q \in Nat, r \in 0 .. n - 1 : r = x % n /\ x = n * q + r
  BY ModSplit
<1>2. CASE r + 1 < n
  <2>1. PICK s \in 0 .. n - 1 : s = r + 1
    BY <1>2
  <2>2. x + 1 = n * q + s
    BY <1>1, <2>1
  <2>3. (n * q + s) % n = s /\ s % n = s
    BY ModOnly
  <2> QED BY <1>1, <2>1, <2>2, <2>3
<1>3. CASE r + 1 = n
  <2>1. x + 1 = n * (q + 1) /\ n * 1 = r + 1 /\ q + 1 \in Int
    BY <1>1, <1>3
  <2>2. (n * (q + 1)) % n = 0 /\ (n * 1) % n = 0
    BY <2>1, ModZero
  <2> QED BY <1>1, <2>1, <2>2
<1> QED BY <1>1, <1>2, <1>3

(* Less than a turn of the ring apart, two positions differ. *)
LEMMA ModApart == ASSUME NEW n \in Nat \ {0}, NEW a \in Nat, NEW b \in Nat, a < b, b < a + n
  PROVE a % n # b % n
<1>1. PICK p \in Nat, r \in 0 .. n - 1 : r = a % n /\ a = n * p + r
  BY ModSplit
<1>2. PICK q \in Nat, t \in 0 .. n - 1 : t = b % n /\ b = n * q + t
  BY ModSplit
<1>3. r = t => b - a = n * (q - p)
  BY <1>1, <1>2
<1>4. b - a # n * (q - p)
  <2>1. CASE q - p <= 0
    BY <2>1
  <2>2. CASE q - p >= 1
    BY <2>2
  <2> QED BY <2>1, <2>2
<1> QED BY <1>1, <1>2, <1>3, <1>4

-----------------------------------------------------------------------------
(* The books of the farm.  None of its variables says how many tasks were  *)
(* taken, how many answers were put and in which order: taken, put and ans *)
(* say it, and Books explains every variable by them.  They are not state: *)
(* BooksKept says that some values of them fit, and each step's proof      *)
(* names the next ones.                                                    *)

\* Where the boss is in its two loops, and after them.
Submitting == {"lockRequests", "store", "advance", "unlockRequests", "postTasks"}
Collecting == {"waitAsw", "lockAnswers", "load", "shift", "unlockAnswers", "postSlots"}
Ending     == {"dropRings", "kill", "dropSems", "done"}

\* Where a worker is: before its loop, taking a task off the requests ring,
\* with a task in hand, with a slot, and with an answer put but not announced.
Opening == {"off", "requests", "answers", "slots", "tasks", "asw", "lock", "lock2"}
Taking  == {"lockRequests", "load", "shift"}
Solving == {"unlockRequests", "waitSlots", "lockAnswers", "store", "advance"}
Solved  == {"waitSlots", "lockAnswers", "store", "advance"}
Filling == {"lockAnswers", "store", "advance"}
Posting == {"unlockAnswers", "postAsw"}

At(S)     == {w \in Workers : pc[w] \in S}
BossIn(S) == IF pc[Boss] \in S THEN 1 ELSE 0

\* w opened every semaphore.
Complete(w) == Semaphores \subseteq handles[w]

\* w owns one of the first put answers.
Answered(put, ans, w) == \E k \in 0 .. put - 1 : ans[k].worker = w

\* Workers with an answer in the ring that they did not announce, and may never.
Owing(put, ans) ==
  {w \in Workers : pc[w] \in Posting \/ (~Complete(w) /\ Answered(put, ans, w))}

\* What the phase of the boss says of the rest of the farm.
Phases ==
  /\ pc[Boss] = "setup" => /\ sem["tasks"] = 0 /\ sem["asw"] = 0
                           /\ \A w \in Workers : pc[w] \in Opening \union {"waitTasks", "exited", "crashed"}
  /\ pc[Boss] \notin Submitting \union {"setup"} => sent = NTasks
  /\ pc[Boss] \in Ending => got = NTasks
  /\ sigterm # {} => pc[Boss] \in Ending

\* A worker passes a semaphore only through a handle, so one that announced an
\* answer has them all.
Handles(put, ans) ==
  \A w \in Workers :
    /\ pc[w] \in Opening => "lock2" \notin handles[w]
    /\ pc[w] \in Taking \union Solving \union Posting => "tasks" \in handles[w]
    /\ pc[w] \in (Taking \ {"lockRequests"}) \union Solving \union Posting => "lock2" \in handles[w]
    /\ pc[w] \in Filling \union Posting => "slots" \in handles[w]
    /\ pc[w] \in (Filling \ {"lockAnswers"}) \union Posting => "lock" \in handles[w]
    /\ pc[w] = "crashed" => ~Complete(w)
    /\ ~Complete(w) /\ Answered(put, ans, w) => pc[w] \in Posting \union {"crashed", "exited"}
    /\ pc[w] \in Posting => Answered(put, ans, w)

\* Each semaphore, and those that passed it, count no more than was submitted,
\* than there are slots, and than was put.
Counts(taken, put, ans) ==
  /\ sem["tasks"] + Cardinality(At(Taking)) + taken <= sent
  /\ sem["slots"] + Cardinality(At(Filling)) + put <= NSlots + got
  /\ sem["asw"] + Cardinality(Owing(put, ans)) + BossIn(Collecting \ {"waitAsw"}) + got <= put

\* A task that was taken is in one place: in the hands of one worker, lost with
\* a worker that crashed, or among the answers, once.
Tasks(taken, put, ans) ==
  /\ \A k \in 0 .. put - 1 : ans[k].query < taken /\ ans[k].worker \in Workers
  /\ \A j, k \in 0 .. put - 1 : ans[j].query = ans[k].query => j = k
  /\ \A w \in Workers : pc[w] \in Solving =>
       /\ task[w].query < taken
       /\ \A k \in 0 .. put - 1 : ans[k].query # task[w].query
       /\ \A v \in Workers : pc[v] \in Solving /\ task[v].query = task[w].query => v = w
  /\ \A w \in Workers : pc[w] \in Solved => task[w].worker = w
  /\ \A w \in Workers : pc[w] = "shift" => task[w].query = taken

\* The position in its ring of the k-th task stored, and of the k-th answer put.
Place(k) == k % NTasks
Slot(k)  == k % NSlots

\* /requests holds task k at position k: it is never reused.
RequestsRing(taken) ==
  /\ \A k \in 0 .. sent + BossIn({"advance", "unlockRequests", "postTasks"}) - 1 :
       ring["requests"].data[k] = [worker |-> NoWorker, query |-> k]
  /\ ring["requests"].head = Place(sent + BossIn({"unlockRequests", "postTasks"}))
  /\ ring["requests"].tail = Place(taken)

\* The answers whose slot the boss has left.
Consumed == got + BossIn({"unlockAnswers", "postSlots"})

\* /answers holds the answers put and not yet consumed, in order.
AnswersRing(put, ans) ==
  /\ \A k \in Consumed .. put - 1 : ring["answers"].data[Slot(k)] = ans[k]
  /\ ring["answers"].head = Slot(put)
  /\ ring["answers"].tail = Slot(Consumed)
  /\ \A w \in Workers : pc[w] = "advance" => ring["answers"].data[Slot(put)] = task[w]

\* The boss tallies the answers in the order they were put.
Tally(ans) ==
  /\ pc[Boss] \in {"shift", "unlockAnswers", "postSlots"} => task[Boss] = ans[got]
  /\ collected = {ans[k] : k \in 0 .. got - 1}
  /\ sigterm \subseteq {t.worker : t \in collected}

Books(taken, put, ans) ==
  /\ taken \in Nat /\ put \in Nat /\ ans \in [Nat -> Task]
  /\ Phases /\ Handles(put, ans) /\ Counts(taken, put, ans) /\ Tasks(taken, put, ans)
  /\ RequestsRing(taken) /\ AnswersRing(put, ans) /\ Tally(ans)

\* The farm keeps its books: some numbers of tasks taken and of answers put,
\* and some order of the answers, explain the state.
BooksKept == \E taken \in Nat, put \in Nat, ans \in [Nat -> Task] : Books(taken, put, ans)

-----------------------------------------------------------------------------
(* Which process a step moves, and the phases of the boss.                 *)

(* A worker's step moves that worker only and leaves the boss's tally. *)
LEMMA WorkerMoves ==
  ASSUME TypeOK, NEW w \in Workers, Launch(w) \/ WorkerStep(w)
  PROVE  /\ UNCHANGED <<tally, sigterm, named>> /\ pc'[Boss] = pc[Boss] /\ task'[Boss] = task[Boss]
         /\ \A v \in Workers \ {w} : pc'[v] = pc[v] /\ task'[v] = task[v] /\ handles'[v] = handles[v]
         /\ pc[w] \notin Opening => handles' = handles
<1>0. w \in Procs /\ w # Boss /\ Boss \in Procs /\ pc \in [Procs -> BossPC \union WorkerPC]
      /\ task \in [Procs -> Task] /\ handles \in [Procs -> SUBSET (Rings \union Semaphores)]
  BY FarmAssumption DEF TypeOK, Procs
<1>1. UNCHANGED <<tally, sigterm, named>> /\ (\E to : pc' = [pc EXCEPT ![w] = to])
      /\ \E t : task' = [task EXCEPT ![w] = t]
  <2>1. CASE UNCHANGED task
    <3>1. task' = [task EXCEPT ![w] = task[w]]
      BY <2>1, <1>0
    <3>2. UNCHANGED <<tally, sigterm, named>> /\ (\E to : pc' = [pc EXCEPT ![w] = to])
      BY <2>1 DEF Launch, WorkerStep, WorkerGoto, Open, Segfault, WorkerWaitTasks, WorkerLockRequests,
         WorkerLoad, Load, WorkerShift, Shift, UnlockAndSolve, WorkerWaitSlots, WorkerLockAnswers,
         WorkerStore, Store, WorkerAdvance, Advance, WorkerUnlockAnswers, WorkerPostAsw, WorkerSame,
         TermHandler, SemWait, SemPost, Goto, tally, opened
    <3> QED BY <3>1, <3>2
  <2>2. CASE WorkerLoad(w) \/ UnlockAndSolve(w)
    BY <2>2 DEF WorkerLoad, Load, UnlockAndSolve, SemPost, Goto, tally, opened
  <2> QED BY <2>1, <2>2 DEF Launch, WorkerStep, WorkerGoto, Open, Segfault, WorkerWaitTasks, WorkerLockRequests,
         WorkerShift, Shift, WorkerWaitSlots, WorkerLockAnswers,
         WorkerStore, Store, WorkerAdvance, Advance, WorkerUnlockAnswers, WorkerPostAsw, WorkerSame,
         TermHandler
<1>2. UNCHANGED handles \/ Open(w)
  BY DEF Launch, WorkerStep, WorkerGoto, Segfault, WorkerWaitTasks, WorkerLockRequests,
         WorkerLoad, Load, WorkerShift, Shift, UnlockAndSolve, WorkerWaitSlots, WorkerLockAnswers,
         WorkerStore, Store, WorkerAdvance, Advance, WorkerUnlockAnswers, WorkerPostAsw, WorkerSame,
         TermHandler, SemWait, SemPost, opened
<1>3. Open(w) => pc[w] \in Opening /\ \A v \in Workers \ {w} : handles'[v] = handles[v]
  BY <1>0, Tables DEF Open, Goto, Opening, Objects, Procs
<1> QED BY <1>0, <1>1, <1>2, <1>3 DEF Procs

(* A step of the boss leaves the workers where they are. *)
LEMMA BossMoves ==
  ASSUME TypeOK, BossNext
  PROVE  \A w \in Workers : pc'[w] = pc[w] /\ task'[w] = task[w] /\ handles'[w] = handles[w]
<1>0. Boss \in Procs /\ (\A w \in Workers : w \in Procs /\ w # Boss) /\ pc \in [Procs -> BossPC \union WorkerPC]
      /\ task \in [Procs -> Task] /\ handles \in [Procs -> SUBSET (Rings \union Semaphores)]
  BY FarmAssumption DEF TypeOK, Procs
<1>1. \E to : pc' = [pc EXCEPT ![Boss] = to]
  BY DEF BossNext, Create, BossLockRequests, BossStore, Store, BossAdvance, Advance, BossUnlockRequests,
     PostTasks, BossWaitAsw, BossLockAnswers, BossLoad, Load, BossShift, Shift, BossUnlockAnswers, PostSlots,
     DropRings, KillAllWorkers, DropSemaphores, Unlink, SemWait, SemPost, Goto
<1>2. task' = task \/ BossLoad
  BY DEF BossNext, Create, BossLockRequests, BossStore, Store, BossAdvance, Advance, BossUnlockRequests,
     PostTasks, BossWaitAsw, BossLockAnswers, BossShift, Shift, BossUnlockAnswers, PostSlots, BossSame,
     DropRings, KillAllWorkers, DropSemaphores, Unlink
<1>3. handles' = handles \/ Create
  BY DEF BossNext, BossLockRequests, BossStore, Store, BossAdvance, Advance, BossUnlockRequests,
     PostTasks, BossWaitAsw, BossLockAnswers, BossLoad, Load, BossShift, Shift, BossUnlockAnswers, PostSlots,
     DropRings, KillAllWorkers, DropSemaphores, Unlink, SemWait, SemPost, opened
<1>4. Create => \A w \in Workers : handles'[w] = handles[w]
  BY <1>0 DEF Create
<1>5. BossLoad => \A w \in Workers : task'[w] = task[w]
  BY <1>0 DEF BossLoad, Load
<1> QED BY <1>0, <1>1, <1>2, <1>3, <1>4, <1>5

(* The phases, step by step. *)
LEMMA PhasesKept == TypeOK /\ LoopsBounded /\ Phases /\ [Next]_vars => Phases'
<1> SUFFICES ASSUME TypeOK, LoopsBounded, Phases, [Next]_vars PROVE Phases'
  OBVIOUS
<1>0. Boss \in Procs /\ Boss \notin Workers /\ NTasks \in Nat \ {0} /\ pc \in [Procs -> BossPC \union WorkerPC]
      /\ sent \in 0 .. NTasks /\ got \in 0 .. NTasks /\ sem \in [Semaphores -> Nat]
      /\ "tasks" \in Semaphores /\ "asw" \in Semaphores /\ pc[Boss] \in BossPC
  BY FarmAssumption DEF TypeOK, Procs, Semaphores
<1>1. CASE UNCHANGED vars
  BY <1>1 DEF vars, tally, Phases
<1>2. ASSUME NEW w \in Workers, Launch(w) \/ WorkerStep(w) PROVE Phases'
  <2>1. /\ UNCHANGED <<tally, sigterm, named>> /\ pc'[Boss] = pc[Boss]
        /\ \A v \in Workers \ {w} : pc'[v] = pc[v]
    BY <1>2, WorkerMoves
  <2>2. CASE pc[Boss] # "setup"
    BY <2>1, <2>2 DEF Phases, tally
  <2>3. CASE pc[Boss] = "setup"
    <3>1. pc[w] \in Opening \union {"waitTasks", "exited", "crashed"} /\ sem["tasks"] = 0
      BY <2>3 DEF Phases
    <3>2. ~ (WorkerWaitTasks(w) \/ WorkerLockRequests(w) \/ WorkerLoad(w) \/ WorkerShift(w)
             \/ UnlockAndSolve(w) \/ WorkerWaitSlots(w) \/ WorkerLockAnswers(w) \/ WorkerStore(w)
             \/ WorkerAdvance(w) \/ WorkerUnlockAnswers(w) \/ WorkerPostAsw(w))
      BY <3>1 DEF Opening, WorkerWaitTasks, WorkerLockRequests, WorkerLoad, Load, WorkerShift, Shift,
         UnlockAndSolve, WorkerWaitSlots, WorkerLockAnswers, WorkerStore, Store, WorkerAdvance, Advance,
         WorkerUnlockAnswers, WorkerPostAsw, SemWait, SemPost, Goto, SemAt
    <3>3. w \in Procs
      BY DEF Procs
    <3>4. CASE Launch(w) \/ Segfault(w) \/ TermHandler(w)
      <4>1. pc'[w] \in {"requests", "crashed", "exited"} /\ UNCHANGED sem
        BY <1>0, <3>3, <3>4 DEF Launch, Segfault, TermHandler, WorkerGoto, Goto, Objects
      <4> QED BY <2>1, <2>3, <4>1 DEF Phases, Opening, tally
    <3>5. CASE Open(w)
      <4>1. pc'[w] \in {"exited", "waitTasks", "answers", "slots", "tasks", "asw", "lock", "lock2"}
            /\ UNCHANGED sem
        BY <1>0, <3>3, <3>5 DEF Open, Goto, Objects
      <4> QED BY <2>1, <2>3, <4>1 DEF Phases, Opening, tally
    <3> QED BY <1>2, <3>2, <3>4, <3>5 DEF WorkerStep
  <2> QED BY <2>2, <2>3
<1>3. CASE BossNext
  <2>0. \A w \in Workers : pc'[w] = pc[w]
    BY <1>3, BossMoves
  <2>1. CASE Create
    <3>1. pc[Boss] = "setup" /\ pc'[Boss] \in {"setup", "lockRequests"} /\ UNCHANGED <<tally, sigterm>>
      BY <1>0, <2>1 DEF Create, Goto
    <3>2. sem'["tasks"] = 0 /\ sem'["asw"] = 0
      BY <1>0, <2>1, <3>1 DEF Create, Phases, Initially
    <3> QED BY <2>0, <3>1, <3>2 DEF Phases, tally, Ending, Submitting
  <2>2. CASE BossLockRequests \/ BossUnlockRequests \/ BossStore \/ BossAdvance \/ PostTasks
    BY <1>0, <2>2 DEF BossLockRequests, BossUnlockRequests, BossStore, BossAdvance, PostTasks, BossSame,
         SemWait, SemPost, Store, Advance, Goto, LoopsBounded, tally, Phases, Submitting, Ending
  <2>3. CASE BossWaitAsw \/ BossLockAnswers \/ BossLoad \/ BossShift \/ BossUnlockAnswers \/ PostSlots
    BY <1>0, <2>3 DEF BossWaitAsw, BossLockAnswers, BossLoad, BossShift, BossUnlockAnswers, PostSlots,
         BossSame, SemWait, SemPost, Load, Shift, Goto, LoopsBounded, tally, Phases, Submitting, Ending
  <2>4. CASE DropRings \/ DropSemaphores \/ KillAllWorkers
    BY <1>0, <2>4 DEF DropRings, DropSemaphores, KillAllWorkers, Unlink, Goto, tally, Phases, Submitting, Ending
  <2> QED BY <1>3, <2>1, <2>2, <2>3, <2>4 DEF BossNext
<1> QED BY <1>1, <1>2, <1>3 DEF Next

-----------------------------------------------------------------------------
(* The handles of a worker.                                                *)

(* Handles, for every step but the one that puts an answer into the ring. *)
LEMMA HandlesQuiet ==
  ASSUME TypeOK, NEW put \in Nat, NEW ans, Handles(put, ans),
         NEW w \in Workers, Launch(w) \/ WorkerStep(w), ~WorkerAdvance(w)
  PROVE  Handles(put, ans)'
<1> DEFINE Good(v) ==
    /\ pc[v] \in Opening => "lock2" \notin handles[v]
    /\ pc[v] \in Taking \union Solving \union Posting => "tasks" \in handles[v]
    /\ pc[v] \in (Taking \ {"lockRequests"}) \union Solving \union Posting => "lock2" \in handles[v]
    /\ pc[v] \in Filling \union Posting => "slots" \in handles[v]
    /\ pc[v] \in (Filling \ {"lockAnswers"}) \union Posting => "lock" \in handles[v]
    /\ pc[v] = "crashed" => ~Complete(v)
    /\ ~Complete(v) /\ Answered(put, ans, v) => pc[v] \in Posting \union {"crashed", "exited"}
    /\ pc[v] \in Posting => Answered(put, ans, v)
<1>0. w \in Procs /\ w # Boss /\ pc \in [Procs -> BossPC \union WorkerPC]
      /\ handles \in [Procs -> SUBSET (Rings \union Semaphores)]
  BY FarmAssumption DEF TypeOK, Procs
<1>1. \A v \in Workers \ {w} : pc'[v] = pc[v] /\ handles'[v] = handles[v]
  BY WorkerMoves
<1>2. \A v \in Workers : Good(v)
  BY DEF Handles
<1>3. ASSUME NEW v \in Workers \ {w} PROVE Good(v)'
  BY <1>1, <1>2 DEF Complete
<1>4. Good(w)'
  <2>0. Good(w)
    BY <1>2
  <2>1. CASE Launch(w)
    BY <1>0, <2>0, <2>1 DEF Launch, WorkerGoto, Goto, opened, Objects, Opening, Taking, Solving, Posting,
      Filling, Complete, Semaphores
  <2>2. CASE Segfault(w)
    <3>1. PICK at \in DOMAIN SemAt : SemAt[at] \notin handles[w] /\ WorkerGoto(w, at, "crashed")
      BY <2>2 DEF Segfault
    <3>2. ~Complete(w)
      BY <3>1, Tables DEF Complete
    <3> QED BY <1>0, <2>0, <3>1, <3>2 DEF WorkerGoto, Goto, opened, Opening, Taking, Solving, Posting, Filling,
          Complete
  <2>3. CASE TermHandler(w)
    BY <1>0, <2>0, <2>3 DEF TermHandler, WorkerGoto, Goto, opened, Opening, Taking, Solving, Posting, Filling,
      Complete
  <2>4. CASE Open(w)
    <3>1. pc[w] \in Opening /\ "lock2" \notin handles[w] /\ ~Answered(put, ans, w)
      <4>1. pc[w] \in Opening
        BY <2>4, Tables DEF Open, Goto, Opening, Objects
      <4> QED BY <2>0, <4>1 DEF Opening, Posting, Complete, Semaphores
    <3>2. /\ pc'[w] \in (Opening \ {"off"}) \union {"waitTasks", "exited"}
          /\ pc'[w] \in Opening => "lock2" \notin handles'[w]
      BY <1>0, <2>4, <3>1 DEF Open, Goto, Opening, Objects, Rings
    <3> QED BY <3>1, <3>2 DEF Opening, Taking, Solving, Posting, Filling
  <2>5. CASE WorkerWaitTasks(w) \/ WorkerLockRequests(w) \/ UnlockAndSolve(w) \/ WorkerWaitSlots(w)
             \/ WorkerLockAnswers(w) \/ WorkerUnlockAnswers(w)
    BY <1>0, <2>0, <2>5 DEF WorkerWaitTasks, WorkerLockRequests, UnlockAndSolve, WorkerWaitSlots,
      WorkerLockAnswers, WorkerUnlockAnswers, SemWait, SemPost, Goto, SemAt, opened, Opening, Taking,
      Solving, Posting, Filling, Complete
  <2>6. CASE WorkerLoad(w) \/ WorkerShift(w) \/ WorkerStore(w)
    BY <1>0, <2>0, <2>6 DEF WorkerLoad, WorkerShift, WorkerStore, Load, Shift, Store, Goto, opened, Opening,
      Taking, Solving, Posting, Filling, Complete
  <2>7. CASE WorkerPostAsw(w)
    <3>1. pc[w] = "postAsw" /\ "asw" \in handles[w] /\ pc'[w] = "waitTasks" /\ handles' = handles
      BY <1>0, <2>7 DEF WorkerPostAsw, SemPost, SemAt, Goto, opened
    <3>2. Complete(w)
      BY <2>0, <3>1 DEF Complete, Semaphores, Posting
    <3> QED BY <3>1, <3>2 DEF Opening, Taking, Solving, Posting, Filling, Complete
  <2> QED BY <2>1, <2>2, <2>3, <2>4, <2>5, <2>6, <2>7 DEF WorkerStep
<1> QED BY <1>3, <1>4 DEF Handles

(* Handles, for the step that puts an answer into the ring. *)
LEMMA HandlesAdvance ==
  ASSUME TypeOK, NEW put \in Nat, NEW ans \in [Nat -> Task], Handles(put, ans),
         NEW w \in Workers, WorkerAdvance(w), task[w].worker = w, NEW t, t = task[w]
  PROVE  Handles(put + 1, [ans EXCEPT ![put] = t])'
<1> DEFINE new == [ans EXCEPT ![put] = t]
<1>0. /\ w \in Procs /\ pc \in [Procs -> BossPC \union WorkerPC] /\ pc[w] = "advance"
      /\ pc' = [pc EXCEPT ![w] = "unlockAnswers"] /\ UNCHANGED handles
  BY DEF TypeOK, Procs, WorkerAdvance, Advance, Goto, opened
<1>1. Answered(put + 1, new, w) /\ \A v \in Workers \ {w} : Answered(put + 1, new, v) <=> Answered(put, ans, v)
  <2>1. \A k \in 0 .. put : new[k] = IF k = put THEN t ELSE ans[k]
    OBVIOUS
  <2> QED BY <2>1 DEF Answered
<1> HIDE DEF new
<1>2. /\ "tasks" \in handles[w] /\ "lock2" \in handles[w] /\ "slots" \in handles[w] /\ "lock" \in handles[w]
  BY <1>0 DEF Handles, Taking, Solving, Posting, Filling
<1>3. \A v \in Workers \ {w} : pc'[v] = pc[v] /\ handles'[v] = handles[v] /\ v \in Procs
  BY <1>0 DEF Procs
<1>4. pc'[w] = "unlockAnswers" /\ handles'[w] = handles[w]
  BY <1>0
<1>5. Handles(put + 1, new)'
  BY <1>1, <1>2, <1>3, <1>4 DEF Handles, Opening, Taking, Solving, Posting, Filling, Complete
<1> QED BY <1>5 DEF new

-----------------------------------------------------------------------------
(* The three accounts: tasks, slots and answers.                           *)

(* Moving one process changes the number of workers in a set of statements by *)
(* at most one.                                                               *)
LEMMA AtMove ==
  ASSUME TypeOK, NEW S, NEW p \in Procs, NEW from, NEW to, Goto(p, from, to)
  PROVE  /\ Cardinality(At(S)) \in Nat /\ Cardinality(At(S))' \in Nat
         /\ Cardinality(At(S))' = Cardinality(At(S)) + (IF p \in Workers /\ to \in S THEN 1 ELSE 0)
                                                     - (IF p \in Workers /\ from \in S THEN 1 ELSE 0)
<1>0. pc \in [Procs -> BossPC \union WorkerPC] /\ pc[p] = from /\ pc' = [pc EXCEPT ![p] = to]
  BY DEF TypeOK, Goto
<1>1. \A v \in Workers : pc'[v] = IF v = p THEN to ELSE pc[v]
  BY <1>0 DEF Procs
<1>2. IsFiniteSet(At(S)) /\ Cardinality(At(S)) \in Nat
  <2>1. At(S) \in SUBSET Workers
    BY DEF At
  <2> QED BY <2>1, FarmAssumption, FS_Subset, FS_CardinalityType
<1>3. CASE p \notin Workers
  <2>1. At(S)' = At(S)
    BY <1>1, <1>3 DEF At
  <2> QED BY <1>2, <1>3, <2>1
<1>4. CASE p \in Workers /\ to \in S /\ from \in S
  <2>1. At(S)' = At(S)
    BY <1>0, <1>1, <1>4 DEF At
  <2> QED BY <1>2, <1>4, <2>1
<1>5. CASE p \in Workers /\ to \in S /\ from \notin S
  <2>1. At(S)' = At(S) \union {p} /\ p \notin At(S)
    BY <1>0, <1>1, <1>5 DEF At
  <2> QED BY <1>2, <1>5, <2>1, FS_AddElement
<1>6. CASE p \in Workers /\ to \notin S /\ from \in S
  <2>1. At(S)' = At(S) \ {p} /\ p \in At(S)
    BY <1>0, <1>1, <1>6 DEF At
  <2>2. Cardinality(At(S) \ {p}) = Cardinality(At(S)) - 1 /\ IsFiniteSet(At(S) \ {p})
    BY <1>2, <2>1, FS_RemoveElement
  <2>3. Cardinality(At(S) \ {p}) \in Nat
    BY <2>2, FS_CardinalityType
  <2> QED BY <1>2, <1>6, <2>1, <2>2, <2>3
<1>7. CASE p \in Workers /\ to \notin S /\ from \notin S
  <2>1. At(S)' = At(S)
    BY <1>0, <1>1, <1>7 DEF At
  <2> QED BY <1>2, <1>7, <2>1
<1> QED BY <1>3, <1>4, <1>5, <1>6, <1>7

(* The workers that owe an announcement are finitely many. *)
LEMMA OwingFinite ==
  ASSUME NEW put, NEW ans
  PROVE  /\ IsFiniteSet(Owing(put, ans)) /\ Cardinality(Owing(put, ans)) \in Nat
         /\ IsFiniteSet(Owing(put, ans)') /\ Cardinality(Owing(put, ans)') \in Nat
<1>1. Owing(put, ans) \in SUBSET Workers /\ Owing(put, ans)' \in SUBSET Workers
  BY DEF Owing
<1> QED BY <1>1, FarmAssumption, FS_Subset, FS_CardinalityType

(* A move that keeps the three accounts balanced; d is what it takes from the  *)
(* answers owed.                                                               *)
LEMMA CountsMove ==
  ASSUME TypeOK, NEW taken \in Nat, NEW put \in Nat, NEW ans, Counts(taken, put, ans),
         NEW taken2 \in Nat, NEW put2 \in Nat, NEW ans2,
         NEW p \in Procs, NEW from, NEW to, Goto(p, from, to), NEW d \in {-1, 0, 1},
         Cardinality(Owing(put2, ans2)') + d <= Cardinality(Owing(put, ans)),
         sem' \in [Semaphores -> Nat], sent' \in Nat, got' \in Nat,
         sem'["tasks"] + (IF p \in Workers /\ to \in Taking THEN 1 ELSE 0) + taken2 + sent
           <= sem["tasks"] + (IF p \in Workers /\ from \in Taking THEN 1 ELSE 0) + taken + sent',
         sem'["slots"] + (IF p \in Workers /\ to \in Filling THEN 1 ELSE 0) + put2 + got
           <= sem["slots"] + (IF p \in Workers /\ from \in Filling THEN 1 ELSE 0) + put + got',
         sem'["asw"] + BossIn(Collecting \ {"waitAsw"})' + got' + put
           <= sem["asw"] + BossIn(Collecting \ {"waitAsw"}) + got + put2 + d
  PROVE  Counts(taken2, put2, ans2)'
<1>1. Cardinality(At(Taking))' = Cardinality(At(Taking)) + (IF p \in Workers /\ to \in Taking THEN 1 ELSE 0)
                                   - (IF p \in Workers /\ from \in Taking THEN 1 ELSE 0)
      /\ Cardinality(At(Taking)) \in Nat
  BY AtMove
<1>2. Cardinality(At(Filling))' = Cardinality(At(Filling)) + (IF p \in Workers /\ to \in Filling THEN 1 ELSE 0)
                                   - (IF p \in Workers /\ from \in Filling THEN 1 ELSE 0)
      /\ Cardinality(At(Filling)) \in Nat
  BY AtMove
<1>3. Cardinality(Owing(put2, ans2)') \in Nat /\ Cardinality(Owing(put, ans)) \in Nat
  BY OwingFinite
<1>4. sem \in [Semaphores -> Nat] /\ sent \in Nat /\ got \in Nat /\ NSlots \in Nat
      /\ "tasks" \in Semaphores /\ "slots" \in Semaphores /\ "asw" \in Semaphores
  BY FarmAssumption DEF TypeOK, Semaphores
<1>5. BossIn(Collecting \ {"waitAsw"}) \in {0, 1} /\ BossIn(Collecting \ {"waitAsw"})' \in {0, 1}
  BY DEF BossIn
<1>6. sem'["tasks"] + Cardinality(At(Taking))' + taken2 <= sent'
  BY <1>1, <1>4 DEF Counts
<1>7. sem'["slots"] + Cardinality(At(Filling))' + put2 <= NSlots + got'
  BY <1>2, <1>4 DEF Counts
<1>8. sem'["asw"] + Cardinality(Owing(put2, ans2)') + BossIn(Collecting \ {"waitAsw"})' + got' <= put2
  BY <1>3, <1>4, <1>5 DEF Counts
<1> QED BY <1>6, <1>7, <1>8 DEF Counts

(* Nobody owes more when nobody starts posting and no handle is lost. *)
LEMMA OwingCount ==
  ASSUME NEW put, NEW ans, \A v \in Workers : pc'[v] \in Posting => pc[v] \in Posting,
         \A v \in Workers : Complete(v) => Complete(v)'
  PROVE  Cardinality(Owing(put, ans)') <= Cardinality(Owing(put, ans))
<1>1. Owing(put, ans)' \in SUBSET Owing(put, ans)
  BY DEF Owing
<1> QED BY <1>1, OwingFinite, FS_Subset

(* The accounts, for the steps of a worker. *)
LEMMA CountsWorker ==
  ASSUME TypeOK, NEW taken \in Nat, NEW put \in Nat, NEW ans \in [Nat -> Task], Handles(put, ans),
         Counts(taken, put, ans), NEW w \in Workers, Launch(w) \/ WorkerStep(w),
         ~WorkerShift(w), ~WorkerAdvance(w)
  PROVE  Counts(taken, put, ans)'
<1>0. w \in Procs /\ w # Boss /\ pc \in [Procs -> BossPC \union WorkerPC] /\ sem \in [Semaphores -> Nat]
      /\ handles \in [Procs -> SUBSET (Rings \union Semaphores)] /\ sent \in Nat /\ got \in Nat
  BY FarmAssumption DEF TypeOK, Procs
<1>1. /\ sent' = sent /\ got' = got /\ pc'[Boss] = pc[Boss]
      /\ \A v \in Workers \ {w} : pc'[v] = pc[v] /\ handles'[v] = handles[v]
  BY WorkerMoves DEF tally
<1>2. BossIn(Collecting \ {"waitAsw"})' = BossIn(Collecting \ {"waitAsw"}) /\ BossIn(Collecting \ {"waitAsw"}) \in Nat
  BY <1>1 DEF BossIn
<1>3. /\ "tasks" \in Semaphores /\ "slots" \in Semaphores /\ "asw" \in Semaphores
      /\ "lock" \in Semaphores /\ "lock2" \in Semaphores
  BY DEF Semaphores
<1>4. ASSUME NEW from, NEW to, Goto(w, from, to), to \notin Posting \/ from \in Posting,
             sem' \in [Semaphores -> Nat], sem'["asw"] = sem["asw"],
             handles' = handles \/ Open(w),
             sem'["tasks"] + (IF to \in Taking THEN 1 ELSE 0)
               <= sem["tasks"] + (IF from \in Taking THEN 1 ELSE 0),
             sem'["slots"] + (IF to \in Filling THEN 1 ELSE 0)
               <= sem["slots"] + (IF from \in Filling THEN 1 ELSE 0)
      PROVE  Counts(taken, put, ans)'
  <2>1. \A v \in Workers : pc'[v] \in Posting => pc[v] \in Posting
    BY <1>0, <1>1, <1>4 DEF Goto
  <2>2. \A v \in Workers : Complete(v) => Complete(v)'
    <3>1. handles'[w] = handles[w] \/ handles[w] \subseteq handles'[w]
      BY <1>0, <1>4 DEF Open
    <3> QED BY <3>1, <1>1 DEF Complete
  <2>3. Cardinality(Owing(put, ans)') + 0 <= Cardinality(Owing(put, ans))
    BY <2>1, <2>2, OwingCount, OwingFinite
  <2>4. sem["tasks"] \in Nat /\ sem["slots"] \in Nat /\ sem'["tasks"] \in Nat /\ sem'["slots"] \in Nat
    BY <1>0, <1>3, <1>4
  <2>5. /\ sem'["tasks"] + (IF w \in Workers /\ to \in Taking THEN 1 ELSE 0) + taken + sent
             <= sem["tasks"] + (IF w \in Workers /\ from \in Taking THEN 1 ELSE 0) + taken + sent'
        /\ sem'["slots"] + (IF w \in Workers /\ to \in Filling THEN 1 ELSE 0) + put + got
             <= sem["slots"] + (IF w \in Workers /\ from \in Filling THEN 1 ELSE 0) + put + got'
        /\ sem'["asw"] + BossIn(Collecting \ {"waitAsw"})' + got' + put
             <= sem["asw"] + BossIn(Collecting \ {"waitAsw"}) + got + put + 0
    BY <1>0, <1>1, <1>2, <1>3, <1>4, <2>4
  <2>6. sent' \in Nat /\ got' \in Nat /\ 0 \in {-1, 0, 1}
    BY <1>0, <1>1
  <2> QED BY <1>0, <1>4, <2>3, <2>5, <2>6, CountsMove
<1>5. CASE Launch(w) \/ Segfault(w) \/ TermHandler(w)
  <2>1. PICK from : from = pc[w]
    OBVIOUS
  <2>2. PICK to \in {"requests", "crashed", "exited"} : Goto(w, from, to) /\ UNCHANGED <<sem, handles>>
    BY <1>5, <2>1 DEF Launch, Segfault, TermHandler, WorkerGoto, Objects, opened, Goto
  <2> QED BY <1>0, <1>3, <1>4, <2>2 DEF Posting, Taking, Filling
<1>6. CASE Open(w)
  <2>1. PICK from : from = pc[w]
    OBVIOUS
  <2>2. PICK to \in Opening \union {"exited", "waitTasks"} : Goto(w, from, to) /\ UNCHANGED sem
    <3>1. PICK k \in DOMAIN Objects :
            Goto(w, Objects[k], IF Objects[k] \in Rings \ named THEN "exited"
                                ELSE IF k < Len(Objects) THEN Objects[k + 1] ELSE "waitTasks") /\ UNCHANGED sem
      BY <1>6 DEF Open
    <3>2. k < Len(Objects) => Objects[k + 1] \in Rings \union Semaphores
      BY Tables
    <3> QED BY <2>1, <3>1, <3>2 DEF Goto, Opening, Rings, Semaphores
  <2> QED BY <1>0, <1>3, <1>4, <1>6, <2>2 DEF Posting, Taking, Filling, Opening
<1>7. CASE WorkerLoad(w) \/ WorkerStore(w)
  BY <1>0, <1>3, <1>4, <1>7 DEF WorkerLoad, WorkerStore, Load, Store, opened, Posting, Taking, Filling
<1>8. CASE WorkerWaitTasks(w) \/ WorkerLockRequests(w) \/ UnlockAndSolve(w) \/ WorkerWaitSlots(w)
           \/ WorkerLockAnswers(w) \/ WorkerUnlockAnswers(w)
  BY <1>0, <1>3, <1>4, <1>8 DEF WorkerWaitTasks, WorkerLockRequests, UnlockAndSolve, WorkerWaitSlots,
      WorkerLockAnswers, WorkerUnlockAnswers, SemWait, SemPost, SemAt, opened, Posting, Taking, Filling
<1>9. CASE WorkerPostAsw(w)
  <2>1. Goto(w, "postAsw", "waitTasks") /\ sem' = [sem EXCEPT !["asw"] = @ + 1] /\ handles' = handles
        /\ "asw" \in handles[w] /\ pc[w] = "postAsw" /\ pc' = [pc EXCEPT ![w] = "waitTasks"]
    BY <1>9 DEF WorkerPostAsw, SemPost, SemAt, opened, Goto
  <2>2. Complete(w)
    BY <2>1 DEF Complete, Semaphores, Handles, Posting
  <2>3. Owing(put, ans)' = Owing(put, ans) \ {w} /\ w \in Owing(put, ans)
    BY <1>0, <1>1, <2>1, <2>2 DEF Owing, Complete, Posting
  <2>4. Cardinality(Owing(put, ans)') + 1 <= Cardinality(Owing(put, ans))
    <3>1. IsFiniteSet(Owing(put, ans)) /\ Cardinality(Owing(put, ans)) \in Nat
      BY OwingFinite
    <3>2. Cardinality(Owing(put, ans) \ {w}) = Cardinality(Owing(put, ans)) - 1
      BY <2>3, <3>1, FS_RemoveElement
    <3> QED BY <2>3, <3>1, <3>2
  <2>5. sem' \in [Semaphores -> Nat] /\ sem'["tasks"] = sem["tasks"] /\ sem'["slots"] = sem["slots"]
        /\ sem'["asw"] = sem["asw"] + 1
    BY <1>0, <1>3, <2>1
  <2>6. sem["tasks"] \in Nat /\ sem["slots"] \in Nat /\ sem["asw"] \in Nat
    BY <1>0, <1>3
  <2>7. /\ sem'["tasks"] + (IF w \in Workers /\ "waitTasks" \in Taking THEN 1 ELSE 0) + taken + sent
             <= sem["tasks"] + (IF w \in Workers /\ "postAsw" \in Taking THEN 1 ELSE 0) + taken + sent'
        /\ sem'["slots"] + (IF w \in Workers /\ "waitTasks" \in Filling THEN 1 ELSE 0) + put + got
             <= sem["slots"] + (IF w \in Workers /\ "postAsw" \in Filling THEN 1 ELSE 0) + put + got'
        /\ sem'["asw"] + BossIn(Collecting \ {"waitAsw"})' + got' + put
             <= sem["asw"] + BossIn(Collecting \ {"waitAsw"}) + got + put + 1
    BY <1>0, <1>1, <1>2, <2>5, <2>6 DEF Taking, Filling
  <2>8. sent' \in Nat /\ got' \in Nat /\ 1 \in {-1, 0, 1}
    BY <1>0, <1>1
  <2> QED BY <1>0, <2>1, <2>4, <2>5, <2>7, <2>8, CountsMove
<1> QED BY <1>5, <1>6, <1>7, <1>8, <1>9 DEF WorkerStep

(* The account of tasks, when a worker takes one off the requests ring. *)
LEMMA CountsShift ==
  ASSUME TypeOK, NEW taken \in Nat, NEW put \in Nat, NEW ans \in [Nat -> Task],
         Counts(taken, put, ans), NEW w \in Workers, WorkerShift(w)
  PROVE  Counts(taken + 1, put, ans)'
<1>0. w \in Procs /\ w # Boss /\ pc \in [Procs -> BossPC \union WorkerPC] /\ sem \in [Semaphores -> Nat]
      /\ sent \in Nat /\ got \in Nat /\ sem["tasks"] \in Nat /\ sem["slots"] \in Nat /\ sem["asw"] \in Nat
  BY FarmAssumption DEF TypeOK, Procs, Semaphores
<1>1. Goto(w, "shift", "unlockRequests") /\ UNCHANGED <<sent, got, sem, handles>>
  BY DEF WorkerShift, Shift, tally, opened
<1>2. pc[w] = "shift" /\ pc'[w] = "unlockRequests" /\ pc'[Boss] = pc[Boss]
      /\ \A v \in Workers \ {w} : pc'[v] = pc[v]
  BY <1>0, <1>1 DEF Goto, Procs
<1>3. Cardinality(Owing(put, ans)') + 0 <= Cardinality(Owing(put, ans))
  <2>1. \A v \in Workers : pc'[v] \in Posting => pc[v] \in Posting
    BY <1>2 DEF Posting
  <2>2. \A v \in Workers : Complete(v) => Complete(v)'
    BY <1>1 DEF Complete
  <2> QED BY <2>1, <2>2, OwingCount, OwingFinite
<1>4. BossIn(Collecting \ {"waitAsw"})' = BossIn(Collecting \ {"waitAsw"}) /\ BossIn(Collecting \ {"waitAsw"}) \in Nat
  BY <1>2 DEF BossIn
<1>5. /\ sem'["tasks"] + (IF w \in Workers /\ "unlockRequests" \in Taking THEN 1 ELSE 0) + (taken + 1) + sent
           <= sem["tasks"] + (IF w \in Workers /\ "shift" \in Taking THEN 1 ELSE 0) + taken + sent'
      /\ sem'["slots"] + (IF w \in Workers /\ "unlockRequests" \in Filling THEN 1 ELSE 0) + put + got
           <= sem["slots"] + (IF w \in Workers /\ "shift" \in Filling THEN 1 ELSE 0) + put + got'
      /\ sem'["asw"] + BossIn(Collecting \ {"waitAsw"})' + got' + put
           <= sem["asw"] + BossIn(Collecting \ {"waitAsw"}) + got + put + 0
  BY <1>0, <1>1, <1>4 DEF Taking, Filling
<1>6. taken + 1 \in Nat /\ sent' \in Nat /\ got' \in Nat /\ 0 \in {-1, 0, 1} /\ sem' \in [Semaphores -> Nat]
  BY <1>0, <1>1
<1> QED BY <1>0, <1>1, <1>3, <1>5, <1>6, CountsMove

(* The accounts, when a worker puts an answer into the answers ring. *)
LEMMA CountsAdvance ==
  ASSUME TypeOK, NEW taken \in Nat, NEW put \in Nat, NEW ans \in [Nat -> Task], Handles(put, ans),
         Counts(taken, put, ans), NEW w \in Workers, WorkerAdvance(w), NEW t, t = task[w], t.worker = w
  PROVE  Counts(taken, put + 1, [ans EXCEPT ![put] = t])'
<1> DEFINE new == [ans EXCEPT ![put] = t]
<1>0. w \in Procs /\ w # Boss /\ pc \in [Procs -> BossPC \union WorkerPC] /\ sem \in [Semaphores -> Nat]
      /\ sent \in Nat /\ got \in Nat /\ sem["tasks"] \in Nat /\ sem["slots"] \in Nat /\ sem["asw"] \in Nat
  BY FarmAssumption DEF TypeOK, Procs, Semaphores
<1>1. Goto(w, "advance", "unlockAnswers") /\ UNCHANGED <<sent, got, sem, handles>>
  BY DEF WorkerAdvance, Advance, tally, opened
<1>2. pc[w] = "advance" /\ pc'[w] = "unlockAnswers" /\ pc'[Boss] = pc[Boss]
      /\ \A v \in Workers \ {w} : pc'[v] = pc[v]
  BY <1>0, <1>1 DEF Goto, Procs
<1>3. \A v \in Workers \ {w} : Answered(put + 1, new, v) <=> Answered(put, ans, v)
  <2>1. \A k \in 0 .. put : new[k] = IF k = put THEN t ELSE ans[k]
    OBVIOUS
  <2> QED BY <2>1 DEF Answered
<1> HIDE DEF new
<1>4. Cardinality(Owing(put + 1, new)') + (-1) <= Cardinality(Owing(put, ans))
  <2>1. w \notin Owing(put, ans)
    BY <1>2 DEF Owing, Handles, Posting
  <2>2. Owing(put + 1, new)' = Owing(put, ans) \union {w}
    BY <1>1, <1>2, <1>3 DEF Owing, Complete, Posting
  <2>3. IsFiniteSet(Owing(put, ans)) /\ Cardinality(Owing(put, ans)) \in Nat
    BY OwingFinite
  <2>4. Cardinality(Owing(put, ans) \union {w}) = Cardinality(Owing(put, ans)) + 1
    BY <2>1, <2>3, FS_AddElement
  <2>5. Cardinality(Owing(put + 1, new)') = Cardinality(Owing(put, ans)) + 1
    BY <2>2, <2>4
  <2> QED BY <2>3, <2>5
<1>5. BossIn(Collecting \ {"waitAsw"})' = BossIn(Collecting \ {"waitAsw"}) /\ BossIn(Collecting \ {"waitAsw"}) \in Nat
  BY <1>2 DEF BossIn
<1>6. /\ sem'["tasks"] + (IF w \in Workers /\ "unlockAnswers" \in Taking THEN 1 ELSE 0) + taken + sent
           <= sem["tasks"] + (IF w \in Workers /\ "advance" \in Taking THEN 1 ELSE 0) + taken + sent'
      /\ sem'["slots"] + (IF w \in Workers /\ "unlockAnswers" \in Filling THEN 1 ELSE 0) + (put + 1) + got
           <= sem["slots"] + (IF w \in Workers /\ "advance" \in Filling THEN 1 ELSE 0) + put + got'
      /\ sem'["asw"] + BossIn(Collecting \ {"waitAsw"})' + got' + put
           <= sem["asw"] + BossIn(Collecting \ {"waitAsw"}) + got + (put + 1) + (-1)
  BY <1>0, <1>1, <1>5 DEF Taking, Filling
<1>7. put + 1 \in Nat /\ sent' \in Nat /\ got' \in Nat /\ -1 \in {-1, 0, 1} /\ sem' \in [Semaphores -> Nat]
  BY <1>0, <1>1
<1>8. Counts(taken, put + 1, new)'
  BY <1>0, <1>1, <1>4, <1>6, <1>7, CountsMove
<1> QED BY <1>8 DEF new

(* The accounts, for the steps of the boss. *)
LEMMA CountsBoss ==
  ASSUME TypeOK, TypeOK', LoopsBounded, Phases, NEW taken \in Nat, NEW put \in Nat, NEW ans \in [Nat -> Task],
         Tasks(taken, put, ans), Handles(put, ans), Counts(taken, put, ans), BossNext
  PROVE  Counts(taken, put, ans)'
<1>0. Boss \in Procs /\ Boss \notin Workers /\ pc \in [Procs -> BossPC \union WorkerPC]
      /\ sem \in [Semaphores -> Nat] /\ sem' \in [Semaphores -> Nat]
      /\ sent \in Nat /\ got \in Nat /\ sent' \in Nat /\ got' \in Nat
      /\ sem["tasks"] \in Nat /\ sem["slots"] \in Nat /\ sem["asw"] \in Nat /\ NSlots \in Nat
      /\ "tasks" \in Semaphores /\ "slots" \in Semaphores /\ "asw" \in Semaphores
  BY FarmAssumption DEF TypeOK, Procs, Semaphores
<1>1. \A v \in Workers : pc'[v] = pc[v] /\ handles'[v] = handles[v]
  BY BossMoves
<1>2. Cardinality(Owing(put, ans)') + 0 <= Cardinality(Owing(put, ans))
  <2>1. \A v \in Workers : Complete(v) => Complete(v)'
    BY <1>1 DEF Complete
  <2> QED BY <1>1, <2>1, OwingCount, OwingFinite
<1> DEFINE B == BossIn(Collecting \ {"waitAsw"})
<1>3. B \in {0, 1} /\ B' \in {0, 1}
  BY DEF BossIn
<1>4. ASSUME NEW from, NEW to, Goto(Boss, from, to),
             sem'["tasks"] + sent <= sem["tasks"] + sent', sem'["slots"] + got <= sem["slots"] + got',
             sem'["asw"] + B' + got' <= sem["asw"] + B + got
      PROVE  Counts(taken, put, ans)'
  <2>1. sem'["tasks"] \in Nat /\ sem'["slots"] \in Nat /\ sem'["asw"] \in Nat
    BY <1>0
  <2>2. /\ sem'["tasks"] + (IF Boss \in Workers /\ to \in Taking THEN 1 ELSE 0) + taken + sent
             <= sem["tasks"] + (IF Boss \in Workers /\ from \in Taking THEN 1 ELSE 0) + taken + sent'
        /\ sem'["slots"] + (IF Boss \in Workers /\ to \in Filling THEN 1 ELSE 0) + put + got
             <= sem["slots"] + (IF Boss \in Workers /\ from \in Filling THEN 1 ELSE 0) + put + got'
        /\ sem'["asw"] + B' + got' + put <= sem["asw"] + B + got + put + 0
    BY <1>0, <1>3, <1>4, <2>1
  <2>3. 0 \in {-1, 0, 1}
    OBVIOUS
  <2> QED BY <1>0, <1>2, <1>4, <2>2, <2>3, CountsMove
<1>5. ASSUME pc[Boss] = "setup" PROVE put = 0 /\ At(Filling) = {} /\ sent = 0 /\ got = 0 /\ taken = 0
  <2>1. sent = 0 /\ got = 0 /\ sem["tasks"] = 0
    BY <1>5 DEF LoopsBounded, Phases
  <2>2. At(Filling) = {}
    BY <1>5 DEF Phases, At, Filling, Opening
  <2>3. taken = 0
    <3>1. IsFiniteSet(At(Taking))
      <4>1. At(Taking) \in SUBSET Workers
        BY DEF At
      <4> QED BY <4>1, FarmAssumption, FS_Subset
    <3>2. Cardinality(At(Taking)) \in Nat
      BY <3>1, FS_CardinalityType
    <3> QED BY <2>1, <3>2 DEF Counts
  <2>4. put = 0
    <3>1. ASSUME put > 0 PROVE FALSE
      <4>1. 0 \in 0 .. put - 1 /\ ans[0] \in Task
        BY <3>1
      <4>2. ans[0].query < 0 /\ ans[0].query \in 0 .. NTasks - 1
        BY <2>3, <4>1 DEF Tasks, Task, Queries
      <4> QED BY <4>2
    <3> QED BY <3>1
  <2> QED BY <2>1, <2>2, <2>3, <2>4
<1>6. CASE Create
  <2>1. PICK k \in DOMAIN Objects :
          /\ pc[Boss] = "setup" /\ pc'[Boss] \in {"setup", "lockRequests"}
          /\ sem' = IF Objects[k] \in Semaphores
                    THEN [sem EXCEPT ![Objects[k]] = Initially[Objects[k]]] ELSE sem
          /\ UNCHANGED tally
    BY <1>0, <1>6 DEF Create, Goto
  <2>2. Cardinality(At(Filling)) = 0
    BY <1>5, <2>1, FS_EmptySet
  <2>3. sem["tasks"] = 0 /\ sem["asw"] = 0 /\ sem'["tasks"] = 0 /\ sem'["asw"] = 0
    BY <1>0, <2>1 DEF Phases, Initially
  <2>4. At(Filling)' = At(Filling) /\ At(Taking)' = At(Taking)
    BY <1>1 DEF At
  <2>5. sem["slots"] <= NSlots /\ sem'["slots"] <= NSlots
    <3>1. sem["slots"] <= NSlots
      BY <1>0, <1>5, <2>1, <2>2 DEF Counts
    <3> QED BY <1>0, <2>1, <3>1 DEF Initially
  <2>6. B = 0 /\ B' = 0
    BY <2>1 DEF BossIn, Collecting
  <2>7. Cardinality(Owing(put, ans)') <= Cardinality(Owing(put, ans)) /\ Cardinality(Owing(put, ans)) \in Nat
        /\ Cardinality(Owing(put, ans)') \in Nat
    BY <1>2, OwingFinite
  <2>8. sem'["tasks"] + Cardinality(At(Taking)') + taken <= sent'
    BY <2>1, <2>3, <2>4 DEF Counts, tally
  <2>9. sem'["slots"] + Cardinality(At(Filling)') + put <= NSlots + got'
    BY <1>0, <1>5, <2>1, <2>2, <2>4, <2>5 DEF tally
  <2>10. sem'["asw"] + Cardinality(Owing(put, ans)') + B' + got' <= put
    BY <1>0, <2>1, <2>3, <2>6, <2>7 DEF Counts, tally
  <2> QED BY <2>8, <2>9, <2>10 DEF Counts
<1>7. CASE BossLockRequests \/ BossUnlockRequests \/ PostTasks
  <2>1. PICK from \in Submitting, to \in Submitting \union {"waitAsw"} : Goto(Boss, from, to)
    BY <1>7 DEF BossLockRequests, BossUnlockRequests, PostTasks, SemWait, SemPost, Submitting
  <2>2. B = 0 /\ B' = 0
    BY <1>0, <2>1 DEF Goto, BossIn, Submitting, Collecting
  <2>3. /\ sem'["tasks"] + sent <= sem["tasks"] + sent' /\ sem'["slots"] = sem["slots"]
        /\ sem'["asw"] = sem["asw"] /\ got' = got
    BY <1>0, <1>7 DEF BossLockRequests, BossUnlockRequests, PostTasks, SemWait, SemPost, SemAt, BossSame, tally
  <2> QED BY <1>0, <1>4, <2>1, <2>2, <2>3
<1>8. CASE BossWaitAsw \/ BossLockAnswers \/ BossUnlockAnswers \/ PostSlots
  <2>1. PICK from \in Collecting, to \in Collecting \union {"dropRings"} : Goto(Boss, from, to)
    BY <1>8 DEF BossWaitAsw, BossLockAnswers, BossUnlockAnswers, PostSlots, SemWait, SemPost, Collecting
  <2>2. B = (IF pc[Boss] = "waitAsw" THEN 0 ELSE 1) /\ B' = IF pc'[Boss] \in {"waitAsw", "dropRings"} THEN 0 ELSE 1
    BY <1>0, <2>1 DEF Goto, BossIn, Collecting
  <2>3. /\ sem'["tasks"] = sem["tasks"] /\ sent' = sent /\ sem'["slots"] + got <= sem["slots"] + got'
        /\ sem'["asw"] + B' + got' <= sem["asw"] + B + got
    BY <1>0, <1>8, <2>2 DEF BossWaitAsw, BossLockAnswers, BossUnlockAnswers, PostSlots, SemWait, SemPost, SemAt,
      BossSame, tally, Goto
  <2> QED BY <1>0, <1>4, <2>1, <2>3
<1>9. CASE BossStore \/ BossAdvance \/ BossLoad \/ BossShift \/ DropRings \/ KillAllWorkers \/ DropSemaphores
  <2>1. PICK from \in BossPC, to \in BossPC :
          /\ Goto(Boss, from, to) /\ UNCHANGED <<sem, tally>>
          /\ from \in Collecting \ {"waitAsw"} <=> to \in Collecting \ {"waitAsw"}
    <3>1. CASE BossStore \/ BossAdvance
      <4>1. PICK from \in Submitting, to \in Submitting : Goto(Boss, from, to) /\ UNCHANGED <<sem, tally>>
        BY <3>1 DEF BossStore, Store, BossAdvance, Advance, Submitting
      <4> QED BY <4>1 DEF Submitting, Collecting, BossPC
    <3>2. CASE BossLoad \/ BossShift
      <4>1. PICK from \in Collecting \ {"waitAsw"}, to \in Collecting \ {"waitAsw"} :
              Goto(Boss, from, to) /\ UNCHANGED <<sem, tally>>
        BY <3>2 DEF BossLoad, Load, BossShift, Shift, Collecting
      <4> QED BY <4>1 DEF Collecting, BossPC
    <3>3. CASE DropRings \/ KillAllWorkers \/ DropSemaphores
      <4>1. PICK from \in Ending, to \in Ending : Goto(Boss, from, to) /\ UNCHANGED <<sem, tally>>
        BY <3>3 DEF DropRings, KillAllWorkers, DropSemaphores, Unlink, Ending
      <4> QED BY <4>1 DEF Ending, Collecting, BossPC
    <3> QED BY <1>9, <3>1, <3>2, <3>3
  <2>2. B' = B
    BY <1>0, <2>1 DEF Goto, BossIn, Collecting
  <2>3. sem'["tasks"] + sent <= sem["tasks"] + sent' /\ sem'["slots"] + got <= sem["slots"] + got'
        /\ sem'["asw"] + B' + got' <= sem["asw"] + B + got
    BY <1>0, <1>3, <2>1, <2>2 DEF tally
  <2> QED BY <1>4, <2>1, <2>3
<1> QED BY <1>6, <1>7, <1>8, <1>9 DEF BossNext

-----------------------------------------------------------------------------
(* Where the tasks are.                                                    *)

(* The count of a set of workers is positive when one of them is in it. *)
LEMMA SomeoneAt ==
  ASSUME NEW S, NEW w \in Workers, pc[w] \in S PROVE Cardinality(At(S)) \in Nat /\ Cardinality(At(S)) >= 1
<1>1. At(S) \in SUBSET Workers /\ {w} \in SUBSET At(S)
  BY DEF At
<1>2. IsFiniteSet(At(S)) /\ Cardinality(At(S)) \in Nat
  BY <1>1, FarmAssumption, FS_Subset, FS_CardinalityType
<1>3. Cardinality({w}) = 1
  BY FS_Singleton
<1>4. Cardinality({w}) <= Cardinality(At(S))
  BY <1>1, <1>2, FS_Subset
<1> QED BY <1>2, <1>3, <1>4

(* Place and Slot are ring positions; a position advances modulo the capacity. *)
LEMMA Positions ==
  /\ \A k \in Nat : Place(k) \in 0 .. NTasks - 1 /\ (Place(k) + 1) % NTasks = Place(k + 1)
  /\ \A k \in 0 .. NTasks - 1 : Place(k) = k
  /\ \A k \in Nat : Slot(k) \in 0 .. NSlots - 1 /\ (Slot(k) + 1) % NSlots = Slot(k + 1)
  /\ \A j, k \in Nat : j < k /\ k < j + NSlots => Slot(j) # Slot(k)
<1>1. ASSUME NEW k \in Nat PROVE k % NTasks \in 0 .. NTasks - 1 /\ k % NSlots \in 0 .. NSlots - 1
  BY FarmAssumption
<1>2. ASSUME NEW k \in Nat
      PROVE  ((k % NTasks) + 1) % NTasks = (k + 1) % NTasks /\ ((k % NSlots) + 1) % NSlots = (k + 1) % NSlots
  BY FarmAssumption, ModNext
<1>3. ASSUME NEW k \in 0 .. NTasks - 1 PROVE k % NTasks = k
  BY FarmAssumption
<1>4. ASSUME NEW j \in Nat, NEW k \in Nat, j < k, k < j + NSlots PROVE j % NSlots # k % NSlots
  BY <1>4, FarmAssumption, ModApart
<1> QED BY <1>1, <1>2, <1>3, <1>4 DEF Place, Slot

(* The task a worker loads is the next one the boss stored. *)
LEMMA LoadsNext ==
  ASSUME TypeOK, NEW taken \in Nat, NEW put \in Nat, NEW ans, Counts(taken, put, ans), RequestsRing(taken),
         NEW w \in Workers, WorkerLoad(w)
  PROVE  task'[w] = [worker |-> NoWorker, query |-> taken]
<1>0. w \in Procs /\ sent \in 0 .. NTasks /\ sem["tasks"] \in Nat /\ task \in [Procs -> Task] /\ NTasks \in Nat
  BY FarmAssumption DEF TypeOK, Procs, Semaphores
<1>1. pc[w] = "load"
  BY DEF WorkerLoad, Load, Goto
<1>2. taken < sent
  <2>1. Cardinality(At(Taking)) \in Nat /\ Cardinality(At(Taking)) >= 1
    BY <1>1, SomeoneAt DEF Taking
  <2> QED BY <1>0, <2>1 DEF Counts
<1>3. ring["requests"].tail = taken
  BY <1>0, <1>2, Positions DEF RequestsRing
<1>4. ring["requests"].data[taken] = [worker |-> NoWorker, query |-> taken]
  <2>1. taken \in 0 .. sent + BossIn({"advance", "unlockRequests", "postTasks"}) - 1
    BY <1>0, <1>2 DEF BossIn
  <2> QED BY <2>1 DEF RequestsRing
<1> QED BY <1>0, <1>3, <1>4 DEF WorkerLoad, Load

(* Where the tasks are, for every step of a worker but those that move a task *)
(* between a ring and the worker's hands.                                      *)
LEMMA TasksWorker ==
  ASSUME TypeOK, NEW taken \in Nat, NEW put \in Nat, NEW ans \in [Nat -> Task], Tasks(taken, put, ans),
         Counts(taken, put, ans), RequestsRing(taken),
         NEW w \in Workers, Launch(w) \/ WorkerStep(w), ~WorkerShift(w), ~WorkerAdvance(w)
  PROVE  Tasks(taken, put, ans)'
<1>0. w \in Procs /\ w # Boss /\ pc \in [Procs -> BossPC \union WorkerPC] /\ task \in [Procs -> Task]
  BY FarmAssumption DEF TypeOK, Procs
<1>1. \A v \in Workers \ {w} : pc'[v] = pc[v] /\ task'[v] = task[v]
  BY WorkerMoves
<1>2. ASSUME pc'[w] \in Solving => pc[w] \in Solving /\ task'[w].query = task[w].query,
             pc'[w] \in Solved => task'[w].worker = w,
             pc'[w] = "shift" => task'[w].query = taken
      PROVE  Tasks(taken, put, ans)'
  BY <1>1, <1>2 DEF Tasks
<1>3. CASE Launch(w) \/ Segfault(w) \/ TermHandler(w)
  <2>1. pc'[w] \in {"requests", "crashed", "exited"}
    BY <1>0, <1>3 DEF Launch, Segfault, TermHandler, WorkerGoto, Goto, Objects
  <2> QED BY <1>2, <2>1 DEF Solving, Solved
<1>4. CASE Open(w)
  <2>1. pc'[w] \in Opening \union {"waitTasks", "exited"}
    <3>1. PICK k \in DOMAIN Objects :
            Goto(w, Objects[k], IF Objects[k] \in Rings \ named THEN "exited"
                                ELSE IF k < Len(Objects) THEN Objects[k + 1] ELSE "waitTasks")
      BY <1>4 DEF Open
    <3>2. k < Len(Objects) => Objects[k + 1] \in Rings \union Semaphores
      BY Tables
    <3> QED BY <1>0, <3>1, <3>2 DEF Goto, Opening, Rings, Semaphores
  <2> QED BY <1>2, <2>1 DEF Solving, Solved, Opening
<1>5. CASE WorkerWaitTasks(w) \/ WorkerLockRequests(w) \/ WorkerUnlockAnswers(w) \/ WorkerPostAsw(w)
  <2>1. pc'[w] \in {"lockRequests", "load", "postAsw", "waitTasks"}
    BY <1>0, <1>5 DEF WorkerWaitTasks, WorkerLockRequests, WorkerUnlockAnswers, WorkerPostAsw, SemWait, SemPost, Goto
  <2> QED BY <1>2, <2>1 DEF Solving, Solved
<1>6. CASE WorkerWaitSlots(w) \/ WorkerLockAnswers(w) \/ WorkerStore(w)
  <2>1. pc[w] \in Solved /\ pc'[w] \in Solved /\ task' = task
    BY <1>0, <1>6 DEF WorkerWaitSlots, WorkerLockAnswers, WorkerStore, SemWait, Store, Goto, Solved, WorkerSame
  <2> QED BY <1>2, <2>1 DEF Solving, Solved, Tasks
<1>7. CASE UnlockAndSolve(w)
  <2>1. pc[w] = "unlockRequests" /\ pc'[w] = "waitSlots" /\ task' = [task EXCEPT ![w].worker = w]
    BY <1>0, <1>7 DEF UnlockAndSolve, SemPost, Goto
  <2>2. task'[w].query = task[w].query /\ task'[w].worker = w
    BY <1>0, <2>1 DEF Task
  <2> QED BY <1>2, <2>1, <2>2 DEF Solving, Solved
<1>8. CASE WorkerLoad(w)
  <2>1. pc'[w] = "shift" /\ task'[w].query = taken
    <3>1. task'[w] = [worker |-> NoWorker, query |-> taken]
      BY <1>8, LoadsNext
    <3> QED BY <1>0, <1>8, <3>1 DEF WorkerLoad, Load, Goto
  <2> QED BY <1>2, <2>1 DEF Solving, Solved
<1> QED BY <1>3, <1>4, <1>5, <1>6, <1>7, <1>8 DEF WorkerStep

(* A worker takes the next task off the requests ring. *)
LEMMA TasksShift ==
  ASSUME TypeOK, Mutex("requests"), NEW taken \in Nat, NEW put \in Nat, NEW ans \in [Nat -> Task],
         Tasks(taken, put, ans), NEW w \in Workers, WorkerShift(w)
  PROVE  Tasks(taken + 1, put, ans)'
<1>0. w \in Procs /\ w # Boss /\ pc \in [Procs -> BossPC \union WorkerPC] /\ task \in [Procs -> Task]
  BY FarmAssumption DEF TypeOK, Procs
<1>1. pc[w] = "shift" /\ pc' = [pc EXCEPT ![w] = "unlockRequests"] /\ task' = task
  BY DEF WorkerShift, Shift, Goto
<1>2. \A v \in Workers \ {w} : v \in Procs /\ pc'[v] = pc[v] /\ pc[v] # "shift"
  <2>1. ASSUME NEW v \in Workers \ {w}, pc[v] = "shift" PROVE FALSE
    <3>1. v \in Procs /\ v # Boss
      BY FarmAssumption DEF Procs
    <3>2. Uses(v, "requests") /\ Uses(w, "requests")
      BY <1>0, <1>1, <2>1, <3>1 DEF Uses, UsesRequests
    <3> QED BY <1>0, <3>1, <3>2 DEF Mutex
  <2> QED BY <1>0, <1>1, <2>1 DEF Procs
<1>3. pc'[w] = "unlockRequests" /\ task[w].query = taken
  BY <1>0, <1>1 DEF Tasks
<1>4. /\ \A k \in 0 .. put - 1 : ans[k].query \in Nat
      /\ \A v \in Workers : task[v].query \in Nat
  <2>1. \A t \in Task : t.query \in Nat
    BY DEF Task, Queries
  <2> QED BY <1>0, <2>1 DEF Procs
<1> QED BY <1>1, <1>2, <1>3, <1>4 DEF Tasks, Solving, Solved

(* A worker's task becomes the next answer. *)
LEMMA TasksAdvance ==
  ASSUME TypeOK, NEW taken \in Nat, NEW put \in Nat, NEW ans \in [Nat -> Task], Tasks(taken, put, ans),
         NEW w \in Workers, WorkerAdvance(w), NEW t, t = task[w]
  PROVE  Tasks(taken, put + 1, [ans EXCEPT ![put] = t])'
<1> DEFINE new == [ans EXCEPT ![put] = t]
<1>0. w \in Procs /\ w # Boss /\ pc \in [Procs -> BossPC \union WorkerPC] /\ task \in [Procs -> Task]
  BY FarmAssumption DEF TypeOK, Procs
<1>1. pc[w] = "advance" /\ pc' = [pc EXCEPT ![w] = "unlockAnswers"] /\ task' = task
  BY DEF WorkerAdvance, Advance, Goto
<1>2. (\A v \in Workers \ {w} : pc'[v] = pc[v]) /\ pc'[w] = "unlockAnswers"
  BY <1>0, <1>1 DEF Procs
<1>3. t.query < taken /\ t.worker = w /\ (\A k \in 0 .. put - 1 : ans[k].query # t.query)
      /\ \A v \in Workers \ {w} : pc[v] \in Solving => task[v].query # t.query
  BY <1>1 DEF Tasks, Solving, Solved
<1>4. \A k \in 0 .. (put + 1) - 1 : (k \in 0 .. put - 1 /\ new[k] = ans[k]) \/ (k = put /\ new[k] = t)
  OBVIOUS
<1> HIDE DEF new
<1>5. Tasks(taken, put + 1, new)'
  <2>1. \A k \in 0 .. (put + 1) - 1 : new[k].query < taken /\ new[k].worker \in Workers
    BY <1>3, <1>4 DEF Tasks
  <2>2. \A j, k \in 0 .. (put + 1) - 1 : new[j].query = new[k].query => j = k
    BY <1>3, <1>4 DEF Tasks
  <2>3. \A v \in Workers : pc'[v] \in Solving \union Solved \union {"shift"} => v # w /\ pc'[v] = pc[v]
    BY <1>2 DEF Solving, Solved
  <2>4. \A v \in Workers : pc'[v] \in Solving =>
          /\ task[v].query < taken
          /\ \A k \in 0 .. (put + 1) - 1 : new[k].query # task[v].query
          /\ \A u \in Workers : pc'[u] \in Solving /\ task[u].query = task[v].query => u = v
    BY <1>3, <1>4, <2>3 DEF Tasks
  <2>5. \A v \in Workers : (pc'[v] \in Solved => task[v].worker = v) /\ (pc'[v] = "shift" => task[v].query = taken)
    BY <2>3 DEF Tasks
  <2> QED BY <1>1, <2>1, <2>2, <2>4, <2>5 DEF Tasks
<1> QED BY <1>5 DEF new

(* The boss's own statements leave the tasks where they are. *)
LEMMA TasksBoss ==
  ASSUME TypeOK, NEW taken, NEW put, NEW ans, Tasks(taken, put, ans), BossNext
  PROVE  Tasks(taken, put, ans)'
<1>1. \A v \in Workers : pc'[v] = pc[v] /\ task'[v] = task[v]
  BY BossMoves
<1> QED BY <1>1 DEF Tasks

-----------------------------------------------------------------------------
(* What the rings hold, and the tally.                                     *)

(* The requests ring holds the tasks that were stored and not yet taken. *)
LEMMA RequestsBoss ==
  ASSUME TypeOK, LoopsBounded, NEW taken \in Nat, RequestsRing(taken), BossNext
  PROVE  RequestsRing(taken)'
<1>0. Boss \in Procs /\ pc \in [Procs -> BossPC \union WorkerPC] /\ sent \in 0 .. NTasks /\ NTasks \in Nat \ {0}
      /\ DOMAIN ring = Rings /\ "requests" \in Rings /\ ring["requests"] \in SBuffer(NTasks)
  BY FarmAssumption DEF TypeOK, Procs, Rings, Cap
<1>1. CASE BossStore
  <2>1. /\ pc[Boss] = "store" /\ pc'[Boss] = "advance" /\ sent' = sent /\ sent < NTasks
        /\ ring' = [ring EXCEPT !["requests"].data[ring["requests"].head] = [worker |-> NoWorker, query |-> sent]]
    BY <1>0, <1>1 DEF BossStore, Store, Goto, LoopsBounded, tally
  <2>2. ring["requests"].head = sent
    BY <1>0, <2>1, Positions DEF RequestsRing, BossIn
  <2>3. \A k \in 0 .. sent - 1 : ring["requests"].data[k] = [worker |-> NoWorker, query |-> k]
    BY <1>0, <2>1 DEF RequestsRing, BossIn
  <2>4. /\ ring'["requests"].head = ring["requests"].head /\ ring'["requests"].tail = ring["requests"].tail
        /\ ring'["requests"].data = [ring["requests"].data EXCEPT ![sent] = [worker |-> NoWorker, query |-> sent]]
    BY <1>0, <2>1, <2>2 DEF SBuffer
  <2>5. \A k \in 0 .. sent : ring'["requests"].data[k] = [worker |-> NoWorker, query |-> k]
    BY <1>0, <2>1, <2>3, <2>4 DEF SBuffer
  <2> QED BY <1>0, <2>1, <2>4, <2>5 DEF RequestsRing, BossIn
<1>2. CASE BossAdvance
  <2>1. /\ pc[Boss] = "advance" /\ pc'[Boss] = "unlockRequests" /\ sent' = sent
        /\ ring' = [ring EXCEPT !["requests"].head = (@ + 1) % NTasks]
    BY <1>0, <1>2 DEF BossAdvance, Advance, Goto, tally, Cap
  <2>2. /\ ring'["requests"].data = ring["requests"].data /\ ring'["requests"].tail = ring["requests"].tail
        /\ ring'["requests"].head = (ring["requests"].head + 1) % NTasks
    BY <1>0, <2>1 DEF SBuffer
  <2>3. ring["requests"].head = Place(sent)
    BY <1>0, <2>1 DEF RequestsRing, BossIn
  <2>4. ring'["requests"].head = Place(sent + 1)
    BY <1>0, <2>2, <2>3, Positions
  <2> QED BY <1>0, <2>1, <2>2, <2>4 DEF RequestsRing, BossIn
<1>3. CASE PostTasks
  <2>1. pc[Boss] = "postTasks" /\ pc'[Boss] \in {"lockRequests", "waitAsw"} /\ sent' = sent + 1 /\ ring' = ring
    BY <1>0, <1>3 DEF PostTasks, SemPost, Goto
  <2> QED BY <1>0, <2>1 DEF RequestsRing, BossIn
<1>4. CASE BossUnlockRequests
  <2>1. pc[Boss] = "unlockRequests" /\ pc'[Boss] = "postTasks" /\ sent' = sent /\ ring' = ring
    BY <1>0, <1>4 DEF BossUnlockRequests, SemPost, Goto, BossSame, tally
  <2> QED BY <1>0, <2>1 DEF RequestsRing, BossIn
<1>5. CASE Create \/ BossLockRequests \/ BossWaitAsw \/ BossLockAnswers \/ BossLoad \/ BossShift
           \/ BossUnlockAnswers \/ PostSlots \/ DropRings \/ KillAllWorkers \/ DropSemaphores
  <2>1. pc[Boss] \notin {"advance", "unlockRequests", "postTasks"}
        /\ pc'[Boss] \notin {"advance", "unlockRequests", "postTasks"}
    BY <1>0, <1>5 DEF Create, BossLockRequests, BossWaitAsw, BossLockAnswers, BossLoad, Load, BossShift, Shift,
      BossUnlockAnswers, PostSlots, DropRings, KillAllWorkers, DropSemaphores, Unlink, SemWait, SemPost, Goto
  <2>2. sent' = sent /\ ring'["requests"] = ring["requests"]
    BY <1>0, <1>5 DEF Create, BossLockRequests, BossWaitAsw, BossLockAnswers, BossLoad, Load, BossShift, Shift,
      BossUnlockAnswers, PostSlots, DropRings, KillAllWorkers, DropSemaphores, Unlink, SemWait, SemPost, BossSame, tally
  <2> QED BY <1>0, <2>1, <2>2 DEF RequestsRing, BossIn
<1> QED BY <1>1, <1>2, <1>3, <1>4, <1>5 DEF BossNext

(* A worker that takes a task advances the tail. *)
LEMMA RequestsShift ==
  ASSUME TypeOK, NEW taken \in Nat, RequestsRing(taken), NEW w \in Workers, WorkerShift(w)
  PROVE  RequestsRing(taken + 1)'
<1>0. DOMAIN ring = Rings /\ "requests" \in Rings /\ ring["requests"] \in SBuffer(NTasks)
  BY DEF TypeOK, Rings, Cap
<1>1. /\ pc'[Boss] = pc[Boss] /\ sent' = sent
      /\ ring' = [ring EXCEPT !["requests"].tail = (@ + 1) % NTasks]
  BY WorkerMoves DEF WorkerStep, WorkerShift, Shift, Cap, tally
<1>2. /\ ring'["requests"].data = ring["requests"].data /\ ring'["requests"].head = ring["requests"].head
      /\ ring'["requests"].tail = (ring["requests"].tail + 1) % NTasks
  BY <1>0, <1>1 DEF SBuffer
<1>3. ring'["requests"].tail = Place(taken + 1)
  BY <1>2, Positions DEF RequestsRing
<1> QED BY <1>1, <1>2, <1>3 DEF RequestsRing, BossIn

(* The other statements of a worker do not touch the requests ring. *)
LEMMA RequestsWorker ==
  ASSUME TypeOK, NEW taken \in Nat, RequestsRing(taken), NEW w \in Workers, Launch(w) \/ WorkerStep(w),
         ~WorkerShift(w)
  PROVE  RequestsRing(taken)'
<1>0. DOMAIN ring = Rings
  BY DEF TypeOK
<1>1. pc'[Boss] = pc[Boss] /\ sent' = sent
  BY WorkerMoves DEF tally
<1>2. ring'["requests"] = ring["requests"]
  BY <1>0 DEF Launch, WorkerStep, WorkerGoto, Open, Segfault, WorkerWaitTasks, WorkerLockRequests,
         WorkerLoad, Load, UnlockAndSolve, WorkerWaitSlots, WorkerLockAnswers,
         WorkerStore, Store, WorkerAdvance, Advance, WorkerUnlockAnswers, WorkerPostAsw,
         TermHandler, SemWait, SemPost, Rings
<1> QED BY <1>1, <1>2 DEF RequestsRing, BossIn

(* The answers ring holds the answers that were put and not yet consumed. *)
LEMMA AnswersBoss ==
  ASSUME TypeOK, NEW put \in Nat, NEW ans, AnswersRing(put, ans), BossNext
  PROVE  AnswersRing(put, ans)'
<1>0. Boss \in Procs /\ pc \in [Procs -> BossPC \union WorkerPC] /\ got \in Nat
      /\ DOMAIN ring = Rings /\ "answers" \in Rings /\ ring["answers"] \in SBuffer(NSlots)
  BY FarmAssumption DEF TypeOK, Procs, Rings, Cap
<1>1. \A v \in Workers : pc'[v] = pc[v] /\ task'[v] = task[v]
  BY BossMoves
<1>2. CASE BossShift
  <2>1. /\ pc[Boss] = "shift" /\ pc'[Boss] = "unlockAnswers" /\ got' = got
        /\ ring' = [ring EXCEPT !["answers"].tail = (@ + 1) % NSlots]
    BY <1>0, <1>2 DEF BossShift, Shift, Goto, tally, Cap
  <2>2. /\ ring'["answers"].data = ring["answers"].data /\ ring'["answers"].head = ring["answers"].head
        /\ ring'["answers"].tail = (ring["answers"].tail + 1) % NSlots
    BY <1>0, <2>1 DEF SBuffer
  <2>3. Consumed = got /\ Consumed' = got + 1
    BY <1>0, <2>1 DEF Consumed, BossIn
  <2>4. ring'["answers"].tail = Slot(got + 1)
    BY <1>0, <2>2, <2>3, Positions DEF AnswersRing
  <2>5. \A k \in got + 1 .. put - 1 : ring["answers"].data[Slot(k)] = ans[k]
    BY <1>0, <2>3 DEF AnswersRing
  <2> QED BY <1>1, <2>2, <2>3, <2>4, <2>5 DEF AnswersRing
<1>3. CASE ~BossShift
  <2>1. Consumed' = Consumed
    <3>1. CASE PostSlots
      <4>1. pc[Boss] = "postSlots" /\ pc'[Boss] \in {"waitAsw", "dropRings"} /\ got' = got + 1
        BY <1>0, <3>1 DEF PostSlots, SemPost, Goto
      <4> QED BY <1>0, <4>1 DEF Consumed, BossIn
    <3>2. CASE BossUnlockAnswers
      <4>1. pc[Boss] = "unlockAnswers" /\ pc'[Boss] = "postSlots" /\ got' = got
        BY <1>0, <3>2 DEF BossUnlockAnswers, SemPost, Goto, BossSame, tally
      <4> QED BY <1>0, <4>1 DEF Consumed, BossIn
    <3>3. CASE Create \/ BossLockRequests \/ BossStore \/ BossAdvance \/ BossUnlockRequests \/ PostTasks
               \/ BossWaitAsw \/ BossLockAnswers \/ BossLoad \/ DropRings \/ KillAllWorkers \/ DropSemaphores
      <4>1. pc[Boss] \notin {"unlockAnswers", "postSlots"} /\ pc'[Boss] \notin {"unlockAnswers", "postSlots"}
        BY <1>0, <3>3 DEF Create, BossLockRequests, BossStore, Store, BossAdvance, Advance, BossUnlockRequests,
          PostTasks, BossWaitAsw, BossLockAnswers, BossLoad, Load, DropRings, KillAllWorkers, DropSemaphores,
          Unlink, SemWait, SemPost, Goto
      <4>2. got' = got
        BY <1>0, <3>3 DEF Create, BossLockRequests, BossStore, Store, BossAdvance, Advance, BossUnlockRequests,
          PostTasks, BossWaitAsw, BossLockAnswers, BossLoad, Load, DropRings, KillAllWorkers, DropSemaphores,
          Unlink, BossSame, tally
      <4> QED BY <4>1, <4>2 DEF Consumed, BossIn
    <3> QED BY <1>3, <3>1, <3>2, <3>3 DEF BossNext
  <2>2. ring'["answers"] = ring["answers"]
    BY <1>0, <1>3 DEF BossNext, Create, BossLockRequests, BossStore, Store, BossAdvance, Advance,
       BossUnlockRequests, PostTasks, BossWaitAsw, BossLockAnswers, BossLoad, Load, BossUnlockAnswers, PostSlots,
       DropRings, KillAllWorkers, DropSemaphores, Unlink, SemWait, SemPost, Rings
  <2> QED BY <1>1, <2>1, <2>2 DEF AnswersRing
<1> QED BY <1>2, <1>3

(* A worker stores into a free slot: no unread answer is overwritten. *)
LEMMA AnswersStore ==
  ASSUME TypeOK, Mutex("answers"), NEW taken \in Nat, NEW put \in Nat, NEW ans, Counts(taken, put, ans),
         AnswersRing(put, ans), NEW w \in Workers, WorkerStore(w)
  PROVE  AnswersRing(put, ans)'
<1>0. w \in Procs /\ w # Boss /\ Boss \in Procs /\ pc \in [Procs -> BossPC \union WorkerPC] /\ got \in Nat
      /\ DOMAIN ring = Rings /\ "answers" \in Rings /\ ring["answers"] \in SBuffer(NSlots)
      /\ sem["slots"] \in Nat /\ NSlots \in Nat \ {0}
  BY FarmAssumption DEF TypeOK, Procs, Rings, Cap, Semaphores
<1>1. /\ pc[w] = "store" /\ pc' = [pc EXCEPT ![w] = "advance"] /\ task' = task /\ got' = got
      /\ ring' = [ring EXCEPT !["answers"].data[ring["answers"].head] = task[w]]
  BY DEF WorkerStore, Store, Goto, tally
<1>2. ring["answers"].head = Slot(put) /\ Slot(put) \in 0 .. NSlots - 1
  BY Positions DEF AnswersRing
<1>3. /\ ring'["answers"].head = ring["answers"].head /\ ring'["answers"].tail = ring["answers"].tail
      /\ ring'["answers"].data = [ring["answers"].data EXCEPT ![Slot(put)] = task[w]]
      /\ ring["answers"].data \in [0 .. NSlots - 1 -> Task]
  BY <1>0, <1>1, <1>2 DEF SBuffer
<1>4. Consumed' = Consumed /\ Consumed \in Nat /\ got <= Consumed
  BY <1>0, <1>1 DEF Consumed, BossIn
<1>5. put < Consumed + NSlots
  <2>1. Cardinality(At(Filling)) \in Nat /\ Cardinality(At(Filling)) >= 1
    BY <1>1, SomeoneAt DEF Filling
  <2> QED BY <1>0, <1>4, <2>1 DEF Counts
<1>6. ASSUME NEW k \in Consumed .. put - 1 PROVE ring'["answers"].data[Slot(k)] = ans[k]
  <2>1. k \in Nat /\ k < put /\ put < k + NSlots
    BY <1>0, <1>4, <1>5
  <2>2. Slot(k) # Slot(put) /\ Slot(k) \in 0 .. NSlots - 1
    BY <2>1, Positions
  <2> QED BY <1>3, <2>2 DEF AnswersRing
<1>7. ASSUME NEW v \in Workers, pc'[v] = "advance" PROVE v = w
  <2>1. v \in Procs /\ v # Boss
    BY FarmAssumption DEF Procs
  <2>2. ASSUME v # w PROVE FALSE
    <3>1. Uses(v, "answers") /\ Uses(w, "answers")
      BY <1>0, <1>1, <1>7, <2>1, <2>2 DEF Uses, UsesAnswers
    <3> QED BY <1>0, <2>1, <2>2, <3>1 DEF Mutex
  <2> QED BY <2>2
<1>8. ring'["answers"].data[Slot(put)] = task[w]
  BY <1>2, <1>3
<1> QED BY <1>1, <1>2, <1>3, <1>4, <1>6, <1>7, <1>8 DEF AnswersRing

(* The other statements of a worker before the head advances. *)
LEMMA AnswersWorker ==
  ASSUME TypeOK, NEW put \in Nat, NEW ans, AnswersRing(put, ans),
         NEW w \in Workers, Launch(w) \/ WorkerStep(w), ~WorkerStore(w), ~WorkerAdvance(w)
  PROVE  AnswersRing(put, ans)'
<1>0. w \in Procs /\ w # Boss /\ pc \in [Procs -> BossPC \union WorkerPC] /\ DOMAIN ring = Rings
  BY FarmAssumption DEF TypeOK, Procs
<1>1. /\ pc'[Boss] = pc[Boss] /\ got' = got
      /\ \A v \in Workers \ {w} : pc'[v] = pc[v] /\ task'[v] = task[v]
  BY WorkerMoves DEF tally
<1>2. ring'["answers"] = ring["answers"]
  BY <1>0 DEF Launch, WorkerStep, WorkerGoto, Open, Segfault, WorkerWaitTasks, WorkerLockRequests,
         WorkerLoad, Load, WorkerShift, Shift, UnlockAndSolve, WorkerWaitSlots, WorkerLockAnswers,
         WorkerUnlockAnswers, WorkerPostAsw, TermHandler, SemWait, SemPost, Rings
<1>3. pc'[w] # "advance"
  <2>1. CASE Open(w)
    <3>1. PICK k \in DOMAIN Objects :
            Goto(w, Objects[k], IF Objects[k] \in Rings \ named THEN "exited"
                                ELSE IF k < Len(Objects) THEN Objects[k + 1] ELSE "waitTasks")
      BY <2>1 DEF Open
    <3>2. k < Len(Objects) => Objects[k + 1] \in Rings \union Semaphores
      BY Tables
    <3> QED BY <1>0, <3>1, <3>2 DEF Goto, Rings, Semaphores
  <2>2. CASE ~Open(w)
    BY <1>0, <2>2 DEF Launch, WorkerStep, WorkerGoto, Segfault, WorkerWaitTasks, WorkerLockRequests,
         WorkerLoad, Load, WorkerShift, Shift, UnlockAndSolve, WorkerWaitSlots, WorkerLockAnswers,
         WorkerUnlockAnswers, WorkerPostAsw, TermHandler, SemWait, SemPost, Goto, Objects
  <2> QED BY <2>1, <2>2
<1> QED BY <1>1, <1>2, <1>3 DEF AnswersRing, Consumed, BossIn

(* A worker that advances the head publishes its answer. *)
LEMMA AnswersAdvance ==
  ASSUME TypeOK, Mutex("answers"), NEW put \in Nat, NEW ans \in [Nat -> Task], AnswersRing(put, ans),
         NEW w \in Workers, WorkerAdvance(w), NEW t, t = task[w]
  PROVE  AnswersRing(put + 1, [ans EXCEPT ![put] = t])'
<1> DEFINE new == [ans EXCEPT ![put] = t]
<1>0. w \in Procs /\ w # Boss /\ Boss \in Procs /\ pc \in [Procs -> BossPC \union WorkerPC] /\ got \in Nat
      /\ DOMAIN ring = Rings /\ "answers" \in Rings /\ ring["answers"] \in SBuffer(NSlots)
  BY FarmAssumption DEF TypeOK, Procs, Rings, Cap
<1>1. /\ pc[w] = "advance" /\ pc' = [pc EXCEPT ![w] = "unlockAnswers"] /\ got' = got
      /\ ring' = [ring EXCEPT !["answers"].head = (@ + 1) % NSlots]
  BY DEF WorkerAdvance, Advance, Goto, tally, Cap
<1>2. /\ ring'["answers"].data = ring["answers"].data /\ ring'["answers"].tail = ring["answers"].tail
      /\ ring'["answers"].head = (ring["answers"].head + 1) % NSlots
  BY <1>0, <1>1 DEF SBuffer
<1>3. ring'["answers"].head = Slot(put + 1)
  BY <1>2, Positions DEF AnswersRing
<1>4. Consumed' = Consumed /\ Consumed \in Nat
  BY <1>0, <1>1 DEF Consumed, BossIn
<1>5. \A k \in Consumed .. (put + 1) - 1 : (k \in Consumed .. put - 1 /\ new[k] = ans[k]) \/ (k = put /\ new[k] = t)
  BY <1>4
<1> HIDE DEF new
<1>6. ring["answers"].data[Slot(put)] = t
  BY <1>1 DEF AnswersRing
<1>7. ASSUME NEW v \in Workers, pc'[v] = "advance" PROVE FALSE
  <2>1. v \in Procs /\ v # Boss /\ v # w
    BY <1>0, <1>1, <1>7, FarmAssumption DEF Procs
  <2>2. Uses(v, "answers") /\ Uses(w, "answers")
    BY <1>0, <1>1, <1>7, <2>1 DEF Uses, UsesAnswers
  <2> QED BY <1>0, <2>1, <2>2 DEF Mutex
<1>8. AnswersRing(put + 1, new)'
  BY <1>2, <1>3, <1>4, <1>5, <1>6, <1>7 DEF AnswersRing
<1> QED BY <1>8 DEF new

(* The boss's tally is the first got answers, in the order of the ring. *)
LEMMA TallyBoss ==
  ASSUME TypeOK, NEW taken \in Nat, NEW put \in Nat, NEW ans \in [Nat -> Task], Counts(taken, put, ans),
         AnswersRing(put, ans), Tally(ans), BossNext
  PROVE  Tally(ans)'
<1>0. Boss \in Procs /\ pc \in [Procs -> BossPC \union WorkerPC] /\ got \in Nat /\ task \in [Procs -> Task]
      /\ sem["asw"] \in Nat
  BY FarmAssumption DEF TypeOK, Procs, Semaphores
<1>1. CASE BossLoad
  <2>1. /\ pc[Boss] = "load" /\ pc'[Boss] = "shift" /\ UNCHANGED <<got, collected, sigterm>>
        /\ task'[Boss] = ring["answers"].data[ring["answers"].tail]
    BY <1>0, <1>1 DEF BossLoad, Load, Goto, tally
  <2>2. Consumed = got /\ got < put
    <3>1. Cardinality(Owing(put, ans)) \in Nat
      BY OwingFinite
    <3> QED BY <1>0, <2>1, <3>1 DEF Consumed, BossIn, Counts, Collecting
  <2>3. got \in Consumed .. put - 1
    BY <1>0, <2>2
  <2>4. task'[Boss] = ans[got]
    BY <2>1, <2>2, <2>3 DEF AnswersRing
  <2> QED BY <2>1, <2>4 DEF Tally
<1>2. CASE BossShift \/ BossUnlockAnswers
  <2>1. /\ pc[Boss] \in {"shift", "unlockAnswers"} /\ pc'[Boss] \in {"unlockAnswers", "postSlots"}
        /\ UNCHANGED <<got, collected, sigterm, task>>
    BY <1>0, <1>2 DEF BossShift, Shift, BossUnlockAnswers, SemPost, Goto, BossSame, tally
  <2> QED BY <2>1 DEF Tally
<1>3. CASE PostSlots
  <2>1. /\ pc[Boss] = "postSlots" /\ pc'[Boss] \in {"waitAsw", "dropRings"} /\ UNCHANGED <<sigterm, task>>
        /\ got' = got + 1 /\ collected' = collected \union {task[Boss]}
    BY <1>0, <1>3 DEF PostSlots, SemPost, Goto
  <2>2. task[Boss] = ans[got] /\ collected = {ans[k] : k \in 0 .. got - 1}
    BY <2>1 DEF Tally
  <2>3. collected' = {ans[k] : k \in 0 .. (got + 1) - 1}
    <3>1. \A k : k \in 0 .. (got + 1) - 1 <=> k \in 0 .. got - 1 \/ k = got
      BY <1>0
    <3> QED BY <2>1, <2>2, <3>1
  <2>4. sigterm' \subseteq {t.worker : t \in collected'}
    BY <2>1 DEF Tally
  <2> QED BY <2>1, <2>3, <2>4 DEF Tally
<1>4. CASE KillAllWorkers
  <2>1. /\ pc'[Boss] = "dropSems" /\ UNCHANGED <<got, collected, task>>
        /\ sigterm' = sigterm \union {t.worker : t \in collected}
    BY <1>0, <1>4 DEF KillAllWorkers, Goto, tally
  <2> QED BY <2>1 DEF Tally
<1>5. CASE Create \/ BossLockRequests \/ BossStore \/ BossAdvance \/ BossUnlockRequests \/ PostTasks
               \/ BossWaitAsw \/ BossLockAnswers \/ DropRings \/ DropSemaphores
  <2>1. pc'[Boss] \notin {"shift", "unlockAnswers", "postSlots"}
    BY <1>0, <1>5 DEF Create, BossLockRequests, BossStore, Store, BossAdvance, Advance, BossUnlockRequests,
      PostTasks, BossWaitAsw, BossLockAnswers, DropRings, DropSemaphores, Unlink, SemWait, SemPost, Goto
  <2>2. UNCHANGED <<got, collected, sigterm>>
    BY <1>5 DEF Create, BossLockRequests, BossStore, Store, BossAdvance, Advance, BossUnlockRequests,
      PostTasks, BossWaitAsw, BossLockAnswers, DropRings, DropSemaphores, Unlink, BossSame, tally
  <2> QED BY <2>1, <2>2 DEF Tally
<1> QED BY <1>1, <1>2, <1>3, <1>4, <1>5 DEF BossNext

(* A worker's step leaves the tally, whatever answer it adds behind it. *)
LEMMA TallyWorker ==
  ASSUME TypeOK, NEW taken \in Nat, NEW put \in Nat, NEW ans \in [Nat -> Task], Counts(taken, put, ans),
         Tally(ans), NEW w \in Workers, Launch(w) \/ WorkerStep(w), NEW t
  PROVE  Tally(ans)' /\ Tally([ans EXCEPT ![put] = t])'
<1>0. got \in Nat /\ sem["asw"] \in Nat
  BY DEF TypeOK, Semaphores
<1>1. UNCHANGED <<got, collected, sigterm>> /\ pc'[Boss] = pc[Boss] /\ task'[Boss] = task[Boss]
  BY WorkerMoves DEF tally
<1>2. got <= put /\ (pc[Boss] \in {"shift", "unlockAnswers", "postSlots"} => got < put)
  <2>1. Cardinality(Owing(put, ans)) \in Nat
    BY OwingFinite
  <2> QED BY <1>0, <2>1 DEF Counts, BossIn, Collecting
<1>3. \A k \in Nat : k < put => [ans EXCEPT ![put] = t][k] = ans[k]
  OBVIOUS
<1>4. {[ans EXCEPT ![put] = t][k] : k \in 0 .. got - 1} = {ans[k] : k \in 0 .. got - 1}
  BY <1>0, <1>2, <1>3
<1> QED BY <1>0, <1>1, <1>2, <1>3, <1>4 DEF Tally

-----------------------------------------------------------------------------
(* The books are kept.                                                     *)

(* In the initial state the books are empty. *)
LEMMA BooksInit == Init => Books(0, 0, [k \in Nat |-> ZeroTask])
<1> SUFFICES ASSUME Init PROVE Books(0, 0, [k \in Nat |-> ZeroTask])
  OBVIOUS
<1> DEFINE none == [k \in Nat |-> ZeroTask]
<1>0. /\ pc[Boss] = "setup" /\ \A w \in Workers : pc[w] = "off" /\ handles[w] = {}
      /\ sent = 0 /\ got = 0 /\ collected = {} /\ sigterm = {} /\ sem = [s \in Semaphores |-> 0]
  BY FarmAssumption DEF Init, Procs
<1>1. none \in [Nat -> Task]
  BY FarmAssumption DEF ZeroTask, Task, Queries
<1> HIDE DEF none
<1>2. Phases
  BY <1>0 DEF Phases, Opening, Ending, Semaphores
<1>3. Handles(0, none)
  BY <1>0 DEF Handles, Opening, Taking, Solving, Filling, Posting, Answered
<1>4. Counts(0, 0, none)
  <2>1. At(Taking) = {} /\ At(Filling) = {} /\ Owing(0, none) = {}
    BY <1>0 DEF At, Taking, Filling, Owing, Posting, Answered
  <2>2. Cardinality(At(Taking)) = 0 /\ Cardinality(At(Filling)) = 0 /\ Cardinality(Owing(0, none)) = 0
    BY <2>1, FS_EmptySet
  <2>3. sem["tasks"] = 0 /\ sem["slots"] = 0 /\ sem["asw"] = 0 /\ BossIn(Collecting \ {"waitAsw"}) = 0
    BY <1>0 DEF Semaphores, BossIn, Collecting
  <2> QED BY <1>0, <2>2, <2>3, FarmAssumption DEF Counts
<1>5. Tasks(0, 0, none)
  BY <1>0 DEF Tasks, Solving, Solved
<1>6. RequestsRing(0) /\ AnswersRing(0, none)
  <2>1. ring["requests"].head = 0 /\ ring["requests"].tail = 0 /\ ring["answers"].head = 0 /\ ring["answers"].tail = 0
    BY DEF Init, Rings
  <2>2. Place(0) = 0 /\ Slot(0) = 0
    BY FarmAssumption DEF Place, Slot
  <2>3. BossIn({"unlockRequests", "postTasks"}) = 0 /\ BossIn({"unlockAnswers", "postSlots"}) = 0
        /\ BossIn({"advance", "unlockRequests", "postTasks"}) = 0
    BY <1>0 DEF BossIn
  <2> QED BY <1>0, <2>1, <2>2, <2>3 DEF RequestsRing, AnswersRing, Consumed
<1>7. Tally(none)
  BY <1>0 DEF Tally
<1> QED BY <1>1, <1>2, <1>3, <1>4, <1>5, <1>6, <1>7 DEF Books, none

(* A step that changes nothing. *)
LEMMA BooksStutter ==
  ASSUME NEW taken, NEW put, NEW ans, Books(taken, put, ans), UNCHANGED vars PROVE Books(taken, put, ans)'
<1> SUFFICES Handles(put, ans)' /\ Counts(taken, put, ans)' /\ Tasks(taken, put, ans)' /\ RequestsRing(taken)'
             /\ AnswersRing(put, ans)' /\ Tally(ans)' /\ Phases'
  BY DEF Books
<1>1. UNCHANGED <<pc, sent, got, collected, ring, sem, named, handles, task, sigterm>>
  BY DEF vars, tally, opened
<1>2. Phases' /\ Handles(put, ans)' /\ Tasks(taken, put, ans)' /\ Tally(ans)'
  BY <1>1 DEF Books, Phases, Handles, Complete, Tasks, Tally
<1>3. At(Taking)' = At(Taking) /\ At(Filling)' = At(Filling) /\ Owing(put, ans)' = Owing(put, ans)
      /\ \A S : BossIn(S)' = BossIn(S)
  BY <1>1 DEF At, Owing, Complete, BossIn
<1>4. Counts(taken, put, ans)'
  BY <1>1, <1>3 DEF Books, Counts
<1>5. RequestsRing(taken)' /\ AnswersRing(put, ans)'
  BY <1>1, <1>3 DEF Books, RequestsRing, AnswersRing, Consumed
<1> QED BY <1>2, <1>4, <1>5

(* Every step keeps the books: a worker's shift counts a task taken, its      *)
(* advance an answer put, and the other steps leave both counts alone.        *)
LEMMA BooksStep ==
  ASSUME FarmInv, FarmInv', BooksKept, [Next]_vars PROVE BooksKept'
<1>0. TypeOK /\ TypeOK' /\ LoopsBounded /\ Mutex("requests") /\ Mutex("answers")
  BY DEF FarmInv, Rings
<1>1. PICK taken \in Nat, put \in Nat, ans \in [Nat -> Task] : Books(taken, put, ans)
  BY DEF BooksKept
<1>2. /\ Phases /\ Handles(put, ans) /\ Counts(taken, put, ans) /\ Tasks(taken, put, ans)
      /\ RequestsRing(taken) /\ AnswersRing(put, ans) /\ Tally(ans)
  BY <1>1 DEF Books
<1>3. Phases'
  BY <1>0, <1>2, PhasesKept
<1>4. CASE UNCHANGED vars
  BY <1>1, <1>4, BooksStutter DEF BooksKept
<1>5. CASE BossNext
  <2>1. Handles(put, ans)'
    BY <1>0, <1>2, <1>5, BossMoves DEF Handles, Complete
  <2>2. Counts(taken, put, ans)' /\ Tasks(taken, put, ans)'
    BY <1>0, <1>2, <1>5, CountsBoss, TasksBoss
  <2>3. RequestsRing(taken)' /\ AnswersRing(put, ans)' /\ Tally(ans)'
    BY <1>0, <1>2, <1>5, RequestsBoss, AnswersBoss, TallyBoss
  <2> QED BY <1>3, <2>1, <2>2, <2>3 DEF BooksKept, Books
<1>6. ASSUME NEW w \in Workers, Launch(w) \/ WorkerStep(w) PROVE BooksKept'
  <2>0. pc[w] # "advance" => ~WorkerAdvance(w)
    BY DEF WorkerAdvance, Advance, Goto
  <2>1. CASE WorkerShift(w)
    <3>1. ~WorkerAdvance(w) /\ ~WorkerStore(w)
      BY <2>0, <2>1 DEF WorkerShift, Shift, WorkerStore, Store, Goto
    <3>2. Handles(put, ans)' /\ Counts(taken + 1, put, ans)' /\ Tasks(taken + 1, put, ans)'
      BY <1>0, <1>2, <1>6, <2>1, <3>1, HandlesQuiet, CountsShift, TasksShift
    <3>3. RequestsRing(taken + 1)' /\ AnswersRing(put, ans)' /\ Tally(ans)'
      BY <1>0, <1>2, <1>6, <2>1, <3>1, RequestsShift, AnswersWorker, TallyWorker
    <3>4. taken + 1 \in Nat
      OBVIOUS
    <3> QED BY <1>3, <3>2, <3>3, <3>4 DEF BooksKept, Books
  <2>2. CASE WorkerAdvance(w)
    <3>1. pc[w] = "advance" /\ ~WorkerShift(w)
      BY <2>2 DEF WorkerAdvance, Advance, WorkerShift, Shift, Goto
    <3>2. PICK t \in Task : t = task[w] /\ t.worker = w
      BY <1>0, <1>2, <3>1 DEF Tasks, Solved, TypeOK, Procs
    <3>3. Handles(put + 1, [ans EXCEPT ![put] = t])'
      BY <1>0, <1>2, <2>2, <3>2, HandlesAdvance
    <3>4. Counts(taken, put + 1, [ans EXCEPT ![put] = t])'
      BY <1>0, <1>2, <2>2, <3>2, CountsAdvance
    <3>5. Tasks(taken, put + 1, [ans EXCEPT ![put] = t])' /\ AnswersRing(put + 1, [ans EXCEPT ![put] = t])'
      BY <1>0, <1>2, <2>2, <3>2, TasksAdvance, AnswersAdvance
    <3>6. RequestsRing(taken)' /\ Tally([ans EXCEPT ![put] = t])'
      BY <1>0, <1>2, <1>6, <3>1, RequestsWorker, TallyWorker
    <3>7. put + 1 \in Nat /\ [ans EXCEPT ![put] = t] \in [Nat -> Task]
      OBVIOUS
    <3> QED BY <1>3, <3>3, <3>4, <3>5, <3>6, <3>7 DEF BooksKept, Books
  <2>3. CASE ~WorkerShift(w) /\ ~WorkerAdvance(w)
    <3>1. Handles(put, ans)' /\ Counts(taken, put, ans)' /\ Tasks(taken, put, ans)'
      BY <1>0, <1>2, <1>6, <2>3, HandlesQuiet, CountsWorker, TasksWorker
    <3>2. AnswersRing(put, ans)'
      BY <1>0, <1>2, <1>6, <2>3, AnswersStore, AnswersWorker
    <3>3. RequestsRing(taken)' /\ Tally(ans)'
      BY <1>0, <1>2, <1>6, <2>3, RequestsWorker, TallyWorker
    <3> QED BY <1>3, <3>1, <3>2, <3>3 DEF BooksKept, Books
  <2> QED BY <2>1, <2>2, <2>3
<1> QED BY <1>4, <1>5, <1>6 DEF Next

(* In every reachable state the books explain rings, semaphores and tasks. *)
THEOREM Bookkeeping == Spec => []BooksKept
<1>1. Init => BooksKept
  <2>1. [k \in Nat |-> ZeroTask] \in [Nat -> Task]
    BY FarmAssumption DEF ZeroTask, Task, Queries
  <2> QED BY <2>1, BooksInit DEF BooksKept
<1>2. FarmInv /\ FarmInv' /\ BooksKept /\ [Next]_vars => BooksKept'
  BY BooksStep
<1> QED BY <1>1, <1>2, Invariance, PTL DEF Spec

-----------------------------------------------------------------------------
(* What the books say of the farm.                                         *)

(* The first n naturals, as the theorem on integer intervals counts them. *)
LEMMA FirstNaturals ==
  ASSUME NEW n \in Nat
  PROVE  IsFiniteSet(0 .. n - 1) /\ Cardinality(0 .. n - 1) = n
<1>1. PICK b \in Int : b = n - 1
  OBVIOUS
<1>2. \A a, c \in Int : /\ IsFiniteSet(a .. c)
                        /\ Cardinality(a .. c) = IF a > c THEN 0 ELSE c - a + 1
  BY FS_Interval
<1>3. IsFiniteSet(0 .. b) /\ Cardinality(0 .. b) = IF 0 > b THEN 0 ELSE b - 0 + 1
  BY <1>2
<1> QED BY <1>1, <1>3

(* When the boss is done collecting, every task was taken and answered. *)
LEMMA AllAnswered ==
  ASSUME FarmInv, NEW taken \in Nat, NEW put \in Nat, NEW ans \in [Nat -> Task], Books(taken, put, ans),
         pc[Boss] \in Ending
  PROVE  /\ got = NTasks /\ put = NTasks /\ taken = NTasks /\ sent = NTasks
         /\ Cardinality(At(Taking)) = 0 /\ Owing(put, ans) = {}
         /\ \A q \in Queries : \E k \in 0 .. NTasks - 1 : ans[k].query = q
<1>0. NTasks \in Nat \ {0} /\ sent \in 0 .. NTasks /\ sem["tasks"] \in Nat /\ sem["asw"] \in Nat
  BY FarmAssumption DEF FarmInv, TypeOK, Semaphores
<1>1. sent = NTasks /\ got = NTasks
  BY DEF Books, Phases, Submitting, Ending
<1>2. Cardinality(At(Taking)) \in Nat /\ Cardinality(Owing(put, ans)) \in Nat /\ IsFiniteSet(Owing(put, ans))
  <2>1. At(Taking) \in SUBSET Workers
    BY DEF At
  <2> QED BY <2>1, FarmAssumption, FS_Subset, FS_CardinalityType, OwingFinite
<1>3. taken <= NTasks /\ sem["tasks"] + Cardinality(At(Taking)) + taken <= NTasks
      /\ sem["asw"] + Cardinality(Owing(put, ans)) + NTasks <= put
  BY <1>0, <1>1, <1>2 DEF Books, Counts, BossIn, Collecting, Ending
<1> DEFINE f == [k \in 0 .. put - 1 |-> ans[k].query]
<1>4. f \in Injection(0 .. put - 1, 0 .. NTasks - 1)
  <2>1. \A k \in 0 .. put - 1 : ans[k].query \in 0 .. NTasks - 1
    BY DEF Task, Queries
  <2>2. f \in [0 .. put - 1 -> 0 .. NTasks - 1]
    BY <2>1
  <2>3. \A j, k \in 0 .. put - 1 : f[j] = f[k] => j = k
    BY DEF Books, Tasks
  <2> QED BY <2>2, <2>3, Fun_IsInj
<1>5. /\ Cardinality(0 .. put - 1) = put /\ Cardinality(0 .. NTasks - 1) = NTasks
      /\ IsFiniteSet(0 .. NTasks - 1)
  BY <1>0, FirstNaturals
<1>6. put <= NTasks /\ (put = NTasks => f \in Surjection(0 .. put - 1, 0 .. NTasks - 1))
  BY <1>4, <1>5, FS_Injection
<1>7. put = NTasks /\ Cardinality(Owing(put, ans)) = 0
  BY <1>0, <1>2, <1>3, <1>6
<1>8. \A q \in 0 .. NTasks - 1 : \E k \in 0 .. put - 1 : f[k] = q
  <2>1. f \in Surjection(0 .. put - 1, 0 .. NTasks - 1)
    BY <1>6, <1>7
  <2> HIDE DEF f
  <2> QED BY <2>1 DEF Surjection
<1>9. taken = NTasks
  <2>1. PICK k \in 0 .. put - 1 : ans[k].query = NTasks - 1
    BY <1>0, <1>8
  <2>2. ans[k].query < taken
    BY <2>1 DEF Books, Tasks
  <2> QED BY <1>0, <1>3, <2>1, <2>2
<1>10. Owing(put, ans) = {}
  BY <1>2, <1>7, FS_EmptySet
<1>11. Cardinality(At(Taking)) = 0
  BY <1>0, <1>2, <1>3, <1>9
<1> QED BY <1>1, <1>7, <1>8, <1>9, <1>10, <1>11 DEF Queries

(* The two accounts of the answers ring add up to its capacity. *)
LEMMA BooksConserve == ASSUME TypeOK, BooksKept PROVE SlotsConserved
<1>1. PICK taken \in Nat, put \in Nat, ans \in [Nat -> Task] : Books(taken, put, ans)
  BY DEF BooksKept
<1>0. sem["slots"] \in Nat /\ sem["asw"] \in Nat /\ got \in Nat /\ NSlots \in Nat
  BY FarmAssumption DEF TypeOK, Semaphores
<1> DEFINE F == At(Filling)
           O == Owing(put, ans)
           B == IF pc[Boss] \in Collecting \ {"waitAsw"} THEN {Boss} ELSE {}
<1>2. IsFiniteSet(F) /\ IsFiniteSet(O) /\ IsFiniteSet(B)
  <2>1. F \in SUBSET Workers
    BY DEF At
  <2> QED BY <2>1, FarmAssumption, FS_Subset, OwingFinite, FS_Singleton, FS_EmptySet
<1>3. Cardinality(F) \in Nat /\ Cardinality(O) \in Nat /\ Cardinality(B) = BossIn(Collecting \ {"waitAsw"})
      /\ BossIn(Collecting \ {"waitAsw"}) \in Nat
  BY <1>2, FS_CardinalityType, FS_Singleton, FS_EmptySet DEF BossIn
<1>4. Transferring \in SUBSET (F \union O \union B)
  <2> SUFFICES ASSUME NEW p \in Transferring PROVE p \in F \union O \union B
    OBVIOUS
  <2>1. p \in Procs /\ (pc[p] \in {"unlockAnswers", "lockAnswers", "postAsw", "postSlots"} \/ UsesAnswers(p))
    BY DEF Transferring
  <2>2. CASE p = Boss
    <3>1. pc[Boss] \in BossPC
      BY DEF TypeOK
    <3>2. pc[Boss] \in Collecting \ {"waitAsw"}
      BY <2>1, <2>2, <3>1 DEF UsesAnswers, BossPC, Collecting
    <3> QED BY <2>2, <3>2
  <2>3. CASE p \in Workers
    <3>1. pc[p] \in WorkerPC /\ p # Boss
      BY <2>3, FarmAssumption DEF TypeOK
    <3>2. pc[p] \in Filling \union Posting
      BY <2>1, <3>1 DEF UsesAnswers, WorkerPC, Filling, Posting
    <3> QED BY <2>3, <3>2 DEF At, Owing
  <2> QED BY <2>1, <2>2, <2>3 DEF Procs
<1> HIDE DEF F, O, B
<1>5. /\ IsFiniteSet(F \union O \union B)
      /\ Cardinality(F \union O \union B) <= Cardinality(F) + Cardinality(O) + Cardinality(B)
  <2>1. IsFiniteSet(F \union O) /\ Cardinality(F \union O) <= Cardinality(F) + Cardinality(O)
    <3>1. IsFiniteSet(F \intersect O)
      BY <1>2, FS_Intersection
    <3>2. Cardinality(F \intersect O) \in Nat
      BY <3>1, FS_CardinalityType
    <3>3. /\ IsFiniteSet(F \union O)
          /\ Cardinality(F \union O) = Cardinality(F) + Cardinality(O) - Cardinality(F \intersect O)
      BY <1>2, FS_Union
    <3> QED BY <1>3, <3>2, <3>3
  <2>2. IsFiniteSet((F \union O) \intersect B)
    BY <1>2, <2>1, FS_Intersection
  <2>3. Cardinality((F \union O) \intersect B) \in Nat /\ Cardinality(F \union O) \in Nat /\ Cardinality(B) \in Nat
    BY <1>2, <2>1, <2>2, FS_CardinalityType
  <2>4. /\ IsFiniteSet((F \union O) \union B)
        /\ Cardinality((F \union O) \union B)
             = Cardinality(F \union O) + Cardinality(B) - Cardinality((F \union O) \intersect B)
    BY <1>2, <2>1, FS_Union
  <2> QED BY <1>3, <2>1, <2>3, <2>4
<1>6. Cardinality(Transferring) \in Nat /\ Cardinality(Transferring) <= Cardinality(F) + Cardinality(O) + Cardinality(B)
  <2>1. IsFiniteSet(Transferring) /\ Cardinality(Transferring) <= Cardinality(F \union O \union B)
    BY <1>4, <1>5, FS_Subset
  <2>2. Cardinality(Transferring) \in Nat /\ Cardinality(F \union O \union B) \in Nat /\ Cardinality(B) \in Nat
    BY <1>2, <1>5, <2>1, FS_CardinalityType
  <2> QED BY <1>3, <1>5, <2>1, <2>2
<1>7. /\ sem["slots"] + Cardinality(F) + put <= NSlots + got
      /\ sem["asw"] + Cardinality(O) + BossIn(Collecting \ {"waitAsw"}) + got <= put
  BY <1>1 DEF Books, Counts, F, O
<1>8. sem["slots"] + sem["asw"] + Cardinality(Transferring) <= NSlots
  BY <1>0, <1>3, <1>6, <1>7
<1> QED BY <1>8 DEF SlotsConserved

(* What the boss prints: the tally holds one solved answer for every task. *)
LEMMA BooksFinal == ASSUME FarmInv, BooksKept PROVE FinalCorrect
<1> SUFFICES ASSUME pc[Boss] \in Ending
             PROVE  /\ got = NTasks /\ Cardinality(collected) = NTasks
                    /\ {t.query : t \in collected} = Queries
                    /\ \A t \in collected : t.worker # NoWorker
  BY DEF FinalCorrect, Ending
<1>1. PICK taken \in Nat, put \in Nat, ans \in [Nat -> Task] : Books(taken, put, ans)
  BY DEF BooksKept
<1>2. /\ got = NTasks /\ put = NTasks
      /\ \A q \in Queries : \E k \in 0 .. NTasks - 1 : ans[k].query = q
  BY <1>1, AllAnswered
<1>3. collected = {ans[k] : k \in 0 .. NTasks - 1}
  BY <1>1, <1>2 DEF Books, Tally
<1>4. \A j, k \in 0 .. NTasks - 1 : ans[j].query = ans[k].query => j = k
  BY <1>1, <1>2 DEF Books, Tasks
<1>5. Cardinality(collected) = NTasks
  <2> DEFINE g == [k \in 0 .. NTasks - 1 |-> ans[k]]
  <2>1. g \in [0 .. NTasks - 1 -> collected]
    BY <1>3
  <2>2. g \in Surjection(0 .. NTasks - 1, collected)
    <3>1. \A t \in collected : \E k \in 0 .. NTasks - 1 : g[k] = t
      BY <1>3
    <3> QED BY <2>1, <3>1, Fun_IsSurj
  <2>3. g \in Injection(0 .. NTasks - 1, collected)
    <3>1. \A j, k \in 0 .. NTasks - 1 : g[j] = g[k] => j = k
      BY <1>4
    <3> QED BY <2>1, <3>1, Fun_IsInj
  <2>4. IsFiniteSet(0 .. NTasks - 1) /\ Cardinality(0 .. NTasks - 1) = NTasks
    BY FarmAssumption, FirstNaturals
  <2> QED BY <2>2, <2>3, <2>4, FS_Surjection
<1>6. {t.query : t \in collected} = Queries
  <2>1. \A t \in collected : t.query \in Queries
    BY <1>3 DEF Task
  <2> QED BY <1>2, <1>3, <2>1
<1>7. \A t \in collected : t.worker # NoWorker
  BY <1>1, <1>2, <1>3, FarmAssumption DEF Books, Tasks
<1> QED BY <1>2, <1>5, <1>6, <1>7

(* Rings in bounds, slots and announcements within the ring, and a final tally *)
(* of one solved answer per task, for any number of workers, tasks and slots.   *)
THEOREM Consistency == Spec => []FarmConsistent
<1>1. FarmInv /\ BooksKept => FarmConsistent
  BY BooksConserve, BooksFinal DEF FarmConsistent, FarmInv
<1> QED BY <1>1, Invariance, Bookkeeping, PTL

(* SIGTERM finds every worker that answered waiting for another task: it holds *)
(* no lock, and nothing it took from the farm is lost.                          *)
THEOREM KillsIdle == Spec => []KilledIdle
<1>1. FarmInv /\ BooksKept => KilledIdle
  <2> SUFFICES ASSUME FarmInv, BooksKept, NEW w \in sigterm PROVE pc[w] \in {"waitTasks", "exited"}
    BY DEF KilledIdle
  <2>1. PICK taken \in Nat, put \in Nat, ans \in [Nat -> Task] : Books(taken, put, ans)
    BY DEF BooksKept
  <2>2. pc[Boss] \in Ending
    BY <2>1 DEF Books, Phases
  <2>3. /\ got = NTasks /\ put = NTasks /\ taken = NTasks
        /\ Cardinality(At(Taking)) = 0 /\ Owing(put, ans) = {}
        /\ \A q \in Queries : \E k \in 0 .. NTasks - 1 : ans[k].query = q
    BY <2>1, <2>2, AllAnswered
  <2>4. PICK k \in 0 .. put - 1 : ans[k].worker = w
    BY <2>1, <2>3 DEF Books, Tally
  <2>5. w \in Workers /\ Answered(put, ans, w)
    BY <2>1, <2>4 DEF Books, Tasks, Answered
  <2>6. Complete(w) /\ pc[w] \notin Posting
    BY <2>3, <2>5 DEF Owing
  <2>7. pc[w] # "crashed" /\ pc[w] \notin Opening
    BY <2>1, <2>5, <2>6 DEF Books, Handles, Complete, Semaphores
  <2>8. pc[w] \notin Taking
    BY <2>3, <2>5, SomeoneAt
  <2>9. pc[w] \notin Solving
    <3>1. task[w].query \in Queries
      BY <2>5 DEF FarmInv, TypeOK, Task, Procs
    <3> QED BY <2>1, <2>3, <2>5, <3>1 DEF Books, Tasks
  <2>10. pc[w] \in WorkerPC
    BY <2>5 DEF FarmInv, TypeOK
  <2> QED BY <2>6, <2>7, <2>8, <2>9, <2>10 DEF WorkerPC, Posting, Opening, Taking, Solving
<1> QED BY <1>1, Invariance, Bookkeeping, PTL

(* Each task is submitted in order and its answer collected once: the farm     *)
(* implements the pool, whatever the number of workers and their order.        *)
THEOREM PoolImplemented == Spec => ImplementsPool
<1> DEFINE done == {t.query : t \in collected}
<1>1. Init => Pool!Init
  BY DEF Init, Pool!Init
<1>2. FarmInv /\ BooksKept /\ [Next]_vars => [Pool!Next]_<<sent, got, done>>
  <2> SUFFICES ASSUME FarmInv, BooksKept, [Next]_vars PROVE [Pool!Next]_<<sent, got, done>>
    OBVIOUS
  <2>0. Boss \in Procs /\ NTasks \in Nat \ {0} /\ sent \in 0 .. NTasks /\ got \in 0 .. NTasks
    BY FarmAssumption DEF FarmInv, TypeOK, Procs
  <2>1. CASE UNCHANGED tally
    BY <2>1 DEF tally
  <2>2. CASE PostTasks
    <3>1. sent < NTasks /\ sent' = sent + 1 /\ got' = got /\ collected' = collected
      BY <2>2 DEF PostTasks, SemPost, Goto, FarmInv, LoopsBounded
    <3>2. Pool!Submit
      BY <3>1 DEF Pool!Submit
    <3> QED BY <3>2 DEF Pool!Next
  <2>3. CASE PostSlots
    <3>1. PICK taken \in Nat, put \in Nat, ans \in [Nat -> Task] : Books(taken, put, ans)
      BY DEF BooksKept
    <3>2. pc[Boss] = "postSlots" /\ sent' = sent /\ got' = got + 1 /\ collected' = collected \union {task[Boss]}
      BY <2>3 DEF PostSlots, SemPost, Goto
    <3>3. task[Boss] = ans[got] /\ collected = {ans[k] : k \in 0 .. got - 1}
      BY <3>1, <3>2 DEF Books, Tally
    <3>4. got < put /\ taken <= sent
      <4>1. Cardinality(Owing(put, ans)) \in Nat
        BY OwingFinite
      <4>2. Cardinality(At(Taking)) \in Nat
        <5>1. At(Taking) \in SUBSET Workers
          BY DEF At
        <5> QED BY <5>1, FarmAssumption, FS_Subset, FS_CardinalityType
      <4>3. sem["asw"] \in Nat /\ sem["tasks"] \in Nat
        BY DEF FarmInv, TypeOK, Semaphores
      <4> QED BY <2>0, <3>1, <3>2, <4>1, <4>2, <4>3 DEF Books, Counts, BossIn, Collecting
    <3>5. PICK q \in 0 .. NTasks - 1 : q = ans[got].query
      BY <2>0 DEF Task, Queries
    <3>6. q < sent
      BY <2>0, <3>1, <3>4, <3>5 DEF Books, Tasks
    <3>7. q \notin done
      BY <2>0, <3>1, <3>3, <3>4, <3>5 DEF Books, Tasks
    <3>8. done' = done \union {q}
      BY <3>2, <3>3, <3>5
    <3>9. Pool!Collect(q)
      BY <3>2, <3>6, <3>7, <3>8 DEF Pool!Collect
    <3> QED BY <3>9 DEF Pool!Next
  <2>4. UNCHANGED tally \/ PostTasks \/ PostSlots
    <3>1. BossNext => UNCHANGED tally \/ PostTasks \/ PostSlots
      BY DEF BossNext, Create, BossLockRequests, BossStore, Store, BossAdvance, Advance, BossUnlockRequests,
        BossWaitAsw, BossLockAnswers, BossLoad, Load, BossShift, Shift, BossUnlockAnswers, BossSame,
        DropRings, KillAllWorkers, DropSemaphores, Unlink
    <3>2. (\E w \in Workers : Launch(w) \/ WorkerStep(w)) => UNCHANGED tally
      BY WorkerMoves DEF FarmInv
    <3> QED BY <3>1, <3>2 DEF Next, vars
  <2> QED BY <2>1, <2>2, <2>3, <2>4
<1> QED BY <1>1, <1>2, Invariance, Bookkeeping, PTL DEF Spec, ImplementsPool, Pool!Spec

=============================================================================
