------------------------------ MODULE ForkJoin ------------------------------
(***************************************************************************)
(* The three programs that divide a computation among workers and collect  *)
(* what they did:                                                          *)
(*   mult  (ps7)      rows of a matrix product, processes, a semaphore;    *)
(*   rpair (final Q1) trials of a sampler, processes, wait;                *)
(*   det   (final Q2) terms of a determinant, threads, pthread_join.       *)
(***************************************************************************)
EXTENDS Integers, Sequences, FiniteSets, FiniteSetsExt, Functions

CONSTANTS
  Products,        \* pairs of matrices, as sequences of rows
  TrialCounts,     \* numbers of trials
  Squares,         \* square matrices
  MaxWorkers,      \* bound on the number of workers
  MaxForkFailures  \* bound on the calls of fork that fail

ASSUME ForkJoinAssumption ==
  /\ MaxWorkers \in Nat \ {0} /\ MaxForkFailures \in Nat
  /\ TrialCounts \subseteq Nat
  /\ Squares \subseteq Seq(Seq(Int)) /\ \A m \in Squares : \A r \in DOMAIN m : Len(m[r]) = Len(m)
  /\ Products \subseteq Seq(Seq(Int)) \X Seq(Seq(Int))
  /\ \A p \in Products : \A r \in DOMAIN p[1] : Len(p[1][r]) = Len(p[2])

VARIABLES
  prog, data,  \* the program and its input
  nw,          \* the number of workers
  named,       \* the semaphores and memory objects with a name in the system
  main,        \* where main is
  i,           \* its loop variable
  result,      \* ttl of rpair, retval of detMatrixPar
  sem,         \* the semaphore of mult
  worker,      \* "none", "run", "ended" or, waited for, "gone"
  did,         \* the iterations of a worker's loop
  local,       \* ttl of createSamples, total of matrix_det_thread
  shared,      \* the product of mult; shared[] of rpair; the values det's threads return
  failures,
  events       \* history: the events that rpair's workers saw

setting == <<prog, data, nw>>
mains   == <<named, main, i, result>>
workers == <<worker, did, local, shared>>
forkJoin == <<setting, mains, sem, workers, failures, events>>

Workers == 1 .. nw

-----------------------------------------------------------------------------
(* The division of the work.                                               *)

Rows(m) == Len(m)
Cols(m) == IF m = <<>> THEN 0 ELSE Len(m[1])
Total   == CASE prog = "mult" -> Rows(data[1]) [] prog = "rpair" -> data [] prog = "det" -> Len(data)

\* mult gives one row of the remainder to each of the first workers, the
\* others give all of it to the first.
Share(w) ==
  Total \div nw + IF prog = "mult" THEN (IF w <= Total % nw THEN 1 ELSE 0)
                  ELSE (IF w = 1 THEN Total % nw ELSE 0)

\* startrow of mult and start of det: each share begins where the last ended.
ShareStart(w) ==
  LET start[v \in 1 .. w] == IF v = 1 THEN 0 ELSE start[v - 1] + Share(v - 1) IN start[w]

DotProd(a, b, r, c) == MapThenSumSet(LAMBDA k : a[r][k] * b[k][c], DOMAIN b)

Sign(col) == IF col % 2 = 0 THEN 1 ELSE -1

\* detMatrix of the rows from the r-th on and the columns cs, the others being
\* taken out by make_submatrix; columns count from 0 within cs.
Det(m) ==
  LET n == Len(m)
      det[cs \in SUBSET (1 .. n)] ==
        IF cs = {} THEN 1
        ELSE MapThenSumSet(LAMBDA c : Sign(Cardinality({k \in cs : k < c})) * m[n - Cardinality(cs) + 1][c] * det[cs \ {c}], cs)
  IN det

\* The next term of a thread of det.
Term(w) ==
  LET col == ShareStart(w) + did[w] IN Sign(col) * data[1][col + 1] * Det(data)[(1 .. Len(data)) \ {col + 1}]

-----------------------------------------------------------------------------

ForkJoinInit ==
  /\ \/ prog = "mult" /\ data \in Products
     \/ prog = "rpair" /\ data \in TrialCounts
     \/ prog = "det" /\ data \in Squares
  /\ nw \in 1 .. MaxWorkers
  /\ named = {} /\ main = "create" /\ i = 1 /\ result = 0 /\ sem = 0
  /\ worker = [w \in Workers |-> "none"]
  /\ did = [w \in Workers |-> 0] /\ local = [w \in Workers |-> 0]
  /\ shared = <<>> /\ failures = 0 /\ events = 0

\* The shared matrix, row by row.
Matrix0(rows, cols) == [k \in 0 .. rows * cols - 1 |-> 0]

\* The semaphore and the shared memory, and what main stores there.
Setup ==
  /\ main = "create" /\ main' = "spawn"
  /\ named' = CASE prog = "mult" -> {"/sem-pid", "/matrix-pid"} [] prog = "rpair" -> {"/rpair-shm"}
                [] prog = "det" -> {}
  /\ shared' = CASE prog = "mult" -> Matrix0(Rows(data[1]), Cols(data[2]))
                 [] prog = "rpair" -> [w \in Workers |-> Share(w)]
                 [] prog = "det" -> [w \in Workers |-> 0]
  /\ UNCHANGED <<setting, i, result, sem, worker, did, local, failures, events>>

Advance(from, to) ==
  /\ main = from
  /\ main' = IF i = nw THEN to ELSE from
  /\ i' = IF i = nw THEN 1 ELSE i + 1

\* fork or pthread_create in the loop over the workers.
Spawn ==
  /\ Advance("spawn", "join")
  /\ worker' = [worker EXCEPT ![i] = "run"]
  /\ UNCHANGED <<setting, named, result, sem, did, local, shared, failures, events>>

\* fork returns -1, which neither mult nor rpair looks at.
ForkFails ==
  /\ prog # "det" /\ failures < MaxForkFailures
  /\ Advance("spawn", "join")
  /\ failures' = failures + 1
  /\ UNCHANGED <<setting, named, result, sem, workers, events>>

\* The iterations of a worker: the elements of its rows, its samples (which
\* createSamples reads from the cell its result goes to), or its terms.
Load(w) == CASE prog = "mult" -> Share(w) * Cols(data[2]) [] prog = "rpair" -> shared[w] [] prog = "det" -> Share(w)

\* One iteration of do_partial_mult, createSamples or matrix_det_thread.
Element(w) ==
  LET cols == Cols(data[2])
      row == ShareStart(w) + did[w] \div cols
      col == did[w] % cols IN
  /\ prog = "mult"
  /\ shared' = [shared EXCEPT ![ShareStart(w) * cols + did[w]] = DotProd(data[1], data[2], row + 1, col + 1)]
  /\ UNCHANGED <<local, events>>

Sample(w) ==
  /\ prog = "rpair"
  /\ \E hit \in {0, 1} : local' = [local EXCEPT ![w] = @ + hit] /\ events' = events + hit
  /\ UNCHANGED shared

AddTerm(w) ==
  /\ prog = "det"
  /\ local' = [local EXCEPT ![w] = @ + Term(w)]
  /\ UNCHANGED <<shared, events>>

Work(w) ==
  /\ worker[w] = "run" /\ did[w] < Load(w)
  /\ did' = [did EXCEPT ![w] = @ + 1]
  /\ Element(w) \/ Sample(w) \/ AddTerm(w)
  /\ UNCHANGED <<setting, mains, sem, worker, failures>>

\* Mutant of Finish: the post comes before the last element.
FinishEarly(w) ==
  /\ worker[w] = "run" /\ did[w] >= Load(w) - 1
  /\ worker' = [worker EXCEPT ![w] = "ended"]
  /\ sem' = IF prog = "mult" THEN sem + 1 ELSE sem
  /\ shared' = IF prog = "mult" THEN shared ELSE [shared EXCEPT ![w] = local[w]]
  /\ UNCHANGED <<setting, mains, did, local, failures, events>>

\* Mutant of Finish: nothing is posted.
FinishSilent(w) ==
  /\ worker[w] = "run" /\ did[w] = Load(w)
  /\ worker' = [worker EXCEPT ![w] = "ended"]
  /\ shared' = IF prog = "mult" THEN shared ELSE [shared EXCEPT ![w] = local[w]]
  /\ UNCHANGED <<setting, mains, sem, did, local, failures, events>>

\* The end of a worker: sem_post, the shared cell, or the value it returns.
Finish(w) ==
  /\ worker[w] = "run" /\ did[w] = Load(w)
  /\ worker' = [worker EXCEPT ![w] = "ended"]
  /\ sem' = IF prog = "mult" THEN sem + 1 ELSE sem
  /\ shared' = IF prog = "mult" THEN shared ELSE [shared EXCEPT ![w] = local[w]]
  /\ UNCHANGED <<setting, mains, did, local, failures, events>>

\* mult: one sem_wait per worker.
SemWait ==
  /\ prog = "mult" /\ Advance("join", "collect")
  /\ sem > 0 /\ sem' = sem - 1
  /\ UNCHANGED <<setting, named, result, workers, failures, events>>

\* rpair: one wait per worker, for any of them; it fails if none is left.
WaitChild ==
  /\ prog = "rpair" /\ Advance("join", "collect")
  /\ \/ \E w \in Workers : worker[w] = "ended" /\ worker' = [worker EXCEPT ![w] = "gone"]
     \/ (\A w \in Workers : worker[w] \in {"none", "gone"}) /\ UNCHANGED worker
  /\ UNCHANGED <<setting, named, result, sem, did, local, shared, failures, events>>

\* det: join the workers in order and add what they return.
JoinThread ==
  /\ prog = "det" /\ Advance("join", "collect")
  /\ worker[i] = "ended"
  /\ worker' = [worker EXCEPT ![i] = "gone"]
  /\ result' = result + shared[i]
  /\ UNCHANGED <<setting, named, sem, did, local, shared, failures, events>>

\* The result is read and printed, and the names are removed.
Collect ==
  /\ main = "collect" /\ main' = "done"
  /\ result' = IF prog = "rpair" THEN SumFunction(shared) ELSE result
  /\ named' = {}
  /\ UNCHANGED <<setting, i, sem, workers, failures, events>>

MainStep == Setup \/ Spawn \/ SemWait \/ WaitChild \/ JoinThread \/ Collect
WorkerStep(w) == Work(w) \/ Finish(w)

ForkJoinNext == MainStep \/ ForkFails \/ \E w \in Workers : WorkerStep(w)

ForkJoinSpec == ForkJoinInit /\ [][ForkJoinNext]_forkJoin

\* Every process and thread that can run eventually runs.
FairForkJoin == ForkJoinSpec /\ WF_forkJoin(MainStep) /\ \A w \in 1 .. MaxWorkers : WF_forkJoin(w \in Workers /\ WorkerStep(w))

-----------------------------------------------------------------------------
(* Properties.                                                             *)

\* The Leibniz formula.
Leibniz(m) ==
  LET n == 1 .. Len(m)
      sign(p) == Sign(Cardinality({x \in n \X n : x[1] < x[2] /\ p[x[1]] > p[x[2]]}))
      product(p) == FoldFunction(LAMBDA x, y : x * y, 1, [r \in n |-> m[r][p[r]]])
      perms == {p \in [n -> n] : \A x, y \in n : p[x] = p[y] => x = y}
  IN MapThenSumSet(LAMBDA p : sign(p) * product(p), perms)

NobodyWrites == \A w \in Workers : worker[w] \in {"ended", "gone"}
ProductRight ==
  prog = "mult" =>
    \A r \in 1 .. Rows(data[1]), c \in 1 .. Cols(data[2]) :
      shared[(r - 1) * Cols(data[2]) + c - 1] = DotProd(data[1], data[2], r, c)
SamplesCounted == prog = "rpair" => result = events /\ SumFunction(did) = data
DeterminantRight == prog = "det" => result = Leibniz(data)

\* What main reports, whatever the order of the workers: the product by its
\* definition, all events of all trials, the determinant by its definition.
\* Nobody is still writing by then.
ResultRight ==
  main = "done" /\ failures = 0 => NobodyWrites /\ ProductRight /\ SamplesCounted /\ DeterminantRight

\* main ends, whatever the forks do in rpair and if none fails in mult.
MainFinishes == [](prog = "mult" => failures = 0) => <>(main = "done")

=============================================================================
