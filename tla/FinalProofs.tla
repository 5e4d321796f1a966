---------------------------- MODULE FinalProofs -----------------------------
(***************************************************************************)
(* Proofs about the programs of the final exam and the one they grew from: *)
(*   - the dining philosophers, for any number of philosophers and cycles: *)
(*     exclusion of neighbours, and absence of deadlock when there are at  *)
(*     least two of them;                                                  *)
(*   - the programs that divide a computation (ForkJoin), for any inputs,  *)
(*     workers and order of their steps: what main reports is the product, *)
(*     the number of events or the determinant.                            *)
(***************************************************************************)
EXTENDS Philosophers, ForkJoin, TLAPS, FiniteSetTheorems, WellFoundedInduction

-----------------------------------------------------------------------------
(* The philosophers.                                                       *)

(* The forks a philosopher owns, from where it is in muse. *)
Holds(p) ==
  IF Eating(p) THEN {First(p), Second(p)}
  ELSE IF pc[p] \in {"lockSecond", "unlockFirst"} THEN {First(p)} ELSE {}

(* The owner of every fork is the philosopher whose program counter says so. *)
ForksOwned == \A f, p \in Philo : fork[f] = p <=> f \in Holds(p)

(* A philosopher with both forks locked two different mutexes. *)
TwoForks == \A p \in Philo : Eating(p) => First(p) # Second(p)

(* Only a thread that exists has moved. *)
OnlyCreated == \A p \in Philo : pc[p] # "loop" \/ state[p] # "THINK" => p < created

(* A philosopher that is about to eat has a cycle left; one that returned has none. *)
CyclesLeft ==
  \A p \in Philo : /\ pc[p] \in {"lockSecond", "eat"} => ate[p] < Cycles
                   /\ pc[p] = "return" => ate[p] = Cycles

(* main joined every thread before it cleared the table. *)
JoinedAll == cleared => \A p \in Philo : pc[p] = "return"

TableInv == TypeOK /\ ForksOwned /\ TwoForks /\ OnlyCreated /\ CyclesLeft /\ JoinedAll

-----------------------------------------------------------------------------

(* The successor modulo N of a philosopher is the next one, or 0 after the last. *)
LEMMA ModSucc ==
  ASSUME NEW n \in Nat \ {0}, NEW p \in 0 .. n - 1
  PROVE  /\ p % n = p
         /\ (p + 1) % n = IF p = n - 1 THEN 0 ELSE p + 1
  OBVIOUS

(* The two forks of a philosopher are forks of the table. *)
LEMMA ForksExist == ASSUME NEW p \in Philo PROVE First(p) \in Philo /\ Second(p) \in Philo
<1>1. Parity(p) \in {0, 1}
  BY DEF Parity, Philo
<1>2. CASE Parity(p) = 0
  BY <1>2, ModSucc, TableAssumption DEF First, Second, Philo
<1>3. CASE Parity(p) = 1
  BY <1>3, ModSucc, TableAssumption DEF First, Second, Philo
<1> QED BY <1>1, <1>2, <1>3

(* The initial state satisfies the invariant: nobody holds a fork. *)
LEMMA InitTable == Init => TableInv
<1> SUFFICES ASSUME Init PROVE TableInv
  OBVIOUS
<1>1. TypeOK
  <2>1. 0 \in 0 .. N /\ 0 \in 0 .. Cycles
    BY TableAssumption
  <2> QED BY <2>1 DEF Init, TypeOK
<1>2. ForksOwned
  BY TableAssumption DEF Init, ForksOwned, Holds, Eating, Philo
<1>3. TwoForks /\ OnlyCreated /\ CyclesLeft /\ JoinedAll
  BY DEF Init, TwoForks, OnlyCreated, CyclesLeft, JoinedAll, Eating
<1> QED BY <1>1, <1>2, <1>3 DEF TableInv

(* Every step of a philosopher or of main preserves the types. *)
LEMMA TypePreserved == TypeOK /\ CyclesLeft /\ [Next]_vars => TypeOK'
<1> SUFFICES ASSUME TypeOK, CyclesLeft, [Next]_vars PROVE TypeOK'
  OBVIOUS
<1> USE TableAssumption DEF TypeOK
<1>1. CASE Create
  BY <1>1 DEF Create
<1>2. CASE ClearTable
  BY <1>2 DEF ClearTable
<1>3. ASSUME NEW p \in Philo, Muse(p) PROVE TypeOK'
  <2>1. CASE Hunger(p)
    BY <2>1 DEF Hunger, Goto
  <2>2. CASE LockFirst(p)
    BY <2>2 DEF LockFirst, Goto, Lock
  <2>3. CASE LockSecond(p)
    BY <2>3 DEF LockSecond, Goto, Lock
  <2>4. CASE Eat(p)
    <3>1. ate[p] < Cycles /\ ate[p] \in 0 .. Cycles
      BY <2>4 DEF Eat, Goto, CyclesLeft
    <3>2. ate[p] + 1 \in 0 .. Cycles
      BY <3>1
    <3> QED BY <2>4, <3>2 DEF Eat, Goto
  <2>5. CASE UnlockSecond(p)
    BY <2>5 DEF UnlockSecond, Goto, Unlock
  <2>6. CASE UnlockFirst(p)
    BY <2>6 DEF UnlockFirst, Goto, Unlock
  <2>7. CASE Think(p)
    BY <2>7 DEF Think, Goto
  <2> QED BY <1>3, <2>1, <2>2, <2>3, <2>4, <2>5, <2>6, <2>7 DEF Muse
<1>4. CASE UNCHANGED vars
  BY <1>4 DEF vars
<1> QED BY <1>1, <1>2, <1>3, <1>4 DEF Next, Main

(* Taking a free fork keeps owners and holders in agreement. *)
LEMMA LockKeepsOwners ==
  ASSUME TypeOK, ForksOwned, NEW p \in Philo, NEW g \in Philo, Lock(p, g),
         \A j \in Philo \ {p} : Holds(j)' = Holds(j), Holds(p)' = Holds(p) \union {g}
  PROVE  ForksOwned'
<1> SUFFICES ASSUME NEW f \in Philo, NEW j \in Philo PROVE (fork'[f] = j <=> f \in Holds(j)')
  BY DEF ForksOwned
<1>1. fork[g] = Free /\ fork'[f] = IF f = g THEN p ELSE fork[f]
  BY DEF Lock, TypeOK
<1>2. Free # p /\ Free # j
  BY TableAssumption DEF Philo
<1>3. fork[f] = j <=> f \in Holds(j)
  BY DEF ForksOwned
<1> QED BY <1>1, <1>2, <1>3

(* Releasing an owned fork keeps owners and holders in agreement. *)
LEMMA UnlockKeepsOwners ==
  ASSUME TypeOK, ForksOwned, NEW p \in Philo, NEW g \in Holds(p), g \in Philo, Unlock(g),
         \A j \in Philo \ {p} : Holds(j)' = Holds(j), Holds(p)' = Holds(p) \ {g}
  PROVE  ForksOwned'
<1> SUFFICES ASSUME NEW f \in Philo, NEW j \in Philo PROVE (fork'[f] = j <=> f \in Holds(j)')
  BY DEF ForksOwned
<1>1. fork[g] = p /\ fork'[f] = IF f = g THEN Free ELSE fork[f]
  BY DEF Unlock, TypeOK, ForksOwned
<1>2. Free # p /\ Free # j
  BY TableAssumption DEF Philo
<1>3. fork[f] = j <=> f \in Holds(j)
  BY DEF ForksOwned
<1> QED BY <1>1, <1>2, <1>3

(* A step keeps the owner of every fork in agreement with the program counters. *)
LEMMA OwnersPreserved == TableInv /\ [Next]_vars => (ForksOwned /\ TwoForks)'
<1> SUFFICES ASSUME TableInv, [Next]_vars PROVE (ForksOwned /\ TwoForks)'
  OBVIOUS
<1>1. CASE UNCHANGED <<pc, state, fork>>
  BY <1>1 DEF TableInv, ForksOwned, TwoForks, Holds, Eating
<1>2. ASSUME NEW p \in Philo, Muse(p) PROVE (ForksOwned /\ TwoForks)'
  <2> First(p) \in Philo /\ Second(p) \in Philo
    BY ForksExist
  <2>0. TypeOK /\ ForksOwned /\ TwoForks
    BY DEF TableInv
  <2>1. CASE Hunger(p) \/ Eat(p) \/ Think(p)
    <3>1. \A j \in Philo : (Eating(j)' <=> Eating(j)) /\ Holds(j)' = Holds(j)
      BY <2>0, <2>1 DEF TypeOK, Hunger, Eat, Think, Goto, Eating, Holds
    <3>2. fork' = fork
      BY <2>1 DEF Hunger, Eat, Think
    <3> QED BY <2>0, <3>1, <3>2 DEF ForksOwned, TwoForks
  <2>2. CASE LockFirst(p)
    <3>1. \A j \in Philo : (Eating(j)' <=> Eating(j)) /\ (j # p => Holds(j)' = Holds(j))
      BY <2>0, <2>2 DEF TypeOK, LockFirst, Goto, Eating, Holds
    <3>2. Holds(p)' = Holds(p) \union {First(p)} /\ Lock(p, First(p))
      BY <2>0, <2>2 DEF TypeOK, LockFirst, Goto, Eating, Holds
    <3> QED BY <2>0, <3>1, <3>2, LockKeepsOwners DEF TwoForks
  <2>3. CASE LockSecond(p)
    <3>1. \A j \in Philo \ {p} : (Eating(j)' <=> Eating(j)) /\ Holds(j)' = Holds(j)
      BY <2>0, <2>3 DEF TypeOK, LockSecond, Goto, Eating, Holds
    <3>2. Holds(p) = {First(p)} /\ Holds(p)' = Holds(p) \union {Second(p)} /\ Lock(p, Second(p))
      BY <2>0, <2>3 DEF TypeOK, LockSecond, Goto, Eating, Holds
    <3>3. First(p) # Second(p)
      BY <2>0, <3>2, TableAssumption DEF Lock, ForksOwned, Philo
    <3> QED BY <2>0, <3>1, <3>2, <3>3, LockKeepsOwners DEF TwoForks
  <2>4. CASE UnlockSecond(p)
    <3>1. \A j \in Philo : (Eating(j)' => Eating(j)) /\ (j # p => Holds(j)' = Holds(j))
      BY <2>0, <2>4 DEF TypeOK, UnlockSecond, Goto, Eating, Holds
    <3>2. First(p) # Second(p) /\ Holds(p) = {First(p), Second(p)} /\ Holds(p)' = {First(p)}
      BY <2>0, <2>4 DEF TypeOK, TwoForks, UnlockSecond, Goto, Eating, Holds
    <3>3. Holds(p)' = Holds(p) \ {Second(p)} /\ Second(p) \in Holds(p) /\ Unlock(Second(p))
      BY <2>4, <3>2 DEF UnlockSecond
    <3> QED BY <2>0, <3>1, <3>3, UnlockKeepsOwners DEF TwoForks
  <2>5. CASE UnlockFirst(p)
    <3>1. \A j \in Philo : (Eating(j)' <=> Eating(j)) /\ (j # p => Holds(j)' = Holds(j))
      BY <2>0, <2>5 DEF TypeOK, UnlockFirst, Goto, Eating, Holds
    <3>2. Holds(p) = {First(p)} /\ Holds(p)' = Holds(p) \ {First(p)} /\ Unlock(First(p))
      BY <2>0, <2>5 DEF TypeOK, UnlockFirst, Goto, Eating, Holds
    <3> QED BY <2>0, <3>1, <3>2, UnlockKeepsOwners DEF TwoForks
  <2> QED BY <1>2, <2>1, <2>2, <2>3, <2>4, <2>5 DEF Muse
<1>3. CASE Main
  BY <1>3, <1>1 DEF Main, Create, ClearTable
<1>4. CASE UNCHANGED vars
  BY <1>4, <1>1 DEF vars
<1> QED BY <1>2, <1>3, <1>4 DEF Next

(* The remaining conjuncts follow the program counter of the moving thread. *)
LEMMA ProgressPreserved == TableInv /\ [Next]_vars => (OnlyCreated /\ CyclesLeft /\ JoinedAll)'
<1> SUFFICES ASSUME TableInv, [Next]_vars PROVE (OnlyCreated /\ CyclesLeft /\ JoinedAll)'
  OBVIOUS
<1> USE TableAssumption DEF TableInv, TypeOK, OnlyCreated, CyclesLeft, JoinedAll
<1>1. CASE Create
  BY <1>1 DEF Create, Philo
<1>2. CASE ClearTable
  BY <1>2 DEF ClearTable
<1>3. ASSUME NEW p \in Philo, Muse(p) PROVE (OnlyCreated /\ CyclesLeft /\ JoinedAll)'
  <2> USE DEF Goto, MoreCycles
  <2>1. CASE Hunger(p)
    BY <2>1 DEF Hunger
  <2>2. CASE LockFirst(p)
    BY <2>2 DEF LockFirst
  <2>3. CASE LockSecond(p)
    BY <2>3 DEF LockSecond
  <2>4. CASE Eat(p)
    BY <2>4 DEF Eat
  <2>5. CASE UnlockSecond(p)
    BY <2>5 DEF UnlockSecond
  <2>6. CASE UnlockFirst(p)
    BY <2>6 DEF UnlockFirst
  <2>7. CASE Think(p)
    BY <2>7 DEF Think
  <2> QED BY <1>3, <2>1, <2>2, <2>3, <2>4, <2>5, <2>6, <2>7 DEF Muse
<1>4. CASE UNCHANGED vars
  BY <1>4 DEF vars
<1> QED BY <1>1, <1>2, <1>3, <1>4 DEF Next, Main

(* The inductive invariant holds in every reachable state. *)
THEOREM Invariance == Spec => []TableInv
<1>1. TableInv /\ [Next]_vars => TableInv'
  BY TypePreserved, OwnersPreserved, ProgressPreserved DEF TableInv
<1> QED BY <1>1, InitTable, PTL DEF Spec

(* The types of the model, for any number of philosophers. *)
THEOREM TypeCorrect == Spec => []TypeOK
<1>1. TableInv => TypeOK
  BY DEF TableInv
<1> QED BY <1>1, Invariance, PTL

(* Neighbours never eat at the same time, in whatever order muse locks the forks. *)
THEOREM Exclusion == Spec => []NeighboursExclude
<1>1. TableInv => NeighboursExclude
  <2> SUFFICES ASSUME TableInv, NEW p \in Philo, NEW j \in Philo, p # j, Eating(p), Eating(j),
                      NEW f \in Forks(p) \intersect Forks(j)
               PROVE  FALSE
    BY DEF NeighboursExclude
  <2>1. f \in Philo
    BY ForksExist DEF Forks
  <2>2. fork[f] = p /\ fork[f] = j
    BY <2>1 DEF TableInv, ForksOwned, Holds, Forks
  <2> QED BY <2>2
<1> QED BY <1>1, Invariance, PTL

(* clearTable destroys unlocked mutexes, after everybody ate Cycles times. *)
THEOREM ClearsIdleTable == Spec => []ClearedClean
<1>1. TableInv => ClearedClean
  <2> SUFFICES ASSUME TableInv, cleared, NEW p \in Philo PROVE fork[p] = Free /\ ate[p] = Cycles
    BY DEF ClearedClean
  <2>1. \A j \in Philo : pc[j] = "return" /\ ate[j] = Cycles
    BY DEF TableInv, JoinedAll, CyclesLeft
  <2>2. \A j \in Philo : fork[p] # j
    BY <2>1 DEF TableInv, ForksOwned, Holds, Eating
  <2> QED BY <2>1, <2>2 DEF TableInv, TypeOK
<1> QED BY <1>1, Invariance, PTL

-----------------------------------------------------------------------------
(* Absence of deadlock.                                                    *)

(* The first and the second fork of a philosopher, by the parity of its id. *)
LEMMA ForkOrder ==
  ASSUME NEW p \in Philo
  PROVE  \/ /\ p % 2 = 0 /\ First(p) = p
            /\ Second(p) = IF p = N - 1 THEN 0 ELSE p + 1
         \/ /\ p % 2 = 1 /\ Second(p) = p
            /\ First(p) = IF p = N - 1 THEN 0 ELSE p + 1
<1>1. p % 2 \in {0, 1}
  BY DEF Philo
<1>2. p % N = p /\ (p + 1) % N = IF p = N - 1 THEN 0 ELSE p + 1
  BY ModSucc, TableAssumption DEF Philo
<1>3. p + 0 = p /\ 1 - 1 = 0 /\ 1 - 0 = 1
  BY DEF Philo
<1>4. CASE p % 2 = 0
  BY <1>2, <1>3, <1>4 DEF First, Second, Parity
<1>5. CASE p % 2 = 1
  BY <1>2, <1>3, <1>5 DEF First, Second, Parity
<1> QED BY <1>1, <1>4, <1>5

(* With two philosophers or more, no chain of three holds its first forks and *)
(* waits for its second ones.                                                 *)
LEMMA NoChain ==
  ASSUME N >= 2, NEW a \in Philo, NEW b \in Philo, NEW c \in Philo,
         First(b) = Second(a), First(c) = Second(b)
  PROVE  FALSE
<1>0. a \in Int /\ b \in Int /\ c \in Int /\ N \in Int /\ a < N /\ b < N /\ c < N /\ a >= 0 /\ b >= 0 /\ c >= 0
  BY TableAssumption DEF Philo
<1>1. /\ a % 2 = 0 /\ Second(a) = IF a = N - 1 THEN 0 ELSE a + 1
      /\ b % 2 = 0 /\ First(b) = b /\ b = 0 /\ a = N - 1
  BY <1>0, ForkOrder
<1>2. N > 2
  BY <1>0, <1>1
<1>3. Second(b) = 1
  BY <1>0, <1>1, <1>2, ForkOrder
<1> QED BY <1>0, <1>2, <1>3, ForkOrder

(* "this prevents deadlocking": with two philosophers or more, some philosopher *)
(* can always go on while one is blocked.                                       *)
THEOREM NoDeadlock == ASSUME N >= 2 PROVE Spec => []DeadlockFree
<1>1. TableInv => DeadlockFree
  <2> SUFFICES ASSUME TableInv, NEW p \in Philo, Blocked(p),
                      \A j \in Philo : j < created /\ pc[j] # "return" => Blocked(j)
               PROVE  FALSE
    BY DEF DeadlockFree
  \* Whoever owns a fork waits for its second one.
  <2>1. ASSUME NEW f \in Philo, fork[f] # Free
        PROVE  \E k \in Philo : First(k) = f /\ Second(k) \in Philo /\ fork[Second(k)] # Free
    <3>1. PICK k \in Philo : fork[f] = k /\ f \in Holds(k)
      BY <2>1 DEF TableInv, TypeOK, ForksOwned
    <3>2. k < created /\ pc[k] # "return"
      BY <3>1 DEF TableInv, OnlyCreated, Holds, Eating
    <3>3. Blocked(k)
      BY <3>2
    <3>4. pc[k] = "lockSecond"
      BY <3>1, <3>3 DEF Blocked, Holds, Eating
    <3>5. First(k) = f /\ fork[Second(k)] # Free
      BY <3>1, <3>3, <3>4 DEF Blocked, Holds, Eating
    <3> QED BY <3>5, ForksExist
  <2>2. PICK f \in Philo : fork[f] # Free
    BY ForksExist DEF Blocked
  <2>3. PICK a \in Philo : Second(a) \in Philo /\ fork[Second(a)] # Free
    BY <2>1, <2>2
  <2>4. PICK b \in Philo : First(b) = Second(a) /\ Second(b) \in Philo /\ fork[Second(b)] # Free
    BY <2>1, <2>3
  <2>5. PICK c \in Philo : First(c) = Second(b)
    BY <2>1, <2>4
  <2> QED BY <2>4, <2>5, NoChain
<1> QED BY <1>1, Invariance, PTL


-----------------------------------------------------------------------------
(* Sums.  SumFunctionOnSet is defined by a recursive function on the       *)
(* subsets of the index set, which chooses the order of the summation;     *)
(* these lemmas say that there is such a function, that it does not        *)
(* depend on the set it is defined on, and that any summand can be taken   *)
(* out first.                                                              *)

Pick(T) == CHOOSE x \in T : TRUE

IsSum(g, F, S) == g = [T \in SUBSET S |-> IF T = {} THEN 0 ELSE F[Pick(T)] + g[T \ {Pick(T)}]]

LEMMA PickIn ==
  ASSUME NEW T, T # {}
  PROVE  Pick(T) \in T
BY DEF Pick

LEMMA SumUnfold ==
  ASSUME NEW F, NEW S
  PROVE  SumFunctionOnSet(F, S) = (CHOOSE g : IsSum(g, F, S))[S]
BY DEF SumFunctionOnSet, FoldFunctionOnSet, MapThenFoldSet, IsSum, Pick

LEMMA SumStep ==
  ASSUME NEW g, NEW F, NEW S, IsSum(g, F, S), NEW T \in SUBSET S
  PROVE  g[T] = IF T = {} THEN 0 ELSE F[Pick(T)] + g[T \ {Pick(T)}]
BY DEF IsSum

\* The least of the sizes of the sets that are in a set of finite sets.
LEMMA LeastSet ==
  ASSUME NEW C, C # {}, \A T \in C : IsFiniteSet(T)
  PROVE  \E T \in C : \A U \in C : Cardinality(T) <= Cardinality(U)
<1> DEFINE Sizes == {Cardinality(T) : T \in C}
<1>1. Sizes \subseteq Nat /\ Sizes # {}
  BY FS_CardinalityType
<1>2. PICK n \in Sizes : \A m \in Sizes : <<m, n>> \notin OpToRel(<, Nat)
  <2> HIDE DEF Sizes
  <2> QED BY <1>1, NatLessThanWellFounded, WFMin
<1>3. PICK T \in C : n = Cardinality(T)
  OBVIOUS
<1>4. ASSUME NEW U \in C
      PROVE  Cardinality(T) <= Cardinality(U)
  <2>1. PICK m \in Sizes : m = Cardinality(U)
    OBVIOUS
  <2>2. n \in Nat /\ m \in Nat
    BY <1>1
  <2>3. ~ (m < n)
    BY <1>2, <2>2 DEF OpToRel
  <2> QED BY <1>3, <2>1, <2>2, <2>3
<1> QED BY <1>4

LEMMA SmallerSet ==
  ASSUME NEW T, IsFiniteSet(T), NEW x \in T
  PROVE  /\ IsFiniteSet(T \ {x})
         /\ Cardinality(T) \in Nat /\ Cardinality(T \ {x}) \in Nat
         /\ Cardinality(T \ {x}) = Cardinality(T) - 1
BY FS_RemoveElement, FS_CardinalityType

LEMMA SumsAgree ==
  ASSUME NEW F, NEW G, NEW R, NEW S, NEW g, NEW h, IsSum(g, F, R), IsSum(h, G, S),
         NEW T, T \subseteq R, T \subseteq S, IsFiniteSet(T), \A x \in T : F[x] = G[x]
  PROVE  g[T] = h[T]
<1> DEFINE C == {U \in SUBSET T : g[U] # h[U]}
<1> SUFFICES ASSUME C # {} PROVE FALSE
  OBVIOUS
<1>1. \A U \in C : IsFiniteSet(U)
  BY FS_Subset
<1>2. PICK U \in C : \A V \in C : Cardinality(U) <= Cardinality(V)
  <2> HIDE DEF C
  <2> QED BY <1>1, LeastSet
<1>3. g[U] = (IF U = {} THEN 0 ELSE F[Pick(U)] + g[U \ {Pick(U)}])
  BY SumStep
<1>4. h[U] = (IF U = {} THEN 0 ELSE G[Pick(U)] + h[U \ {Pick(U)}])
  <2>1. U \in SUBSET S OBVIOUS
  <2> HIDE DEF C
  <2> QED BY <2>1, SumStep
<1>5. U # {}
  BY <1>3, <1>4
<1>6. PICK x \in U : x = Pick(U)
  BY <1>5, PickIn
<1>7. U \ {x} \notin C
  BY <1>1, <1>2, <1>6, SmallerSet
<1>8. g[U \ {x}] = h[U \ {x}]
  BY <1>7
<1>9. F[x] = G[x]
  BY <1>6
<1> QED BY <1>3, <1>4, <1>5, <1>6, <1>8, <1>9

LEMMA SumExists ==
  ASSUME NEW F, NEW S, IsFiniteSet(S)
  PROVE  \E g : IsSum(g, F, S)
<1> DEFINE Upto(g, n) == \A T \in SUBSET S : Cardinality(T) <= n =>
                           g[T] = IF T = {} THEN 0 ELSE F[Pick(T)] + g[T \ {Pick(T)}]
           Bad == {n \in Nat : ~ \E g : DOMAIN g = SUBSET S /\ g = [T \in SUBSET S |-> g[T]] /\ Upto(g, n)}
<1>0. \A T \in SUBSET S : IsFiniteSet(T) /\ Cardinality(T) \in Nat
  BY FS_Subset, FS_CardinalityType
<1>1. Bad = {}
  <2> SUFFICES ASSUME Bad # {} PROVE FALSE
    OBVIOUS
  <2>1. PICK n \in Bad : \A m \in Bad : <<m, n>> \notin OpToRel(<, Nat)
    <3>1. Bad \subseteq Nat OBVIOUS
    <3> HIDE DEF Bad
    <3> QED BY <3>1, NatLessThanWellFounded, WFMin
  <2>2. n # 0
    <3> SUFFICES ASSUME n = 0 PROVE FALSE OBVIOUS
    <3> DEFINE g == [T \in SUBSET S |-> 0]
    <3>1. \A T \in SUBSET S : Cardinality(T) <= 0 => T = {}
      BY <1>0, FS_EmptySet
    <3>2. Upto(g, 0)
      BY <3>1
    <3> QED BY <3>2
  <2>3. n - 1 \in Nat /\ n - 1 \notin Bad
    <3>0. n \in Nat OBVIOUS
    <3>1. n - 1 \in Nat /\ n - 1 < n BY <3>0, <2>2
    <3> HIDE DEF Bad
    <3> QED BY <2>1, <3>0, <3>1 DEF OpToRel
  <2>4. PICK g : DOMAIN g = SUBSET S /\ Upto(g, n - 1)
    BY <2>3
  <2> DEFINE h == [T \in SUBSET S |-> IF Cardinality(T) = n THEN F[Pick(T)] + g[T \ {Pick(T)}] ELSE g[T]]
  <2>5. ASSUME NEW T \in SUBSET S, Cardinality(T) <= n
        PROVE  h[T] = IF T = {} THEN 0 ELSE F[Pick(T)] + h[T \ {Pick(T)}]
    <3>1. CASE T = {}
      <4>1. Cardinality(T) = 0 BY <3>1, FS_EmptySet
      <4>2. h[T] = g[T] BY <4>1, <2>2
      <4>3. g[T] = 0 BY <2>4, <4>1, <2>3, <3>1
      <4> QED BY <4>2, <4>3, <3>1
    <3>2. CASE T # {}
      <4>1. PICK x \in T : x = Pick(T) BY <3>2, PickIn
      <4>2. Cardinality(T \ {x}) = Cardinality(T) - 1 /\ Cardinality(T) \in Nat BY <1>0, SmallerSet
      <4>3. h[T \ {x}] = g[T \ {x}] BY <4>2, <2>5
      <4>4. CASE Cardinality(T) = n BY <4>1, <4>3, <4>4, <3>2
      <4>5. CASE Cardinality(T) # n
        <5>1. Cardinality(T) <= n - 1 BY <4>2, <4>5, <2>5, <2>3
        <5>2. g[T] = F[Pick(T)] + g[T \ {Pick(T)}] BY <5>1, <2>4, <3>2
        <5> QED BY <4>1, <4>3, <4>5, <5>2, <3>2
      <4> QED BY <4>4, <4>5
    <3> QED BY <3>1, <3>2
  <2>6. DOMAIN h = SUBSET S /\ h = [T \in SUBSET S |-> h[T]] /\ Upto(h, n)
    BY <2>5
  <2> HIDE DEF h
  <2> QED BY <2>1, <2>6
<1>2. PICK n \in Nat : n = Cardinality(S)
  BY FS_CardinalityType
<1>3. PICK g : DOMAIN g = SUBSET S /\ g = [T \in SUBSET S |-> g[T]] /\ Upto(g, n)
  <2>1. n \notin Bad BY <1>1
  <2> HIDE DEF Upto
  <2> QED BY <2>1
<1>4. \A T \in SUBSET S : Cardinality(T) <= n
  BY <1>2, FS_Subset
<1>5. IsSum(g, F, S)
  BY <1>3, <1>4 DEF IsSum
<1> QED BY <1>5

LEMMA SumIs ==
  ASSUME NEW F, NEW S, IsFiniteSet(S)
  PROVE  \E g : IsSum(g, F, S) /\ \A T \in SUBSET S : SumFunctionOnSet(F, T) = g[T]
<1>1. PICK g : IsSum(g, F, S)
  BY SumExists
<1>2. ASSUME NEW T \in SUBSET S
      PROVE  SumFunctionOnSet(F, T) = g[T]
  <2>0. IsFiniteSet(T) BY FS_Subset
  <2>1. IsSum(CHOOSE h : IsSum(h, F, T), F, T) BY <2>0, SumExists
  <2>2. PICK h : h = (CHOOSE k : IsSum(k, F, T)) OBVIOUS
  <2>3. h[T] = g[T] BY <2>0, <2>1, <2>2, <1>1, SumsAgree
  <2> QED BY <2>2, <2>3, SumUnfold
<1> QED BY <1>1, <1>2

LEMMA SumEmpty ==
  ASSUME NEW F
  PROVE  SumFunctionOnSet(F, {}) = 0
<1>1. PICK g : IsSum(g, F, {}) /\ \A T \in SUBSET {} : SumFunctionOnSet(F, T) = g[T]
  BY SumIs, FS_EmptySet
<1>2. g[{}] = 0
  BY <1>1, SumStep
<1> QED BY <1>1, <1>2

LEMMA SumCongruent ==
  ASSUME NEW F, NEW G, NEW S, IsFiniteSet(S), \A x \in S : F[x] = G[x]
  PROVE  SumFunctionOnSet(F, S) = SumFunctionOnSet(G, S)
<1>1. PICK g : IsSum(g, F, S) /\ \A T \in SUBSET S : SumFunctionOnSet(F, T) = g[T]
  BY SumIs
<1>2. PICK h : IsSum(h, G, S) /\ \A T \in SUBSET S : SumFunctionOnSet(G, T) = h[T]
  BY SumIs
<1>3. g[S] = h[S]
  BY <1>1, <1>2, SumsAgree
<1> QED BY <1>1, <1>2, <1>3

LEMMA SumAny ==
  ASSUME NEW F, NEW S, IsFiniteSet(S), \A x \in S : F[x] \in Int, NEW x \in S
  PROVE  /\ SumFunctionOnSet(F, S) \in Int
         /\ SumFunctionOnSet(F, S \ {x}) \in Int
         /\ SumFunctionOnSet(F, S) = F[x] + SumFunctionOnSet(F, S \ {x})
<1>1. PICK g : IsSum(g, F, S) /\ \A T \in SUBSET S : SumFunctionOnSet(F, T) = g[T]
  BY SumIs
<1>0. \A T \in SUBSET S : IsFiniteSet(T)
  BY FS_Subset
<1>2. \A T \in SUBSET S : g[T] \in Int
  <2> DEFINE C == {T \in SUBSET S : g[T] \notin Int}
  <2> SUFFICES ASSUME C # {} PROVE FALSE
    OBVIOUS
  <2>1. \A T \in C : IsFiniteSet(T) BY <1>0
  <2>2. PICK T \in C : \A U \in C : Cardinality(T) <= Cardinality(U)
    <3> HIDE DEF C
    <3> QED BY <2>1, LeastSet
  <2>3. g[T] = (IF T = {} THEN 0 ELSE F[Pick(T)] + g[T \ {Pick(T)}]) BY <1>1, SumStep
  <2>4. T # {} BY <2>3
  <2>5. PICK y \in T : y = Pick(T) BY <2>4, PickIn
  <2>6. T \ {y} \notin C BY <2>1, <2>2, <2>5, SmallerSet
  <2>7. g[T \ {y}] \in Int BY <2>6
  <2> QED BY <2>3, <2>4, <2>5, <2>7
<1>3. \A T \in SUBSET S : \A y \in T : g[T] = F[y] + g[T \ {y}]
  <2> DEFINE C == {T \in SUBSET S : \E y \in T : g[T] # F[y] + g[T \ {y}]}
  <2> SUFFICES ASSUME C # {} PROVE FALSE
    OBVIOUS
  <2>1. \A T \in C : IsFiniteSet(T) BY <1>0
  <2>2. PICK T \in C : \A U \in C : Cardinality(T) <= Cardinality(U)
    <3> HIDE DEF C
    <3> QED BY <2>1, LeastSet
  <2>3. PICK y \in T : g[T] # F[y] + g[T \ {y}] OBVIOUS
  <2>4. PICK z \in T : z = Pick(T) BY <2>3, PickIn
  <2>5. g[T] = F[z] + g[T \ {z}]
    <3>1. T \in SUBSET S /\ T # {} OBVIOUS
    <3> HIDE DEF C
    <3>2. g[T] = (IF T = {} THEN 0 ELSE F[Pick(T)] + g[T \ {Pick(T)}]) BY <1>1, <3>1, SumStep
    <3> QED BY <2>4, <3>1, <3>2
  <2>6. y # z BY <2>3, <2>5
  <2>7. T \ {z} \notin C
    <3> HIDE DEF C
    <3> QED BY <2>1, <2>2, <2>4, SmallerSet
  <2>8. T \ {y} \notin C
    <3> HIDE DEF C
    <3> QED BY <2>1, <2>2, <2>3, SmallerSet
  <2>9. g[T \ {z}] = F[y] + g[(T \ {z}) \ {y}] BY <2>6, <2>7
  <2>10. g[T \ {y}] = F[z] + g[(T \ {y}) \ {z}] BY <2>6, <2>8
  <2>11. (T \ {z}) \ {y} = (T \ {y}) \ {z} OBVIOUS
  <2>12. PICK e \in Int : e = g[(T \ {z}) \ {y}] BY <1>2
  <2>13. F[y] \in Int /\ F[z] \in Int OBVIOUS
  <2>14. PICK u \in Int, v \in Int : u = F[y] /\ v = F[z] BY <2>13
  <2>15. g[T] = v + (u + e) BY <2>5, <2>9, <2>12, <2>14
  <2>16. F[y] + g[T \ {y}] = u + (v + e) BY <2>10, <2>11, <2>12, <2>14
  <2> HIDE DEF C
  <2> QED BY <2>3, <2>15, <2>16
<1> QED BY <1>1, <1>2, <1>3

LEMMA SumInt ==
  ASSUME NEW F, NEW S, IsFiniteSet(S), \A x \in S : F[x] \in Int
  PROVE  SumFunctionOnSet(F, S) \in Int
<1>1. CASE S = {} BY <1>1, SumEmpty
<1>2. CASE S # {} BY <1>2, SumAny
<1> QED BY <1>1, <1>2

LEMMA SumAdd ==
  ASSUME NEW F, NEW S, IsFiniteSet(S), NEW x, x \notin S, \A y \in S \cup {x} : F[y] \in Int
  PROVE  /\ SumFunctionOnSet(F, S) \in Int
         /\ SumFunctionOnSet(F, S \cup {x}) = F[x] + SumFunctionOnSet(F, S)
<1>1. (S \cup {x}) \ {x} = S
  OBVIOUS
<1>2. IsFiniteSet(S \cup {x})
  BY FS_AddElement
<1>3. PICK U : U = S \cup {x} OBVIOUS
<1>4. x \in U /\ IsFiniteSet(U) /\ U \ {x} = S /\ \A y \in U : F[y] \in Int BY <1>1, <1>2, <1>3
<1>5. SumFunctionOnSet(F, U) = F[x] + SumFunctionOnSet(F, U \ {x})
  BY <1>4, SumAny
<1>6. SumFunctionOnSet(F, S) \in Int
  BY SumInt
<1> QED BY <1>3, <1>4, <1>5, <1>6

\* The sum of the first k summands.
LEMMA SumNext ==
  ASSUME NEW F, NEW k \in Nat, \A y \in 1 .. k + 1 : F[y] \in Int
  PROVE  /\ SumFunctionOnSet(F, 1 .. k) \in Int
         /\ SumFunctionOnSet(F, 1 .. k + 1) = F[k + 1] + SumFunctionOnSet(F, 1 .. k)
<1>1. 1 .. k + 1 = (1 .. k) \cup {k + 1} /\ k + 1 \notin 1 .. k
  OBVIOUS
<1>2. IsFiniteSet(1 .. k)
  BY FS_Interval
<1> QED BY <1>1, <1>2, SumAdd

\* Changing one summand.
LEMMA SumUpdate ==
  ASSUME NEW F, NEW G, NEW S, IsFiniteSet(S), NEW x \in S, NEW d \in Int,
         \A y \in S : F[y] \in Int, G[x] = F[x] + d, \A y \in S \ {x} : G[y] = F[y]
  PROVE  SumFunctionOnSet(G, S) = SumFunctionOnSet(F, S) + d
<1>1. \A y \in S : G[y] \in Int
  OBVIOUS
<1>2. IsFiniteSet(S \ {x})
  BY FS_Subset
<1>3. SumFunctionOnSet(G, S \ {x}) = SumFunctionOnSet(F, S \ {x})
  BY <1>2, SumCongruent
<1>4. SumFunctionOnSet(G, S) = G[x] + SumFunctionOnSet(G, S \ {x})
  BY <1>1, SumAny
<1>5. SumFunctionOnSet(F, S) = F[x] + SumFunctionOnSet(F, S \ {x}) /\ SumFunctionOnSet(F, S \ {x}) \in Int
  <2>1. \A y \in S : F[y] \in Int OBVIOUS
  <2>2. SumFunctionOnSet(F, S) = F[x] + SumFunctionOnSet(F, S \ {x}) BY <2>1, SumAny
  <2>3. SumFunctionOnSet(F, S \ {x}) \in Int BY <1>2, <2>1, SumInt
  <2> QED BY <2>2, <2>3
<1>6. F[x] \in Int
  OBVIOUS
<1> QED BY <1>3, <1>4, <1>5, <1>6

LEMMA SumZero ==
  ASSUME NEW F, NEW S, IsFiniteSet(S), \A x \in S : F[x] = 0
  PROVE  SumFunctionOnSet(F, S) = 0
<1>1. PICK g : IsSum(g, F, S) /\ \A T \in SUBSET S : SumFunctionOnSet(F, T) = g[T]
  BY SumIs
<1> DEFINE C == {T \in SUBSET S : g[T] # 0}
<1> SUFFICES ASSUME C # {} PROVE FALSE
  BY <1>1
<1>2. \A T \in C : IsFiniteSet(T) BY FS_Subset
<1>3. PICK T \in C : \A U \in C : Cardinality(T) <= Cardinality(U)
  <2> HIDE DEF C
  <2> QED BY <1>2, LeastSet
<1>4. g[T] = (IF T = {} THEN 0 ELSE F[Pick(T)] + g[T \ {Pick(T)}]) BY <1>1, SumStep
<1>5. T # {} BY <1>4
<1>6. PICK y \in T : y = Pick(T) BY <1>5, PickIn
<1>7. T \ {y} \notin C BY <1>2, <1>3, <1>6, SmallerSet
<1> QED BY <1>4, <1>5, <1>6, <1>7


-----------------------------------------------------------------------------
(* The division of the work.                                               *)

\* Where the share of worker w begins, and of worker nw + 1 would begin.
Begin(w) ==
  (w - 1) * (Total \div nw)
  + IF prog = "mult" THEN (IF w - 1 <= Total % nw THEN w - 1 ELSE Total % nw)
    ELSE (IF w = 1 THEN 0 ELSE Total % nw)

LEMMA Division ==
  ASSUME NEW t \in Nat, NEW n \in Nat \ {0}
  PROVE  t \div n \in Nat /\ t % n \in Nat /\ t % n < n /\ t = n * (t \div n) + (t % n)
OBVIOUS

LEMMA DivMod ==
  ASSUME NEW c \in Nat \ {0}, NEW q \in Nat, NEW e \in 0 .. c - 1
  PROVE  (q * c + e) \div c = q /\ (q * c + e) % c = e
OBVIOUS

LEMMA ProductSum ==
  ASSUME NEW a \in Int, NEW b \in Int, NEW c \in Int
  PROVE  (a + b) * c = a * c + b * c /\ a * c \in Int
OBVIOUS

LEMMA ProductMonotone ==
  ASSUME NEW a \in Int, NEW b \in Int, NEW c \in Nat, a <= b
  PROVE  a * c <= b * c
OBVIOUS

LEMMA BeginNext ==
  ASSUME nw \in Nat \ {0}, Total \in Nat, NEW w \in Workers
  PROVE  /\ Share(w) \in Nat /\ Begin(w) \in Nat /\ Begin(w + 1) \in Nat
         /\ Begin(w + 1) = Begin(w) + Share(w)
         /\ Begin(1) = 0 /\ Begin(nw + 1) = Total
<1>1. PICK q \in Nat, r \in Nat : q = Total \div nw /\ r = Total % nw /\ r < nw /\ Total = nw * q + r
  <2>1. PICK t \in Nat : t = Total OBVIOUS
  <2>2. t \div nw \in Nat /\ t % nw \in Nat /\ t % nw < nw /\ t = nw * (t \div nw) + (t % nw) BY Division
  <2> QED BY <2>1, <2>2
<1>2. w \in Nat \ {0} /\ w <= nw
  BY DEF Workers
<1>3. PICK p \in Nat : p = (w - 1) * q
  BY <1>1, <1>2
<1>4. w * q = p + q
  <2>1. PICK u \in Nat : u = w - 1 BY <1>2
  <2>2. (u + 1) * q = u * q + 1 * q BY <1>1, <2>1, ProductSum
  <2>3. w = u + 1 BY <1>2, <2>1
  <2> QED BY <1>1, <1>3, <2>1, <2>2, <2>3
<1>5. Begin(w) = p + IF prog = "mult" THEN (IF w - 1 <= r THEN w - 1 ELSE r) ELSE (IF w = 1 THEN 0 ELSE r)
  BY <1>1, <1>3 DEF Begin
<1>6. Begin(w + 1) = (p + q) + IF prog = "mult" THEN (IF w <= r THEN w ELSE r) ELSE r
  <2>1. (w + 1) - 1 = w /\ w + 1 # 1 BY <1>2
  <2>2. Begin(w + 1) = ((w + 1) - 1) * q + IF prog = "mult" THEN (IF (w + 1) - 1 <= r THEN (w + 1) - 1 ELSE r) ELSE (IF w + 1 = 1 THEN 0 ELSE r)
    BY <1>1 DEF Begin
  <2> QED BY <1>4, <2>1, <2>2
<1>7. Share(w) = q + IF prog = "mult" THEN (IF w <= r THEN 1 ELSE 0) ELSE (IF w = 1 THEN r ELSE 0)
  BY <1>1 DEF Share
<1>8. Begin(1) = 0
  BY <1>1 DEF Begin
<1>9. Begin(nw + 1) = Total
  <2>1. (nw + 1) - 1 = nw /\ nw + 1 # 1 OBVIOUS
  <2>2. Begin(nw + 1) = ((nw + 1) - 1) * q + IF prog = "mult" THEN (IF (nw + 1) - 1 <= r THEN (nw + 1) - 1 ELSE r) ELSE (IF nw + 1 = 1 THEN 0 ELSE r)
    BY <1>1 DEF Begin
  <2> QED BY <1>1, <2>1, <2>2
<1>10. Share(w) \in Nat BY <1>1, <1>7
<1>13. PICK a \in Nat : a = IF prog = "mult" THEN (IF w - 1 <= r THEN w - 1 ELSE r) ELSE (IF w = 1 THEN 0 ELSE r)
  BY <1>1, <1>2
<1>14. PICK b \in Nat : b = IF prog = "mult" THEN (IF w <= r THEN w ELSE r) ELSE r
  BY <1>1, <1>2
<1>15. b = a + IF prog = "mult" THEN (IF w <= r THEN 1 ELSE 0) ELSE (IF w = 1 THEN r ELSE 0)
  <2>1. CASE prog = "mult"
    <3>1. a = IF w - 1 <= r THEN w - 1 ELSE r BY <1>13, <2>1
    <3>2. b = IF w <= r THEN w ELSE r BY <1>14, <2>1
    <3>3. b = a + IF w <= r THEN 1 ELSE 0 BY <1>1, <1>2, <3>1, <3>2
    <3> QED BY <2>1, <3>3
  <2>2. CASE prog # "mult"
    <3>1. a = IF w = 1 THEN 0 ELSE r BY <1>13, <2>2
    <3>2. b = r BY <1>14, <2>2
    <3>3. b = a + IF w = 1 THEN r ELSE 0 BY <1>1, <1>2, <3>1, <3>2
    <3> QED BY <2>2, <3>3
  <2> QED BY <2>1, <2>2
<1>16. Begin(w) = p + a /\ Begin(w + 1) = (p + q) + b
  BY <1>5, <1>6, <1>13, <1>14
<1>17. PICK d \in Nat : d = IF prog = "mult" THEN (IF w <= r THEN 1 ELSE 0) ELSE (IF w = 1 THEN r ELSE 0)
  BY <1>1
<1>11. Begin(w) \in Nat BY <1>3, <1>13, <1>16
<1>12. Begin(w + 1) = Begin(w) + Share(w)
  <2>1. Share(w) = q + d BY <1>7, <1>17
  <2>2. b = a + d BY <1>15, <1>17
  <2>3. (p + q) + b = (p + a) + (q + d)
    <3>1. \A x1, x2, x3, x4 \in Nat : (x1 + x2) + (x3 + x4) = (x1 + x3) + (x2 + x4) OBVIOUS
    <3> QED BY <2>2, <3>1
  <2> QED BY <1>16, <2>1, <2>3
<1> QED BY <1>8, <1>9, <1>10, <1>11, <1>12

\* The loop of startrow and start computes the same.
LEMMA StartIs ==
  ASSUME nw \in Nat \ {0}, Total \in Nat, NEW w \in Workers
  PROVE  ShareStart(w) = Begin(w)
<1> DEFINE Loop(s) == s = [v \in 1 .. w |-> IF v = 1 THEN 0 ELSE s[v - 1] + Share(v - 1)]
           begin == [v \in 1 .. w |-> Begin(v)]
<1>1. ShareStart(w) = (CHOOSE s : Loop(s))[w]
  BY DEF ShareStart
<1>2. w \in Nat /\ w >= 1 /\ w <= nw
  BY DEF Workers
<1>3. Loop(begin)
  <2>1. ASSUME NEW v \in 1 .. w
        PROVE  Begin(v) = IF v = 1 THEN 0 ELSE begin[v - 1] + Share(v - 1)
    <3>1. CASE v = 1 BY <3>1, BeginNext
    <3>2. CASE v # 1
      <4>1. PICK u \in Workers : u = v - 1 /\ u + 1 = v /\ u \in 1 .. w BY <1>2, <3>2 DEF Workers
      <4>2. Begin(u + 1) = Begin(u) + Share(u) BY BeginNext
      <4> QED BY <3>2, <4>1, <4>2
    <3> QED BY <3>1, <3>2
  <2> QED BY <2>1
<1>4. PICK s : s = (CHOOSE t : Loop(t)) /\ Loop(s)
  BY <1>3
<1>5. ASSUME NEW v \in 1 .. w
      PROVE  s[v] = IF v = 1 THEN 0 ELSE s[v - 1] + Share(v - 1)
  BY <1>4
<1> DEFINE Bad == {v \in 1 .. w : s[v] # Begin(v)}
<1>6. Bad = {}
  <2> SUFFICES ASSUME Bad # {} PROVE FALSE OBVIOUS
  <2>1. Bad \subseteq Nat BY <1>2
  <2>2. PICK v \in Bad : \A u \in Bad : <<u, v>> \notin OpToRel(<, Nat)
    <3> HIDE DEF Bad
    <3> QED BY <2>1, NatLessThanWellFounded, WFMin
  <2>3. v \in 1 .. w /\ s[v] # Begin(v) OBVIOUS
  <2>4. v # 1
    <3>1. CASE v = 1
      <4>1. s[1] = 0 BY <1>5, <2>3, <3>1
      <4>2. Begin(1) = 0 BY BeginNext
      <4> QED BY <2>3, <3>1, <4>1, <4>2
    <3> QED BY <3>1
  <2>5. PICK u \in Workers : u = v - 1 /\ u + 1 = v /\ u \in 1 .. w BY <1>2, <2>3, <2>4 DEF Workers
  <2>6. u \notin Bad
    <3>1. u \in Nat /\ v \in Nat /\ u < v BY <2>3, <2>5
    <3> HIDE DEF Bad
    <3> QED BY <2>2, <3>1 DEF OpToRel
  <2>7. s[u] = Begin(u) BY <2>5, <2>6
  <2>8. Begin(u + 1) = Begin(u) + Share(u) BY BeginNext
  <2>9. s[v] = s[u] + Share(u)
    <3> HIDE DEF Bad
    <3> QED BY <1>5, <2>3, <2>4, <2>5
  <2> HIDE DEF Bad
  <2> QED BY <2>3, <2>5, <2>7, <2>8, <2>9
<1>7. w \in 1 .. w /\ w \notin Bad
  <2> HIDE DEF Bad
  <2> QED BY <1>2, <1>6
<1>8. s[w] = Begin(w)
  BY <1>7
<1> QED BY <1>1, <1>4, <1>8

\* The shares do not overlap and end with the work.
LEMMA BeginMonotone ==
  ASSUME nw \in Nat \ {0}, Total \in Nat, NEW v \in 1 .. nw + 1, NEW w \in 1 .. nw + 1, v <= w
  PROVE  Begin(v) <= Begin(w)
<1>1. PICK q \in Nat, r \in Nat : q = Total \div nw /\ r = Total % nw /\ r < nw /\ Total = nw * q + r
  <2>1. PICK t \in Nat : t = Total OBVIOUS
  <2>2. t \div nw \in Nat /\ t % nw \in Nat /\ t % nw < nw /\ t = nw * (t \div nw) + (t % nw) BY Division
  <2> QED BY <2>1, <2>2
<1>2. PICK x \in Nat, y \in Nat : x = (v - 1) * q /\ y = (w - 1) * q
  BY <1>1
<1>3. x <= y
  <2>1. PICK a \in Nat, b \in Nat : a = v - 1 /\ b = w - 1 /\ a <= b OBVIOUS
  <2> QED BY <1>1, <1>2, <2>1, ProductMonotone
<1>4. Begin(v) = x + IF prog = "mult" THEN (IF v - 1 <= r THEN v - 1 ELSE r) ELSE (IF v = 1 THEN 0 ELSE r)
  BY <1>1, <1>2 DEF Begin
<1>5. Begin(w) = y + IF prog = "mult" THEN (IF w - 1 <= r THEN w - 1 ELSE r) ELSE (IF w = 1 THEN 0 ELSE r)
  BY <1>1, <1>2 DEF Begin
<1>6. PICK a \in Nat, b \in Nat :
         /\ a = IF prog = "mult" THEN (IF v - 1 <= r THEN v - 1 ELSE r) ELSE (IF v = 1 THEN 0 ELSE r)
         /\ b = IF prog = "mult" THEN (IF w - 1 <= r THEN w - 1 ELSE r) ELSE (IF w = 1 THEN 0 ELSE r)
  <2>1. \A u \in 1 .. nw + 1 : \E a \in Nat :
          a = IF prog = "mult" THEN (IF u - 1 <= r THEN u - 1 ELSE r) ELSE (IF u = 1 THEN 0 ELSE r)
    BY <1>1
  <2> QED BY <2>1
<1>7. a <= b
  <2>1. CASE prog = "mult"
    <3>1. a = (IF v - 1 <= r THEN v - 1 ELSE r) /\ b = (IF w - 1 <= r THEN w - 1 ELSE r) BY <1>6, <2>1
    <3> QED BY <1>1, <3>1
  <2>2. CASE prog # "mult"
    <3>1. a = (IF v = 1 THEN 0 ELSE r) /\ b = (IF w = 1 THEN 0 ELSE r) BY <1>6, <2>2
    <3> QED BY <1>1, <3>1
  <2> QED BY <2>1, <2>2
<1>8. Begin(v) = x + a /\ Begin(w) = y + b
  BY <1>4, <1>5, <1>6
<1> QED BY <1>2, <1>3, <1>6, <1>7, <1>8

LEMMA SharesApart ==
  ASSUME nw \in Nat \ {0}, Total \in Nat, NEW v \in Workers, NEW w \in Workers, v < w
  PROVE  Begin(v) + Share(v) <= Begin(w)
<1>1. v + 1 \in 1 .. nw + 1 /\ w \in 1 .. nw + 1 /\ v + 1 <= w
  BY DEF Workers
<1>2. Begin(v + 1) <= Begin(w)
  BY <1>1, BeginMonotone
<1> QED BY <1>2, BeginNext

LEMMA SharesFit ==
  ASSUME nw \in Nat \ {0}, Total \in Nat, NEW w \in Workers
  PROVE  Begin(w) + Share(w) <= Total
<1>1. w + 1 \in 1 .. nw + 1 /\ nw + 1 \in 1 .. nw + 1 /\ w + 1 <= nw + 1
  BY DEF Workers
<1>2. Begin(w + 1) <= Begin(nw + 1)
  BY <1>1, BeginMonotone
<1> QED BY <1>2, BeginNext

\* Every piece of work is in a share.
LEMMA SharesCover ==
  ASSUME nw \in Nat \ {0}, Total \in Nat, NEW x \in Nat, x < Total
  PROVE  \E w \in Workers : Begin(w) <= x /\ x < Begin(w) + Share(w)
<1> DEFINE After == {w \in 1 .. nw + 1 : x < Begin(w)}
<1>1. nw + 1 \in After
  <2>1. nw \in Workers BY DEF Workers
  <2> QED BY <2>1, BeginNext
<1>2. After \subseteq Nat OBVIOUS
<1>3. PICK w \in After : \A u \in After : <<u, w>> \notin OpToRel(<, Nat)
  <2> HIDE DEF After
  <2> QED BY <1>1, <1>2, NatLessThanWellFounded, WFMin
<1>4. w \in 1 .. nw + 1 /\ x < Begin(w) OBVIOUS
<1>5. w # 1
  <2>1. 1 \in Workers BY DEF Workers
  <2>2. Begin(1) = 0 BY <2>1, BeginNext
  <2> QED BY <1>4, <2>2
<1>6. PICK v \in Workers : v = w - 1 /\ v + 1 = w /\ v \in 1 .. nw + 1
  BY <1>4, <1>5 DEF Workers
<1>7. v \notin After
  <2>1. v \in Nat /\ w \in Nat /\ v < w BY <1>4, <1>6
  <2> HIDE DEF After
  <2> QED BY <1>3, <2>1 DEF OpToRel
<1>8. ~ (x < Begin(v)) BY <1>6, <1>7
<1>9. Begin(v) \in Nat /\ Begin(v + 1) = Begin(v) + Share(v) BY BeginNext
<1> HIDE DEF After
<1> QED BY <1>4, <1>6, <1>8, <1>9

-----------------------------------------------------------------------------
(* Products over a set, likewise.                                          *)

Product(F, S) == FoldFunctionOnSet(LAMBDA x, y : x * y, 1, F, S)

IsProduct(g, F, S) == g = [T \in SUBSET S |-> IF T = {} THEN 1 ELSE F[Pick(T)] * g[T \ {Pick(T)}]]

LEMMA ProductUnfold ==
  ASSUME NEW F, NEW S
  PROVE  Product(F, S) = (CHOOSE g : IsProduct(g, F, S))[S]
BY DEF Product, FoldFunctionOnSet, MapThenFoldSet, IsProduct, Pick

LEMMA ProductStep ==
  ASSUME NEW g, NEW F, NEW S, IsProduct(g, F, S), NEW T \in SUBSET S
  PROVE  g[T] = IF T = {} THEN 1 ELSE F[Pick(T)] * g[T \ {Pick(T)}]
BY DEF IsProduct

LEMMA ProductsAgree ==
  ASSUME NEW F, NEW G, NEW R, NEW S, NEW g, NEW h, IsProduct(g, F, R), IsProduct(h, G, S),
         NEW T, T \subseteq R, T \subseteq S, IsFiniteSet(T), \A x \in T : F[x] = G[x]
  PROVE  g[T] = h[T]
<1> DEFINE C == {U \in SUBSET T : g[U] # h[U]}
<1> SUFFICES ASSUME C # {} PROVE FALSE
  OBVIOUS
<1>1. \A U \in C : IsFiniteSet(U)
  BY FS_Subset
<1>2. PICK U \in C : \A V \in C : Cardinality(U) <= Cardinality(V)
  <2> HIDE DEF C
  <2> QED BY <1>1, LeastSet
<1>3. g[U] = (IF U = {} THEN 1 ELSE F[Pick(U)] * g[U \ {Pick(U)}])
  BY ProductStep
<1>4. h[U] = (IF U = {} THEN 1 ELSE G[Pick(U)] * h[U \ {Pick(U)}])
  <2>1. U \in SUBSET S OBVIOUS
  <2> HIDE DEF C
  <2> QED BY <2>1 DEF IsProduct
<1>5. U # {}
  BY <1>3, <1>4
<1>6. PICK x \in U : x = Pick(U)
  BY <1>5, PickIn
<1>7. U \ {x} \notin C
  BY <1>1, <1>2, <1>6, SmallerSet
<1>8. g[U \ {x}] = h[U \ {x}]
  BY <1>7
<1>9. F[x] = G[x]
  BY <1>6
<1> QED BY <1>3, <1>4, <1>5, <1>6, <1>8, <1>9

LEMMA ProductExists ==
  ASSUME NEW F, NEW S, IsFiniteSet(S)
  PROVE  \E g : IsProduct(g, F, S)
<1> DEFINE Upto(g, n) == \A T \in SUBSET S : Cardinality(T) <= n =>
                           g[T] = IF T = {} THEN 1 ELSE F[Pick(T)] * g[T \ {Pick(T)}]
           Bad == {n \in Nat : ~ \E g : DOMAIN g = SUBSET S /\ g = [T \in SUBSET S |-> g[T]] /\ Upto(g, n)}
<1>0. \A T \in SUBSET S : IsFiniteSet(T) /\ Cardinality(T) \in Nat
  BY FS_Subset, FS_CardinalityType
<1>1. Bad = {}
  <2> SUFFICES ASSUME Bad # {} PROVE FALSE
    OBVIOUS
  <2>1. PICK n \in Bad : \A m \in Bad : <<m, n>> \notin OpToRel(<, Nat)
    <3>1. Bad \subseteq Nat OBVIOUS
    <3> HIDE DEF Bad
    <3> QED BY <3>1, NatLessThanWellFounded, WFMin
  <2>2. n # 0
    <3> SUFFICES ASSUME n = 0 PROVE FALSE OBVIOUS
    <3> DEFINE g == [T \in SUBSET S |-> 1]
    <3>1. \A T \in SUBSET S : Cardinality(T) <= 0 => T = {}
      BY <1>0, FS_EmptySet
    <3>2. Upto(g, 0)
      BY <3>1
    <3> QED BY <3>2
  <2>3. n - 1 \in Nat /\ n - 1 \notin Bad
    <3>0. n \in Nat OBVIOUS
    <3>1. n - 1 \in Nat /\ n - 1 < n BY <3>0, <2>2
    <3> HIDE DEF Bad
    <3> QED BY <2>1, <3>0, <3>1 DEF OpToRel
  <2>4. PICK g : DOMAIN g = SUBSET S /\ Upto(g, n - 1)
    BY <2>3
  <2> DEFINE h == [T \in SUBSET S |-> IF Cardinality(T) = n THEN F[Pick(T)] * g[T \ {Pick(T)}] ELSE g[T]]
  <2>5. ASSUME NEW T \in SUBSET S, Cardinality(T) <= n
        PROVE  h[T] = IF T = {} THEN 1 ELSE F[Pick(T)] * h[T \ {Pick(T)}]
    <3>1. CASE T = {}
      <4>1. Cardinality(T) = 0 BY <3>1, FS_EmptySet
      <4>2. h[T] = g[T] BY <4>1, <2>2
      <4>3. g[T] = 1 BY <2>4, <4>1, <2>3, <3>1
      <4> QED BY <4>2, <4>3, <3>1
    <3>2. CASE T # {}
      <4>1. PICK x \in T : x = Pick(T) BY <3>2, PickIn
      <4>2. Cardinality(T \ {x}) = Cardinality(T) - 1 /\ Cardinality(T) \in Nat BY <1>0, SmallerSet
      <4>3. h[T \ {x}] = g[T \ {x}] BY <4>2, <2>5
      <4>4. CASE Cardinality(T) = n BY <4>1, <4>3, <4>4, <3>2
      <4>5. CASE Cardinality(T) # n
        <5>1. Cardinality(T) <= n - 1 BY <4>2, <4>5, <2>5, <2>3
        <5>2. g[T] = F[Pick(T)] * g[T \ {Pick(T)}] BY <5>1, <2>4, <3>2
        <5> QED BY <4>1, <4>3, <4>5, <5>2, <3>2
      <4> QED BY <4>4, <4>5
    <3> QED BY <3>1, <3>2
  <2>6. DOMAIN h = SUBSET S /\ h = [T \in SUBSET S |-> h[T]] /\ Upto(h, n)
    BY <2>5
  <2> HIDE DEF h
  <2> QED BY <2>1, <2>6
<1>2. PICK n \in Nat : n = Cardinality(S)
  BY FS_CardinalityType
<1>3. PICK g : DOMAIN g = SUBSET S /\ g = [T \in SUBSET S |-> g[T]] /\ Upto(g, n)
  <2>1. n \notin Bad BY <1>1
  <2> HIDE DEF Upto
  <2> QED BY <2>1
<1>4. \A T \in SUBSET S : Cardinality(T) <= n
  BY <1>2, FS_Subset
<1>5. IsProduct(g, F, S)
  BY <1>3, <1>4 DEF IsProduct
<1> QED BY <1>5

LEMMA ProductIs ==
  ASSUME NEW F, NEW S, IsFiniteSet(S)
  PROVE  \E g : IsProduct(g, F, S) /\ \A T \in SUBSET S : Product(F, T) = g[T]
<1>1. PICK g : IsProduct(g, F, S)
  BY ProductExists
<1>2. ASSUME NEW T \in SUBSET S
      PROVE  Product(F, T) = g[T]
  <2>0. IsFiniteSet(T) BY FS_Subset
  <2>1. IsProduct(CHOOSE h : IsProduct(h, F, T), F, T) BY <2>0, ProductExists
  <2>2. PICK h : h = (CHOOSE k : IsProduct(k, F, T)) OBVIOUS
  <2>3. h[T] = g[T] BY <2>0, <2>1, <2>2, <1>1, ProductsAgree
  <2> QED BY <2>2, <2>3, ProductUnfold
<1> QED BY <1>1, <1>2

LEMMA ProductEmpty ==
  ASSUME NEW F
  PROVE  Product(F, {}) = 1
<1>1. PICK g : IsProduct(g, F, {}) /\ \A T \in SUBSET {} : Product(F, T) = g[T]
  BY ProductIs, FS_EmptySet
<1>2. g[{}] = 1
  BY <1>1, ProductStep
<1> QED BY <1>1, <1>2

LEMMA ProductCongruent ==
  ASSUME NEW F, NEW G, NEW S, IsFiniteSet(S), \A x \in S : F[x] = G[x]
  PROVE  Product(F, S) = Product(G, S)
<1>1. PICK g : IsProduct(g, F, S) /\ \A T \in SUBSET S : Product(F, T) = g[T]
  BY ProductIs
<1>2. PICK h : IsProduct(h, G, S) /\ \A T \in SUBSET S : Product(G, T) = h[T]
  BY ProductIs
<1>3. g[S] = h[S]
  BY <1>1, <1>2, ProductsAgree
<1> QED BY <1>1, <1>2, <1>3

LEMMA ProductAny ==
  ASSUME NEW F, NEW S, IsFiniteSet(S), \A x \in S : F[x] \in Int, NEW x \in S
  PROVE  /\ Product(F, S) \in Int
         /\ Product(F, S \ {x}) \in Int
         /\ Product(F, S) = F[x] * Product(F, S \ {x})
<1>1. PICK g : IsProduct(g, F, S) /\ \A T \in SUBSET S : Product(F, T) = g[T]
  BY ProductIs
<1>0. \A T \in SUBSET S : IsFiniteSet(T)
  BY FS_Subset
<1>2. \A T \in SUBSET S : g[T] \in Int
  <2> DEFINE C == {T \in SUBSET S : g[T] \notin Int}
  <2> SUFFICES ASSUME C # {} PROVE FALSE
    OBVIOUS
  <2>1. \A T \in C : IsFiniteSet(T) BY <1>0
  <2>2. PICK T \in C : \A U \in C : Cardinality(T) <= Cardinality(U)
    <3> HIDE DEF C
    <3> QED BY <2>1, LeastSet
  <2>3. g[T] = (IF T = {} THEN 1 ELSE F[Pick(T)] * g[T \ {Pick(T)}]) BY <1>1, ProductStep
  <2>4. T # {} BY <2>3
  <2>5. PICK y \in T : y = Pick(T) BY <2>4, PickIn
  <2>6. T \ {y} \notin C BY <2>1, <2>2, <2>5, SmallerSet
  <2>7. g[T \ {y}] \in Int BY <2>6
  <2> QED BY <2>3, <2>4, <2>5, <2>7
<1>3. \A T \in SUBSET S : \A y \in T : g[T] = F[y] * g[T \ {y}]
  <2> DEFINE C == {T \in SUBSET S : \E y \in T : g[T] # F[y] * g[T \ {y}]}
  <2> SUFFICES ASSUME C # {} PROVE FALSE
    OBVIOUS
  <2>1. \A T \in C : IsFiniteSet(T) BY <1>0
  <2>2. PICK T \in C : \A U \in C : Cardinality(T) <= Cardinality(U)
    <3> HIDE DEF C
    <3> QED BY <2>1, LeastSet
  <2>3. PICK y \in T : g[T] # F[y] * g[T \ {y}] OBVIOUS
  <2>4. PICK z \in T : z = Pick(T) BY <2>3, PickIn
  <2>5. g[T] = F[z] * g[T \ {z}]
    <3>1. T \in SUBSET S /\ T # {} OBVIOUS
    <3> HIDE DEF C
    <3>2. g[T] = (IF T = {} THEN 1 ELSE F[Pick(T)] * g[T \ {Pick(T)}]) BY <1>1, <3>1 DEF IsProduct
    <3> QED BY <2>4, <3>1, <3>2
  <2>6. y # z BY <2>3, <2>5
  <2>7. T \ {z} \notin C
    <3> HIDE DEF C
    <3> QED BY <2>1, <2>2, <2>4, SmallerSet
  <2>8. T \ {y} \notin C
    <3> HIDE DEF C
    <3> QED BY <2>1, <2>2, <2>3, SmallerSet
  <2>9. g[T \ {z}] = F[y] * g[(T \ {z}) \ {y}] BY <2>6, <2>7
  <2>10. g[T \ {y}] = F[z] * g[(T \ {y}) \ {z}] BY <2>6, <2>8
  <2>11. (T \ {z}) \ {y} = (T \ {y}) \ {z} OBVIOUS
  <2>12. PICK e \in Int : e = g[(T \ {z}) \ {y}] BY <1>2
  <2>13. F[y] \in Int /\ F[z] \in Int OBVIOUS
  <2>14. PICK u \in Int, v \in Int : u = F[y] /\ v = F[z] BY <2>13
  <2>15. g[T] = v * (u * e) BY <2>5, <2>9, <2>12, <2>14
  <2>16. F[y] * g[T \ {y}] = u * (v * e) BY <2>10, <2>11, <2>12, <2>14
  <2> HIDE DEF C
  <2> QED BY <2>3, <2>15, <2>16
<1> QED BY <1>1, <1>2, <1>3

LEMMA ProductInt ==
  ASSUME NEW F, NEW S, IsFiniteSet(S), \A x \in S : F[x] \in Int
  PROVE  Product(F, S) \in Int
<1>1. CASE S = {} BY <1>1, ProductEmpty
<1>2. CASE S # {} BY <1>2, ProductAny
<1> QED BY <1>1, <1>2


\* P is what x leaves of S, and v its factor.
Takes(F, S, x, P, v) == IsFiniteSet(S) /\ x \in S /\ P = S \ {x} /\ v = F[x] /\ \A y \in S : F[y] \in Int

LEMMA ProductTake ==
  ASSUME NEW F, NEW S, NEW x, NEW P, NEW v, Takes(F, S, x, P, v)
  PROVE  Product(F, S) = v * Product(F, P)
<1>1. IsFiniteSet(S) /\ x \in S /\ P = S \ {x} /\ v = F[x] /\ \A y \in S : F[y] \in Int BY DEF Takes
<1>2. Product(F, S) = F[x] * Product(F, S \ {x}) BY <1>1, ProductAny
<1> QED BY <1>1, <1>2
-----------------------------------------------------------------------------
(* More about sums.                                                        *)

LEMMA SumUnion ==
  ASSUME NEW F, NEW S, NEW T, IsFiniteSet(S), IsFiniteSet(T), S \cap T = {}, \A x \in S \cup T : F[x] \in Int
  PROVE  SumFunctionOnSet(F, S \cup T) = SumFunctionOnSet(F, S) + SumFunctionOnSet(F, T)
<1> DEFINE C == {U \in SUBSET T : SumFunctionOnSet(F, S \cup U) # SumFunctionOnSet(F, S) + SumFunctionOnSet(F, U)}
<1>1. C = {}
  <2> SUFFICES ASSUME C # {} PROVE FALSE OBVIOUS
  <2>1. \A U \in C : IsFiniteSet(U) BY FS_Subset
  <2>2. PICK U \in C : \A V \in C : Cardinality(U) <= Cardinality(V)
    <3> HIDE DEF C
    <3> QED BY <2>1, LeastSet
  <2>3. U \in SUBSET T /\ SumFunctionOnSet(F, S \cup U) # SumFunctionOnSet(F, S) + SumFunctionOnSet(F, U) OBVIOUS
  <2>4. SumFunctionOnSet(F, S) \in Int BY SumInt
  <2>5. U # {}
    <3> SUFFICES ASSUME U = {} PROVE FALSE OBVIOUS
    <3>1. SumFunctionOnSet(F, U) = 0 BY SumEmpty
    <3>2. S \cup U = S OBVIOUS
    <3> QED BY <2>3, <2>4, <3>1, <3>2
  <2>6. PICK u \in U : TRUE BY <2>5
  <2>7. U \ {u} \notin C
    <3> HIDE DEF C
    <3> QED BY <2>1, <2>2, <2>6, SmallerSet
  <2>8. SumFunctionOnSet(F, S \cup (U \ {u})) = SumFunctionOnSet(F, S) + SumFunctionOnSet(F, U \ {u}) BY <2>3, <2>7
  <2>a. u \notin S BY <2>3, <2>6
  <2>9. PICK W : W = S \cup U /\ u \in W /\ W \ {u} = S \cup (U \ {u})
    <3>1. (S \cup U) \ {u} = S \cup (U \ {u}) BY <2>a
    <3>2. u \in S \cup U BY <2>6
    <3> QED BY <3>1, <3>2
  <2>10. IsFiniteSet(U) /\ IsFiniteSet(W) BY <2>1, <2>9, FS_Union
  <2>11. (\A x \in W : F[x] \in Int) /\ (\A x \in U : F[x] \in Int) BY <2>3, <2>9
  <2> HIDE DEF C
  <2>12. SumFunctionOnSet(F, W) = F[u] + SumFunctionOnSet(F, W \ {u}) BY <2>9, <2>10, <2>11, SumAny
  <2>13. SumFunctionOnSet(F, U) = F[u] + SumFunctionOnSet(F, U \ {u}) BY <2>6, <2>10, <2>11, SumAny
  <2>14. SumFunctionOnSet(F, U \ {u}) \in Int BY <2>6, <2>10, <2>11, SumAny
  <2>15. PICK x \in Int, y \in Int, z \in Int : x = SumFunctionOnSet(F, S) /\ y = SumFunctionOnSet(F, U \ {u}) /\ z = F[u]
    BY <2>4, <2>6, <2>11, <2>14
  <2>16. SumFunctionOnSet(F, S \cup U) = z + (x + y) BY <2>8, <2>9, <2>12, <2>15
  <2>17. SumFunctionOnSet(F, S) + SumFunctionOnSet(F, U) = x + (z + y) BY <2>13, <2>15
  <2> QED BY <2>3, <2>16, <2>17
<1>2. T \notin C BY <1>1
<1> QED BY <1>2

\* G sums F up by the value of h.
Groups(F, G, h, S, T) ==
  /\ IsFiniteSet(S) /\ IsFiniteSet(T)
  /\ \A x \in S : F[x] \in Int /\ h[x] \in T
  /\ \A t \in T : G[t] = SumFunctionOnSet(F, {x \in S : h[x] = t})

LEMMA SumPartition ==
  ASSUME NEW F, NEW G, NEW h, NEW S, NEW T, Groups(F, G, h, S, T)
  PROVE  SumFunctionOnSet(F, S) = SumFunctionOnSet(G, T)
<1> USE DEF Groups
<1> DEFINE Part(U) == {x \in S : h[x] \in U}
           C == {U \in SUBSET T : SumFunctionOnSet(F, Part(U)) # SumFunctionOnSet(G, U)}
<1>0. \A t \in T : IsFiniteSet({x \in S : h[x] = t}) /\ G[t] \in Int
  <2>1. ASSUME NEW t \in T PROVE IsFiniteSet({x \in S : h[x] = t}) /\ G[t] \in Int
    <3>1. PICK P : P = {x \in S : h[x] = t} OBVIOUS
    <3>2. IsFiniteSet(P) BY <3>1, FS_Subset
    <3>3. \A x \in P : F[x] \in Int BY <3>1
    <3>4. SumFunctionOnSet(F, P) \in Int BY <3>2, <3>3, SumInt
    <3> QED BY <3>1, <3>2, <3>4
  <2> QED BY <2>1
<1>1. C = {}
  <2> SUFFICES ASSUME C # {} PROVE FALSE OBVIOUS
  <2>1. \A U \in C : IsFiniteSet(U) BY FS_Subset
  <2>2. PICK U \in C : \A V \in C : Cardinality(U) <= Cardinality(V)
    <3> HIDE DEF C
    <3> QED BY <2>1, LeastSet
  <2>3. U \in SUBSET T /\ SumFunctionOnSet(F, Part(U)) # SumFunctionOnSet(G, U) OBVIOUS
  <2>5. U # {}
    <3> SUFFICES ASSUME U = {} PROVE FALSE OBVIOUS
    <3>1. Part(U) = {} OBVIOUS
    <3> HIDE DEF Part
    <3> QED BY <2>3, <3>1, SumEmpty
  <2>6. PICK u \in U : u \in T BY <2>3, <2>5
  <2>7. U \ {u} \notin C
    <3> HIDE DEF C
    <3> QED BY <2>1, <2>2, <2>6, SmallerSet
  <2>8. SumFunctionOnSet(F, Part(U \ {u})) = SumFunctionOnSet(G, U \ {u}) BY <2>3, <2>7
  <2>9. PICK P, Q : P = Part(U \ {u}) /\ Q = {x \in S : h[x] = u} /\ P \cap Q = {} /\ P \cup Q = Part(U) /\ P \subseteq S /\ Q \subseteq S
    <3>1. Part(U \ {u}) \cap {x \in S : h[x] = u} = {} OBVIOUS
    <3>2. Part(U \ {u}) \cup {x \in S : h[x] = u} = Part(U) BY <2>6
    <3>3. Part(U \ {u}) \subseteq S /\ {x \in S : h[x] = u} \subseteq S OBVIOUS
    <3> HIDE DEF Part, C
    <3> QED BY <3>1, <3>2, <3>3
  <2>10. IsFiniteSet(P) /\ IsFiniteSet(Q) BY <2>9, FS_Subset
  <2>11. \A x \in P \cup Q : F[x] \in Int BY <2>9
  <2> HIDE DEF Part, C
  <2>12. SumFunctionOnSet(F, P \cup Q) = SumFunctionOnSet(F, P) + SumFunctionOnSet(F, Q) BY <2>9, <2>10, <2>11, SumUnion
  <2>13. \A t \in U : G[t] \in Int BY <1>0, <2>3
  <2>14. IsFiniteSet(U) BY <2>1
  <2>15. SumFunctionOnSet(G, U) = G[u] + SumFunctionOnSet(G, U \ {u}) BY <2>6, <2>13, <2>14, SumAny
  <2>16. SumFunctionOnSet(G, U \ {u}) \in Int BY <2>6, <2>13, <2>14, SumAny
  <2>17. G[u] = SumFunctionOnSet(F, Q) /\ G[u] \in Int BY <1>0, <2>6, <2>9
  <2>18. PICK x \in Int, y \in Int : x = SumFunctionOnSet(F, P) /\ y = SumFunctionOnSet(F, Q)
    BY <2>8, <2>9, <2>16, <2>17
  <2>19. SumFunctionOnSet(F, Part(U)) = x + y BY <2>9, <2>12, <2>18
  <2>20. SumFunctionOnSet(G, U) = y + x BY <2>8, <2>9, <2>15, <2>17, <2>18
  <2> QED BY <2>3, <2>18, <2>19, <2>20
<1>2. T \notin C BY <1>1
<1>3. Part(T) = S OBVIOUS
<1>4. SumFunctionOnSet(F, Part(T)) = SumFunctionOnSet(G, T) BY <1>2
<1> HIDE DEF Part
<1> QED BY <1>3, <1>4

\* Renaming the indices.
Renames(F, G, h, S, T) ==
  /\ IsFiniteSet(S) /\ IsFiniteSet(T)
  /\ \A x \in S : F[x] \in Int /\ h[x] \in T /\ F[x] = G[h[x]]
  /\ \A x, y \in S : h[x] = h[y] => x = y
  /\ \A t \in T : \E x \in S : h[x] = t

LEMMA SumRename ==
  ASSUME NEW F, NEW G, NEW h, NEW S, NEW T, Renames(F, G, h, S, T)
  PROVE  SumFunctionOnSet(F, S) = SumFunctionOnSet(G, T)
<1> USE DEF Renames
<1>1. ASSUME NEW t \in T PROVE G[t] = SumFunctionOnSet(F, {x \in S : h[x] = t})
  <2>1. PICK s \in S : h[s] = t OBVIOUS
  <2>2. {x \in S : h[x] = t} = {s} BY <2>1
  <2>3. SumFunctionOnSet(F, {} \cup {s}) = F[s] + SumFunctionOnSet(F, {})
    <3>1. IsFiniteSet({}) /\ s \notin {} /\ \A y \in {} \cup {s} : F[y] \in Int BY <2>1, FS_EmptySet
    <3> QED BY <3>1, SumAdd
  <2>4. {} \cup {s} = {s} OBVIOUS
  <2>5. SumFunctionOnSet(F, {}) = 0 BY SumEmpty
  <2>6. F[s] \in Int /\ F[s] = G[t] BY <2>1
  <2>7. SumFunctionOnSet(F, {s}) = G[t] BY <2>3, <2>4, <2>5, <2>6
  <2> QED BY <2>2, <2>7
<1>2. \A t \in T : G[t] = SumFunctionOnSet(F, {x \in S : h[x] = t}) BY <1>1
<1>3. Groups(F, G, h, S, T) BY <1>2 DEF Groups
<1> QED BY <1>3, SumPartition

LEMMA SumScale ==
  ASSUME NEW F, NEW G, NEW k \in Int, NEW S, IsFiniteSet(S), \A x \in S : G[x] \in Int /\ F[x] = k * G[x]
  PROVE  SumFunctionOnSet(F, S) = k * SumFunctionOnSet(G, S)
<1> DEFINE C == {U \in SUBSET S : SumFunctionOnSet(F, U) # k * SumFunctionOnSet(G, U)}
<1>1. C = {}
  <2> SUFFICES ASSUME C # {} PROVE FALSE OBVIOUS
  <2>1. \A U \in C : IsFiniteSet(U) BY FS_Subset
  <2>2. PICK U \in C : \A V \in C : Cardinality(U) <= Cardinality(V)
    <3> HIDE DEF C
    <3> QED BY <2>1, LeastSet
  <2>3. U \in SUBSET S /\ SumFunctionOnSet(F, U) # k * SumFunctionOnSet(G, U) OBVIOUS
  <2>5. U # {}
    <3> SUFFICES ASSUME U = {} PROVE FALSE OBVIOUS
    <3>1. SumFunctionOnSet(F, {}) = 0 /\ SumFunctionOnSet(G, {}) = 0 BY SumEmpty
    <3>2. k * 0 = 0 OBVIOUS
    <3> QED BY <2>3, <3>1, <3>2
  <2>6. PICK u \in U : TRUE BY <2>5
  <2>7. U \ {u} \notin C
    <3> HIDE DEF C
    <3> QED BY <2>1, <2>2, <2>6, SmallerSet
  <2>8. SumFunctionOnSet(F, U \ {u}) = k * SumFunctionOnSet(G, U \ {u}) BY <2>3, <2>7
  <2>9. IsFiniteSet(U) /\ (\A x \in U : F[x] \in Int) /\ (\A x \in U : G[x] \in Int) BY <2>1, <2>3
  <2>10. G[u] \in Int /\ F[u] = k * G[u] BY <2>3, <2>6
  <2> HIDE DEF C
  <2>12. SumFunctionOnSet(F, U) = F[u] + SumFunctionOnSet(F, U \ {u}) BY <2>6, <2>9, SumAny
  <2>13. SumFunctionOnSet(G, U) = G[u] + SumFunctionOnSet(G, U \ {u}) BY <2>6, <2>9, SumAny
  <2>14. SumFunctionOnSet(G, U \ {u}) \in Int BY <2>6, <2>9, SumAny
  <2>15. PICK y \in Int, z \in Int : y = SumFunctionOnSet(G, U \ {u}) /\ z = G[u] BY <2>10, <2>14
  <2>16. k * (z + y) = k * z + k * y OBVIOUS
  <2> QED BY <2>3, <2>8, <2>10, <2>12, <2>13, <2>15, <2>16
<1>2. S \notin C BY <1>1
<1> QED BY <1>2

LEMMA SumOne ==
  ASSUME NEW F, NEW s, F[s] \in Int
  PROVE  SumFunctionOnSet(F, {s}) = F[s]
<1>1. IsFiniteSet({}) /\ s \notin {} /\ \A y \in {} \cup {s} : F[y] \in Int BY FS_EmptySet
<1>2. SumFunctionOnSet(F, {} \cup {s}) = F[s] + SumFunctionOnSet(F, {}) BY <1>1, SumAdd
<1>3. {} \cup {s} = {s} OBVIOUS
<1>4. SumFunctionOnSet(F, {}) = 0 BY SumEmpty
<1> QED BY <1>2, <1>3, <1>4

-----------------------------------------------------------------------------
(* The determinant.                                                        *)

Square(m) == m \in Seq(Seq(Int)) /\ \A r \in DOMAIN m : Len(m[r]) = Len(m)

\* The terms of the expansion along the first of the rows that are left.
Expansion(m, d, cs) ==
  [c \in cs |-> Sign(Cardinality({k \in cs : k < c})) * m[Len(m) - Cardinality(cs) + 1][c] * d[cs \ {c}]]

IsDet(d, m) ==
  d = [cs \in SUBSET (1 .. Len(m)) |-> IF cs = {} THEN 1 ELSE SumFunctionOnSet(Expansion(m, d, cs), cs)]

LEMMA ExpansionSum ==
  ASSUME NEW m, NEW d, NEW cs, IsFiniteSet(cs)
  PROVE  MapThenSumSet(LAMBDA c : Sign(Cardinality({k \in cs : k < c})) * m[Len(m) - Cardinality(cs) + 1][c] * d[cs \ {c}], cs)
           = SumFunctionOnSet(Expansion(m, d, cs), cs)
<1> DEFINE F == Expansion(m, d, cs)
           e(c) == Sign(Cardinality({k \in cs : k < c})) * m[Len(m) - Cardinality(cs) + 1][c] * d[cs \ {c}]
           A(g) == g = [T \in SUBSET cs |-> IF T = {} THEN 0 ELSE e(CHOOSE x \in T : TRUE) + g[T \ {CHOOSE x \in T : TRUE}]]
<1>1. MapThenSumSet(LAMBDA c : Sign(Cardinality({k \in cs : k < c})) * m[Len(m) - Cardinality(cs) + 1][c] * d[cs \ {c}], cs)
        = (CHOOSE g : A(g))[cs]
  BY DEF MapThenSumSet, MapThenFoldSet
<1>2. \A g : A(g) <=> IsSum(g, F, cs)
  <2>1. \A c \in cs : F[c] = e(c)
    BY DEF Expansion
  <2> HIDE DEF e, F
  <2>2. \A T \in SUBSET cs : T # {} => e(CHOOSE x \in T : TRUE) = F[CHOOSE x \in T : TRUE]
    BY <2>1
  <2> DEFINE E(g) == [T \in SUBSET cs |-> IF T = {} THEN 0 ELSE e(CHOOSE x \in T : TRUE) + g[T \ {CHOOSE x \in T : TRUE}]]
             G(g) == [T \in SUBSET cs |-> IF T = {} THEN 0 ELSE F[CHOOSE x \in T : TRUE] + g[T \ {CHOOSE x \in T : TRUE}]]
  <2>3. ASSUME NEW g PROVE E(g) = G(g)
    BY <2>2
  <2>4. ASSUME NEW g PROVE IsSum(g, F, cs) <=> g = G(g)
    BY DEF IsSum, Pick
  <2>5. ASSUME NEW g PROVE A(g) <=> g = E(g)
    OBVIOUS
  <2> HIDE DEF A, E, G
  <2> QED BY <2>3, <2>4, <2>5
<1> HIDE DEF A, F
<1>3. PICK g : IsSum(g, F, cs) BY SumExists
<1>4. PICK h : h = (CHOOSE k : A(k)) OBVIOUS
<1>5. A(h) BY <1>2, <1>3, <1>4
<1>6. h[cs] = g[cs] BY <1>2, <1>3, <1>5, SumsAgree
<1>7. PICK k : IsSum(k, F, cs) /\ \A T \in SUBSET cs : SumFunctionOnSet(F, T) = k[T] BY SumIs
<1>8. h[cs] = k[cs] BY <1>2, <1>5, <1>7, SumsAgree
<1> QED BY <1>1, <1>4, <1>7, <1>8 DEF F

LEMMA IndexSet ==
  ASSUME NEW n \in Nat, NEW T \in SUBSET (1 .. n)
  PROVE  IsFiniteSet(T) /\ Cardinality(T) \in Nat /\ Cardinality(T) <= n
<1>1. IsFiniteSet(1 .. n) /\ Cardinality(1 .. n) = n BY FS_Interval
<1>2. IsFiniteSet(T) /\ Cardinality(T) <= Cardinality(1 .. n) BY <1>1, FS_Subset
<1> QED BY <1>1, <1>2, FS_CardinalityType

LEMMA ExpansionAgree ==
  ASSUME NEW m, NEW d, NEW e, NEW cs, IsFiniteSet(cs), \A c \in cs : d[cs \ {c}] = e[cs \ {c}]
  PROVE  SumFunctionOnSet(Expansion(m, d, cs), cs) = SumFunctionOnSet(Expansion(m, e, cs), cs)
<1>1. Expansion(m, d, cs) = Expansion(m, e, cs)
  BY DEF Expansion
<1> QED BY <1>1

LEMMA DetExists ==
  ASSUME NEW m, Len(m) \in Nat
  PROVE  \E d : IsDet(d, m)
<1> DEFINE S == 1 .. Len(m)
           Sum(d, T) == SumFunctionOnSet(Expansion(m, d, T), T)
           Upto(d, n) == \A T \in SUBSET S : Cardinality(T) <= n => d[T] = IF T = {} THEN 1 ELSE Sum(d, T)
           Fun(d) == DOMAIN d = SUBSET S /\ d = [T \in SUBSET S |-> d[T]]
           Bad == {n \in Nat : ~ \E d : Fun(d) /\ Upto(d, n)}
<1>0. IsFiniteSet(S) /\ \A T \in SUBSET S : IsFiniteSet(T) /\ Cardinality(T) \in Nat
  <2>1. S \in SUBSET S OBVIOUS
  <2> QED BY <2>1, IndexSet
<1>a. ASSUME NEW d, NEW e, NEW T \in SUBSET S, \A c \in T : d[T \ {c}] = e[T \ {c}]
      PROVE  Sum(d, T) = Sum(e, T)
  <2>1. IsFiniteSet(T) BY <1>0
  <2>2. SumFunctionOnSet(Expansion(m, d, T), T) = SumFunctionOnSet(Expansion(m, e, T), T)
    BY <1>a, <2>1, ExpansionAgree
  <2> QED BY <2>2
<1> HIDE DEF S, Sum
<1>1. Bad = {}
  <2> SUFFICES ASSUME Bad # {} PROVE FALSE
    OBVIOUS
  <2>1. PICK n \in Bad : \A k \in Bad : <<k, n>> \notin OpToRel(<, Nat)
    <3>1. Bad \subseteq Nat OBVIOUS
    <3> HIDE DEF Bad
    <3> QED BY <3>1, NatLessThanWellFounded, WFMin
  <2>2. n # 0
    <3> SUFFICES ASSUME n = 0 PROVE FALSE OBVIOUS
    <3> DEFINE g == [T \in SUBSET S |-> 1]
    <3>1. \A T \in SUBSET S : Cardinality(T) <= 0 => T = {}
      BY <1>0, FS_EmptySet
    <3>2. Upto(g, 0)
      BY <3>1
    <3>3. Fun(g) OBVIOUS
    <3> QED BY <3>2, <3>3
  <2>0. n \in Nat OBVIOUS
  <2>3. n - 1 \in Nat /\ n - 1 \notin Bad
    <3>1. n - 1 \in Nat /\ n - 1 < n BY <2>0, <2>2
    <3> HIDE DEF Bad
    <3> QED BY <2>1, <2>0, <3>1 DEF OpToRel
  <2>4. PICK g : Fun(g) /\ Upto(g, n - 1)
    <3> HIDE DEF Fun, Upto
    <3> QED BY <2>3
  <2> DEFINE h == [T \in SUBSET S |-> IF Cardinality(T) = n THEN Sum(g, T) ELSE g[T]]
  <2>5. ASSUME NEW T \in SUBSET S, Cardinality(T) <= n
        PROVE  h[T] = IF T = {} THEN 1 ELSE Sum(h, T)
    <3>0. Cardinality(T) \in Nat BY <1>0
    <3>1. CASE T = {}
      <4>1. Cardinality(T) = 0 BY <3>1, FS_EmptySet
      <4>2. h[T] = g[T] BY <4>1, <2>2
      <4>3. Cardinality(T) <= n - 1 BY <4>1, <2>3
      <4>5. g[T] = 1 BY <2>4, <4>3, <3>1
      <4> QED BY <4>2, <4>5, <3>1
    <3>2. CASE T # {}
      <4>1. ASSUME NEW c \in T PROVE h[T \ {c}] = g[T \ {c}]
        <5>1. Cardinality(T \ {c}) = Cardinality(T) - 1 BY <1>0, SmallerSet
        <5>2. T \ {c} \in SUBSET S /\ Cardinality(T \ {c}) # n BY <2>0, <3>0, <5>1, <2>5
        <5> QED BY <5>2
      <4>2. Sum(h, T) = Sum(g, T)
        <5> HIDE DEF h
        <5> QED BY <1>a, <4>1
      <4>4. CASE Cardinality(T) = n
        <5>1. h[T] = Sum(g, T) BY <4>4
        <5> QED BY <5>1, <4>2, <3>2
      <4>5. CASE Cardinality(T) # n
        <5>1. Cardinality(T) <= n - 1 BY <2>0, <3>0, <4>5, <2>5
        <5>2. g[T] = Sum(g, T) BY <5>1, <2>4, <3>2
        <5>3. h[T] = g[T] BY <4>5
        <5> QED BY <4>2, <5>2, <5>3, <3>2
      <4> QED BY <4>4, <4>5
    <3> QED BY <3>1, <3>2
  <2>6. Fun(h) OBVIOUS
  <2>7. Upto(h, n)
    <3> HIDE DEF h
    <3> QED BY <2>5
  <2>8. n \notin Bad
    <3> HIDE DEF h, Fun, Upto
    <3> QED BY <2>6, <2>7
  <2> QED BY <2>8
<1>2. PICK n \in Nat : n = Cardinality(S)
  BY <1>0, FS_CardinalityType
<1>3. PICK d : Fun(d) /\ Upto(d, n)
  <2>1. n \notin Bad BY <1>1
  <2> HIDE DEF Upto, Fun
  <2> QED BY <2>1
<1>4. \A T \in SUBSET S : Cardinality(T) <= n
  BY <1>0, <1>2, FS_Subset
<1>5. \A T \in SUBSET S : d[T] = IF T = {} THEN 1 ELSE Sum(d, T)
  BY <1>3, <1>4
<1>6. d = [T \in SUBSET S |-> IF T = {} THEN 1 ELSE Sum(d, T)]
  BY <1>3, <1>5
<1> QED BY <1>6 DEF IsDet, S, Sum

LEMMA DetIs ==
  ASSUME NEW m, Len(m) \in Nat
  PROVE  IsDet(Det(m), m)
<1> DEFINE S == 1 .. Len(m)
           sum(d, cs) == MapThenSumSet(LAMBDA c : Sign(Cardinality({k \in cs : k < c})) * m[Len(m) - Cardinality(cs) + 1][c] * d[cs \ {c}], cs)
           A(d) == d = [cs \in SUBSET S |-> IF cs = {} THEN 1 ELSE sum(d, cs)]
<1>1. Det(m) = (CHOOSE d : A(d))
  BY DEF Det
<1>2. ASSUME NEW d
      PROVE  A(d) <=> IsDet(d, m)
  <2>1. \A cs \in SUBSET S : IsFiniteSet(cs)
    BY IndexSet
  <2>2. \A cs \in SUBSET S : sum(d, cs) = SumFunctionOnSet(Expansion(m, d, cs), cs)
    BY <2>1, ExpansionSum
  <2> HIDE DEF sum
  <2>3. [cs \in SUBSET S |-> IF cs = {} THEN 1 ELSE sum(d, cs)]
          = [cs \in SUBSET S |-> IF cs = {} THEN 1 ELSE SumFunctionOnSet(Expansion(m, d, cs), cs)]
    BY <2>2
  <2> QED BY <2>3 DEF IsDet
<1> HIDE DEF A
<1>3. PICK d : IsDet(d, m) BY DetExists
<1>4. A(CHOOSE e : A(e)) BY <1>2, <1>3
<1> QED BY <1>1, <1>2, <1>4

LEMMA DetStep ==
  ASSUME NEW m, Len(m) \in Nat, NEW cs \in SUBSET (1 .. Len(m))
  PROVE  Det(m)[cs] = IF cs = {} THEN 1 ELSE SumFunctionOnSet(Expansion(m, Det(m), cs), cs)
<1>1. PICK d : d = Det(m) OBVIOUS
<1>2. IsDet(d, m) BY <1>1, DetIs
<1>3. d[cs] = IF cs = {} THEN 1 ELSE SumFunctionOnSet(Expansion(m, d, cs), cs) BY <1>2 DEF IsDet
<1> QED BY <1>1, <1>3

LEMMA SignInt ==
  ASSUME NEW k PROVE Sign(k) \in Int /\ (Sign(k) = 1 \/ Sign(k) = -1)
BY DEF Sign

LEMMA EntryInt ==
  ASSUME NEW m, Square(m), NEW r \in 1 .. Len(m), NEW c \in 1 .. Len(m)
  PROVE  m[r][c] \in Int
<1>1. m \in Seq(Seq(Int)) /\ r \in DOMAIN m BY DEF Square
<1>2. m[r] \in Seq(Int) /\ Len(m[r]) = Len(m) BY <1>1 DEF Square
<1> QED BY <1>2

LEMMA TripleInt ==
  ASSUME NEW a \in Int, NEW b \in Int, NEW c \in Int PROVE a * b * c \in Int
OBVIOUS

LEMMA DetInt ==
  ASSUME NEW m, Square(m), NEW cs \in SUBSET (1 .. Len(m))
  PROVE  Det(m)[cs] \in Int
<1> DEFINE S == 1 .. Len(m)
           C == {T \in SUBSET S : Det(m)[T] \notin Int}
<1>0. Len(m) \in Nat BY DEF Square
<1>1. \A T \in SUBSET S : IsFiniteSet(T) /\ Cardinality(T) \in Nat /\ Cardinality(T) <= Len(m)
  BY <1>0, IndexSet
<1>2. SUFFICES ASSUME C # {} PROVE FALSE OBVIOUS
<1>3. PICK T \in C : \A U \in C : Cardinality(T) <= Cardinality(U)
  <2>1. \A T \in C : IsFiniteSet(T) BY <1>1
  <2> HIDE DEF C
  <2> QED BY <1>2, <2>1, LeastSet
<1>4. T \in SUBSET S OBVIOUS
<1>5. Det(m)[T] = IF T = {} THEN 1 ELSE SumFunctionOnSet(Expansion(m, Det(m), T), T)
  <2> HIDE DEF C
  <2> QED BY <1>0, <1>4, DetStep
<1>6. T # {} BY <1>5
<1>7. ASSUME NEW c \in T PROVE Expansion(m, Det(m), T)[c] \in Int
  <2>1. T \ {c} \notin C
    <3> HIDE DEF C
    <3> QED BY <1>1, <1>3, <1>4, SmallerSet
  <2>2. Det(m)[T \ {c}] \in Int BY <1>4, <2>1
  <2>3. Len(m) - Cardinality(T) + 1 \in 1 .. Len(m)
    <3>1. Cardinality(T) # 0 BY <1>1, <1>4, <1>6, FS_EmptySet
    <3> QED BY <1>0, <1>1, <1>4, <3>1
  <2>4. m[Len(m) - Cardinality(T) + 1][c] \in Int BY <1>4, <2>3, EntryInt
  <2>5. Sign(Cardinality({k \in T : k < c})) \in Int BY SignInt
  <2>6. Expansion(m, Det(m), T)[c] = Sign(Cardinality({k \in T : k < c})) * m[Len(m) - Cardinality(T) + 1][c] * Det(m)[T \ {c}]
    BY DEF Expansion
  <2> QED BY <2>2, <2>4, <2>5, <2>6, TripleInt
<1>8. SumFunctionOnSet(Expansion(m, Det(m), T), T) \in Int
  <2>1. IsFiniteSet(T) BY <1>1, <1>4
  <2> QED BY <1>7, <2>1, SumInt
<1>9. Det(m)[T] \in Int
  BY <1>5, <1>6, <1>8
<1> QED BY <1>9

-----------------------------------------------------------------------------
(* The expansion along the first row computes the Leibniz formula.         *)

\* The one-to-one choices of a column among cs for every row in R, and their
\* summands.
Matchings(R, cs) == {p \in [R -> cs] : \A x, y \in R : p[x] = p[y] => x = y}
Inversions(p, R) == {x \in R \X R : x[1] < x[2] /\ p[x[1]] > p[x[2]]}
Entries(m, p, R) == [r \in R |-> m[r][p[r]]]
Summand(m, p, R) == Sign(Cardinality(Inversions(p, R))) * Product(Entries(m, p, R), R)
Summands(m, R, cs) == [p \in Matchings(R, cs) |-> Summand(m, p, R)]
LeibnizOf(m, R, cs) == SumFunctionOnSet(Summands(m, R, cs), Matchings(R, cs))

LEMMA MatchingsFinite ==
  ASSUME NEW R, NEW cs, IsFiniteSet(R), IsFiniteSet(cs)
  PROVE  IsFiniteSet(Matchings(R, cs))
<1> DEFINE graph == [p \in Matchings(R, cs) |-> {x \in R \X cs : x[2] = p[x[1]]}]
<1>1. IsFiniteSet(SUBSET (R \X cs)) BY FS_Product, FS_SUBSET
<1>2. graph \in [Matchings(R, cs) -> SUBSET (R \X cs)] OBVIOUS
<1>3. ASSUME NEW p \in Matchings(R, cs), NEW q \in Matchings(R, cs), graph[p] = graph[q]
      PROVE  p = q
  <2>1. p \in [R -> cs] /\ q \in [R -> cs] BY DEF Matchings
  <2>2. ASSUME NEW r \in R PROVE p[r] = q[r]
    <3>1. <<r, p[r]>> \in graph[p] BY <2>1
    <3>2. <<r, p[r]>> \in graph[q] BY <1>3, <3>1
    <3> QED BY <3>2
  <2> QED BY <2>1, <2>2
<1>4. graph \in Injection(Matchings(R, cs), SUBSET (R \X cs))
  <2> HIDE DEF graph
  <2> QED BY <1>2, <1>3 DEF Injection, IsInjective
<1> QED BY <1>1, <1>4, FS_Injection

LEMMA SignSum ==
  ASSUME NEW a \in Nat, NEW b \in Nat
  PROVE  Sign(a + b) = Sign(a) * Sign(b)
BY DEF Sign

\* The rows from f on, and as many columns.
Minor(m, f, n, R, Q, cs) ==
  /\ n \in Nat /\ f \in Nat /\ R = f .. n /\ f <= n /\ Q = f + 1 .. n
  /\ cs \in SUBSET Int /\ IsFiniteSet(cs) /\ Cardinality(cs) = Cardinality(R)
  /\ \A r \in R : \A c \in cs : m[r][c] \in Int

LEMMA MinorRows ==
  ASSUME NEW m, NEW f, NEW n, NEW R, NEW Q, NEW cs, Minor(m, f, n, R, Q, cs)
  PROVE  IsFiniteSet(R) /\ IsFiniteSet(Q) /\ f \in R /\ Q = R \ {f}
<1>0. n \in Nat /\ f \in Nat /\ R = f .. n /\ f <= n /\ Q = f + 1 .. n BY DEF Minor
<1>1. f \in Int /\ f + 1 \in Int /\ n \in Int BY <1>0
<1>2. IsFiniteSet(f .. n) /\ IsFiniteSet(f + 1 .. n) BY <1>1, FS_Interval
<1>3. \A y : y \in f .. n <=> y \in Int /\ f <= y /\ y <= n BY <1>1
<1>4. \A y : y \in f + 1 .. n <=> y \in Int /\ f + 1 <= y /\ y <= n BY <1>1
<1>5. \A y \in Int : f + 1 <= y <=> f <= y /\ y # f BY <1>1
<1>6. \A y : y \in Q <=> y \in R /\ y # f BY <1>0, <1>3, <1>4, <1>5
<1>7. Q = R \ {f} BY <1>6
<1>8. f \in R BY <1>0, <1>3
<1> QED BY <1>0, <1>2, <1>7, <1>8

\* What a choice p becomes without its first row, and the factor w it loses.
Without(m, f, R, Q, cs, p, q, t, w) ==
  /\ p \in Matchings(R, cs) /\ q = [r \in Q |-> p[r]]
  /\ t = p[f] /\ w = Sign(Cardinality({x \in cs : x < t})) * m[f][t]

Factored(m, R, Q, cs, p, q, t, w) ==
  /\ t \in cs /\ q \in Matchings(Q, cs \ {t})
  /\ Summand(m, p, R) = w * Summand(m, q, Q) /\ Summand(m, p, R) \in Int

\* Taking the first row away.
LEMMA FirstRow ==
  ASSUME NEW m, NEW f, NEW n, NEW R, NEW Q, NEW cs, Minor(m, f, n, R, Q, cs),
         NEW p, NEW q, NEW t, NEW w, Without(m, f, R, Q, cs, p, q, t, w)
  PROVE  Factored(m, R, Q, cs, p, q, t, w)
<1>a. n \in Nat /\ f \in Nat /\ f <= n /\ R = f .. n /\ Q = f + 1 .. n BY DEF Minor
<1>b. cs \in SUBSET Int /\ IsFiniteSet(cs) /\ Cardinality(cs) = Cardinality(R) BY DEF Minor
<1>c. \A r \in R : \A c \in cs : m[r][c] \in Int BY DEF Minor
<1>d. p \in Matchings(R, cs) /\ q = [r \in Q |-> p[r]] BY DEF Without
<1>e. t = p[f] /\ w = Sign(Cardinality({x \in cs : x < t})) * m[f][t] BY DEF Without
<1> USE <1>a, <1>b, <1>c, <1>d, <1>e
<1>1. p \in [R -> cs] /\ \A x, y \in R : p[x] = p[y] => x = y BY DEF Matchings
<1>2. IsFiniteSet(R) /\ IsFiniteSet(Q) /\ R \subseteq Int /\ Q \subseteq R /\ f \in R /\ f \notin Q /\ R \ {f} = Q /\ \A y \in Q : f < y
  <2>1. IsFiniteSet(R) /\ IsFiniteSet(Q) /\ f \in R /\ Q = R \ {f} BY MinorRows
  <2>2. R \subseteq Int /\ \A y \in Q : f < y BY <1>a
  <2> QED BY <2>1, <2>2
<1>3. p[f] \in cs BY <1>1, <1>2
<1>4. q \in Matchings(Q, cs \ {p[f]})
  <2>1. \A r \in Q : q[r] = p[r] /\ p[r] \in cs /\ p[r] # p[f] BY <1>1, <1>2
  <2>2. q \in [Q -> cs \ {p[f]}] BY <2>1
  <2>3. \A x, y \in Q : q[x] = q[y] => x = y BY <1>1, <1>2, <2>1
  <2> QED BY <2>2, <2>3 DEF Matchings
<1> DEFINE A == {x \in {f} \X Q : p[x[1]] > p[x[2]]}
           K == {k \in cs : k < p[f]}
<1>5. Inversions(p, R) = A \cup Inversions(q, Q) /\ A \cap Inversions(q, Q) = {}
  <2>1. ASSUME NEW x \in Inversions(p, R) PROVE x \in A \cup Inversions(q, Q)
    <3>1. x \in R \X R /\ x[1] < x[2] /\ p[x[1]] > p[x[2]] BY DEF Inversions
    <3>2. x[2] # f
      <4>1. x[1] \in R /\ x[2] \in R BY <3>1
      <4>2. f <= x[1] /\ x[1] \in Int BY <4>1
      <4> QED BY <3>1, <4>1, <4>2
    <3>3. x[2] \in Q BY <1>2, <3>1, <3>2
    <3>4. CASE x[1] = f
      <4>1. x \in {f} \X Q BY <3>1, <3>3, <3>4
      <4> QED BY <3>1, <4>1
    <3>5. CASE x[1] # f
      <4>1. x[1] \in Q BY <1>2, <3>1, <3>5
      <4>2. x \in Q \X Q BY <3>1, <3>3, <4>1
      <4>3. q[x[1]] = p[x[1]] /\ q[x[2]] = p[x[2]] BY <3>3, <4>1
      <4> QED BY <3>1, <4>2, <4>3 DEF Inversions
    <3> QED BY <3>4, <3>5
  <2>2. ASSUME NEW x \in A PROVE x \in Inversions(p, R) /\ x \notin Inversions(q, Q)
    <3>1. x \in {f} \X Q /\ p[x[1]] > p[x[2]] OBVIOUS
    <3>2. x[1] = f /\ x[2] \in Q BY <3>1
    <3>3. x \in R \X R /\ x[1] < x[2] BY <1>2, <3>1, <3>2
    <3>4. x \in Inversions(p, R) BY <3>1, <3>3 DEF Inversions
    <3>5. x[1] \notin Q BY <1>2, <3>2
    <3>6. x \notin Q \X Q BY <3>5
    <3> QED BY <3>4, <3>6 DEF Inversions
  <2>3. ASSUME NEW x \in Inversions(q, Q) PROVE x \in Inversions(p, R)
    <3>1. x \in Q \X Q /\ x[1] < x[2] /\ q[x[1]] > q[x[2]] BY DEF Inversions
    <3>2. x[1] \in Q /\ x[2] \in Q BY <3>1
    <3>3. q[x[1]] = p[x[1]] /\ q[x[2]] = p[x[2]] BY <3>2
    <3>4. x \in R \X R BY <1>2, <3>1
    <3> QED BY <3>1, <3>3, <3>4 DEF Inversions
  <2> HIDE DEF A
  <2> QED BY <2>1, <2>2, <2>3
<1>6. IsFiniteSet(A) /\ Cardinality(A) = Cardinality(K)
  <2>1. IsFiniteSet({f} \X Q) BY <1>2, FS_Singleton, FS_Product
  <2>2. IsFiniteSet(A) BY <2>1, FS_Subset
  <2> DEFINE g == [x \in A |-> p[x[2]]]
  <2>3. ASSUME NEW x \in A PROVE x[1] = f /\ x[2] \in Q /\ x = <<f, x[2]>> /\ g[x] = p[x[2]] /\ p[x[2]] \in K
    <3>1. x \in {f} \X Q /\ p[x[1]] > p[x[2]] OBVIOUS
    <3>2. x[1] = f /\ x[2] \in Q /\ x = <<f, x[2]>> BY <3>1
    <3>3. p[x[2]] \in cs BY <1>1, <1>2, <3>2
    <3>4. p[x[2]] \in Int /\ p[f] \in Int BY <1>3, <3>3
    <3>5. p[x[2]] < p[f] BY <3>1, <3>2, <3>4
    <3> QED BY <3>2, <3>3, <3>5
  <2>4. \A x, y \in A : g[x] = g[y] => x = y
    <3>1. ASSUME NEW x \in A, NEW y \in A, g[x] = g[y] PROVE x = y
      <4>1. x[2] = y[2] BY <1>1, <1>2, <2>3, <3>1
      <4> QED BY <2>3, <4>1
    <3> QED BY <3>1
  <2>5. ASSUME NEW k \in K PROVE \E x \in A : g[x] = k
    <3>1. k \in cs /\ k < p[f] OBVIOUS
    <3>2. \E r \in R : p[r] = k
      <4>1. p \in Injection(R, cs) BY <1>1 DEF Injection, IsInjective
      <4>2. p \in Surjection(R, cs) BY <4>1, FS_Injection
      <4> QED BY <3>1, <4>2 DEF Surjection
    <3>3. PICK r \in R : p[r] = k BY <3>2
    <3>4. r # f
      <4>1. k \in Int BY <3>1
      <4> QED BY <3>1, <3>3, <4>1
    <3>5. r \in Q BY <1>2, <3>4
    <3>6. <<f, r>> \in {f} \X Q /\ p[f] > p[r]
      <4>1. k \in Int /\ p[f] \in Int BY <1>3, <3>1
      <4> QED BY <3>1, <3>3, <3>5, <4>1
    <3>7. <<f, r>> \in A BY <3>6
    <3>8. g[<<f, r>>] = k BY <3>3, <3>7
    <3> QED BY <3>7, <3>8
  <2>6. g \in [A -> K] BY <2>3
  <2>7. g \in Bijection(A, K)
    <3> HIDE DEF g, A, K
    <3> QED BY <2>4, <2>5, <2>6 DEF Bijection, Injection, IsInjective, Surjection
  <2>8. ExistsBijection(A, K) BY <2>7 DEF ExistsBijection
  <2> HIDE DEF A, K
  <2> QED BY <2>2, <2>8, FS_Bijection
<1>7. IsFiniteSet(Inversions(q, Q))
  <2>1. IsFiniteSet(Q \X Q) BY <1>2, FS_Product
  <2> QED BY <2>1, FS_Subset DEF Inversions
<1>8. Cardinality(Inversions(p, R)) = Cardinality(K) + Cardinality(Inversions(q, Q))
  <2>1. PICK I : I = Inversions(q, Q) OBVIOUS
  <2>2. IsFiniteSet(I) /\ A \cap I = {} BY <1>5, <1>7, <2>1
  <2> HIDE DEF A, K
  <2>3. Cardinality(A \cup I) = Cardinality(A) + Cardinality(I) - Cardinality(A \cap I) BY <1>6, <2>2, FS_Union
  <2>4. Cardinality(A \cap I) = 0 BY <2>2, FS_EmptySet
  <2>5. Cardinality(A) \in Nat /\ Cardinality(I) \in Nat BY <1>6, <2>2, FS_CardinalityType
  <2>6. Inversions(p, R) = A \cup I BY <1>5, <2>1
  <2>7. PICK a \in Nat, b \in Nat : a = Cardinality(A) /\ b = Cardinality(I) BY <2>5
  <2>8. Cardinality(A \cup I) = a + b BY <2>3, <2>4, <2>7
  <2> QED BY <1>6, <2>1, <2>6, <2>7, <2>8
<1>9. Product(Entries(m, p, R), R) = m[f][p[f]] * Product(Entries(m, q, Q), Q)
      /\ Product(Entries(m, q, Q), Q) \in Int
  <2>1. PICK E : E = Entries(m, p, R) OBVIOUS
  <2>2. PICK F : F = Entries(m, q, Q) OBVIOUS
  <2>3. \A r \in R : E[r] = m[r][p[r]] /\ E[r] \in Int BY <1>1, <2>1 DEF Entries
  <2>4. \A r \in Q : F[r] = E[r] BY <1>2, <2>2, <2>3 DEF Entries
  <2>a. \A r \in R : E[r] \in Int BY <2>3
  <2>c. Takes(E, R, f, Q, E[f]) BY <1>2, <2>a DEF Takes
  <2>5. Product(E, R) = E[f] * Product(E, Q) BY <2>c, ProductTake
  <2>6. Product(F, Q) = Product(E, Q) BY <1>2, <2>4, ProductCongruent
  <2>7. \A r \in Q : F[r] \in Int BY <1>2, <2>3, <2>4
  <2>8. Product(F, Q) \in Int BY <1>2, <2>7, ProductInt
  <2> QED BY <1>2, <2>1, <2>2, <2>3, <2>5, <2>6, <2>8
<1>10. PICK a \in Nat, b \in Nat : a = Cardinality(K) /\ b = Cardinality(Inversions(q, Q))
  <2>1. IsFiniteSet(K) BY FS_Subset
  <2> QED BY <1>7, <2>1, FS_CardinalityType
<1>11. PICK s \in Int, v \in Int : s = Sign(a) /\ v = Sign(b) BY SignInt
<1>12. PICK e \in Int, z \in Int : e = m[f][p[f]] /\ z = Product(Entries(m, q, Q), Q) BY <1>2, <1>3, <1>9
<1>13. Summand(m, p, R) = (s * v) * (e * z)
  BY <1>8, <1>9, <1>10, <1>11, <1>12, SignSum DEF Summand
<1>14. Summand(m, q, Q) = v * z
  BY <1>10, <1>11, <1>12 DEF Summand
<1>15. (s * v) * (e * z) = (s * e) * (v * z) /\ (s * v) * (e * z) \in Int OBVIOUS
<1>16. w = s * e BY <1>10, <1>11, <1>12
<1> QED BY <1>3, <1>4, <1>13, <1>14, <1>15, <1>16 DEF Factored

LEMMA SummandInt ==
  ASSUME NEW m, NEW R, IsFiniteSet(R), NEW cs, NEW p \in Matchings(R, cs),
         \A r \in R : \A c \in cs : m[r][c] \in Int
  PROVE  Summand(m, p, R) \in Int
<1>1. p \in [R -> cs] BY DEF Matchings
<1>2. PICK E : E = Entries(m, p, R) OBVIOUS
<1>3. \A r \in R : E[r] \in Int BY <1>1, <1>2 DEF Entries
<1>4. Product(E, R) \in Int BY <1>3, ProductInt
<1>5. PICK s \in Int, z \in Int : s = Sign(Cardinality(Inversions(p, R))) /\ z = Product(E, R) BY <1>4, SignInt
<1>6. Summand(m, p, R) = s * z BY <1>2, <1>5 DEF Summand
<1> QED BY <1>6

\* A choice for the later rows among the other columns is one for all rows.
LEMMA OneMore ==
  ASSUME NEW f, NEW R, NEW Q, f \in R, Q = R \ {f}, NEW cs, NEW c \in cs, NEW q \in Matchings(Q, cs \ {c}),
         NEW p, p = [r \in R |-> IF r = f THEN c ELSE q[r]]
  PROVE  p \in Matchings(R, cs) /\ p[f] = c /\ [r \in Q |-> p[r]] = q
<1>1. q \in [Q -> cs \ {c}] /\ \A x, y \in Q : q[x] = q[y] => x = y BY DEF Matchings
<1>2. p[f] = c /\ \A r \in Q : p[r] = q[r] /\ r \in R /\ p[r] # c /\ p[r] \in cs BY <1>1
<1>3. \A r \in R : r = f \/ r \in Q OBVIOUS
<1>4. p \in [R -> cs] BY <1>2, <1>3
<1>5. \A x, y \in R : p[x] = p[y] => x = y BY <1>1, <1>2, <1>3
<1>6. [r \in Q |-> p[r]] = q
  <2>1. q = [r \in Q |-> q[r]] BY <1>1
  <2>2. [r \in Q |-> p[r]] = [r \in Q |-> q[r]] BY <1>2
  <2> QED BY <2>1, <2>2
<1> QED BY <1>2, <1>4, <1>5, <1>6 DEF Matchings

\* The summands that give column t to the first row.
LEMMA ColumnSum ==
  ASSUME NEW m, NEW f, NEW n, NEW R, NEW Q, NEW cs, Minor(m, f, n, R, Q, cs), NEW t \in cs,
         NEW F, F = Summands(m, R, cs), NEW P, P = {p \in Matchings(R, cs) : p[f] = t},
         NEW k, k = Sign(Cardinality({x \in cs : x < t})) * m[f][t]
  PROVE  SumFunctionOnSet(F, P) = k * LeibnizOf(m, Q, cs \ {t}) /\ LeibnizOf(m, Q, cs \ {t}) \in Int /\ k \in Int
<1>0. IsFiniteSet(R) /\ IsFiniteSet(Q) /\ f \in R /\ Q = R \ {f} BY MinorRows
<1>a. IsFiniteSet(cs) /\ (\A r \in R : \A c \in cs : m[r][c] \in Int) BY DEF Minor
<1>1. k \in Int
  <2>1. PICK s \in Int, e \in Int : s = Sign(Cardinality({x \in cs : x < t})) /\ e = m[f][t]
    BY <1>0, <1>a, SignInt
  <2> QED BY <2>1
<1>2. PICK T : T = Matchings(Q, cs \ {t}) OBVIOUS
<1>3. IsFiniteSet(Matchings(R, cs)) BY <1>0, <1>a, MatchingsFinite
<1>4. IsFiniteSet(T)
  <2>1. IsFiniteSet(cs \ {t}) BY <1>a, FS_Subset
  <2> QED BY <1>0, <1>2, <2>1, MatchingsFinite
<1>5. IsFiniteSet(P) BY <1>3, FS_Subset
<1>6. PICK G : G = Summands(m, Q, cs \ {t}) OBVIOUS
<1>7. ASSUME NEW q \in T PROVE G[q] \in Int /\ G[q] = Summand(m, q, Q)
  <2>1. G[q] = Summand(m, q, Q) BY <1>2, <1>6 DEF Summands
  <2>2. \A r \in Q : \A c \in cs \ {t} : m[r][c] \in Int BY <1>0, <1>a
  <2>3. Summand(m, q, Q) \in Int BY <1>0, <1>2, <2>2, SummandInt
  <2> QED BY <2>1, <2>3
<1>8. PICK H : H = [q \in T |-> k * G[q]] OBVIOUS
<1>9. PICK g : g = [p \in P |-> [r \in Q |-> p[r]]] OBVIOUS
<1>10. ASSUME NEW p \in P PROVE F[p] \in Int /\ g[p] \in T /\ F[p] = H[g[p]]
  <2>1. p \in Matchings(R, cs) /\ p[f] = t OBVIOUS
  <2>2. PICK q : q = [r \in Q |-> p[r]] OBVIOUS
  <2>4. F[p] = Summand(m, p, R) BY <2>1 DEF Summands
  <2>a. t = p[f] BY <2>1
  <2>b. p \in Matchings(R, cs) BY <2>1
  <2>c. Without(m, f, R, Q, cs, p, q, t, k) BY <2>a, <2>b, <2>2 DEF Without
  <2>d. Factored(m, R, Q, cs, p, q, t, k) BY <2>c, FirstRow
  <2>f. q \in Matchings(Q, cs \ {t}) /\ Summand(m, p, R) = k * Summand(m, q, Q) /\ Summand(m, p, R) \in Int
    BY <2>d DEF Factored
  <2>3. q \in T BY <1>2, <2>f
  <2>5. Summand(m, p, R) = k * Summand(m, q, Q) /\ Summand(m, p, R) \in Int BY <2>f
  <2>6. g[p] = q BY <1>9, <2>2
  <2>7. H[q] = k * Summand(m, q, Q) BY <1>7, <1>8, <2>3
  <2> QED BY <2>3, <2>4, <2>5, <2>6, <2>7
<1>11. ASSUME NEW x \in P, NEW y \in P, g[x] = g[y] PROVE x = y
  <2>1. x \in [R -> cs] /\ y \in [R -> cs] /\ x[f] = t /\ y[f] = t BY DEF Matchings
  <2>2. \A r \in Q : x[r] = y[r]
    <3>1. [r \in Q |-> x[r]] = [r \in Q |-> y[r]] BY <1>9, <1>11
    <3>2. ASSUME NEW r \in Q PROVE x[r] = y[r]
      <4>1. [s \in Q |-> x[s]][r] = [s \in Q |-> y[s]][r] BY <3>1
      <4> QED BY <4>1
    <3> QED BY <3>2
  <2>3. \A r \in R : x[r] = y[r] BY <1>0, <2>1, <2>2
  <2> QED BY <2>1, <2>3
<1>12. ASSUME NEW q \in T PROVE \E p \in P : g[p] = q
  <2>1. PICK p : p = [r \in R |-> IF r = f THEN t ELSE q[r]] OBVIOUS
  <2>2. p \in Matchings(R, cs) /\ p[f] = t /\ [r \in Q |-> p[r]] = q BY <1>0, <1>2, <2>1, OneMore
  <2>3. p \in P BY <2>2
  <2> QED BY <1>9, <2>2, <2>3
<1>13. Renames(F, H, g, P, T)
  BY <1>4, <1>5, <1>10, <1>11, <1>12 DEF Renames
<1>14. SumFunctionOnSet(F, P) = SumFunctionOnSet(H, T) BY <1>13, SumRename
<1>15. SumFunctionOnSet(H, T) = k * SumFunctionOnSet(G, T)
  <2>1. \A q \in T : G[q] \in Int /\ H[q] = k * G[q] BY <1>7, <1>8
  <2> QED BY <1>1, <1>4, <2>1, SumScale
<1>16. SumFunctionOnSet(G, T) \in Int BY <1>4, <1>7, SumInt
<1>17. SumFunctionOnSet(G, T) = LeibnizOf(m, Q, cs \ {t}) BY <1>2, <1>6 DEF LeibnizOf
<1> QED BY <1>1, <1>14, <1>15, <1>16, <1>17

\* The Leibniz formula, expanded along the first row.
RowTerms(m, f, Q, cs) ==
  [c \in cs |-> (Sign(Cardinality({x \in cs : x < c})) * m[f][c]) * LeibnizOf(m, Q, cs \ {c})]

LEMMA LeibnizExpands ==
  ASSUME NEW m, NEW f, NEW n, NEW R, NEW Q, NEW cs, Minor(m, f, n, R, Q, cs)
  PROVE  LeibnizOf(m, R, cs) = SumFunctionOnSet(RowTerms(m, f, Q, cs), cs)
<1>0. IsFiniteSet(R) /\ IsFiniteSet(Q) /\ f \in R /\ Q = R \ {f} BY MinorRows
<1>a. IsFiniteSet(cs) BY DEF Minor
<1>1. PICK S : S = Matchings(R, cs) OBVIOUS
<1>2. IsFiniteSet(S) BY <1>0, <1>a, <1>1, MatchingsFinite
<1>3. PICK F : F = Summands(m, R, cs) OBVIOUS
<1>4. PICK G : G = RowTerms(m, f, Q, cs) OBVIOUS
<1>5. PICK h : h = [p \in S |-> p[f]] OBVIOUS
<1>6. ASSUME NEW p \in S PROVE F[p] \in Int /\ h[p] \in cs
  <2>a. PICK q, t, w : q = [r \in Q |-> p[r]] /\ t = p[f] /\ w = Sign(Cardinality({x \in cs : x < t})) * m[f][t] OBVIOUS
  <2>b. p \in Matchings(R, cs) BY <1>1
  <2>d. Without(m, f, R, Q, cs, p, q, t, w) BY <2>a, <2>b DEF Without
  <2>e. Factored(m, R, Q, cs, p, q, t, w) BY <2>d, FirstRow
  <2>c. t \in cs /\ Summand(m, p, R) \in Int BY <2>e DEF Factored
  <2>1. p[f] \in cs /\ Summand(m, p, R) \in Int BY <2>a, <2>c
  <2>2. F[p] = Summand(m, p, R) BY <1>1, <1>3 DEF Summands
  <2> QED BY <1>5, <2>1, <2>2
<1>7. ASSUME NEW t \in cs PROVE G[t] = SumFunctionOnSet(F, {p \in S : h[p] = t})
  <2>1. PICK P : P = {p \in Matchings(R, cs) : p[f] = t} OBVIOUS
  <2>2. {p \in S : h[p] = t} = P BY <1>1, <1>5, <2>1
  <2>3. PICK k : k = Sign(Cardinality({x \in cs : x < t})) * m[f][t] OBVIOUS
  <2>4. SumFunctionOnSet(F, P) = k * LeibnizOf(m, Q, cs \ {t}) BY <1>3, <2>1, <2>3, ColumnSum
  <2>5. G[t] = (Sign(Cardinality({x \in cs : x < t})) * m[f][t]) * LeibnizOf(m, Q, cs \ {t}) BY <1>4 DEF RowTerms
  <2>6. G[t] = k * LeibnizOf(m, Q, cs \ {t}) BY <2>3, <2>5
  <2> QED BY <2>2, <2>4, <2>6
<1>8. Groups(F, G, h, S, cs) BY <1>2, <1>a, <1>6, <1>7 DEF Groups
<1>9. SumFunctionOnSet(F, S) = SumFunctionOnSet(G, cs) BY <1>8, SumPartition
<1> QED BY <1>1, <1>3, <1>4, <1>9 DEF LeibnizOf
LEMMA NoRows ==
  ASSUME NEW m
  PROVE  LeibnizOf(m, {}, {}) = 1
<1>1. PICK e : e = [r \in {} |-> r] OBVIOUS
<1>2. Matchings({}, {}) = {e}
  <2>1. e \in Matchings({}, {}) BY <1>1 DEF Matchings
  <2>2. ASSUME NEW p \in Matchings({}, {}) PROVE p = e
    <3>1. p \in [{} -> {}] BY DEF Matchings
    <3>2. p = [r \in {} |-> p[r]] BY <3>1
    <3>3. [r \in {} |-> p[r]] = [r \in {} |-> r] OBVIOUS
    <3> QED BY <1>1, <3>2, <3>3
  <2> QED BY <2>1, <2>2
<1>3. Inversions(e, {}) = {} BY DEF Inversions
<1>4. Cardinality(Inversions(e, {})) = 0 BY <1>3, FS_EmptySet
<1>5. Sign(0) = 1 BY DEF Sign
<1>6. Product(Entries(m, e, {}), {}) = 1 BY ProductEmpty
<1>7. Summand(m, e, {}) = 1 BY <1>4, <1>5, <1>6 DEF Summand
<1>8. PICK F : F = Summands(m, {}, {}) OBVIOUS
<1>9. F[e] = 1 BY <1>2, <1>7, <1>8 DEF Summands
<1>10. SumFunctionOnSet(F, {e}) = 1 BY <1>9, SumOne
<1> QED BY <1>2, <1>8, <1>10 DEF LeibnizOf

\* detMatrix of the columns cs and as many of the last rows.
LEMMA DetIsLeibniz ==
  ASSUME NEW m, Square(m), NEW cs \in SUBSET (1 .. Len(m))
  PROVE  Det(m)[cs] = LeibnizOf(m, Len(m) - Cardinality(cs) + 1 .. Len(m), cs)
<1>0. PICK n \in Nat : n = Len(m) BY DEF Square
<1> DEFINE C == {T \in SUBSET (1 .. n) : Det(m)[T] # LeibnizOf(m, n - Cardinality(T) + 1 .. n, T)}
<1>1. \A T \in SUBSET (1 .. n) : IsFiniteSet(T) /\ Cardinality(T) \in Nat /\ Cardinality(T) <= n
  BY IndexSet
<1>2. SUFFICES ASSUME C # {} PROVE FALSE
  <2>1. cs \in SUBSET (1 .. n) BY <1>0
  <2> QED BY <1>0, <2>1
<1>3. PICK T \in C : \A U \in C : Cardinality(T) <= Cardinality(U)
  <2>1. \A U \in C : IsFiniteSet(U) BY <1>1
  <2> HIDE DEF C
  <2> QED BY <1>2, <2>1, LeastSet
<1>4. T \in SUBSET (1 .. n) /\ Det(m)[T] # LeibnizOf(m, n - Cardinality(T) + 1 .. n, T)
  OBVIOUS
<1>5. \A c \in T : T \ {c} \notin C
  <2> HIDE DEF C
  <2> QED BY <1>1, <1>3, <1>4, SmallerSet
<1>6. \A c \in T : Det(m)[T \ {c}] = LeibnizOf(m, n - Cardinality(T \ {c}) + 1 .. n, T \ {c})
  BY <1>4, <1>5
<1> HIDE DEF C
<1>7. IsFiniteSet(T) BY <1>1, <1>4
<1>8. PICK d : d = Det(m) OBVIOUS
<1>9. d[T] = IF T = {} THEN 1 ELSE SumFunctionOnSet(Expansion(m, d, T), T)
  <2>1. T \in SUBSET (1 .. Len(m)) /\ Len(m) \in Nat BY <1>0, <1>4
  <2> QED BY <1>8, <2>1, DetStep
<1>10. T # {}
  <2> SUFFICES ASSUME T = {} PROVE FALSE OBVIOUS
  <2>1. Cardinality(T) = 0 BY FS_EmptySet
  <2>2. n - 0 + 1 .. n = {} OBVIOUS
  <2> QED BY <1>4, <1>8, <1>9, <2>1, <2>2, NoRows
<1>11. PICK k \in Nat : k = Cardinality(T) /\ 1 <= k /\ k <= n
  <2>1. Cardinality(T) # 0 BY <1>7, <1>10, FS_EmptySet
  <2> QED BY <1>1, <1>4, <2>1
<1>12. PICK f, R, Q : f \in Nat /\ f = n - k + 1 /\ 1 <= f /\ f <= n /\ R = f .. n /\ Q = f + 1 .. n
  <2>1. n - k + 1 \in Nat /\ 1 <= n - k + 1 /\ n - k + 1 <= n BY <1>11
  <2> QED BY <2>1
<1>13. Minor(m, f, n, R, Q, T)
  <2>1. Cardinality(R) = k
    <3>1. Cardinality(f .. n) = n - f + 1 BY <1>12, FS_Interval
    <3> QED BY <1>11, <1>12, <3>1
  <2>2. ASSUME NEW r \in R, NEW c \in T PROVE m[r][c] \in Int
    <3>1. r \in 1 .. Len(m) /\ c \in 1 .. Len(m) BY <1>0, <1>4, <1>12
    <3> QED BY <3>1, EntryInt
  <2>3. T \in SUBSET Int BY <1>4
  <2> QED BY <1>7, <1>11, <1>12, <2>1, <2>2, <2>3 DEF Minor
<1>14. ASSUME NEW c \in T PROVE d[T \ {c}] = LeibnizOf(m, Q, T \ {c})
  <2>1. Cardinality(T \ {c}) = k - 1 BY <1>7, <1>11, SmallerSet
  <2>2. n - (k - 1) + 1 = f + 1 BY <1>11, <1>12
  <2> QED BY <1>6, <1>8, <1>12, <2>1, <2>2
<1>15. Expansion(m, d, T) = RowTerms(m, f, Q, T)
  <2>1. \A c \in T : Sign(Cardinality({x \in T : x < c})) * m[n - k + 1][c] * d[T \ {c}]
                   = (Sign(Cardinality({x \in T : x < c})) * m[f][c]) * LeibnizOf(m, Q, T \ {c})
    BY <1>12, <1>14
  <2> QED BY <1>0, <1>11, <2>1 DEF Expansion, RowTerms
<1>16. LeibnizOf(m, R, T) = SumFunctionOnSet(RowTerms(m, f, Q, T), T) BY <1>13, LeibnizExpands
<1>17. d[T] = LeibnizOf(m, R, T) BY <1>9, <1>10, <1>15, <1>16
<1> QED BY <1>4, <1>8, <1>11, <1>12, <1>17

LEMMA LeibnizIs ==
  ASSUME NEW m, Len(m) \in Nat
  PROVE  Leibniz(m) = LeibnizOf(m, 1 .. Len(m), 1 .. Len(m))
<1> DEFINE n == 1 .. Len(m)
           sign(p) == Sign(Cardinality({x \in n \X n : x[1] < x[2] /\ p[x[1]] > p[x[2]]}))
           product(p) == FoldFunction(LAMBDA x, y : x * y, 1, [r \in n |-> m[r][p[r]]])
           cs == {p \in [n -> n] : \A x, y \in n : p[x] = p[y] => x = y}
           F == Summands(m, n, n)
           e(p) == sign(p) * product(p)
           A(g) == g = [T \in SUBSET cs |-> IF T = {} THEN 0 ELSE e(CHOOSE x \in T : TRUE) + g[T \ {CHOOSE x \in T : TRUE}]]
<1>0. IsFiniteSet(n) BY FS_Interval
<1>a. cs = Matchings(n, n) BY DEF Matchings
<1>b. ASSUME NEW p \in cs PROVE F[p] = e(p)
  <2>1. sign(p) = Sign(Cardinality(Inversions(p, n))) BY DEF Inversions
  <2>2. product(p) = Product(Entries(m, p, n), n) BY DEF FoldFunction, Product, Entries
  <2>3. F[p] = Summand(m, p, n) BY <1>a DEF Summands
  <2> HIDE DEF sign, product
  <2> QED BY <2>1, <2>2, <2>3 DEF Summand
<1>c. IsFiniteSet(cs)
  <2> HIDE DEF cs, n
  <2>1. IsFiniteSet(Matchings(n, n)) BY <1>0, MatchingsFinite
  <2> QED BY <1>a, <2>1
<1>1. Leibniz(m) = (CHOOSE g : A(g))[cs]
  BY DEF Leibniz, MapThenSumSet, MapThenFoldSet
<1>2. \A g : A(g) <=> IsSum(g, F, cs)
  <2>1. \A c \in cs : F[c] = e(c)
    BY <1>b
  <2> HIDE DEF e, F, cs
  <2>2. \A T \in SUBSET cs : T # {} => e(CHOOSE x \in T : TRUE) = F[CHOOSE x \in T : TRUE]
    BY <2>1
  <2> DEFINE E(g) == [T \in SUBSET cs |-> IF T = {} THEN 0 ELSE e(CHOOSE x \in T : TRUE) + g[T \ {CHOOSE x \in T : TRUE}]]
             G(g) == [T \in SUBSET cs |-> IF T = {} THEN 0 ELSE F[CHOOSE x \in T : TRUE] + g[T \ {CHOOSE x \in T : TRUE}]]
  <2>3. ASSUME NEW g PROVE E(g) = G(g)
    BY <2>2
  <2>4. ASSUME NEW g PROVE IsSum(g, F, cs) <=> g = G(g)
    BY DEF IsSum, Pick
  <2>5. ASSUME NEW g PROVE A(g) <=> g = E(g)
    OBVIOUS
  <2> HIDE DEF A, E, G
  <2> QED BY <2>3, <2>4, <2>5
<1> HIDE DEF A, F, cs, e, n
<1>3. PICK g : IsSum(g, F, cs) BY <1>c, SumExists
<1>4. PICK h : h = (CHOOSE k : A(k)) OBVIOUS
<1>5. A(h) BY <1>2, <1>3, <1>4
<1>7. PICK k : IsSum(k, F, cs) /\ \A T \in SUBSET cs : SumFunctionOnSet(F, T) = k[T] BY <1>c, SumIs
<1>8. h[cs] = k[cs] BY <1>c, <1>2, <1>5, <1>7, SumsAgree
<1>9. Leibniz(m) = SumFunctionOnSet(F, cs) BY <1>1, <1>4, <1>7, <1>8
<1>10. LeibnizOf(m, n, n) = SumFunctionOnSet(F, cs) BY <1>a DEF LeibnizOf, F
<1> QED BY <1>9, <1>10 DEF n

\* The expansion of detMatrix along its first rows gives the determinant by the
\* Leibniz formula, for square matrices of every size.
THEOREM Laplace ==
  ASSUME NEW m, Square(m)
  PROVE  Det(m)[1 .. Len(m)] = Leibniz(m)
<1>1. PICK n \in Nat : n = Len(m) BY DEF Square
<1>2. 1 .. n \in SUBSET (1 .. n) /\ Cardinality(1 .. n) = n
  <2>1. Cardinality(1 .. n) = n BY FS_Interval
  <2> QED BY <2>1
<1>3. Det(m)[1 .. n] = LeibnizOf(m, n - n + 1 .. n, 1 .. n) BY <1>1, <1>2, DetIsLeibniz
<1>4. n - n + 1 = 1 OBVIOUS
<1> QED BY <1>1, <1>3, <1>4, LeibnizIs
-----------------------------------------------------------------------------
(* The inductive invariant.                                                *)

\* Workers that main has waited for.
Waited == CASE main = "join" -> i - 1 [] main \in {"collect", "done"} -> nw [] OTHER -> 0

\* What a worker has to do.
Duty(w) == IF prog = "mult" THEN Share(w) * Cols(data[2]) ELSE Share(w)

\* The terms of the determinant, and the sum of the first k.
Terms == [c \in 1 .. Len(data) |-> Sign(c - 1) * data[1][c] * Det(data)[(1 .. Len(data)) \ {c}]]
PartSum(k) == SumFunctionOnSet(Terms, 1 .. k)

\* The element a worker of mult stores in its k-th iteration.
ElementOf(w, k) ==
  DotProd(data[1], data[2], (Begin(w) + k \div Cols(data[2])) + 1, (k % Cols(data[2])) + 1)

Ended == {w \in Workers : worker[w] = "ended"}
Gone  == {w \in Workers : worker[w] = "gone"}

Inputs ==
  /\ prog \in {"mult", "rpair", "det"}
  /\ prog = "mult" => data \in Products
  /\ prog = "rpair" => data \in TrialCounts
  /\ prog = "det" => data \in Squares
  /\ nw \in Nat \ {0}

ForkJoinTypes ==
  /\ main \in {"create", "spawn", "join", "collect", "done"}
  /\ i \in Workers /\ (main = "create" => i = 1)
  /\ worker \in [Workers -> {"none", "run", "ended", "gone"}]
  /\ did \in [Workers -> Nat] /\ local \in [Workers -> Int]
  /\ result \in Int /\ sem \in Nat /\ failures \in Nat /\ events \in Int
  /\ main # "create" =>
       IF prog = "mult" THEN shared = [k \in 0 .. Rows(data[1]) * Cols(data[2]) - 1 |-> shared[k]]
       ELSE shared \in [Workers -> Int]

\* The loop of main over the workers, unless a fork failed.
AllStarted ==
  /\ main = "create" => \A w \in Workers : worker[w] = "none"
  /\ main = "spawn" => \A w \in Workers : w >= i => worker[w] = "none"
  /\ failures = 0 /\ main = "spawn" => \A w \in Workers : w < i => worker[w] # "none"
  /\ failures = 0 /\ main \in {"join", "collect", "done"} => \A w \in Workers : worker[w] # "none"
  /\ prog = "det" => failures = 0

Duties ==
  \A w \in Workers :
    /\ did[w] <= Duty(w)
    /\ worker[w] = "none" => did[w] = 0
    /\ did[w] = 0 => local[w] = 0
    /\ worker[w] \in {"ended", "gone"} => did[w] = Duty(w)

Waits ==
  /\ prog = "mult" => Gone = {} /\ sem + Waited = Cardinality(Ended)
  /\ prog = "rpair" /\ failures = 0 => Cardinality(Gone) = Waited
  /\ prog = "det" => \A w \in Workers : worker[w] = "gone" <=> w <= Waited

Stored ==
  prog = "mult" =>
    \A w \in Workers : \A k \in Nat :
      k < did[w] => shared[Begin(w) * Cols(data[2]) + k] = ElementOf(w, k)

Sampled ==
  prog = "rpair" =>
    /\ main # "create" =>
         \A w \in Workers : shared[w] = IF worker[w] \in {"ended", "gone"} THEN local[w] ELSE Share(w)
    /\ events = SumFunctionOnSet(local, Workers)
    /\ failures = 0 /\ main = "done" => result = events

Added ==
  prog = "det" =>
    /\ \A w \in Workers : local[w] = PartSum(Begin(w) + did[w]) - PartSum(Begin(w))
    /\ \A w \in Workers : worker[w] \in {"ended", "gone"} => shared[w] = local[w]
    /\ result = PartSum(Begin(Waited + 1))

ForkJoinInv ==
  /\ Inputs /\ ForkJoinTypes /\ AllStarted /\ Duties /\ Waits
  /\ Stored /\ Sampled /\ Added

LEMMA InputTypes ==
  ASSUME Inputs
  PROVE  /\ nw \in Nat \ {0} /\ Total \in Nat
         /\ prog = "mult" => Rows(data[1]) = Total /\ Cols(data[2]) \in Nat
         /\ prog = "det" => Square(data) /\ Total = Len(data)
<1>1. nw \in Nat \ {0} BY DEF Inputs
<1>2. CASE prog = "mult"
  <2>1. data \in Products BY <1>2 DEF Inputs
  <2>2. data \in Seq(Seq(Int)) \X Seq(Seq(Int)) BY <2>1, ForkJoinAssumption DEF ForkJoinAssumption
  <2>3. PICK a \in Seq(Seq(Int)), b \in Seq(Seq(Int)) : data = <<a, b>> BY <2>2
  <2>4. data[1] = a /\ data[2] = b BY <2>3
  <2>5. Cols(b) \in Nat
    <3>1. CASE b = <<>> BY <3>1 DEF Cols
    <3>2. CASE b # <<>>
      <4>1. 1 \in DOMAIN b BY <3>2
      <4>2. b[1] \in Seq(Int) BY <4>1
      <4>3. Len(b[1]) \in Nat BY <4>2
      <4> QED BY <3>2, <4>3 DEF Cols
    <3> QED BY <3>1, <3>2
  <2>6. Total = Rows(data[1]) BY <1>2 DEF Total
  <2>7. Rows(a) \in Nat BY DEF Rows
  <2> QED BY <1>1, <1>2, <2>4, <2>5, <2>6, <2>7
<1>3. CASE prog = "rpair"
  <2>1. data \in Nat BY <1>3, ForkJoinAssumption DEF Inputs, ForkJoinAssumption
  <2>2. Total = data BY <1>3 DEF Total
  <2> QED BY <1>1, <1>3, <2>1, <2>2
<1>4. CASE prog = "det"
  <2>1. data \in Squares BY <1>4 DEF Inputs
  <2>2. Square(data) BY <2>1, ForkJoinAssumption DEF ForkJoinAssumption, Square
  <2>3. Total = Len(data) BY <1>4 DEF Total
  <2>4. Len(data) \in Nat BY <2>2 DEF Square
  <2> QED BY <1>1, <1>4, <2>2, <2>3, <2>4
<1> QED BY <1>2, <1>3, <1>4 DEF Inputs

LEMMA TermInt ==
  ASSUME Square(data), NEW c \in 1 .. Len(data)
  PROVE  Terms[c] \in Int
<1>1. Terms[c] = Sign(c - 1) * data[1][c] * Det(data)[(1 .. Len(data)) \ {c}]
  BY DEF Terms
<1>2. Sign(c - 1) \in Int BY SignInt
<1>3. data[1][c] \in Int
  <2>1. Len(data) \in Nat BY DEF Square
  <2>2. 1 \in 1 .. Len(data) BY <2>1
  <2> QED BY <2>2, EntryInt
<1>4. Det(data)[(1 .. Len(data)) \ {c}] \in Int
  BY DetInt
<1> QED BY <1>1, <1>2, <1>3, <1>4, TripleInt

LEMMA PartSumNext ==
  ASSUME Square(data), NEW k \in Nat, k < Len(data)
  PROVE  PartSum(k) \in Int /\ PartSum(k + 1) = Terms[k + 1] + PartSum(k)
<1>1. Len(data) \in Nat BY DEF Square
<1>2. \A c \in 1 .. k + 1 : Terms[c] \in Int
  <2>1. \A c \in 1 .. k + 1 : c \in 1 .. Len(data) BY <1>1
  <2> QED BY <2>1, TermInt
<1>3. SumFunctionOnSet(Terms, 1 .. k) \in Int BY <1>2, SumNext
<1>4. SumFunctionOnSet(Terms, 1 .. k + 1) = Terms[k + 1] + SumFunctionOnSet(Terms, 1 .. k) BY <1>2, SumNext
<1> QED BY <1>3, <1>4 DEF PartSum

LEMMA PartSumInt ==
  ASSUME Square(data), NEW k \in Nat, k <= Len(data)
  PROVE  PartSum(k) \in Int
<1>1. Len(data) \in Nat BY DEF Square
<1>2. \A c \in 1 .. k : Terms[c] \in Int
  <2>1. \A c \in 1 .. k : c \in 1 .. Len(data) BY <1>1
  <2> QED BY <2>1, TermInt
<1>3. IsFiniteSet(1 .. k) BY FS_Interval
<1> QED BY <1>2, <1>3, SumInt DEF PartSum

LEMMA PartSumZero == PartSum(0) = 0
<1>1. 1 .. 0 = {} OBVIOUS
<1> QED BY <1>1, SumEmpty DEF PartSum

\* All the terms make the determinant.
LEMMA PartSumAll ==
  ASSUME Square(data), data # <<>>
  PROVE  PartSum(Len(data)) = Det(data)[1 .. Len(data)]
<1> DEFINE S == 1 .. Len(data)
<1>1. Len(data) \in Nat \ {0} BY DEF Square
<1>2. Det(data)[S] = SumFunctionOnSet(Expansion(data, Det(data), S), S)
  <2>1. S # {} /\ S \in SUBSET (1 .. Len(data)) BY <1>1
  <2> QED BY <1>1, <2>1, DetStep
<1>3. IsFiniteSet(S) /\ Cardinality(S) = Len(data) BY <1>1, FS_Interval
<1>4. ASSUME NEW c \in S
      PROVE  Expansion(data, Det(data), S)[c] = Terms[c]
  <2>1. {k \in S : k < c} = 1 .. c - 1 BY <1>1
  <2>2. Cardinality(1 .. c - 1) = c - 1
    <3>1. c - 1 \in Nat BY <1>1
    <3>2. PICK e \in Nat : e = c - 1 BY <3>1
    <3>3. Cardinality(1 .. e) = e BY FS_Interval
    <3> QED BY <3>2, <3>3
  <2>3. Len(data) - Cardinality(S) + 1 = 1 BY <1>1, <1>3
  <2>4. Expansion(data, Det(data), S)[c]
          = Sign(Cardinality({k \in S : k < c})) * data[Len(data) - Cardinality(S) + 1][c] * Det(data)[S \ {c}]
    BY DEF Expansion
  <2>5. Terms[c] = Sign(c - 1) * data[1][c] * Det(data)[S \ {c}]
    BY DEF Terms
  <2> HIDE DEF S
  <2> QED BY <2>1, <2>2, <2>3, <2>4, <2>5
<1>5. SumFunctionOnSet(Expansion(data, Det(data), S), S) = SumFunctionOnSet(Terms, S)
  <2>1. PICK F : F = Expansion(data, Det(data), S) OBVIOUS
  <2>2. PICK G : G = Terms OBVIOUS
  <2>3. SumFunctionOnSet(F, S) = SumFunctionOnSet(G, S)
    <3>1. \A c \in S : F[c] = G[c] BY <1>4, <2>1, <2>2
    <3> HIDE DEF S
    <3> QED BY <1>3, <3>1, SumCongruent
  <2> QED BY <2>1, <2>2, <2>3
<1> QED BY <1>2, <1>5 DEF PartSum

\* Nothing of this changes.
LEMMA Fixed ==
  ASSUME UNCHANGED setting
  PROVE  /\ prog' = prog /\ data' = data /\ nw' = nw
         /\ Inputs' <=> Inputs
         /\ Workers' = Workers /\ Total' = Total
         /\ \A w : Begin(w)' = Begin(w) /\ Share(w)' = Share(w) /\ Duty(w)' = Duty(w)
         /\ \A w, k : ElementOf(w, k)' = ElementOf(w, k)
         /\ \A k : PartSum(k)' = PartSum(k)
<1>1. prog' = prog /\ data' = data /\ nw' = nw
  BY DEF setting
<1>2. Total' = Total
  BY <1>1 DEF Total
<1>3. Workers' = Workers
  BY <1>1 DEF Workers
<1>4. \A w : Begin(w)' = Begin(w) /\ Share(w)' = Share(w)
  BY <1>1, <1>2 DEF Begin, Share
<1>5. \A w : Duty(w)' = Duty(w)
  BY <1>1, <1>4 DEF Duty
<1>6. \A w, k : ElementOf(w, k)' = ElementOf(w, k)
  BY <1>1, <1>4 DEF ElementOf
<1>7. Terms' = Terms
  BY <1>1 DEF Terms
<1>8. \A k : PartSum(k)' = PartSum(k)
  BY <1>7 DEF PartSum
<1>9. Inputs' <=> Inputs
  BY <1>1 DEF Inputs
<1> QED BY <1>1, <1>2, <1>3, <1>4, <1>5, <1>6, <1>8, <1>9

-----------------------------------------------------------------------------
(* Invariance.                                                             *)

LEMMA WorkerOne == ASSUME nw \in Nat \ {0} PROVE 1 \in Workers /\ IsFiniteSet(Workers)
BY FS_Interval DEF Workers

LEMMA InitForkJoin ==
  ASSUME ForkJoinInit
  PROVE  ForkJoinInv
<1> USE DEF ForkJoinInit
<1>1. Inputs
  BY ForkJoinAssumption DEF Inputs, ForkJoinAssumption
<1>2. nw \in Nat \ {0} /\ 1 \in Workers /\ IsFiniteSet(Workers)
  BY <1>1, WorkerOne DEF Inputs
<1>3. ForkJoinTypes
  BY <1>2 DEF ForkJoinTypes
<1>4. AllStarted
  BY DEF AllStarted
<1>5. Duties
  <2>1. \A w \in Workers : Duty(w) \in Nat
    <3>1. ASSUME NEW w \in Workers PROVE Duty(w) \in Nat
      <4>1. Share(w) \in Nat BY <1>1, InputTypes, BeginNext
      <4>2. prog = "mult" => Cols(data[2]) \in Nat BY <1>1, InputTypes
      <4> QED BY <4>1, <4>2 DEF Duty
    <3> QED BY <3>1
  <2> QED BY <2>1 DEF Duties
<1>6. Ended = {} /\ Gone = {} /\ Waited = 0
  BY DEF Ended, Gone, Waited
<1>7. Waits
  BY <1>2, <1>6, FS_EmptySet DEF Waits, Workers
<1>8. Stored
  BY DEF Stored
<1>9. Sampled
  <2>1. SumFunctionOnSet(local, Workers) = 0 BY <1>2, SumZero
  <2> QED BY <2>1 DEF Sampled
<1>10. Added
  <2> SUFFICES ASSUME prog = "det" PROVE Added BY DEF Added
  <2>1. Begin(1) = 0 BY <1>1, <1>2, InputTypes, BeginNext
  <2>2. ASSUME NEW w \in Workers PROVE local[w] = PartSum(Begin(w) + did[w]) - PartSum(Begin(w))
    <3>1. PICK b \in Nat : b = Begin(w) BY <1>1, InputTypes, BeginNext
    <3>2. b <= Total
      <4>1. Share(w) \in Nat BY <1>1, InputTypes, BeginNext
      <4>2. Total \in Nat BY <1>1, InputTypes
      <4>3. Begin(w) + Share(w) <= Total BY <1>1, InputTypes, SharesFit
      <4> QED BY <3>1, <4>1, <4>2, <4>3
    <3>3. PartSum(b) \in Int BY <1>1, <3>2, InputTypes, PartSumInt
    <3>4. did[w] = 0 /\ local[w] = 0 OBVIOUS
    <3> QED BY <3>1, <3>3, <3>4
  <2>3. result = PartSum(Begin(Waited + 1)) BY <1>6, <2>1, PartSumZero
  <2> QED BY <2>2, <2>3 DEF Added
<1> QED BY <1>1, <1>3, <1>4, <1>5, <1>7, <1>8, <1>9, <1>10 DEF ForkJoinInv

\* What the invariant says of the shares.
LEMMA ShareFacts ==
  ASSUME ForkJoinInv, NEW w \in Workers
  PROVE  /\ Share(w) \in Nat /\ Begin(w) \in Nat /\ Duty(w) \in Nat
         /\ ShareStart(w) = Begin(w) /\ Begin(w) + Share(w) <= Total
         /\ Begin(w + 1) = Begin(w) + Share(w)
<1>1. nw \in Nat \ {0} /\ Total \in Nat BY InputTypes DEF ForkJoinInv
<1>2. Share(w) \in Nat BY <1>1, BeginNext
<1>3. Duty(w) \in Nat
  <2>1. prog = "mult" => Cols(data[2]) \in Nat BY InputTypes DEF ForkJoinInv
  <2> QED BY <1>2, <2>1 DEF Duty
<1> QED BY <1>1, <1>2, <1>3, BeginNext, StartIs, SharesFit

\* Steps of main that leave the workers and what they compute alone.
LEMMA UndisturbedWork ==
  ASSUME Stored, Sampled, Added, UNCHANGED setting,
         UNCHANGED <<did, local, events>>
  PROVE  /\ UNCHANGED shared => Stored'
         /\ prog = "rpair" =>
              events' = SumFunctionOnSet(local, Workers)'
         /\ prog = "det" =>
              \A w \in Workers' : local'[w] = PartSum(Begin(w) + did[w])' - PartSum(Begin(w))'
<1>1. UNCHANGED shared => Stored'
  <2> SUFFICES ASSUME UNCHANGED shared, prog' = "mult", NEW w \in Workers', NEW k \in Nat, k < did'[w]
               PROVE  shared'[Begin(w)' * Cols(data[2])' + k] = ElementOf(w, k)'
    BY DEF Stored
  <2>1. w \in Workers /\ prog = "mult" /\ Begin(w)' = Begin(w) /\ ElementOf(w, k)' = ElementOf(w, k) /\ data' = data
    BY Fixed
  <2>2. shared[Begin(w) * Cols(data[2]) + k] = ElementOf(w, k)
    BY <2>1 DEF Stored
  <2>3. Cols(data[2])' = Cols(data[2]) BY <2>1
  <2> QED BY <2>1, <2>2, <2>3
<1>2. prog = "rpair" => events' = SumFunctionOnSet(local, Workers)'
  BY Fixed DEF Sampled
<1>3. prog = "det" =>
        \A w \in Workers' : local'[w] = PartSum(Begin(w) + did[w])' - PartSum(Begin(w))'
  BY Fixed DEF Added
<1> QED BY <1>1, <1>2, <1>3

LEMMA AdvanceTypes ==
  ASSUME ForkJoinInv, NEW from, NEW to, Advance(from, to), UNCHANGED setting
  PROVE  main = from /\ main' \in {from, to} /\ i' \in Workers
<1>1. i \in Workers /\ nw \in Nat \ {0} BY DEF ForkJoinInv, ForkJoinTypes, Inputs
<1> QED BY <1>1, WorkerOne DEF Advance, Workers

LEMMA WaitedSpawn ==
  ASSUME ForkJoinInv, Advance("spawn", "join"), UNCHANGED setting
  PROVE  Waited = 0 /\ Waited' = 0
<1>1. main = "spawn" BY DEF Advance
<1>2. Waited = 0 BY <1>1 DEF Waited
<1>3. CASE i = nw
  <2>1. main' = "join" /\ i' = 1 BY <1>3 DEF Advance
  <2> QED BY <1>2, <2>1 DEF Waited
<1>4. CASE i # nw
  <2>1. main' = "spawn" BY <1>4 DEF Advance
  <2> QED BY <1>2, <2>1 DEF Waited
<1> QED BY <1>3, <1>4

LEMMA WaitedJoin ==
  ASSUME ForkJoinInv, Advance("join", "collect"), UNCHANGED setting
  PROVE  Waited = i - 1 /\ Waited' = i /\ i \in Workers /\ i \in Nat \ {0}
<1>0. i \in Workers /\ i \in Nat \ {0} BY DEF ForkJoinInv, ForkJoinTypes, Workers
<1>1. main = "join" BY DEF Advance
<1>2. Waited = i - 1 BY <1>1 DEF Waited
<1>3. CASE i = nw
  <2>1. main' = "collect" /\ nw' = nw BY <1>3, Fixed DEF Advance
  <2> QED BY <1>0, <1>2, <1>3, <2>1 DEF Waited
<1>4. CASE i # nw
  <2>1. main' = "join" /\ i' = i + 1 BY <1>1, <1>4 DEF Advance
  <2>2. Waited' = i' - 1 BY <2>1 DEF Waited
  <2> QED BY <1>0, <1>2, <2>1, <2>2
<1> QED BY <1>3, <1>4

LEMMA SetupInv ==
  ASSUME ForkJoinInv, Setup
  PROVE  ForkJoinInv'
<1>0. UNCHANGED setting /\ Inputs /\ nw \in Nat \ {0} BY DEF Setup, ForkJoinInv, Inputs
<1>1. Inputs' BY <1>0, Fixed
<1>2. Workers' = Workers /\ prog' = prog /\ data' = data BY <1>0, Fixed
<1>3. main = "create" /\ main' = "spawn" /\ UNCHANGED <<i, result, sem, worker, did, local, failures, events>>
  BY DEF Setup
<1>4. \A w \in Workers : worker[w] = "none" /\ did[w] = 0
  BY <1>3 DEF ForkJoinInv, AllStarted, Duties
<1>5. ForkJoinTypes'
  <2>1. IF prog = "mult" THEN shared' = [k \in 0 .. Rows(data[1]) * Cols(data[2]) - 1 |-> shared'[k]]
        ELSE shared' \in [Workers -> Int]
    <3>1. CASE prog = "mult" BY <3>1 DEF Setup, Matrix0
    <3>2. CASE prog = "rpair"
      <4>1. shared' = [w \in Workers |-> Share(w)] BY <3>2 DEF Setup
      <4>2. \A w \in Workers : Share(w) \in Int BY ShareFacts
      <4> QED BY <3>2, <4>1, <4>2
    <3>3. CASE prog = "det"
      <4>1. shared' = [w \in Workers |-> 0] BY <3>3 DEF Setup
      <4> QED BY <3>3, <4>1
    <3> QED BY <1>0, <3>1, <3>2, <3>3 DEF Inputs
  <2>2. i \in Workers BY DEF ForkJoinInv, ForkJoinTypes
  <2>3. /\ worker \in [Workers -> {"none", "run", "ended", "gone"}]
        /\ did \in [Workers -> Nat] /\ local \in [Workers -> Int]
        /\ result \in Int /\ sem \in Nat /\ failures \in Nat /\ events \in Int
    BY DEF ForkJoinInv, ForkJoinTypes
  <2> QED BY <1>2, <1>3, <2>1, <2>2, <2>3 DEF ForkJoinTypes
<1>6. AllStarted'
  <2>1. i = 1 BY <1>3 DEF ForkJoinInv, ForkJoinTypes
  <2>2. prog = "det" => failures = 0 BY DEF ForkJoinInv, AllStarted
  <2>3. \A w \in Workers : ~ (w < 1) BY DEF Workers
  <2> QED BY <1>2, <1>3, <1>4, <2>1, <2>2, <2>3 DEF AllStarted
<1>7. Duties'
  BY <1>0, <1>2, <1>3, Fixed DEF ForkJoinInv, Duties
<1>8. Waited = 0 /\ Waited' = 0 /\ Ended' = Ended /\ Gone' = Gone
  BY <1>2, <1>3 DEF Waited, Ended, Gone
<1>9. Waits'
  BY <1>2, <1>3, <1>8 DEF ForkJoinInv, Waits
<1>10. Stored'
  <2>1. \A w \in Workers : did'[w] = 0 BY <1>3, <1>4
  <2>2. \A w \in Workers', k \in Nat : ~ (k < did'[w]) BY <1>2, <2>1
  <2> QED BY <2>2 DEF Stored
<1>11. Sampled'
  <2> SUFFICES ASSUME prog = "rpair" PROVE Sampled' BY <1>2 DEF Sampled
  <2>1. shared' = [w \in Workers |-> Share(w)] BY DEF Setup
  <2>2. \A w \in Workers' : shared'[w] = IF worker'[w] \in {"ended", "gone"} THEN local'[w] ELSE Share(w)'
    BY <1>0, <1>2, <1>3, <1>4, <2>1, Fixed
  <2>3. events' = SumFunctionOnSet(local, Workers)'
    BY <1>0, <1>3, UndisturbedWork DEF ForkJoinInv
  <2> QED BY <1>2, <1>3, <2>2, <2>3 DEF Sampled
<1>12. Added'
  <2> SUFFICES ASSUME prog = "det" PROVE Added' BY <1>2 DEF Added
  <2>1. \A w \in Workers' : local'[w] = PartSum(Begin(w) + did[w])' - PartSum(Begin(w))'
    BY <1>0, <1>3, UndisturbedWork DEF ForkJoinInv
  <2>2. \A w \in Workers' : worker'[w] \notin {"ended", "gone"} BY <1>2, <1>3, <1>4
  <2>3. result = PartSum(Begin(Waited + 1)) BY DEF ForkJoinInv, Added
  <2>4. result' = PartSum(Begin(Waited + 1))' BY <1>0, <1>3, <1>8, <2>3, Fixed
  <2> QED BY <2>1, <2>2, <2>4 DEF Added
<1> QED BY <1>1, <1>5, <1>6, <1>7, <1>9, <1>10, <1>11, <1>12 DEF ForkJoinInv

\* The turns of the loop that starts the workers.
LEMMA SpawnLoop ==
  ASSUME ForkJoinInv, Advance("spawn", "join"), UNCHANGED setting
  PROVE  /\ i \in Workers /\ worker[i] = "none" /\ main = "spawn" /\ main' \in {"spawn", "join"}
         /\ main' = "spawn" => i' = i + 1
         /\ main' = "join" => i = nw
         /\ \A w \in Workers : main' = "spawn" /\ w >= i' => worker[w] = "none" /\ w # i
         /\ \A w \in Workers : failures = 0 /\ (main' = "spawn" => w < i') => worker[w] # "none" \/ w = i
<1>1. i \in Workers /\ i \in Nat /\ \A w \in Workers : w \in Nat /\ w <= nw BY DEF ForkJoinInv, ForkJoinTypes, Workers
<1>2. main = "spawn" BY DEF Advance
<1>3. \A w \in Workers : w >= i => worker[w] = "none" BY <1>2 DEF ForkJoinInv, AllStarted
<1>4. failures = 0 => \A w \in Workers : w < i => worker[w] # "none" BY <1>2 DEF ForkJoinInv, AllStarted
<1>5. CASE i = nw
  <2>1. main' = "join" BY <1>5 DEF Advance
  <2> QED BY <1>1, <1>2, <1>3, <1>4, <1>5, <2>1
<1>6. CASE i # nw
  <2>1. main' = "spawn" /\ i' = i + 1 BY <1>6 DEF Advance
  <2> QED BY <1>1, <1>2, <1>3, <1>4, <2>1
<1> QED BY <1>5, <1>6

LEMMA SpawnStartedInv ==
  ASSUME ForkJoinInv, Advance("spawn", "join"), UNCHANGED setting,
         \/ worker' = [worker EXCEPT ![i] = "run"] /\ failures' = failures
         \/ worker' = worker /\ failures' = failures + 1 /\ prog # "det"
  PROVE  AllStarted'
<1>1. Workers' = Workers /\ prog' = prog BY Fixed
<1>2. worker \in [Workers -> {"none", "run", "ended", "gone"}] /\ failures \in Nat
  BY DEF ForkJoinInv, ForkJoinTypes
<1>3. prog = "det" => failures = 0 BY DEF ForkJoinInv, AllStarted
<1>4. CASE worker' = [worker EXCEPT ![i] = "run"] /\ failures' = failures
  <2>1. \A w \in Workers : worker'[w] = IF w = i THEN "run" ELSE worker[w] BY <1>2, <1>4
  <2> QED BY <1>1, <1>3, <1>4, <2>1, SpawnLoop DEF AllStarted
<1>5. CASE worker' = worker /\ failures' = failures + 1 /\ prog # "det"
  <2>1. failures' # 0 BY <1>2, <1>5
  <2> QED BY <1>1, <1>5, <2>1, SpawnLoop DEF AllStarted
<1> QED BY <1>4, <1>5

LEMMA SpawnInv ==
  ASSUME ForkJoinInv, Spawn
  PROVE  ForkJoinInv'
<1>0. UNCHANGED setting /\ Inputs /\ Advance("spawn", "join") BY DEF Spawn, ForkJoinInv
<1>1. Inputs' BY <1>0, Fixed
<1>2. Workers' = Workers /\ prog' = prog /\ data' = data BY <1>0, Fixed
<1>3. UNCHANGED <<result, sem, did, local, shared, failures, events>> /\ worker' = [worker EXCEPT ![i] = "run"]
  BY DEF Spawn
<1>4. i \in Workers /\ worker[i] = "none" /\ main = "spawn" /\ main' \in {"spawn", "join"} /\ i' \in Workers
  BY <1>0, SpawnLoop, AdvanceTypes
<1>a. worker \in [Workers -> {"none", "run", "ended", "gone"}]
  BY DEF ForkJoinInv, ForkJoinTypes
<1>b. \A w \in Workers : worker'[w] = IF w = i THEN "run" ELSE worker[w] BY <1>3, <1>a
<1>5. ForkJoinTypes'
  <2>1. worker' \in [Workers -> {"none", "run", "ended", "gone"}] BY <1>3, <1>a
  <2> QED BY <1>2, <1>3, <1>4, <2>1 DEF ForkJoinInv, ForkJoinTypes
<1>6. AllStarted' BY <1>0, <1>3, SpawnStartedInv
<1>7. Duties'
  BY <1>0, <1>2, <1>3, <1>4, <1>b, Fixed DEF ForkJoinInv, Duties
<1>8. Waited = 0 /\ Waited' = 0 BY <1>0, WaitedSpawn
<1>9. Ended' = Ended /\ Gone' = Gone
  BY <1>2, <1>4, <1>b DEF Ended, Gone
<1>10. Waits'
  <2>1. \A w \in Workers : w >= 1 BY DEF Workers
  <2> QED BY <1>2, <1>3, <1>4, <1>8, <1>9, <1>b, <2>1 DEF ForkJoinInv, Waits
<1>11. Stored'
  BY <1>0, <1>3, UndisturbedWork DEF ForkJoinInv
<1>12. Sampled'
  <2> SUFFICES ASSUME prog = "rpair" PROVE Sampled' BY <1>2 DEF Sampled
  <2>1. \A w \in Workers' : shared'[w] = IF worker'[w] \in {"ended", "gone"} THEN local'[w] ELSE Share(w)'
    BY <1>0, <1>2, <1>3, <1>4, <1>b, Fixed DEF ForkJoinInv, Sampled
  <2>2. events' = SumFunctionOnSet(local, Workers)'
    BY <1>0, <1>3, UndisturbedWork DEF ForkJoinInv
  <2> QED BY <1>2, <1>4, <2>1, <2>2 DEF Sampled
<1>13. Added'
  <2> SUFFICES ASSUME prog = "det" PROVE Added' BY <1>2 DEF Added
  <2>1. \A w \in Workers' : local'[w] = PartSum(Begin(w) + did[w])' - PartSum(Begin(w))'
    BY <1>0, <1>3, UndisturbedWork DEF ForkJoinInv
  <2>2. \A w \in Workers' : worker'[w] \in {"ended", "gone"} => shared'[w] = local'[w]
    BY <1>2, <1>3, <1>b DEF ForkJoinInv, Added
  <2>3. result = PartSum(Begin(Waited + 1)) BY DEF ForkJoinInv, Added
  <2>4. result' = PartSum(Begin(Waited + 1))' BY <1>0, <1>3, <1>8, <2>3, Fixed
  <2> QED BY <2>1, <2>2, <2>4 DEF Added
<1> QED BY <1>1, <1>5, <1>6, <1>7, <1>10, <1>11, <1>12, <1>13 DEF ForkJoinInv

LEMMA ForkFailsInv ==
  ASSUME ForkJoinInv, ForkFails
  PROVE  ForkJoinInv'
<1>0. UNCHANGED setting /\ Inputs /\ Advance("spawn", "join") BY DEF ForkFails, ForkJoinInv
<1>1. Inputs' BY <1>0, Fixed
<1>2. Workers' = Workers /\ prog' = prog /\ data' = data BY <1>0, Fixed
<1>3. UNCHANGED <<result, sem, worker, did, local, shared, events>> /\ failures' = failures + 1 /\ prog # "det"
  BY DEF ForkFails, workers
<1>4. main = "spawn" /\ main' \in {"spawn", "join"} /\ i' \in Workers
  BY <1>0, SpawnLoop, AdvanceTypes
<1>a. failures \in Nat /\ failures' \in Nat \ {0}
  BY <1>3 DEF ForkJoinInv, ForkJoinTypes
<1>5. ForkJoinTypes'
  BY <1>2, <1>3, <1>4, <1>a DEF ForkJoinInv, ForkJoinTypes
<1>6. AllStarted' BY <1>0, <1>3, SpawnStartedInv
<1>7. Duties'
  BY <1>0, <1>2, <1>3, Fixed DEF ForkJoinInv, Duties
<1>8. Waited = 0 /\ Waited' = 0 BY <1>0, WaitedSpawn
<1>9. Ended' = Ended /\ Gone' = Gone
  BY <1>2, <1>3 DEF Ended, Gone
<1>10. Waits'
  BY <1>2, <1>3, <1>8, <1>9, <1>a DEF ForkJoinInv, Waits
<1>11. Stored'
  BY <1>0, <1>3, UndisturbedWork DEF ForkJoinInv
<1>12. Sampled'
  <2> SUFFICES ASSUME prog = "rpair" PROVE Sampled' BY <1>2 DEF Sampled
  <2>1. \A w \in Workers' : shared'[w] = IF worker'[w] \in {"ended", "gone"} THEN local'[w] ELSE Share(w)'
    BY <1>0, <1>2, <1>3, <1>4, Fixed DEF ForkJoinInv, Sampled
  <2>2. events' = SumFunctionOnSet(local, Workers)'
    BY <1>0, <1>3, UndisturbedWork DEF ForkJoinInv
  <2> QED BY <1>2, <1>4, <2>1, <2>2 DEF Sampled
<1>13. Added'
  BY <1>2, <1>3 DEF Added
<1> QED BY <1>1, <1>5, <1>6, <1>7, <1>10, <1>11, <1>12, <1>13 DEF ForkJoinInv

\* The turns of the loop that waits for the workers.
LEMMA JoinStartedInv ==
  ASSUME ForkJoinInv, Advance("join", "collect"), UNCHANGED setting, UNCHANGED failures,
         \A w \in Workers : worker'[w] = "none" => worker[w] = "none"
  PROVE  AllStarted'
<1>1. Workers' = Workers /\ prog' = prog BY Fixed
<1>2. main = "join" /\ main' \in {"join", "collect"} BY DEF Advance
<1>3. failures = 0 => \A w \in Workers : worker'[w] # "none" BY <1>2 DEF ForkJoinInv, AllStarted
<1>4. prog = "det" => failures = 0 BY DEF ForkJoinInv, AllStarted
<1> QED BY <1>1, <1>2, <1>3, <1>4 DEF AllStarted

LEMMA SemWaitInv ==
  ASSUME ForkJoinInv, SemWait
  PROVE  ForkJoinInv'
<1>0. UNCHANGED setting /\ Inputs /\ Advance("join", "collect") BY DEF SemWait, ForkJoinInv
<1>1. Inputs' BY <1>0, Fixed
<1>2. Workers' = Workers /\ prog' = prog /\ data' = data BY <1>0, Fixed
<1>3. UNCHANGED <<result, worker, did, local, shared, failures, events>> /\ sem > 0 /\ sem' = sem - 1 /\ prog = "mult"
  BY DEF SemWait, workers
<1>4. main = "join" /\ main' \in {"join", "collect"} /\ i' \in Workers
  BY <1>0, AdvanceTypes
<1>a. sem \in Nat /\ sem' \in Nat
  BY <1>3 DEF ForkJoinInv, ForkJoinTypes
<1>5. ForkJoinTypes'
  BY <1>2, <1>3, <1>4, <1>a DEF ForkJoinInv, ForkJoinTypes
<1>6. AllStarted' BY <1>0, <1>3, JoinStartedInv
<1>7. Duties'
  BY <1>0, <1>2, <1>3, Fixed DEF ForkJoinInv, Duties
<1>8. Waited = i - 1 /\ Waited' = i /\ i \in Nat BY <1>0, WaitedJoin
<1>9. Ended' = Ended /\ Gone' = Gone
  BY <1>2, <1>3 DEF Ended, Gone
<1>10. Waits'
  <2>1. Gone = {} /\ sem + Waited = Cardinality(Ended) BY <1>3 DEF ForkJoinInv, Waits
  <2>2. sem' + Waited' = sem + Waited BY <1>3, <1>8, <1>a
  <2>3. Cardinality(Ended)' = Cardinality(Ended) BY <1>9
  <2> QED BY <1>2, <1>3, <1>9, <2>1, <2>2, <2>3 DEF Waits
<1>11. Stored'
  BY <1>0, <1>3, UndisturbedWork DEF ForkJoinInv
<1>12. Sampled' /\ Added'
  BY <1>2, <1>3 DEF Sampled, Added
<1> QED BY <1>1, <1>5, <1>6, <1>7, <1>10, <1>11, <1>12 DEF ForkJoinInv

LEMMA WaitChildInv ==
  ASSUME ForkJoinInv, WaitChild
  PROVE  ForkJoinInv'
<1>0. UNCHANGED setting /\ Inputs /\ Advance("join", "collect") BY DEF WaitChild, ForkJoinInv
<1>1. Inputs' BY <1>0, Fixed
<1>2. Workers' = Workers /\ prog' = prog /\ data' = data BY <1>0, Fixed
<1>3. UNCHANGED <<result, sem, did, local, shared, failures, events>> /\ prog = "rpair"
  BY DEF WaitChild
<1>4. main = "join" /\ main' \in {"join", "collect"} /\ i' \in Workers
  BY <1>0, AdvanceTypes
<1>t. worker \in [Workers -> {"none", "run", "ended", "gone"}]
  BY DEF ForkJoinInv, ForkJoinTypes
<1>b. \/ \E w \in Workers : worker[w] = "ended" /\ worker' = [worker EXCEPT ![w] = "gone"]
      \/ (\A w \in Workers : worker[w] \in {"none", "gone"}) /\ worker' = worker
  BY DEF WaitChild
<1>c. \A w \in Workers : /\ worker'[w] \in {"none", "run", "ended", "gone"}
                         /\ worker'[w] = "none" <=> worker[w] = "none"
                         /\ worker'[w] \in {"ended", "gone"} <=> worker[w] \in {"ended", "gone"}
  BY <1>b, <1>t
<1>5. ForkJoinTypes'
  <2>1. worker' \in [Workers -> {"none", "run", "ended", "gone"}] BY <1>b, <1>t
  <2> QED BY <1>2, <1>3, <1>4, <2>1 DEF ForkJoinInv, ForkJoinTypes
<1>6. AllStarted' BY <1>0, <1>3, <1>c, JoinStartedInv
<1>7. Duties'
  BY <1>0, <1>2, <1>3, <1>c, Fixed DEF ForkJoinInv, Duties
<1>8. Waited = i - 1 /\ Waited' = i /\ i \in Nat \ {0} /\ i \in Workers BY <1>0, WaitedJoin
<1>10. Waits'
  <2> SUFFICES ASSUME failures = 0 PROVE Cardinality(Gone)' = i BY <1>2, <1>3, <1>8 DEF Waits
  <2>1. Cardinality(Gone) = i - 1 BY <1>3, <1>8 DEF ForkJoinInv, Waits
  <2>2. \A w \in Workers : worker[w] # "none" BY <1>4 DEF ForkJoinInv, AllStarted
  <2>3. nw \in Nat \ {0} /\ IsFiniteSet(Workers) /\ Cardinality(Workers) = nw
    <3>1. nw \in Nat \ {0} BY <1>0 DEF Inputs
    <3> QED BY <3>1, FS_Interval DEF Workers
  <2>4. CASE \A w \in Workers : worker[w] \in {"none", "gone"}
    <3>1. Gone = Workers BY <2>2, <2>4 DEF Gone
    <3>2. i - 1 = nw BY <2>1, <2>3, <3>1
    <3>3. i <= nw BY <1>8 DEF Workers
    <3> QED BY <1>8, <2>3, <3>2, <3>3
  <2>5. CASE \E w \in Workers : worker[w] = "ended" /\ worker' = [worker EXCEPT ![w] = "gone"]
    <3>1. PICK w \in Workers : worker[w] = "ended" /\ worker' = [worker EXCEPT ![w] = "gone"] BY <2>5
    <3>2. Gone' = Gone \cup {w} BY <1>2, <1>t, <3>1 DEF Gone
    <3>3. w \notin Gone BY <3>1 DEF Gone
    <3>4. IsFiniteSet(Gone) BY <2>3, FS_Subset DEF Gone
    <3>5. Cardinality(Gone \cup {w}) = Cardinality(Gone) + 1 BY <3>3, <3>4, FS_AddElement
    <3> QED BY <1>8, <2>1, <3>2, <3>5
  <2> QED BY <1>b, <2>4, <2>5
<1>11. Stored' /\ Added'
  BY <1>2, <1>3 DEF Stored, Added
<1>12. Sampled'
  <2>1. \A w \in Workers' : shared'[w] = IF worker'[w] \in {"ended", "gone"} THEN local'[w] ELSE Share(w)'
    BY <1>0, <1>2, <1>3, <1>4, <1>c, Fixed DEF ForkJoinInv, Sampled
  <2>2. events' = SumFunctionOnSet(local, Workers)'
    BY <1>0, <1>3, UndisturbedWork DEF ForkJoinInv
  <2> QED BY <1>2, <1>4, <2>1, <2>2 DEF Sampled
<1> QED BY <1>1, <1>5, <1>6, <1>7, <1>10, <1>11, <1>12 DEF ForkJoinInv

LEMMA JoinThreadInv ==
  ASSUME ForkJoinInv, JoinThread
  PROVE  ForkJoinInv'
<1>0. UNCHANGED setting /\ Inputs /\ Advance("join", "collect") BY DEF JoinThread, ForkJoinInv
<1>1. Inputs' BY <1>0, Fixed
<1>2. Workers' = Workers /\ prog' = prog /\ data' = data BY <1>0, Fixed
<1>3. UNCHANGED <<sem, did, local, shared, failures, events>> /\ prog = "det" /\ worker[i] = "ended"
      /\ worker' = [worker EXCEPT ![i] = "gone"] /\ result' = result + shared[i]
  BY DEF JoinThread
<1>4. main = "join" /\ main' \in {"join", "collect"} /\ i' \in Workers
  BY <1>0, AdvanceTypes
<1>8. Waited = i - 1 /\ Waited' = i /\ i \in Nat \ {0} /\ i \in Workers BY <1>0, WaitedJoin
<1>t. worker \in [Workers -> {"none", "run", "ended", "gone"}] /\ shared \in [Workers -> Int] /\ result \in Int
  BY <1>3, <1>4 DEF ForkJoinInv, ForkJoinTypes
<1>b. \A w \in Workers : worker'[w] = IF w = i THEN "gone" ELSE worker[w] BY <1>3, <1>t
<1>5. ForkJoinTypes'
  <2>1. worker' \in [Workers -> {"none", "run", "ended", "gone"}] BY <1>3, <1>t
  <2>2. result' \in Int BY <1>3, <1>8, <1>t
  <2> QED BY <1>2, <1>3, <1>4, <2>1, <2>2 DEF ForkJoinInv, ForkJoinTypes
<1>6. AllStarted' BY <1>0, <1>3, <1>b, JoinStartedInv
<1>7. Duties'
  BY <1>0, <1>2, <1>3, <1>b, Fixed DEF ForkJoinInv, Duties
<1>10. Waits'
  <2>1. \A w \in Workers : worker[w] = "gone" <=> w <= i - 1 BY <1>3, <1>8 DEF ForkJoinInv, Waits
  <2>2. \A w \in Workers : w \in Nat BY DEF Workers
  <2>3. \A w \in Workers : worker'[w] = "gone" <=> w <= i BY <1>8, <1>b, <2>1, <2>2
  <2> QED BY <1>2, <1>3, <1>8, <2>3 DEF Waits
<1>11. Stored' /\ Sampled'
  BY <1>2, <1>3 DEF Stored, Sampled
<1>12. Added'
  <2>1. \A w \in Workers' : local'[w] = PartSum(Begin(w) + did[w])' - PartSum(Begin(w))'
    BY <1>0, <1>3, UndisturbedWork DEF ForkJoinInv
  <2>2. \A w \in Workers' : worker'[w] \in {"ended", "gone"} => shared'[w] = local'[w]
    BY <1>2, <1>3, <1>b DEF ForkJoinInv, Added
  <2>3. result' = PartSum(Begin(i + 1))
    <3>1. result = PartSum(Begin(i))
      <4>1. (i - 1) + 1 = i BY <1>8
      <4> QED BY <1>3, <1>8, <4>1 DEF ForkJoinInv, Added
    <3>2. shared[i] = PartSum(Begin(i) + did[i]) - PartSum(Begin(i)) BY <1>3, <1>8 DEF ForkJoinInv, Added
    <3>3. did[i] = Share(i) BY <1>3, <1>8 DEF ForkJoinInv, Duties, Duty
    <3>4. Begin(i) + Share(i) = Begin(i + 1) BY <1>8, ShareFacts
    <3>5. Begin(i) \in Nat /\ Share(i) \in Nat /\ Begin(i) + Share(i) <= Total BY <1>8, ShareFacts
    <3>6. Square(data) /\ Total = Len(data) /\ Total \in Nat BY <1>0, <1>3, InputTypes
    <3>7. Begin(i) <= Total /\ Begin(i) + Share(i) \in Nat BY <3>5, <3>6
    <3>8. PartSum(Begin(i)) \in Int /\ PartSum(Begin(i) + Share(i)) \in Int BY <3>5, <3>6, <3>7, PartSumInt
    <3>9. PICK x \in Int, y \in Int : x = PartSum(Begin(i)) /\ y = PartSum(Begin(i) + Share(i)) BY <3>8
    <3> QED BY <1>3, <3>1, <3>2, <3>3, <3>4, <3>9
  <2>4. result' = PartSum(Begin(Waited + 1))' BY <1>0, <1>8, <2>3, Fixed
  <2> QED BY <2>1, <2>2, <2>4 DEF Added
<1> QED BY <1>1, <1>5, <1>6, <1>7, <1>10, <1>11, <1>12 DEF ForkJoinInv

LEMMA AllGone ==
  ASSUME ForkJoinInv, prog = "rpair", failures = 0, main \in {"collect", "done"}
  PROVE  Gone = Workers
<1>1. nw \in Nat \ {0} BY DEF ForkJoinInv, Inputs
<1>2. IsFiniteSet(Workers) /\ Cardinality(Workers) = nw BY <1>1, FS_Interval DEF Workers
<1>3. Waited = nw BY DEF Waited
<1>4. Cardinality(Gone) = nw BY <1>3 DEF ForkJoinInv, Waits
<1>5. Gone \subseteq Workers BY DEF Gone
<1> QED BY <1>2, <1>4, <1>5, FS_Subset

LEMMA CollectInv ==
  ASSUME ForkJoinInv, Collect
  PROVE  ForkJoinInv'
<1>0. UNCHANGED setting /\ Inputs BY DEF Collect, ForkJoinInv
<1>1. Inputs' BY <1>0, Fixed
<1>2. Workers' = Workers /\ prog' = prog /\ data' = data BY <1>0, Fixed
<1>3. UNCHANGED <<i, sem, worker, did, local, shared, failures, events>> /\ main = "collect" /\ main' = "done"
  BY DEF Collect, workers
<1>4. result' = IF prog = "rpair" THEN SumFunction(shared) ELSE result BY DEF Collect
<1>8. Waited = nw /\ Waited' = nw
  <2>1. nw' = nw BY <1>0, Fixed
  <2> QED BY <1>3, <2>1 DEF Waited
<1>t. prog # "mult" => shared \in [Workers -> Int] BY <1>3 DEF ForkJoinInv, ForkJoinTypes
<1>f. nw \in Nat \ {0} /\ IsFiniteSet(Workers) BY <1>0, WorkerOne DEF Inputs
<1>5. ForkJoinTypes'
  <2>1. result' \in Int
    <3>1. CASE prog = "rpair"
      <4>1. DOMAIN shared = Workers /\ \A w \in Workers : shared[w] \in Int BY <1>t, <3>1
      <4>2. SumFunctionOnSet(shared, Workers) \in Int BY <1>f, <4>1, SumInt
      <4> QED BY <1>4, <3>1, <4>1, <4>2 DEF SumFunction
    <3>2. CASE prog # "rpair" BY <1>4, <3>2 DEF ForkJoinInv, ForkJoinTypes
    <3> QED BY <3>1, <3>2
  <2> QED BY <1>2, <1>3, <2>1 DEF ForkJoinInv, ForkJoinTypes
<1>6. AllStarted' BY <1>2, <1>3 DEF ForkJoinInv, AllStarted
<1>7. Duties'
  BY <1>0, <1>2, <1>3, Fixed DEF ForkJoinInv, Duties
<1>9. Ended' = Ended /\ Gone' = Gone
  BY <1>2, <1>3 DEF Ended, Gone
<1>10. Waits'
  BY <1>2, <1>3, <1>8, <1>9 DEF ForkJoinInv, Waits
<1>11. Stored'
  BY <1>0, <1>3, UndisturbedWork DEF ForkJoinInv
<1>12. Sampled'
  <2> SUFFICES ASSUME prog = "rpair" PROVE Sampled' BY <1>2 DEF Sampled
  <2>1. \A w \in Workers' : shared'[w] = IF worker'[w] \in {"ended", "gone"} THEN local'[w] ELSE Share(w)'
    BY <1>0, <1>2, <1>3, Fixed DEF ForkJoinInv, Sampled
  <2>2. events' = SumFunctionOnSet(local, Workers)'
    BY <1>0, <1>3, UndisturbedWork DEF ForkJoinInv
  <2>3. ASSUME failures = 0 PROVE result' = events
    <3>1. Gone = Workers BY <1>3, <2>3, AllGone
    <3>2. \A w \in Workers : shared[w] = local[w] BY <1>3, <3>1 DEF ForkJoinInv, Sampled, Gone
    <3>3. SumFunctionOnSet(shared, Workers) = SumFunctionOnSet(local, Workers) BY <1>f, <3>2, SumCongruent
    <3>4. DOMAIN shared = Workers BY <1>t
    <3> QED BY <1>4, <3>3, <3>4 DEF SumFunction, ForkJoinInv, Sampled
  <2> QED BY <1>2, <1>3, <2>1, <2>2, <2>3 DEF Sampled
<1>13. Added'
  <2> SUFFICES ASSUME prog = "det" PROVE Added' BY <1>2 DEF Added
  <2>1. \A w \in Workers' : local'[w] = PartSum(Begin(w) + did[w])' - PartSum(Begin(w))'
    BY <1>0, <1>3, UndisturbedWork DEF ForkJoinInv
  <2>2. \A w \in Workers' : worker'[w] \in {"ended", "gone"} => shared'[w] = local'[w]
    BY <1>2, <1>3 DEF ForkJoinInv, Added
  <2>3. result = PartSum(Begin(Waited + 1)) BY DEF ForkJoinInv, Added
  <2>4. result' = PartSum(Begin(Waited + 1))' BY <1>0, <1>4, <1>8, <2>3, Fixed
  <2> QED BY <2>1, <2>2, <2>4 DEF Added
<1> QED BY <1>1, <1>5, <1>6, <1>7, <1>10, <1>11, <1>12, <1>13 DEF ForkJoinInv

LEMMA FinishInv ==
  ASSUME ForkJoinInv, NEW w \in Workers, Finish(w)
  PROVE  ForkJoinInv'
<1>0. UNCHANGED setting /\ Inputs BY DEF Finish, ForkJoinInv
<1>1. Inputs' BY <1>0, Fixed
<1>2. Workers' = Workers /\ prog' = prog /\ data' = data BY <1>0, Fixed
<1>3. UNCHANGED <<main, i, result, did, local, failures, events>> /\ worker[w] = "run" /\ did[w] = Load(w)
      /\ worker' = [worker EXCEPT ![w] = "ended"]
      /\ sem' = (IF prog = "mult" THEN sem + 1 ELSE sem)
      /\ shared' = (IF prog = "mult" THEN shared ELSE [shared EXCEPT ![w] = local[w]])
  BY DEF Finish, mains
<1>m. main # "create" BY <1>3 DEF ForkJoinInv, AllStarted
<1>t. worker \in [Workers -> {"none", "run", "ended", "gone"}] /\ local \in [Workers -> Int] /\ sem \in Nat
      /\ (prog # "mult" => shared \in [Workers -> Int])
      /\ (prog = "mult" => shared = [k \in 0 .. Rows(data[1]) * Cols(data[2]) - 1 |-> shared[k]])
  BY <1>m DEF ForkJoinInv, ForkJoinTypes
<1>b. \A v \in Workers : worker'[v] = IF v = w THEN "ended" ELSE worker[v] BY <1>3, <1>t
<1>d. did[w] = Duty(w)
  <2>1. prog = "rpair" => shared[w] = Share(w) BY <1>3, <1>m DEF ForkJoinInv, Sampled
  <2> QED BY <1>0, <1>3, <2>1 DEF Load, Duty, Inputs
<1>5. ForkJoinTypes'
  <2>1. worker' \in [Workers -> {"none", "run", "ended", "gone"}] BY <1>3, <1>t
  <2>2. sem' \in Nat BY <1>3, <1>t
  <2>3. IF prog = "mult" THEN shared' = [k \in 0 .. Rows(data[1]) * Cols(data[2]) - 1 |-> shared'[k]]
        ELSE shared' \in [Workers -> Int]
    BY <1>3, <1>t
  <2> QED BY <1>2, <1>3, <2>1, <2>2, <2>3 DEF ForkJoinInv, ForkJoinTypes
<1>6. AllStarted'
  BY <1>2, <1>3, <1>b DEF ForkJoinInv, AllStarted
<1>7. Duties'
  BY <1>0, <1>2, <1>3, <1>b, <1>d, Fixed DEF ForkJoinInv, Duties
<1>8. Waited' = Waited
  <2>1. nw' = nw BY <1>0, Fixed
  <2> QED BY <1>3, <2>1 DEF Waited
<1>9. Ended' = Ended \cup {w} /\ Gone' = Gone /\ w \notin Ended
  BY <1>2, <1>3, <1>b DEF Ended, Gone
<1>10. Waits'
  <2>1. ASSUME prog = "mult" PROVE sem' + Waited' = Cardinality(Ended)'
    <3>1. nw \in Nat \ {0} BY <1>0 DEF Inputs
    <3>2. IsFiniteSet(Workers) BY <3>1, WorkerOne
    <3>3. IsFiniteSet(Ended) BY <3>2, FS_Subset DEF Ended
    <3>4. Cardinality(Ended \cup {w}) = Cardinality(Ended) + 1 BY <1>9, <3>3, FS_AddElement
    <3>5. sem + Waited = Cardinality(Ended) BY <2>1 DEF ForkJoinInv, Waits
    <3>6. Waited \in Int BY <3>1 DEF Waited, ForkJoinInv, ForkJoinTypes, Workers
    <3> QED BY <1>3, <1>8, <1>9, <1>t, <2>1, <3>4, <3>5, <3>6
  <2>2. prog = "mult" => Gone' = {} BY <1>9 DEF ForkJoinInv, Waits
  <2>3. prog = "rpair" /\ failures' = 0 => Cardinality(Gone)' = Waited' BY <1>3, <1>8, <1>9 DEF ForkJoinInv, Waits
  <2>4. prog = "det" => \A v \in Workers : worker'[v] = "gone" <=> v <= Waited'
    <3>1. \A v \in Workers : worker'[v] = "gone" <=> worker[v] = "gone" BY <1>3, <1>b
    <3> QED BY <1>8, <3>1 DEF ForkJoinInv, Waits
  <2> QED BY <1>2, <2>1, <2>2, <2>3, <2>4 DEF Waits
<1>11. Stored'
  <2>1. prog = "mult" => UNCHANGED shared BY <1>3
  <2> QED BY <1>0, <1>2, <1>3, <2>1, UndisturbedWork DEF ForkJoinInv, Stored
<1>12. Sampled'
  <2> SUFFICES ASSUME prog = "rpair" PROVE Sampled' BY <1>2 DEF Sampled
  <2>1. \A v \in Workers' : shared'[v] = IF worker'[v] \in {"ended", "gone"} THEN local'[v] ELSE Share(v)'
    <3>1. \A v \in Workers : shared'[v] = IF v = w THEN local[w] ELSE shared[v] BY <1>3, <1>t
    <3>2. \A v \in Workers : shared[v] = IF worker[v] \in {"ended", "gone"} THEN local[v] ELSE Share(v)
      BY <1>m DEF ForkJoinInv, Sampled
    <3> QED BY <1>0, <1>2, <1>3, <1>b, <3>1, <3>2, Fixed
  <2>2. events' = SumFunctionOnSet(local, Workers)'
    BY <1>0, <1>3, UndisturbedWork DEF ForkJoinInv
  <2> QED BY <1>2, <1>3, <2>1, <2>2 DEF ForkJoinInv, Sampled
<1>13. Added'
  <2> SUFFICES ASSUME prog = "det" PROVE Added' BY <1>2 DEF Added
  <2>1. \A v \in Workers' : local'[v] = PartSum(Begin(v) + did[v])' - PartSum(Begin(v))'
    BY <1>0, <1>3, UndisturbedWork DEF ForkJoinInv
  <2>2. \A v \in Workers' : worker'[v] \in {"ended", "gone"} => shared'[v] = local'[v]
    <3>1. \A v \in Workers : shared'[v] = IF v = w THEN local[w] ELSE shared[v] BY <1>3, <1>t
    <3> QED BY <1>2, <1>3, <1>b, <3>1 DEF ForkJoinInv, Added
  <2>3. result = PartSum(Begin(Waited + 1)) BY DEF ForkJoinInv, Added
  <2>4. result' = PartSum(Begin(Waited + 1))' BY <1>0, <1>3, <1>8, <2>3, Fixed
  <2> QED BY <2>1, <2>2, <2>4 DEF Added
<1> QED BY <1>1, <1>5, <1>6, <1>7, <1>10, <1>11, <1>12, <1>13 DEF ForkJoinInv

\* The cells of two shares are different.
LEMMA CellBelow ==
  ASSUME NEW x \in Nat, NEW s \in Nat, NEW y \in Nat, NEW c \in Nat, NEW k \in Nat, x + s <= y, k < s * c
  PROVE  x * c \in Nat /\ y * c \in Nat /\ x * c + k < y * c
<1>1. (x + s) * c = x * c + s * c BY ProductSum
<1>2. (x + s) * c <= y * c BY ProductMonotone
<1>3. PICK p \in Nat, q \in Nat, r \in Nat : p = x * c /\ q = s * c /\ r = y * c OBVIOUS
<1> QED BY <1>1, <1>2, <1>3

LEMMA ElementStored ==
  ASSUME ForkJoinInv, NEW w \in Workers, prog = "mult", main # "create",
         did[w] < Duty(w), Element(w), did' = [did EXCEPT ![w] = @ + 1], UNCHANGED setting
  PROVE  /\ Stored'
         /\ shared' = [k \in 0 .. Rows(data[1]) * Cols(data[2]) - 1 |-> shared'[k]]
<1>1. PICK c \in Nat : c = Cols(data[2]) BY InputTypes DEF ForkJoinInv
<1>2. did \in [Workers -> Nat] /\ shared = [k \in 0 .. Rows(data[1]) * Cols(data[2]) - 1 |-> shared[k]]
  BY DEF ForkJoinInv, ForkJoinTypes
<1>3. \A v \in Workers : Begin(v) \in Nat /\ Share(v) \in Nat /\ Begin(v) + Share(v) <= Total BY ShareFacts
<1>4. nw \in Nat \ {0} /\ Total \in Nat /\ Rows(data[1]) = Total BY InputTypes DEF ForkJoinInv
<1>5. \A v \in Workers : did[v] <= Share(v) * c BY <1>1 DEF ForkJoinInv, Duties, Duty
<1>6. did[w] < Share(w) * c BY <1>1 DEF Duty
<1> DEFINE cell == Begin(w) * c + did[w]
<1>7. shared' = [shared EXCEPT ![cell] = ElementOf(w, did[w])]
  <2>1. ShareStart(w) = Begin(w) BY ShareFacts
  <2> QED BY <1>1, <2>1 DEF Element, ElementOf
<1>8. cell \in 0 .. Rows(data[1]) * Cols(data[2]) - 1
  <2>1. PICK x \in Nat, s \in Nat, y \in Nat, k \in Nat : x = Begin(w) /\ s = Share(w) /\ y = Total /\ k = did[w]
    BY <1>2, <1>3, <1>4
  <2>2. x + s <= y /\ k < s * c BY <1>3, <1>6, <2>1
  <2>3. x * c \in Nat /\ y * c \in Nat /\ x * c + k < y * c BY <2>2, CellBelow
  <2>4. PICK p \in Nat, q \in Nat : p = x * c /\ q = y * c /\ p + k < q BY <2>3
  <2>5. p + k \in 0 .. q - 1 BY <2>4
  <2> QED BY <1>1, <1>4, <2>1, <2>4, <2>5
<1>9. shared'[cell] = ElementOf(w, did[w]) BY <1>2, <1>7, <1>8
<1>10. ASSUME NEW v \in Workers, NEW k \in Nat, k < did[v]
       PROVE  Begin(v) * c + k # cell /\ shared'[Begin(v) * c + k] = ElementOf(v, k)
  <2>1. PICK x \in Nat, s \in Nat, y \in Nat, t \in Nat, e \in Nat, f \in Nat :
          x = Begin(v) /\ s = Share(v) /\ y = Begin(w) /\ t = Share(w) /\ e = did[w] /\ f = did[v]
    BY <1>2, <1>3
  <2>2. k < s * c
    <3>1. k < f /\ f <= s * c BY <1>5, <1>10, <2>1
    <3>2. PICK p \in Nat : p = s * c OBVIOUS
    <3> QED BY <3>1, <3>2
  <2>3. e < t * c BY <1>6, <2>1
  <2>4. PICK p \in Nat, q \in Nat : p = x * c /\ q = y * c OBVIOUS
  <2>5. v \in Nat /\ w \in Nat BY DEF Workers
  <2>9. Begin(v) * c + k # cell
    <3>1. CASE v < w
      <4>1. x + s <= y BY <1>4, <2>1, <3>1, SharesApart
      <4>2. x * c + k < y * c BY <2>2, <4>1, CellBelow
      <4>3. p + k < q BY <2>4, <4>2
      <4>4. p + k # q + e BY <4>3
      <4> QED BY <2>1, <2>4, <4>4
    <3>2. CASE w < v
      <4>1. y + t <= x BY <1>4, <2>1, <3>2, SharesApart
      <4>2. y * c + e < x * c BY <2>3, <4>1, CellBelow
      <4>3. q + e < p BY <2>4, <4>2
      <4>4. p + k # q + e BY <4>3
      <4> QED BY <2>1, <2>4, <4>4
    <3>3. CASE v = w
      <4>1. p = q /\ k < e BY <1>10, <2>1, <2>4, <3>3
      <4>2. p + k # q + e BY <4>1
      <4> QED BY <2>1, <2>4, <4>2
    <3> QED BY <2>5, <3>1, <3>2, <3>3
  <2>10. shared[Begin(v) * c + k] = ElementOf(v, k) BY <1>1, <1>10 DEF ForkJoinInv, Stored
  <2>11. Begin(v) * c + k \in 0 .. Rows(data[1]) * Cols(data[2]) - 1
    <3>1. PICK u \in Nat : u = Total BY <1>4
    <3>2. x + s <= u BY <1>3, <2>1, <3>1
    <3>3. x * c \in Nat /\ u * c \in Nat /\ x * c + k < u * c BY <2>2, <3>2, CellBelow
    <3>4. PICK r \in Nat : r = u * c /\ p + k < r BY <2>4, <3>3
    <3>5. p + k \in 0 .. r - 1 BY <3>4
    <3> QED BY <1>1, <1>4, <2>1, <2>4, <3>1, <3>4, <3>5
  <2> HIDE DEF cell
  <2>12. shared'[Begin(v) * c + k] = shared[Begin(v) * c + k] BY <1>2, <1>7, <2>9, <2>11
  <2> QED BY <2>9, <2>10, <2>12
<1>11. Stored'
  <2> SUFFICES ASSUME NEW v \in Workers', NEW k \in Nat, k < did'[v]
               PROVE  shared'[Begin(v)' * Cols(data[2])' + k] = ElementOf(v, k)'
    BY DEF Stored
  <2>1. v \in Workers /\ Begin(v)' = Begin(v) /\ ElementOf(v, k)' = ElementOf(v, k) /\ data' = data BY Fixed
  <2>2. Cols(data[2])' = c BY <1>1, <2>1
  <2>3. k < did[v] \/ (v = w /\ k = did[w])
    <3>1. did'[v] = IF v = w THEN did[w] + 1 ELSE did[v] BY <1>2, <2>1
    <3>2. did[v] \in Nat /\ did[w] \in Nat BY <1>2, <2>1
    <3> QED BY <3>1, <3>2
  <2>4. CASE k < did[v] BY <1>10, <2>1, <2>2, <2>4
  <2>5. CASE v = w /\ k = did[w] BY <1>9, <2>1, <2>2, <2>5
  <2> QED BY <2>3, <2>4, <2>5
<1>12. shared' = [k \in 0 .. Rows(data[1]) * Cols(data[2]) - 1 |-> shared'[k]]
  <2> HIDE DEF cell
  <2> QED BY <1>2, <1>7
<1> QED BY <1>11, <1>12

LEMMA WorkInv ==
  ASSUME ForkJoinInv, NEW w \in Workers, Work(w)
  PROVE  ForkJoinInv'
<1>0. UNCHANGED setting /\ Inputs BY DEF Work, ForkJoinInv
<1>1. Inputs' BY <1>0, Fixed
<1>2. Workers' = Workers /\ prog' = prog /\ data' = data /\ nw' = nw BY <1>0, Fixed
<1>3. UNCHANGED <<main, i, result, sem, worker, failures>> /\ worker[w] = "run" /\ did[w] < Load(w)
      /\ did' = [did EXCEPT ![w] = @ + 1]
  BY DEF Work, mains
<1>4. Element(w) \/ Sample(w) \/ AddTerm(w) BY DEF Work
<1>m. main # "create" BY <1>3 DEF ForkJoinInv, AllStarted
<1>t. /\ did \in [Workers -> Nat] /\ local \in [Workers -> Int] /\ events \in Int
      /\ prog # "mult" => shared \in [Workers -> Int]
      /\ prog = "mult" => shared = [k \in 0 .. Rows(data[1]) * Cols(data[2]) - 1 |-> shared[k]]
  BY <1>m DEF ForkJoinInv, ForkJoinTypes
<1>f. nw \in Nat \ {0} /\ IsFiniteSet(Workers) BY <1>0, WorkerOne DEF Inputs
<1>d. did[w] < Duty(w)
  <2>1. prog = "rpair" => shared[w] = Share(w) BY <1>3, <1>m DEF ForkJoinInv, Sampled
  <2> QED BY <1>0, <1>3, <2>1 DEF Load, Duty, Inputs
<1>b. \A v \in Workers : did'[v] = IF v = w THEN did[w] + 1 ELSE did[v] BY <1>3, <1>t
<1>e. prog = "mult" => Element(w) BY <1>4 DEF Sample, AddTerm
<1>s. prog = "rpair" => Sample(w) BY <1>4 DEF Element, AddTerm
<1>a. prog = "det" => AddTerm(w) BY <1>4 DEF Element, Sample
<1>el. prog = "mult" => Stored' /\ shared' = [k \in 0 .. Rows(data[1]) * Cols(data[2]) - 1 |-> shared'[k]]
  BY <1>0, <1>3, <1>d, <1>e, <1>m, ElementStored
<1>l. /\ local' \in [Workers -> Int] /\ events' \in Int /\ \A v \in Workers : v # w => local'[v] = local[v]
      /\ prog # "mult" => shared' = shared
  <2>1. CASE prog = "mult" BY <1>e, <1>t, <2>1 DEF Element
  <2>2. CASE prog = "rpair"
    <3>1. PICK hit \in {0, 1} : local' = [local EXCEPT ![w] = @ + hit] /\ events' = events + hit BY <1>s, <2>2 DEF Sample
    <3>2. local[w] + hit \in Int /\ events + hit \in Int BY <1>t
    <3>3. shared' = shared BY <1>s, <2>2 DEF Sample
    <3> QED BY <1>t, <3>1, <3>2, <3>3
  <2>3. CASE prog = "det"
    <3>1. local' = [local EXCEPT ![w] = @ + Term(w)] /\ shared' = shared /\ events' = events BY <1>a, <2>3 DEF AddTerm
    <3>2. Term(w) \in Int
      <4>1. Term(w) = Terms[(Begin(w) + did[w]) + 1] /\ Begin(w) + did[w] + 1 \in 1 .. Len(data)
        <5>1. ShareStart(w) = Begin(w) /\ Begin(w) \in Nat /\ Share(w) \in Nat /\ Begin(w) + Share(w) <= Total BY ShareFacts
        <5>2. did[w] \in Nat /\ did[w] < Share(w) BY <1>d, <1>t, <2>3 DEF Duty
        <5>3. Total = Len(data) /\ Total \in Nat BY <1>0, <2>3, InputTypes
        <5>4. PICK k \in Nat : k = Begin(w) + did[w] /\ k + 1 \in 1 .. Len(data) /\ (k + 1) - 1 = k BY <5>1, <5>2, <5>3
        <5>5. Term(w) = Sign(k) * data[1][k + 1] * Det(data)[(1 .. Len(data)) \ {k + 1}] BY <5>1, <5>4 DEF Term
        <5>6. Terms[k + 1] = Sign((k + 1) - 1) * data[1][k + 1] * Det(data)[(1 .. Len(data)) \ {k + 1}] BY <5>4 DEF Terms
        <5> QED BY <5>4, <5>5, <5>6
      <4>2. Square(data) BY <1>0, <2>3, InputTypes
      <4> QED BY <4>1, <4>2, TermInt
    <3> QED BY <1>t, <3>1, <3>2
  <2> QED BY <1>0, <2>1, <2>2, <2>3 DEF Inputs
<1>5. ForkJoinTypes'
  <2>1. did' \in [Workers -> Nat] BY <1>3, <1>t
  <2>2. IF prog = "mult" THEN shared' = [k \in 0 .. Rows(data[1]) * Cols(data[2]) - 1 |-> shared'[k]]
        ELSE shared' \in [Workers -> Int]
    BY <1>el, <1>l, <1>t
  <2> QED BY <1>2, <1>3, <1>l, <2>1, <2>2 DEF ForkJoinInv, ForkJoinTypes
<1>6. AllStarted'
  BY <1>2, <1>3 DEF ForkJoinInv, AllStarted
<1>7. Duties'
  <2>1. ASSUME NEW v \in Workers
        PROVE  /\ did'[v] <= Duty(v)
               /\ worker'[v] = "none" => did'[v] = 0
               /\ did'[v] = 0 => local'[v] = 0
               /\ worker'[v] \in {"ended", "gone"} => did'[v] = Duty(v)
    <3>1. Duty(v) \in Nat /\ did[v] \in Nat BY <1>t, ShareFacts
    <3>2. CASE v = w
      <4>1. did'[v] = did[w] + 1 BY <1>b, <3>2
      <4>2. did[w] + 1 <= Duty(w) /\ did[w] + 1 # 0 BY <1>d, <3>1, <3>2
      <4> QED BY <1>3, <3>2, <4>1, <4>2
    <3>3. CASE v # w BY <1>3, <1>b, <1>l, <3>3 DEF ForkJoinInv, Duties
    <3> QED BY <3>2, <3>3
  <2> QED BY <1>0, <1>2, <2>1, Fixed DEF Duties
<1>8. Waited' = Waited /\ Ended' = Ended /\ Gone' = Gone
  BY <1>2, <1>3 DEF Waited, Ended, Gone
<1>10. Waits'
  BY <1>2, <1>3, <1>8 DEF ForkJoinInv, Waits
<1>11. Stored'
  BY <1>2, <1>el DEF Stored
<1>12. Sampled'
  <2> SUFFICES ASSUME prog = "rpair" PROVE Sampled' BY <1>2 DEF Sampled
  <2>1. \A v \in Workers' : shared'[v] = IF worker'[v] \in {"ended", "gone"} THEN local'[v] ELSE Share(v)'
    <3>1. \A v \in Workers : shared[v] = IF worker[v] \in {"ended", "gone"} THEN local[v] ELSE Share(v)
      BY <1>m DEF ForkJoinInv, Sampled
    <3> QED BY <1>0, <1>2, <1>3, <1>l, <3>1, Fixed
  <2>2. events' = SumFunctionOnSet(local, Workers)'
    <3>1. PICK hit \in {0, 1} : local' = [local EXCEPT ![w] = @ + hit] /\ events' = events + hit BY <1>s DEF Sample
    <3>2. local'[w] = local[w] + hit /\ \A v \in Workers \ {w} : local'[v] = local[v] BY <1>t, <3>1
    <3>3. PICK L : L = local' OBVIOUS
    <3>4. SumFunctionOnSet(L, Workers) = SumFunctionOnSet(local, Workers) + hit
      <4>1. hit \in Int /\ \A v \in Workers : local[v] \in Int BY <1>t
      <4>2. L[w] = local[w] + hit /\ \A v \in Workers \ {w} : L[v] = local[v] BY <3>2, <3>3
      <4> QED BY <1>f, <4>1, <4>2, SumUpdate
    <3>5. events = SumFunctionOnSet(local, Workers) BY DEF ForkJoinInv, Sampled
    <3> QED BY <1>2, <3>1, <3>3, <3>4, <3>5
  <2>3. failures' = 0 /\ main' = "done" => FALSE
    <3> SUFFICES ASSUME failures = 0, main = "done" PROVE FALSE BY <1>3
    <3>1. Gone = Workers BY AllGone
    <3> QED BY <1>3, <3>1 DEF Gone
  <2> QED BY <1>2, <1>3, <2>1, <2>2, <2>3 DEF Sampled
<1>13. Added'
  <2> SUFFICES ASSUME prog = "det" PROVE Added' BY <1>2 DEF Added
  <2>1. ASSUME NEW v \in Workers PROVE local'[v] = PartSum(Begin(v) + did'[v]) - PartSum(Begin(v))
    <3>1. local[v] = PartSum(Begin(v) + did[v]) - PartSum(Begin(v)) BY DEF ForkJoinInv, Added
    <3>2. CASE v # w BY <1>b, <1>l, <3>1, <3>2
    <3>3. CASE v = w
      <4>1. local'[w] = local[w] + Term(w) BY <1>a, <1>t DEF AddTerm
      <4>2. ShareStart(w) = Begin(w) /\ Begin(w) \in Nat /\ Share(w) \in Nat /\ Begin(w) + Share(w) <= Total BY ShareFacts
      <4>3. did[w] \in Nat /\ did[w] < Share(w) BY <1>d, <1>t DEF Duty
      <4>4. Total = Len(data) /\ Total \in Nat /\ Square(data) BY <1>0, InputTypes
      <4>5. PICK k \in Nat : k = Begin(w) + did[w] /\ k + 1 \in 1 .. Len(data) /\ (k + 1) - 1 = k /\ k < Len(data) BY <4>2, <4>3, <4>4
      <4>6. Term(w) = Sign(k) * data[1][k + 1] * Det(data)[(1 .. Len(data)) \ {k + 1}] BY <4>2, <4>5 DEF Term
      <4>7. Terms[k + 1] = Sign((k + 1) - 1) * data[1][k + 1] * Det(data)[(1 .. Len(data)) \ {k + 1}] BY <4>5 DEF Terms
      <4>8. PartSum(k) \in Int /\ PartSum(k + 1) = Terms[k + 1] + PartSum(k) BY <4>4, <4>5, PartSumNext
      <4>9. Terms[k + 1] \in Int BY <4>4, <4>5, TermInt
      <4>10. Begin(w) <= Len(data) BY <4>2, <4>4
      <4>11. PartSum(Begin(w)) \in Int BY <4>2, <4>4, <4>10, PartSumInt
      <4>12. Begin(w) + did'[w] = k + 1
        <5>1. did'[w] = did[w] + 1 BY <1>b
        <5>2. PICK b \in Nat, s \in Nat : b = Begin(w) /\ s = did[w] BY <4>2, <4>3
        <5>3. b + (s + 1) = k + 1 BY <4>5, <5>2
        <5> QED BY <5>1, <5>2, <5>3
      <4>13. PICK x \in Int, y \in Int, z \in Int : x = PartSum(k) /\ y = Terms[k + 1] /\ z = PartSum(Begin(w)) BY <4>8, <4>9, <4>11
      <4>14. local'[w] = (x - z) + y BY <3>1, <3>3, <4>1, <4>5, <4>6, <4>7, <4>13
      <4>15. PartSum(Begin(w) + did'[w]) - PartSum(Begin(w)) = (y + x) - z BY <4>8, <4>12, <4>13
      <4>16. (x - z) + y = (y + x) - z OBVIOUS
      <4> QED BY <3>3, <4>14, <4>15, <4>16
    <3> QED BY <3>2, <3>3
  <2>2. \A v \in Workers' : local'[v] = PartSum(Begin(v) + did[v])' - PartSum(Begin(v))'
    BY <1>0, <1>2, <2>1, Fixed
  <2>3. \A v \in Workers' : worker'[v] \in {"ended", "gone"} => shared'[v] = local'[v]
    BY <1>2, <1>3, <1>l DEF ForkJoinInv, Added
  <2>4. result = PartSum(Begin(Waited + 1)) BY DEF ForkJoinInv, Added
  <2>5. result' = PartSum(Begin(Waited + 1))' BY <1>0, <1>3, <1>8, <2>4, Fixed
  <2> QED BY <2>2, <2>3, <2>5 DEF Added
<1> QED BY <1>1, <1>5, <1>6, <1>7, <1>10, <1>11, <1>12, <1>13 DEF ForkJoinInv

LEMMA StepForkJoin ==
  ASSUME ForkJoinInv, [ForkJoinNext]_forkJoin
  PROVE  ForkJoinInv'
<1>1. CASE ForkJoinNext
  BY <1>1, SetupInv, SpawnInv, ForkFailsInv, SemWaitInv, WaitChildInv, JoinThreadInv, CollectInv, FinishInv, WorkInv
     DEF ForkJoinNext, MainStep, WorkerStep
<1>2. CASE UNCHANGED forkJoin
  <2>1. UNCHANGED <<prog, data, nw, named, main, i, result, sem, worker, did, local, shared, failures, events>>
    BY <1>2 DEF forkJoin, setting, mains, workers
  <2>2. UNCHANGED setting BY <2>1 DEF setting
  <2>3. Workers' = Workers BY <2>2, Fixed
  <2>4. Inputs' BY <2>2, Fixed DEF ForkJoinInv
  <2>5. ForkJoinTypes' BY <2>1, <2>3 DEF ForkJoinInv, ForkJoinTypes
  <2>6. AllStarted' BY <2>1, <2>3 DEF ForkJoinInv, AllStarted
  <2>7. Duties' BY <2>1, <2>2, <2>3, Fixed DEF ForkJoinInv, Duties
  <2>8. Waited' = Waited /\ Ended' = Ended /\ Gone' = Gone BY <2>1, <2>3 DEF Waited, Ended, Gone
  <2>9. Waits' BY <2>1, <2>3, <2>8 DEF ForkJoinInv, Waits
  <2>10. Stored' BY <2>1, <2>2, UndisturbedWork DEF ForkJoinInv
  <2>11. Sampled' BY <2>1, <2>2, <2>3, Fixed DEF ForkJoinInv, Sampled
  <2>12. Added'
    <3>1. result = PartSum(Begin(Waited + 1)) => result' = PartSum(Begin(Waited + 1))' BY <2>1, <2>2, <2>8, Fixed
    <3> QED BY <2>1, <2>2, <2>3, <3>1, Fixed DEF ForkJoinInv, Added
  <2> QED BY <2>4, <2>5, <2>6, <2>7, <2>9, <2>10, <2>11, <2>12 DEF ForkJoinInv
<1> QED BY <1>1, <1>2

\* The inductive invariant: the semaphore, the waits, the shares and what is
\* stored, sampled or added agree with the places of main and of the workers,
\* for any inputs and any number of workers.
THEOREM ForkJoinInvariance == ForkJoinSpec => []ForkJoinInv
<1>1. ForkJoinInit => ForkJoinInv BY InitForkJoin
<1>2. ForkJoinInv /\ [ForkJoinNext]_forkJoin => ForkJoinInv' BY StepForkJoin
<1> QED BY <1>1, <1>2, PTL DEF ForkJoinSpec

-----------------------------------------------------------------------------
(* What main reports.                                                      *)

LEMMA AllEnded ==
  ASSUME ForkJoinInv, main = "done", failures = 0
  PROVE  NobodyWrites
<1>1. nw \in Nat \ {0} /\ prog \in {"mult", "rpair", "det"} BY DEF ForkJoinInv, Inputs
<1>2. IsFiniteSet(Workers) /\ Cardinality(Workers) = nw BY <1>1, FS_Interval DEF Workers
<1>3. Waited = nw BY DEF Waited
<1>4. CASE prog = "mult"
  <2>1. sem + nw = Cardinality(Ended) /\ sem \in Nat BY <1>3, <1>4 DEF ForkJoinInv, Waits, ForkJoinTypes
  <2>2. Ended \subseteq Workers BY DEF Ended
  <2>3. Cardinality(Ended) <= nw /\ Cardinality(Ended) \in Nat BY <1>2, <2>2, FS_Subset, FS_CardinalityType
  <2>4. Cardinality(Ended) = nw BY <1>1, <2>1, <2>3
  <2>5. Ended = Workers BY <1>2, <2>2, <2>4, FS_Subset
  <2> QED BY <2>5 DEF NobodyWrites, Ended
<1>5. CASE prog = "rpair"
  <2>1. Gone = Workers BY <1>5, AllGone
  <2> QED BY <2>1 DEF NobodyWrites, Gone
<1>6. CASE prog = "det"
  <2>1. \A w \in Workers : w <= nw BY DEF Workers
  <2>2. \A w \in Workers : worker[w] = "gone" BY <1>3, <1>6, <2>1 DEF ForkJoinInv, Waits
  <2> QED BY <2>2 DEF NobodyWrites
<1> QED BY <1>1, <1>4, <1>5, <1>6

LEMMA ProductDone ==
  ASSUME ForkJoinInv, main = "done", failures = 0
  PROVE  ProductRight
<1> SUFFICES ASSUME prog = "mult", NEW r \in 1 .. Rows(data[1]), NEW col \in 1 .. Cols(data[2])
             PROVE  shared[(r - 1) * Cols(data[2]) + col - 1] = DotProd(data[1], data[2], r, col)
  BY DEF ProductRight
<1>1. nw \in Nat \ {0} /\ Total \in Nat /\ Rows(data[1]) = Total BY InputTypes DEF ForkJoinInv
<1>2. PICK c \in Nat : c = Cols(data[2]) BY InputTypes DEF ForkJoinInv
<1>3. PICK x \in Nat, e \in Nat : x = r - 1 /\ x < Total /\ e = col - 1 /\ e < c /\ x + 1 = r /\ e + 1 = col BY <1>1, <1>2
<1>4. PICK w \in Workers : Begin(w) <= x /\ x < Begin(w) + Share(w) BY <1>1, <1>3, SharesCover
<1>5. PICK b \in Nat, s \in Nat : b = Begin(w) /\ s = Share(w) BY <1>1, BeginNext
<1>6. PICK q \in Nat : q = x - b /\ q + 1 <= s /\ b + q = x BY <1>3, <1>4, <1>5
<1>7. did[w] = s * c
  <2>1. worker[w] \in {"ended", "gone"} BY AllEnded DEF NobodyWrites
  <2> QED BY <1>2, <1>5, <2>1 DEF ForkJoinInv, Duties, Duty
<1>8. (q + 1) * c = q * c + 1 * c /\ (q + 1) * c <= s * c BY <1>6, ProductSum, ProductMonotone
<1>9. PICK y \in Nat, z \in Nat : y = q * c /\ z = s * c OBVIOUS
<1>10. y + e \in Nat /\ y + e < did[w] BY <1>3, <1>7, <1>8, <1>9
<1>11. shared[b * c + (y + e)] = ElementOf(w, y + e) BY <1>2, <1>5, <1>10 DEF ForkJoinInv, Stored
<1>12. (y + e) \div c = q /\ (y + e) % c = e
  <2>1. c \in Nat \ {0} /\ e \in 0 .. c - 1 BY <1>3
  <2> QED BY <1>9, <2>1, DivMod
<1>13. ElementOf(w, y + e) = DotProd(data[1], data[2], r, col)
  <2>1. ElementOf(w, y + e) = DotProd(data[1], data[2], (b + (y + e) \div c) + 1, ((y + e) % c) + 1)
    BY <1>2, <1>5 DEF ElementOf
  <2> QED BY <1>3, <1>6, <1>12, <2>1
<1>14. b * c + (y + e) = (r - 1) * Cols(data[2]) + col - 1
  <2>1. (b + q) * c = b * c + q * c BY ProductSum
  <2>2. PICK u \in Nat, v \in Nat : u = b * c /\ v = x * c OBVIOUS
  <2>3. v = u + y BY <1>6, <1>9, <2>1, <2>2
  <2>4. (r - 1) * Cols(data[2]) = v BY <1>2, <1>3, <2>2
  <2>5. u + (y + e) = v + col - 1 BY <1>3, <2>3
  <2> QED BY <2>2, <2>4, <2>5
<1> QED BY <1>11, <1>13, <1>14

\* The shares add up.
LEMMA SharesSum ==
  ASSUME nw \in Nat \ {0}, Total \in Nat, NEW F, \A w \in Workers : F[w] = Share(w)
  PROVE  SumFunctionOnSet(F, Workers) = Total
<1> DEFINE Bad == {k \in 0 .. nw : SumFunctionOnSet(F, 1 .. k) # Begin(k + 1)}
<1>1. Bad = {}
  <2> SUFFICES ASSUME Bad # {} PROVE FALSE OBVIOUS
  <2>1. PICK k \in Bad : \A j \in Bad : <<j, k>> \notin OpToRel(<, Nat)
    <3>1. Bad \subseteq Nat OBVIOUS
    <3> HIDE DEF Bad
    <3> QED BY <3>1, NatLessThanWellFounded, WFMin
  <2>2. k \in 0 .. nw /\ SumFunctionOnSet(F, 1 .. k) # Begin(k + 1) OBVIOUS
  <2>3. k # 0
    <3> SUFFICES ASSUME k = 0 PROVE FALSE OBVIOUS
    <3>1. 1 .. 0 = {} OBVIOUS
    <3>2. SumFunctionOnSet(F, 1 .. 0) = 0 BY <3>1, SumEmpty
    <3>3. Begin(1) = 0 BY WorkerOne, BeginNext
    <3> QED BY <2>2, <3>2, <3>3
  <2>4. PICK j \in 0 .. nw : j = k - 1 /\ j + 1 = k /\ j \in Nat /\ k \in Nat /\ k \in Workers BY <2>2, <2>3 DEF Workers
  <2>5. j \notin Bad
    <3>1. j < k /\ j \in Nat /\ k \in Nat BY <2>4
    <3> HIDE DEF Bad
    <3> QED BY <2>1, <3>1 DEF OpToRel
  <2>6. SumFunctionOnSet(F, 1 .. j) = Begin(j + 1) BY <2>5
  <2>7. \A y \in 1 .. j + 1 : F[y] \in Int
    <3>1. ASSUME NEW y \in 1 .. j + 1 PROVE F[y] \in Int
      <4>1. y \in Workers BY <2>4 DEF Workers
      <4> QED BY <4>1, BeginNext
    <3> QED BY <3>1
  <2>8. SumFunctionOnSet(F, 1 .. j + 1) = F[j + 1] + SumFunctionOnSet(F, 1 .. j) BY <2>4, <2>7, SumNext
  <2>9. F[k] = Share(k) /\ Begin(k + 1) = Begin(k) + Share(k) /\ Begin(k) \in Nat /\ Share(k) \in Nat BY <2>4, BeginNext
  <2>10. PICK x \in Nat, y \in Nat : x = Begin(k) /\ y = Share(k) BY <2>9
  <2> HIDE DEF Bad
  <2> QED BY <2>2, <2>4, <2>6, <2>8, <2>9, <2>10
<1>2. nw \notin Bad BY <1>1
<1>3. SumFunctionOnSet(F, 1 .. nw) = Begin(nw + 1) BY <1>2
<1>4. Begin(nw + 1) = Total BY WorkerOne, BeginNext
<1> QED BY <1>3, <1>4 DEF Workers

LEMMA SamplesDone ==
  ASSUME ForkJoinInv, main = "done", failures = 0
  PROVE  SamplesCounted
<1> SUFFICES ASSUME prog = "rpair" PROVE result = events /\ SumFunction(did) = data
  BY DEF SamplesCounted
<1>1. result = events BY DEF ForkJoinInv, Sampled
<1>2. \A w \in Workers : did[w] = Share(w)
  <2>1. \A w \in Workers : worker[w] \in {"ended", "gone"} BY AllEnded DEF NobodyWrites
  <2> QED BY <2>1 DEF ForkJoinInv, Duties, Duty
<1>3. nw \in Nat \ {0} /\ Total \in Nat BY InputTypes DEF ForkJoinInv
<1>4. SumFunctionOnSet(did, Workers) = Total BY <1>2, <1>3, SharesSum
<1>5. DOMAIN did = Workers BY DEF ForkJoinInv, ForkJoinTypes
<1>6. Total = data BY DEF Total
<1> QED BY <1>1, <1>4, <1>5, <1>6 DEF SumFunction

\* The sum of what the threads of det return is the determinant that detMatrix
\* computes alone, unless there is no row: then main reports 0.
DetReported == prog = "det" /\ main = "done" /\ data # <<>> => result = Det(data)[1 .. Len(data)]

LEMMA DetDone ==
  ASSUME ForkJoinInv
  PROVE  DetReported
<1> SUFFICES ASSUME prog = "det", main = "done", data # <<>> PROVE result = Det(data)[1 .. Len(data)]
  BY DEF DetReported
<1>1. nw \in Nat \ {0} /\ Total \in Nat /\ Square(data) /\ Total = Len(data) BY InputTypes DEF ForkJoinInv
<1>2. Waited = nw BY DEF Waited
<1>3. result = PartSum(Begin(nw + 1)) BY <1>2 DEF ForkJoinInv, Added
<1>4. Begin(nw + 1) = Len(data) BY <1>1, WorkerOne, BeginNext
<1> QED BY <1>1, <1>3, <1>4, PartSumAll

\* The threads of det together report what one call of detMatrix computes.
THEOREM DeterminantAlone == ForkJoinSpec => []DetReported
<1>1. ForkJoinInv => DetReported BY DetDone
<1> QED BY <1>1, ForkJoinInvariance, PTL

LEMMA DeterminantDone ==
  ASSUME <<>> \notin Squares, ForkJoinInv, main = "done"
  PROVE  DeterminantRight
<1> SUFFICES ASSUME prog = "det" PROVE result = Leibniz(data)
  BY DEF DeterminantRight
<1>1. data \in Squares BY DEF ForkJoinInv, Inputs
<1>2. Square(data) BY <1>1, ForkJoinAssumption DEF Square
<1>3. result = Det(data)[1 .. Len(data)] BY <1>1, DetDone DEF DetReported
<1> QED BY <1>2, <1>3, Laplace

\* Whatever the order of the workers, their number and the inputs: when main
\* is done and no fork failed, nobody still writes, mult has the product by its
\* definition, rpair every event of every trial, and det the determinant by the
\* Leibniz formula.  For a matrix without rows det reports 0, hence the
\* hypothesis.
THEOREM ResultsRight == ASSUME <<>> \notin Squares PROVE ForkJoinSpec => []ResultRight
<1>1. ForkJoinInv => ResultRight
  <2> SUFFICES ASSUME ForkJoinInv, main = "done", failures = 0
               PROVE  NobodyWrites /\ ProductRight /\ SamplesCounted /\ DeterminantRight
    BY DEF ResultRight
  <2> QED BY AllEnded, ProductDone, SamplesDone, DeterminantDone
<1> QED BY <1>1, ForkJoinInvariance, PTL

=============================================================================
