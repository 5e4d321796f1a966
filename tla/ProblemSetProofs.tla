-------------------------- MODULE ProblemSetProofs --------------------------
(***************************************************************************)
(* Proofs about the exercises with two threads and with pipes.             *)
(*                                                                         *)
(* The guessing game of ps9, for any MAX_VALUE and any value to guess: the *)
(* threads take turns and lose no signal, the bisection keeps the value    *)
(* and halves its interval, and a value out of range is never guessed.     *)
(*                                                                         *)
(* The shell of ps5, for any lines typed, programs and files: whatever     *)
(* fails in a pipeline, a prompt finds the first shell with no open ends   *)
(* and no children.                                                        *)
(*                                                                         *)
(* The fixed pipes, for pipes of any capacity: lab6 prints the message it  *)
(* sent, for any message and first size of its buffer, and mt2 Q1 what its *)
(* three programs compute from each other, for any programs.               *)
(***************************************************************************)
EXTENDS GuessGame, Shell, FixedPipes, TLAPS, FiniteSetTheorems, SequenceTheorems, WellFoundedInduction

-----------------------------------------------------------------------------
(* The guessing game.                                                      *)

(* A thread owns the mutex exactly between its lock and its unlock. *)
LockOwned ==
  \A t \in Threads : lock = t <=> pc[t] \in {"test", "turn", "unlock", "unlockLast"}

(* Only a thread inside pthread_cond_wait sleeps. *)
SleepersSleep == \A t \in waiting : pc[t] = "sleep"

(* The protocol of mutex, condition variable and predicate. *)
Protocol == TypeOK /\ LockOwned /\ SleepersSleep /\ TurnsAlternate /\ NoLostWakeup

(* The last guess lies in the interval, and is its middle once there was one. *)
GuessInside ==
  /\ min <= guess /\ guess <= max
  /\ status = 1 \/ result # 2 => guess = Middle(min, max)

(* For a value above the range the interval stays below it. *)
BelowValue ==
  value > MaxValue =>
    max = MaxValue + 1 /\ min <= MaxValue /\ guess <= MaxValue /\ result # 1

(* A value out of range is never met. *)
NeverMet == ~InRange => result # 0 /\ \A t \in Threads : pc[t] \notin {"unlockLast", "exit"}

Bisection == ResultFresh /\ IntervalHoldsValue /\ GuessInside /\ BelowValue /\ NeverMet

IndInv == Protocol /\ Bisection

-----------------------------------------------------------------------------

(* The middle of an interval lies in it, and its halves are at most half as long. *)
LEMMA MiddleInside ==
  ASSUME NEW lo \in Int, NEW hi \in Int, lo <= hi
  PROVE  /\ Middle(lo, hi) \in Int
         /\ lo <= Middle(lo, hi) /\ Middle(lo, hi) <= hi
         /\ lo < hi => Middle(lo, hi) < hi
         /\ Middle(lo, hi) - lo <= (hi - lo + 1) \div 2
         /\ hi - Middle(lo, hi) <= (hi - lo + 1) \div 2
  BY DEF Middle

(* The initial state satisfies the invariant. *)
LEMMA InitInv == Init => IndInv
<1> SUFFICES ASSUME Init PROVE IndInv
  OBVIOUS
<1> USE GameAssumption DEF Init
<1>1. TypeOK
  <2>1. 0 \in 0 .. MaxValue + 1 /\ MaxValue + 1 \in 0 .. MaxValue + 1
    OBVIOUS
  <2> QED BY <2>1 DEF TypeOK
<1>2. LockOwned /\ SleepersSleep /\ TurnsAlternate /\ NoLostWakeup
  BY DEF LockOwned, SleepersSleep, TurnsAlternate, NoLostWakeup, Turn, Threads
<1>3. Bisection
  BY DEF Bisection, ResultFresh, IntervalHoldsValue, GuessInside, BelowValue, NeverMet, InRange
<1> QED BY <1>1, <1>2, <1>3 DEF IndInv, Protocol

(* The numbers of a new guess stay in range: for the parent's step. *)
LEMMA GuessTyped ==
  ASSUME TypeOK, GuessInside, ParentGuess
  PROVE  /\ guess' \in 0 .. MaxValue + 1 /\ min' \in 0 .. MaxValue + 1 /\ max' \in 0 .. MaxValue + 1
         /\ min' <= max' /\ min' <= guess' /\ guess' <= max'
         /\ guess' = Middle(min', max')
<1>1. min' \in 0 .. MaxValue + 1 /\ max' \in 0 .. MaxValue + 1 /\ min' <= max'
  BY GameAssumption DEF ParentGuess, TypeOK, GuessInside, NewMin, NewMax
<1>2. guess' = Middle(min', max')
  BY DEF ParentGuess
<1>3. /\ Middle(min', max') \in Int
      /\ min' <= Middle(min', max') /\ Middle(min', max') <= max'
  BY <1>1, MiddleInside, GameAssumption
<1> QED BY <1>1, <1>2, <1>3, GameAssumption

(* The synchronisation: mutual exclusion of the threads, turns, no lost signal. *)
LEMMA ProtocolPreserved == IndInv /\ [Next]_vars => Protocol'
<1> SUFFICES ASSUME IndInv, [Next]_vars PROVE Protocol'
  OBVIOUS
<1>0. TypeOK /\ LockOwned /\ SleepersSleep /\ TurnsAlternate /\ NoLostWakeup /\ GuessInside
  BY DEF IndInv, Protocol, Bisection
<1> USE GameAssumption DEF Protocol, LockOwned, SleepersSleep, TurnsAlternate, NoLostWakeup, Turn,
                           Threads
<1>1. ASSUME NEW t \in Threads, Acquire(t) PROVE Protocol'
  BY <1>0, <1>1 DEF TypeOK, Acquire, Goto, shared
<1>2. ASSUME NEW t \in Threads, CondWait(t) PROVE Protocol'
  BY <1>0, <1>2 DEF TypeOK, CondWait, Goto, shared
<1>3. ASSUME NEW t \in Threads, Wakeup(t) PROVE Protocol'
  BY <1>0, <1>3 DEF TypeOK, Wakeup, Goto, shared
<1>4. ASSUME NEW t \in Threads, MyTurn(t) PROVE Protocol'
  BY <1>0, <1>4 DEF TypeOK, MyTurn, Goto, shared
<1>5. ASSUME NEW t \in Threads, Unlock(t) PROVE Protocol'
  BY <1>0, <1>5 DEF TypeOK, Unlock, Goto, shared
<1>6. CASE ParentGuess
  <2>1. TypeOK'
    BY <1>0, <1>6, GuessTyped DEF TypeOK, ParentGuess, Goto, Signal
  <2>2. waiting' = {}
    BY <1>0, <1>6 DEF TypeOK, ParentGuess, Goto, Signal
  <2>3. /\ lock = "parent" /\ lock' = lock /\ pc["parent"] = "turn" /\ status = 0 /\ status' = 1
        /\ pc["child"] \notin {"test", "turn", "unlock", "unlockLast"}
        /\ pc' = [pc EXCEPT !["parent"] = "unlock"]
    BY <1>0, <1>6 DEF TypeOK, ParentGuess, Goto
  <2> QED BY <1>0, <2>1, <2>2, <2>3 DEF TypeOK
<1>7. CASE ParentExit
  BY <1>0, <1>7 DEF TypeOK, ParentExit, Goto, shared
<1>8. CASE ChildCheck
  <2>1. TypeOK'
    BY <1>0, <1>8 DEF TypeOK, ChildCheck, Goto, Signal, Compare
  <2>2. waiting' = {}
    BY <1>0, <1>8 DEF TypeOK, ChildCheck, Goto, Signal
  <2>3. /\ lock = "child" /\ lock' = lock /\ pc["child"] = "turn" /\ status = 1 /\ status' = 0
        /\ pc["parent"] \notin {"test", "turn", "unlock", "unlockLast"}
        /\ \/ pc' = [pc EXCEPT !["child"] = "unlock"]
           \/ pc' = [pc EXCEPT !["child"] = "unlockLast"]
    BY <1>0, <1>8 DEF TypeOK, ChildCheck, Goto
  <2> QED BY <1>0, <2>1, <2>2, <2>3 DEF TypeOK
<1>9. CASE Join
  BY <1>0, <1>9 DEF TypeOK, Join, shared
<1>10. ASSUME NEW t \in Threads, SpuriousWakeup(t) PROVE Protocol'
  BY <1>0, <1>10 DEF TypeOK, SpuriousWakeup, shared
<1>11. CASE UNCHANGED vars
  BY <1>0, <1>11 DEF TypeOK, vars, shared
<1> QED BY <1>1, <1>2, <1>3, <1>4, <1>5, <1>6, <1>7, <1>8, <1>9, <1>10, <1>11
        DEF Next, Parent, Child, Step

(* The bisection: only the turns of the parent and of the child change it. *)
LEMMA BisectionPreserved == IndInv /\ [Next]_vars => Bisection'
<1> SUFFICES ASSUME IndInv, [Next]_vars PROVE Bisection'
  OBVIOUS
<1>0. /\ TypeOK /\ TurnsAlternate
      /\ ResultFresh /\ IntervalHoldsValue /\ GuessInside /\ BelowValue /\ NeverMet
  BY DEF IndInv, Protocol, Bisection
<1>1. ASSUME UNCHANGED <<value, guess, result, status, min, max>>,
             \A t \in Threads : pc'[t] \in {"unlockLast", "exit"} =>
                                  result = 0 \/ pc[t] \in {"unlockLast", "exit"}
      PROVE  Bisection'
  BY <1>0, <1>1 DEF Bisection, ResultFresh, IntervalHoldsValue, GuessInside, BelowValue, NeverMet,
                    InRange
<1>2. CASE ParentGuess
  <2>1. /\ value \in Int /\ MaxValue \in Nat /\ value' = value /\ result' = result /\ result # 0
        /\ status = 0 /\ status' = 1 /\ min' = NewMin /\ max' = NewMax
        /\ guess \in Int /\ min \in Int /\ max \in Int
        /\ result \in {-1, 1, 2}
        /\ pc' = [pc EXCEPT !["parent"] = "unlock"]
    BY <1>0, <1>2, GameAssumption DEF ParentGuess, Goto, TypeOK, TurnsAlternate, Turn, Threads
  <2>2. ResultFresh'
    BY <2>1 DEF ResultFresh
  <2>3. IntervalHoldsValue'
    BY <1>0, <2>1 DEF IntervalHoldsValue, ResultFresh, Compare, NewMin, NewMax, InRange
  <2>4. GuessInside'
    BY <1>0, <1>2, GuessTyped DEF GuessInside
  <2>5. BelowValue'
    <3> SUFFICES ASSUME value > MaxValue
                 PROVE  max' = MaxValue + 1 /\ min' <= MaxValue /\ guess' <= MaxValue /\ result' # 1
      BY <2>1 DEF BelowValue
    <3>1. max' = MaxValue + 1 /\ min' <= MaxValue /\ result' # 1
      BY <1>0, <2>1 DEF BelowValue, NewMin, NewMax
    <3>2. guess' = Middle(min', max') /\ min' \in Int /\ max' \in Int
      BY <1>0, <1>2, GuessTyped, GameAssumption
    <3> QED BY <2>1, <3>1, <3>2, MiddleInside DEF Middle
  <2>6. NeverMet'
    BY <1>0, <2>1 DEF NeverMet, InRange, TypeOK, Threads
  <2> QED BY <2>2, <2>3, <2>4, <2>5, <2>6 DEF Bisection
<1>3. CASE ChildCheck
  <2>1. /\ value \in Int /\ guess \in Int /\ guess >= 0 /\ MaxValue \in Nat
        /\ value' = value /\ guess' = guess /\ min' = min /\ max' = max
        /\ result' = Compare(guess, value) /\ status = 1 /\ status' = 0
        /\ guess <= MaxValue + 1
        /\ pc' = [pc EXCEPT !["child"] = IF guess = value THEN "unlockLast" ELSE "unlock"]
    BY <1>0, <1>3, GameAssumption DEF ChildCheck, Goto, TypeOK, TurnsAlternate, Turn, Threads
  <2>2. ResultFresh' /\ IntervalHoldsValue' /\ GuessInside'
    BY <1>0, <2>1 DEF ResultFresh, IntervalHoldsValue, GuessInside, InRange
  <2>3. ~InRange => guess # value
    BY <1>0, <2>1 DEF BelowValue, InRange
  <2>4. BelowValue'
    BY <1>0, <2>1 DEF BelowValue, Compare
  <2>5. NeverMet'
    BY <1>0, <2>1, <2>3 DEF NeverMet, InRange, Compare, TypeOK
  <2> QED BY <2>2, <2>4, <2>5 DEF Bisection
<1>4. CASE ParentExit
  BY <1>1, <1>4 DEF ParentExit, Goto, shared
<1>5. ASSUME NEW t \in Threads, Step(t) \/ SpuriousWakeup(t) PROVE Bisection'
  <2>1. UNCHANGED <<value, guess, result, status, min, max>>
    BY <1>5 DEF Step, Acquire, CondWait, Wakeup, MyTurn, Unlock, SpuriousWakeup, shared
  <2>2. \A u \in Threads : pc'[u] \in {"unlockLast", "exit"} => pc[u] \in {"unlockLast", "exit"}
    BY <1>0, <1>5 DEF TypeOK, Step, Acquire, CondWait, Wakeup, MyTurn, Unlock, SpuriousWakeup, Goto
  <2> QED BY <1>1, <2>1, <2>2
<1>6. CASE Join \/ UNCHANGED vars
  BY <1>1, <1>6 DEF Join, vars, shared
<1> QED BY <1>2, <1>3, <1>4, <1>5, <1>6 DEF Next, Parent, Child, Threads

(* The inductive invariant holds in every reachable state. *)
THEOREM Invariance == Spec => []IndInv
<1>1. IndInv /\ [Next]_vars => IndInv'
  BY ProtocolPreserved, BisectionPreserved DEF IndInv
<1> QED BY <1>1, InitInv, PTL DEF Spec

(* The types; the numbers guessed stay in 0 .. MAX_VALUE + 1. *)
THEOREM TypeCorrect == Spec => []TypeOK
<1>1. IndInv => TypeOK
  BY DEF IndInv, Protocol
<1> QED BY <1>1, Invariance, PTL

(* No thread sleeps while it is its turn, spurious wake-ups or not. *)
THEOREM SignalsArrive == Spec => []NoLostWakeup
<1>1. IndInv => NoLostWakeup
  BY DEF IndInv, Protocol
<1> QED BY <1>1, Invariance, PTL

(* The assertions of thread_p and thread_c hold. *)
THEOREM AssertionsHold == Spec => []TurnsAlternate
<1>1. IndInv => TurnsAlternate
  BY DEF IndInv, Protocol
<1> QED BY <1>1, Invariance, PTL

(* A value in range stays inside the interval of the parent. *)
THEOREM BisectionKeepsValue == Spec => []IntervalHoldsValue
<1>1. IndInv => IntervalHoldsValue
  BY DEF IndInv, Bisection
<1> QED BY <1>1, Invariance, PTL

(* A value out of range keeps both threads running for ever. *)
THEOREM NoEndOutside == Spec => []OutsideNeverEnds
<1>1. IndInv => OutsideNeverEnds
  BY DEF IndInv, Bisection, NeverMet, OutsideNeverEnds
<1> QED BY <1>1, Invariance, PTL

(* Every guess after a wrong one leaves at most half of the interval, rounded *)
(* up: the number of guesses is logarithmic in MAX_VALUE.                     *)
THEOREM Halving == Spec => GuessHalves
<1>1. IndInv /\ [Next]_vars => (InRange /\ result \in {-1, 1} /\ status = 0 /\ status' = 1
                                  => max' - min' <= (max - min + 1) \div 2)
  <2> SUFFICES ASSUME IndInv, [Next]_vars, result \in {-1, 1}, status = 0, status' = 1
               PROVE  max' - min' <= (max - min + 1) \div 2
    OBVIOUS
  <2>1. ParentGuess
    BY DEF Next, Parent, Child, Step, Acquire, CondWait, Wakeup, MyTurn, Unlock, ParentExit,
           ChildCheck, Join, SpuriousWakeup, vars, shared
  <2>2. guess = Middle(min, max) /\ min \in Int /\ max \in Int /\ min <= max
    BY GameAssumption DEF IndInv, Protocol, Bisection, GuessInside, TypeOK
  <2>3. CASE result = 1
    BY <2>1, <2>2, <2>3, MiddleInside DEF ParentGuess, NewMin, NewMax
  <2>4. CASE result = -1
    BY <2>1, <2>2, <2>4, MiddleInside DEF ParentGuess, NewMin, NewMax
  <2> QED BY <2>3, <2>4
<1> QED BY <1>1, Invariance, PTL DEF Spec, GuessHalves

-----------------------------------------------------------------------------
(* The parser: folds over the tokens of a line.                            *)

\* One token of either pass over a line.
Token(pass, v, t) == IF pass = "redirect" THEN Redirect(v, t) ELSE SplitToken(v, t)

\* What the fold of a sequence computes for the sets of its places.
IsFold(g, pass, base, s) ==
  g = [T \in SUBSET (DOMAIN s) |-> IF T = {} THEN base ELSE Token(pass, g[T \ {Max(T)}], s[Max(T)])]

\* A set of numbers has a least member.
LEMMA LeastNumber ==
  ASSUME NEW C, C \subseteq Nat, C # {}
  PROVE  \E n \in C : \A m \in C : n <= m
<1>1. PICK n \in C : \A m \in C : <<m, n>> \notin OpToRel(<, Nat)
  BY NatLessThanWellFounded, WFMin
<1>2. ASSUME NEW m \in C PROVE n <= m
  <2>1. m \in Nat /\ n \in Nat OBVIOUS
  <2>2. ~ (m < n) BY <1>1, <2>1 DEF OpToRel
  <2> QED BY <2>1, <2>2
<1> QED BY <1>2

\* The minimum of a set of numbers is its least member.
LEMMA MinIn ==
  ASSUME NEW C, C \subseteq Nat, C # {}
  PROVE  Min(C) \in C /\ \A m \in C : Min(C) <= m
BY LeastNumber DEF Min

\* The maximum of a set of places is its greatest member.
LEMMA MaxIn ==
  ASSUME NEW n \in Nat, NEW T, T \subseteq 1 .. n, T # {}
  PROVE  Max(T) \in T /\ \A y \in T : y <= Max(T)
<1> DEFINE Bounds == {m \in Nat : \A y \in T : y <= m}
<1>1. n \in Bounds
  OBVIOUS
<1>2. PICK m \in Bounds : \A k \in Bounds : m <= k
  <2>1. Bounds \subseteq Nat OBVIOUS
  <2> HIDE DEF Bounds
  <2> QED BY <1>1, <2>1, LeastNumber
<1>3. m \in Nat /\ \A y \in T : y <= m
  OBVIOUS
<1>4. m \in T
  <2> SUFFICES ASSUME m \notin T PROVE FALSE
    OBVIOUS
  <2>1. PICK y \in T : TRUE OBVIOUS
  <2>2. y \in Nat /\ y >= 1 /\ y <= m BY <1>3
  <2>3. m - 1 \in Nat BY <2>2, <1>3
  <2>4. \A z \in T : z <= m - 1
    <3> TAKE z \in T
    <3>1. z \in Nat /\ z <= m /\ z # m BY <1>3
    <3> QED BY <3>1, <1>3
  <2>5. m - 1 \in Bounds BY <2>3, <2>4
  <2>6. m <= m - 1 BY <1>2, <2>5
  <2> QED BY <2>6, <1>3
<1>5. \A y \in T : m >= y
  BY <1>3
<1>6. \A x, y \in T : x \in Nat /\ y \in Nat
  OBVIOUS
<1> QED BY <1>3, <1>4, <1>5, <1>6 DEF Max

\* A member taken away, a finite set is smaller by one.
LEMMA SmallerSet ==
  ASSUME NEW T, IsFiniteSet(T), NEW x \in T
  PROVE  /\ IsFiniteSet(T \ {x})
         /\ Cardinality(T) \in Nat /\ Cardinality(T \ {x}) \in Nat
         /\ Cardinality(T \ {x}) = Cardinality(T) - 1
BY FS_RemoveElement, FS_CardinalityType

\* A function on the sets of places that obeys the equation up to a size.
FoldUpto(g, pass, base, s, n) ==
  /\ DOMAIN g = SUBSET (DOMAIN s)
  /\ g = [T \in SUBSET (DOMAIN s) |-> g[T]]
  /\ \A T \in SUBSET (DOMAIN s) : Cardinality(T) <= n =>
       g[T] = IF T = {} THEN base ELSE Token(pass, g[T \ {Max(T)}], s[Max(T)])

\* The fold of a sequence exists: built size by size.
LEMMA FoldExists ==
  ASSUME NEW pass, NEW base, NEW N \in Nat, NEW s, DOMAIN s = 1 .. N
  PROVE  \E g : IsFold(g, pass, base, s)
<1> DEFINE S == DOMAIN s
           Bad == {n \in Nat : ~ \E g : FoldUpto(g, pass, base, s, n)}
<1>0. IsFiniteSet(S) /\ \A T \in SUBSET S : IsFiniteSet(T) /\ Cardinality(T) \in Nat
  <2>1. IsFiniteSet(S) BY FS_Interval
  <2> HIDE DEF S
  <2> QED BY <2>1, FS_Subset, FS_CardinalityType
<1>1. Bad = {}
  <2> SUFFICES ASSUME Bad # {} PROVE FALSE
    OBVIOUS
  <2>1. PICK n \in Bad : \A m \in Bad : n <= m
    <3>1. Bad \subseteq Nat OBVIOUS
    <3> HIDE DEF Bad
    <3> QED BY <3>1, LeastNumber
  <2>0. n \in Nat OBVIOUS
  <2>2. n # 0
    <3> SUFFICES ASSUME n = 0 PROVE FALSE OBVIOUS
    <3> DEFINE g == [T \in SUBSET S |-> base]
    <3>1. \A T \in SUBSET S : Cardinality(T) <= 0 => T = {}
      BY <1>0, FS_EmptySet
    <3>2. FoldUpto(g, pass, base, s, 0)
      BY <3>1 DEF FoldUpto
    <3> QED BY <3>2
  <2>3. n - 1 \in Nat /\ n - 1 \notin Bad
    <3>1. n - 1 \in Nat /\ ~(n <= n - 1) BY <2>0, <2>2
    <3> HIDE DEF Bad
    <3> QED BY <2>1, <3>1
  <2>4. PICK g : FoldUpto(g, pass, base, s, n - 1)
    BY <2>3
  <2> DEFINE h == [T \in SUBSET S |-> IF Cardinality(T) = n THEN Token(pass, g[T \ {Max(T)}], s[Max(T)]) ELSE g[T]]
  <2>5. ASSUME NEW T \in SUBSET S, Cardinality(T) <= n
        PROVE  h[T] = IF T = {} THEN base ELSE Token(pass, h[T \ {Max(T)}], s[Max(T)])
    <3>1. CASE T = {}
      <4>1. Cardinality(T) = 0 BY <3>1, FS_EmptySet
      <4>2. h[T] = g[T] BY <4>1, <2>2
      <4>3. Cardinality(T) <= n - 1 BY <4>1, <2>3, <2>0
      <4>4. g[T] = base BY <2>4, <4>3, <3>1 DEF FoldUpto
      <4> QED BY <4>2, <4>4, <3>1
    <3>2. CASE T # {}
      <4>1. PICK x \in T : x = Max(T) BY <3>2, MaxIn
      <4>2. Cardinality(T \ {x}) = Cardinality(T) - 1 /\ Cardinality(T) \in Nat BY <1>0, SmallerSet
      <4>3. h[T \ {x}] = g[T \ {x}] BY <4>2, <2>5
      <4>4. CASE Cardinality(T) = n BY <4>1, <4>3, <4>4, <3>2
      <4>5. CASE Cardinality(T) # n
        <5>1. Cardinality(T) <= n - 1 BY <4>2, <4>5, <2>5, <2>0
        <5>2. g[T] = Token(pass, g[T \ {Max(T)}], s[Max(T)]) BY <5>1, <2>4, <3>2 DEF FoldUpto
        <5> QED BY <4>1, <4>3, <4>5, <5>2, <3>2
      <4> QED BY <4>4, <4>5
    <3> QED BY <3>1, <3>2
  <2>6. FoldUpto(h, pass, base, s, n)
    BY <2>5 DEF FoldUpto
  <2> HIDE DEF h
  <2> QED BY <2>1, <2>6
<1>2. PICK n \in Nat : n = Cardinality(S)
  BY <1>0
<1>3. PICK g : FoldUpto(g, pass, base, s, n)
  BY <1>1
<1>4. \A T \in SUBSET S : Cardinality(T) <= n
  BY <1>0, <1>2, FS_Subset
<1>5. IsFold(g, pass, base, s)
  BY <1>3, <1>4 DEF IsFold, FoldUpto
<1> QED BY <1>5

\* The fold stays in a set that its base is in and that no token leaves.
LEMMA FoldInside ==
  ASSUME NEW pass, NEW base, NEW N \in Nat, NEW s, DOMAIN s = 1 .. N,
         NEW X, base \in X, \A v \in X : \A k \in 1 .. N : Token(pass, v, s[k]) \in X,
         NEW g, IsFold(g, pass, base, s)
  PROVE  g[DOMAIN s] \in X
<1> DEFINE S == DOMAIN s
           Bad == {n \in Nat : \E T \in SUBSET S : Cardinality(T) = n /\ g[T] \notin X}
<1>0. IsFiniteSet(S) /\ \A T \in SUBSET S : IsFiniteSet(T) /\ Cardinality(T) \in Nat
  <2>1. IsFiniteSet(S) BY FS_Interval
  <2> HIDE DEF S
  <2> QED BY <2>1, FS_Subset, FS_CardinalityType
<1>1. \A T \in SUBSET S : g[T] = IF T = {} THEN base ELSE Token(pass, g[T \ {Max(T)}], s[Max(T)])
  BY DEF IsFold
<1>2. Bad = {}
  <2> SUFFICES ASSUME Bad # {} PROVE FALSE
    OBVIOUS
  <2>1. PICK n \in Bad : \A m \in Bad : n <= m
    <3>1. Bad \subseteq Nat OBVIOUS
    <3> HIDE DEF Bad
    <3> QED BY <3>1, LeastNumber
  <2>2. PICK T \in SUBSET S : Cardinality(T) = n /\ g[T] \notin X
    OBVIOUS
  <2>3. T # {}
    BY <1>1, <2>2
  <2>4. PICK x \in T : x = Max(T)
    BY <2>3, MaxIn
  <2>5. Cardinality(T \ {x}) \in Nat /\ Cardinality(T \ {x}) = n - 1 /\ n \in Nat
    BY <1>0, <2>2, SmallerSet
  <2>6. n - 1 \notin Bad
    <3>1. ~(n <= n - 1) BY <2>5
    <3> HIDE DEF Bad
    <3> QED BY <2>1, <3>1
  <2>7. g[T \ {x}] \in X
    BY <2>5, <2>6
  <2>8. g[T] = Token(pass, g[T \ {x}], s[x])
    BY <1>1, <2>3, <2>4
  <2>9. Token(pass, g[T \ {x}], s[x]) \in X
    BY <2>7
  <2> QED BY <2>2, <2>8, <2>9
<1> QED BY <1>0, <1>2

\* What tokens and the marks of the passes are; Ws is a word of the line.
Texts(Ws) == STRING \union Ws \union {"", Blank, "in", "out", "name", "first", "rest"}

\* The values of the two passes.
Redirected == [ok : BOOLEAN, in : Seq(Texts({})), out : Seq(Texts({})), mode : Texts({}), want : Texts({}),
               left : Seq(Texts({}))]
Parsed(T)  == [stages : Seq(Seq(T)) \ {<<>>}, next : T]

\* Appending keeps a sequence of texts one.
LEMMA OneMore ==
  ASSUME NEW T, NEW s \in Seq(T), NEW t \in T
  PROVE  Append(s, t) \in Seq(T) /\ <<t>> \in Seq(T) /\ <<>> \in Seq(T)
BY AppendProperties

\* The first pass keeps its values, token by token.
LEMMA RedirectType ==
  ASSUME NEW r \in Redirected, NEW t \in Texts({})
  PROVE  Redirect(r, t) \in Redirected
<1>1. PICK T : T = Texts({})
  OBVIOUS
<1>2. r \in [ok : BOOLEAN, in : Seq(T), out : Seq(T), mode : T, want : T, left : Seq(T)]
  BY <1>1 DEF Redirected
<1>3. "" \in T /\ Blank \in T /\ "in" \in T /\ "out" \in T /\ t \in T
  BY <1>1 DEF Texts
<1>4. Append(r.left, Blank) \in Seq(T) /\ Append(r.left, t) \in Seq(T) /\ <<t>> \in Seq(T) /\ <<"">> \in Seq(T)
  BY <1>2, <1>3, OneMore
<1>5. Redirect(r, t) \in [ok : BOOLEAN, in : Seq(T), out : Seq(T), mode : T, want : T, left : Seq(T)]
  BY <1>2, <1>3, <1>4 DEF Redirect
<1> QED BY <1>1, <1>5 DEF Redirected

\* A word added to the last stage keeps the stages not empty.
LEMMA ToLastType ==
  ASSUME NEW T, NEW s \in Seq(Seq(T)) \ {<<>>}, NEW t \in T
  PROVE  ToLast(s, t) \in Seq(Seq(T)) \ {<<>>}
<1>1. Len(s) \in 1 .. Len(s) /\ Len(s) \in Nat
  BY EmptySeq, LenProperties
<1>2. s[Len(s)] \in Seq(T)
  BY <1>1, ElementOfSeq
<1>3. Append(s[Len(s)], t) \in Seq(T)
  BY <1>2, AppendProperties
<1>4. PICK e \in Seq(T) : e = Append(s[Len(s)], t)
  BY <1>3
<1>5. ToLast(s, t) = [s EXCEPT ![Len(s)] = e]
  BY <1>4 DEF ToLast
<1>6. [s EXCEPT ![Len(s)] = e] \in Seq(Seq(T)) /\ Len([s EXCEPT ![Len(s)] = e]) = Len(s)
  BY <1>1, ExceptSeq
<1> QED BY <1>1, <1>5, <1>6, EmptySeq

\* The second pass keeps its values, token by token.
LEMMA SplitTokenType ==
  ASSUME NEW Ws, NEW T, T = Texts(Ws), NEW a \in Parsed(T), NEW t \in T
  PROVE  SplitToken(a, t) \in Parsed(T)
<1>1. a.stages \in Seq(Seq(T)) \ {<<>>} /\ a.next \in T
  BY DEF Parsed
<1>2. t \in T /\ "" \in T /\ "name" \in T /\ "first" \in T /\ "rest" \in T
  BY DEF Texts
<1>3. ToLast(a.stages, t) \in Seq(Seq(T)) \ {<<>>} /\ ToLast(a.stages, "") \in Seq(Seq(T)) \ {<<>>}
  BY <1>1, <1>2, ToLastType
<1>4. Append(a.stages, <<>>) \in Seq(Seq(T)) \ {<<>>}
  <2>1. PICK U : U = Seq(T) OBVIOUS
  <2>2. <<>> \in U BY <2>1, EmptySeq
  <2>3. PICK e \in U, b \in Seq(U) : e = <<>> /\ b = a.stages BY <1>1, <2>1, <2>2
  <2>4. Append(b, e) \in Seq(U) /\ Append(b, e) # <<>> BY AppendProperties
  <2> QED BY <2>1, <2>3, <2>4
<1>5. \A s \in Seq(Seq(T)) \ {<<>>} : \A w \in T : [stages |-> s, next |-> w] \in Parsed(T)
  BY DEF Parsed
<1> HIDE DEF Parsed
<1>6. CASE a.next = "name"
  BY <1>2, <1>3, <1>5, <1>6 DEF SplitToken, Word
<1>7. CASE a.next # "name"
  BY <1>2, <1>3, <1>4, <1>5, <1>7 DEF SplitToken, Word
<1> QED BY <1>6, <1>7

\* FoldLeft is such a fold.
LEMMA RedirectFold ==
  ASSUME NEW base, NEW s
  PROVE  FoldLeft(Redirect, base, s) = (CHOOSE g : IsFold(g, "redirect", base, s))[DOMAIN s]
BY DEF FoldLeft, MapThenFoldSet, IsFold, Token

\* The second pass over a line as a fold.
LEMMA SplitFold ==
  ASSUME NEW base, NEW s
  PROVE  FoldLeft(SplitToken, base, s) = (CHOOSE g : IsFold(g, "split", base, s))[DOMAIN s]
BY DEF FoldLeft, MapThenFoldSet, IsFold, Token

\* What the first pass returns.
LEMMA RedirectedType ==
  ASSUME NEW base \in Redirected, NEW s \in Seq(Texts({}))
  PROVE  FoldLeft(Redirect, base, s) \in Redirected
<1>1. Len(s) \in Nat /\ DOMAIN s = 1 .. Len(s) /\ \A k \in 1 .. Len(s) : s[k] \in Texts({})
  BY LenProperties, ElementOfSeq
<1>2. \A v \in Redirected : \A k \in 1 .. Len(s) : Token("redirect", v, s[k]) \in Redirected
  BY <1>1, RedirectType DEF Token
<1>3. PICK g : g = CHOOSE h : IsFold(h, "redirect", base, s)
  OBVIOUS
<1>4. IsFold(g, "redirect", base, s)
  BY <1>1, <1>3, FoldExists
<1>5. g[DOMAIN s] \in Redirected
  BY <1>1, <1>2, <1>4, FoldInside
<1> QED BY <1>3, <1>5, RedirectFold

\* What the second pass returns.
LEMMA ParsedType ==
  ASSUME NEW Ws, NEW T, T = Texts(Ws), NEW base \in Parsed(T), NEW s \in Seq(T)
  PROVE  FoldLeft(SplitToken, base, s) \in Parsed(T)
<1>1. Len(s) \in Nat /\ DOMAIN s = 1 .. Len(s) /\ \A k \in 1 .. Len(s) : s[k] \in T
  BY LenProperties, ElementOfSeq
<1>2. \A v \in Parsed(T) : \A k \in 1 .. Len(s) : Token("split", v, s[k]) \in Parsed(T)
  BY <1>1, SplitTokenType DEF Token
<1>3. PICK g : g = CHOOSE h : IsFold(h, "split", base, s)
  OBVIOUS
<1>4. IsFold(g, "split", base, s)
  BY <1>1, <1>3, FoldExists
<1>5. g[DOMAIN s] \in Parsed(T)
  BY <1>1, <1>2, <1>4, FoldInside
<1> QED BY <1>3, <1>5, SplitFold

\* What the shell relies on: the kind of a command, and the stages of a pipeline.
CommandOK(c) ==
  /\ c.kind \in Builtins \union {"none", "basic", "pipeline"}
  /\ c.kind = "pipeline" => Len(c.stages) \in Nat \ {0}

\* The words between the first and the last of a line.
Rest(left) ==
  LET I == {i \in 1 .. Len(left) : left[i] # Blank} IN
  SubSeq(left, (IF I # {} THEN Min(I) ELSE 0) + 1, IF I # {} THEN Max(I) ELSE 0)

\* The stages of a pipeline whose first word is w.
StagesFrom(w, left) == FoldLeft(SplitToken, [stages |-> << <<w>> >>, next |-> "rest"], Rest(left)).stages

\* The parts of a command are those of the two passes.
LEMMA CommandParts ==
  ASSUME NEW line, NEW c, c = MakeCommand(line), NEW left, left = ExtractRedirect(line).left
  PROVE  /\ c.kind \in Builtins \union {"none", "basic", "pipeline"}
         /\ c.kind = "pipeline" => \E w : c.stages = StagesFrom(w, left)
<1>1. PICK words : words = SelectSeq(left, LAMBDA t : t # Blank)
  OBVIOUS
<1>2. c.kind \in Builtins \union {"none", "basic", "pipeline"}
  BY DEF MakeCommand, Builtins
<1>3. c.kind = "pipeline" => c.stages = StagesFrom(words[1], left)
  BY <1>1 DEF StagesFrom, MakeCommand, Rest, SelectInSeq, SelectLastInSeq, Builtins
<1> QED BY <1>2, <1>3

\* A line without the blanks at its ends.
LEMMA RestType ==
  ASSUME NEW T, NEW left \in Seq(T)
  PROVE  Rest(left) \in Seq(T)
<1> DEFINE I == {i \in 1 .. Len(left) : left[i] # Blank}
           m == IF I # {} THEN Min(I) ELSE 0
           n == IF I # {} THEN Max(I) ELSE 0
<1>1. Len(left) \in Nat /\ \A i \in 1 .. Len(left) : left[i] \in T
  BY LenProperties, ElementOfSeq
<1>2. I \subseteq 1 .. Len(left) /\ I \subseteq Nat
  OBVIOUS
<1>3. m \in 0 .. Len(left) /\ n \in 0 .. Len(left)
  <2>1. CASE I = {} BY <1>1, <2>1
  <2>2. CASE I # {}
    <3> HIDE DEF I
    <3>1. Min(I) \in I /\ Max(I) \in I BY <1>1, <1>2, <2>2, MinIn, MaxIn
    <3>2. m = Min(I) /\ n = Max(I) BY <2>2
    <3>3. m \in 1 .. Len(left) /\ n \in 1 .. Len(left) BY <1>2, <3>1, <3>2
    <3> HIDE DEF m, n
    <3> QED BY <1>1, <3>3
  <2> QED BY <2>1, <2>2
<1>4. Rest(left) = SubSeq(left, m + 1, n)
  BY DEF Rest
<1> HIDE DEF m, n, I
<1>5. PICK a, b : a = m + 1 /\ b = n
  OBVIOUS
<1>6. a \in Int /\ b \in Int /\ \A i \in a .. b : left[i] \in T
  BY <1>1, <1>3, <1>5
<1>7. SubSeq(left, a, b) \in Seq(T)
  BY <1>6, SubSeqProperties
<1> QED BY <1>4, <1>5, <1>7

\* A command has a stage, and no stage is empty.
LEMMA CommandType ==
  ASSUME NEW line \in Seq(STRING)
  PROVE  CommandOK(MakeCommand(line))
<1>1. PICK S : S = Texts({})
  OBVIOUS
<1>2. line \in Seq(S)
  BY <1>1, SeqMonotonic DEF Texts
<1>3. ExtractRedirect(line).left \in Seq(S)
  <2>1. PICK base : base = [ok |-> TRUE, in |-> <<>>, out |-> <<>>, mode |-> "", want |-> "", left |-> <<>>]
    OBVIOUS
  <2>2. base \in Redirected
    <3>1. "" \in Texts({}) /\ <<>> \in Seq(Texts({})) BY EmptySeq DEF Texts
    <3> QED BY <2>1, <3>1 DEF Redirected
  <2>3. FoldLeft(Redirect, base, line) \in Redirected
    BY <1>1, <1>2, <2>2, RedirectedType
  <2>4. ExtractRedirect(line) \in Redirected
    BY <2>1, <2>3 DEF ExtractRedirect
  <2> QED BY <1>1, <2>4 DEF Redirected
<1>4. PICK left, c : left = ExtractRedirect(line).left /\ c = MakeCommand(line)
  OBVIOUS
<1>5. c.kind \in Builtins \union {"none", "basic", "pipeline"}
  BY <1>4, CommandParts
<1>6. ASSUME c.kind = "pipeline" PROVE Len(c.stages) \in Nat \ {0}
  <2>1. PICK w : c.stages = StagesFrom(w, left)
    BY <1>4, <1>6, CommandParts
  <2>2. PICK T : T = Texts({w})
    OBVIOUS
  <2>3. Rest(left) \in Seq(T)
    <3>1. Rest(left) \in Seq(S) BY <1>3, <1>4, RestType
    <3>2. S \subseteq T BY <1>1, <2>2 DEF Texts
    <3> QED BY <3>1, <3>2, SeqMonotonic
  <2>4. PICK base : base = [stages |-> << <<w>> >>, next |-> "rest"]
    OBVIOUS
  <2>5. base \in Parsed(T)
    <3>1. w \in T /\ "rest" \in T BY <2>2 DEF Texts
    <3> QED BY <2>4, <3>1 DEF Parsed
  <2>6. FoldLeft(SplitToken, base, Rest(left)) \in Parsed(T)
    BY <2>2, <2>3, <2>5, ParsedType
  <2>7. c.stages \in Seq(Seq(T)) \ {<<>>}
    BY <2>1, <2>4, <2>6 DEF StagesFrom, Parsed
  <2> QED BY <2>7, EmptySeq
<1> QED BY <1>4, <1>5, <1>6 DEF CommandOK

\* The lines that somebody types or writes.
Lines == DOMAIN Commands

\* Every line that can be read has a command.
LEMMA LineCommands ==
  ASSUME NEW line \in Lines
  PROVE  CommandOK(Commands[line])
<1>1. line \in Seq(STRING)
  <2>1. PICK S : S = Seq(STRING)
    OBVIOUS
  <2>2. \A t \in Seq(S) : \A l \in Range(t) : l \in S
    BY RangeOfSeq
  <2>3. /\ \A t \in Typed : t \in Seq(S)
        /\ \A n \in DOMAIN Programs : Programs[n].gives \in Seq(S)
        /\ \A n \in DOMAIN InitialFiles : InitialFiles[n] \in Seq(S)
    BY <2>1, ShellAssumption
  <2>4. \/ \E t \in Typed : line \in Range(t)
        \/ \E n \in DOMAIN Programs : line \in Range(Programs[n].gives)
        \/ \E n \in DOMAIN InitialFiles : line \in Range(InitialFiles[n])
    BY DEF Lines, Commands
  <2>5. line \in S
    BY <2>2, <2>3, <2>4
  <2> QED BY <2>1, <2>5
<1> QED BY <1>1, CommandType DEF Lines, Commands

-----------------------------------------------------------------------------
(* The invariant of the shell.                                             *)

ProcessFields == {"pc", "in", "out", "more", "cwd", "parent", "mem"}
MemoryFields  == {"com", "fd", "i", "child", "ahead", "line", "before"}

\* Where a process that runs the code of the shell can be.
ShellPcs == {"prompt", "cd", "ln", "rm", "basic", "pipeline", "spawn", "wait", "child", "stage"}

Objects == [kind : {"tty", "pipe", "file", "append"}, file : Nat, data : Seq(Lines), at : Nat]

\* An object that stands for a file names one, and its offset is not past the end.
ObjectOK(o, f) ==
  /\ o.kind # "pipe" => o.file \in 1 .. Len(f)
  /\ o.kind = "file" => o.at <= Len(f[o.file])

\* The open objects, the files and the directory fit together.
SystemOK(o, f, d) ==
  /\ f \in Seq(Seq(Lines))
  /\ o \in Seq(Objects)
  /\ \A k \in 1 .. Len(o) : ObjectOK(o[k], f)
  /\ \A path \in DOMAIN d : d[path] \in 1 .. Len(f)

\* The pipeline that a process with memory m spawns, when n objects are open.
StagesOK(m, n) ==
  /\ Len(m.com.stages) \in Nat
  /\ m.i \in 1 .. Len(m.com.stages)
  /\ \A j \in 1 .. Len(m.com.stages) :
       /\ m.fd[j].in = None \/ m.fd[j].in[1] \in 1 .. n
       /\ m.fd[j].out = None \/ m.fd[j].out[1] \in 1 .. n

MemoryOK(m, where, n) ==
  /\ DOMAIN m = MemoryFields
  /\ m.ahead \in Seq(Lines)
  /\ where = "pipeline" => m.i = 1 /\ Len(m.com.stages) \in Nat \ {0}
  /\ where \in {"spawn", "stage"} => StagesOK(m, n)

\* A process, when n objects are open.
ProcessOK(r, n) ==
  /\ DOMAIN r = ProcessFields
  /\ r.pc \in ShellPcs \union {"run", "zombie", "gone"}
  /\ r.pc \notin {"zombie", "gone"} => r.in[1] \in 1 .. n /\ r.out[1] \in 1 .. n
  /\ r.pc = "run" => DOMAIN r.mem = {"todo", "reads"} /\ r.mem.todo \in Seq(Lines)
  /\ r.pc \in ShellPcs => MemoryOK(r.mem, r.pc, n)

\* What the process r holds besides its two descriptors are ends of the stages
\* that it has still to spawn.
EndsToCome(r) ==
  IF r.pc = "spawn"
  THEN \A e \in r.more : \E j \in r.mem.i .. Len(r.mem.com.stages) : e \in {r.mem.fd[j].in, r.mem.fd[j].out}
  ELSE r.more = {}

\* The shell that the user started, after f calls of fork that failed.
FirstOK(r, f) ==
  /\ r.parent = 0
  /\ r.pc \notin {"child", "stage", "run", "gone"}
  /\ r.pc # "zombie" => r.in = R(1) /\ r.out = W(1)
  /\ r.pc # "zombie" /\ f = 0 => EndsToCome(r)

IsSequence(s) == Len(s) \in Nat /\ DOMAIN s = 1 .. Len(s) /\ s = [k \in 1 .. Len(s) |-> s[k]]

ProcessesOK(ps, n, f) ==
  /\ IsSequence(ps) /\ 1 \in DOMAIN ps
  /\ f \in Nat
  /\ \A q \in DOMAIN ps : ProcessOK(ps[q], n)
  /\ FirstOK(ps[1], f)

ShellInv == SystemOK(obj, file, dir) /\ ProcessesOK(proc, Len(obj), failures)

-----------------------------------------------------------------------------
(* The table of processes.                                                 *)

\* What the end of two sequences joined holds.
LEMMA AppendSequence ==
  ASSUME NEW s, IsSequence(s), NEW e
  PROVE  /\ IsSequence(Append(s, e)) /\ Len(Append(s, e)) = Len(s) + 1
         /\ \A k \in 1 .. Len(s) : Append(s, e)[k] = s[k]
         /\ Append(s, e)[Len(s) + 1] = e
<1> DEFINE S == {s[k] : k \in 1 .. Len(s)} \union {e}
<1>1. \A k \in 1 .. Len(s) : s[k] \in S
  OBVIOUS
<1>2. e \in S
  OBVIOUS
<1> HIDE DEF S
<1>3. s \in Seq(S)
  BY <1>1, SeqDef DEF IsSequence
<1>4. /\ Append(s, e) \in Seq(S) /\ Len(Append(s, e)) = Len(s) + 1
      /\ \A k \in 1 .. Len(s) : Append(s, e)[k] = s[k]
      /\ Append(s, e)[Len(s) + 1] = e
  BY <1>2, <1>3, AppendProperties
<1>5. IsSequence(Append(s, e))
  <2>1. PICK t \in Seq(S) : t = Append(s, e) BY <1>4
  <2>2. IsSequence(t)
    <3>1. Len(t) \in Nat /\ t \in [1 .. Len(t) -> S] /\ DOMAIN t = 1 .. Len(t) BY LenProperties
    <3> QED BY <3>1 DEF IsSequence
  <2> QED BY <2>1, <2>2
<1> QED BY <1>4, <1>5

\* A process stays sound when objects are added.
LEMMA ProcessGrows ==
  ASSUME NEW n \in Nat, NEW m \in Nat, n <= m, NEW r, ProcessOK(r, n)
  PROVE  ProcessOK(r, m)
<1>1. \A e : e \in 1 .. n => e \in 1 .. m
  OBVIOUS
<1>2. r.pc \in ShellPcs => MemoryOK(r.mem, r.pc, m)
  BY <1>1 DEF ProcessOK, MemoryOK, StagesOK
<1> QED BY <1>1, <1>2 DEF ProcessOK

\* The first shell stays sound when failures are added.
LEMMA FirstLater ==
  ASSUME NEW f \in Nat, NEW g \in Nat, f <= g, NEW r, FirstOK(r, f)
  PROVE  FirstOK(r, g)
<1>1. g = 0 => f = 0
  OBVIOUS
<1> QED BY <1>1 DEF FirstOK

\* A process becomes r.
LEMMA Moves ==
  ASSUME NEW ps, NEW n \in Nat, NEW m \in Nat, n <= m, NEW f, NEW g \in Nat, f <= g, ProcessesOK(ps, n, f),
         NEW p \in DOMAIN ps, NEW r, ProcessOK(r, m), p = 1 => FirstOK(r, g)
  PROVE  ProcessesOK([ps EXCEPT ![p] = r], m, g)
<1> DEFINE qs == [ps EXCEPT ![p] = r]
<1>0. IsSequence(ps) /\ 1 \in DOMAIN ps /\ f \in Nat /\ FirstOK(ps[1], f)
  BY DEF ProcessesOK
<1>1. DOMAIN qs = DOMAIN ps /\ \A q \in DOMAIN ps : qs[q] = IF q = p THEN r ELSE ps[q]
  OBVIOUS
<1>2. IsSequence(qs)
  <2>1. PICK N \in Nat : DOMAIN qs = 1 .. N BY <1>0, <1>1 DEF IsSequence
  <2>2. qs = [k \in 1 .. N |-> qs[k]] BY <2>1
  <2>3. Len(qs) = N
    <3> HIDE DEF qs
    <3> QED BY <2>1, <2>2
  <2> HIDE DEF qs
  <2> QED BY <2>1, <2>2, <2>3 DEF IsSequence
<1>3. ASSUME NEW q \in DOMAIN qs PROVE ProcessOK(qs[q], m)
  <2>1. CASE q = p BY <1>1, <2>1
  <2>2. CASE q # p
    <3>1. ProcessOK(ps[q], n) BY <1>1 DEF ProcessesOK
    <3>2. ProcessOK(ps[q], m) BY <3>1, ProcessGrows
    <3> QED BY <1>1, <2>2, <3>2
  <2> QED BY <2>1, <2>2
<1>4. FirstOK(qs[1], g)
  <2>1. CASE p = 1 BY <1>0, <1>1, <2>1
  <2>2. CASE p # 1
    <3>1. FirstOK(ps[1], g) BY <1>0, FirstLater
    <3> QED BY <1>0, <1>1, <2>2, <3>1
  <2> QED BY <2>1, <2>2
<1>5. PICK ts : ts = qs
  OBVIOUS
<1>6. ProcessesOK(ts, m, g)
  <2>1. 1 \in DOMAIN qs BY <1>0, <1>1
  <2> HIDE DEF qs
  <2> QED BY <2>1, <1>2, <1>3, <1>4, <1>5 DEF ProcessesOK
<1> QED BY <1>5, <1>6

\* A process is added.
LEMMA Joins ==
  ASSUME NEW ps, NEW n \in Nat, NEW f, ProcessesOK(ps, n, f), NEW c, ProcessOK(c, n)
  PROVE  ProcessesOK(Append(ps, c), n, f)
<1>1. IsSequence(ps) /\ 1 \in DOMAIN ps /\ f \in Nat /\ FirstOK(ps[1], f) /\ \A q \in DOMAIN ps : ProcessOK(ps[q], n)
  BY DEF ProcessesOK
<1>2. PICK qs : qs = Append(ps, c)
  OBVIOUS
<1>3. /\ IsSequence(qs) /\ Len(qs) = Len(ps) + 1
      /\ \A k \in 1 .. Len(ps) : qs[k] = ps[k]
      /\ qs[Len(ps) + 1] = c
  BY <1>1, <1>2, AppendSequence
<1>4. Len(ps) \in Nat /\ DOMAIN ps = 1 .. Len(ps) /\ DOMAIN qs = 1 .. Len(ps) + 1
  BY <1>1, <1>3 DEF IsSequence
<1>5. \A q \in DOMAIN qs : q \in DOMAIN ps \/ q = Len(ps) + 1
  BY <1>4
<1>6. \A q \in DOMAIN qs : ProcessOK(qs[q], n)
  BY <1>1, <1>3, <1>4, <1>5
<1>7. 1 \in DOMAIN qs /\ qs[1] = ps[1]
  BY <1>1, <1>3, <1>4
<1> QED BY <1>1, <1>2, <1>3, <1>6, <1>7 DEF ProcessesOK

-----------------------------------------------------------------------------
(* The open objects and the files.                                         *)

\* What follows a place of a sequence is a sequence of its members.
LEMMA CutType ==
  ASSUME NEW S, NEW s \in Seq(S), NEW m \in Nat
  PROVE  SubSeq(s, m + 1, Len(s)) \in Seq(S) /\ (m <= Len(s) => Len(SubSeq(s, m + 1, Len(s))) = Len(s) - m)
<1>1. Len(s) \in Nat /\ \A i \in 1 .. Len(s) : s[i] \in S
  BY LenProperties, ElementOfSeq
<1>2. PICK a \in Int, b \in Int : a = m + 1 /\ b = Len(s)
  BY <1>1
<1>3. \A i \in a .. b : s[i] \in S
  BY <1>1, <1>2
<1>4. SubSeq(s, a, b) \in Seq(S) /\ Len(SubSeq(s, a, b)) = IF a <= b THEN b - a + 1 ELSE 0
  BY <1>3, SubSeqProperties
<1>5. m <= Len(s) => (IF a <= b THEN b - a + 1 ELSE 0) = Len(s) - m
  BY <1>1, <1>2
<1> QED BY <1>2, <1>4, <1>5

\* What comes before a place of a sequence is a sequence of its members.
LEMMA PrefixType ==
  ASSUME NEW S, NEW s \in Seq(S), NEW m \in Nat, m <= Len(s)
  PROVE  SubSeq(s, 1, m) \in Seq(S) /\ Len(SubSeq(s, 1, m)) = m
<1>1. Len(s) \in Nat /\ \A i \in 1 .. m : s[i] \in S
  BY LenProperties, ElementOfSeq
<1>2. SubSeq(s, 1, m) \in Seq(S) /\ Len(SubSeq(s, 1, m)) = IF 1 <= m THEN m - 1 + 1 ELSE 0
  BY <1>1, SubSeqProperties
<1> QED BY <1>2

\* A sequence with one place written is no shorter.
LEMMA OverwriteType ==
  ASSUME NEW S, NEW s \in Seq(S), NEW m \in Nat, m <= Len(s), NEW x \in S
  PROVE  /\ Overwrite(s, m, x) \in Seq(S)
         /\ Len(Overwrite(s, m, x)) >= Len(s) /\ Len(Overwrite(s, m, x)) >= m + 1
<1>0. Len(s) \in Nat
  BY LenProperties
<1>1. PICK a \in Seq(S) : a = SubSeq(s, 1, m) /\ Len(a) = m
  BY PrefixType
<1>2. PICK b \in Seq(S) : b = SubSeq(s, m + 2, Len(s)) /\ (m + 1 <= Len(s) => Len(b) = Len(s) - (m + 1))
  <2>1. PICK n \in Nat : n = m + 1 OBVIOUS
  <2>2. n + 1 = m + 2 BY <2>1
  <2>3. SubSeq(s, n + 1, Len(s)) \in Seq(S) /\ (n <= Len(s) => Len(SubSeq(s, n + 1, Len(s))) = Len(s) - n)
    BY CutType
  <2> QED BY <2>1, <2>2, <2>3
<1>3. PICK c \in Seq(S) : c = <<x>> /\ Len(c) = 1
  <2>1. <<x>> \in Seq(S) /\ Len(<<x>>) = 1 OBVIOUS
  <2> QED BY <2>1
<1>4. PICK d \in Seq(S) : d = a \o c /\ Len(d) = m + 1
  <2>1. a \o c \in Seq(S) /\ Len(a \o c) = Len(a) + Len(c) BY ConcatProperties
  <2> QED BY <1>1, <1>3, <2>1
<1>5. d \o b \in Seq(S) /\ Len(d \o b) = m + 1 + Len(b) /\ Len(b) \in Nat
  <2>1. d \o b \in Seq(S) /\ Len(d \o b) = Len(d) + Len(b) BY ConcatProperties
  <2>2. Len(b) \in Nat BY LenProperties
  <2> QED BY <1>4, <2>1, <2>2
<1>6. Overwrite(s, m, x) = d \o b
  BY <1>1, <1>2, <1>3, <1>4 DEF Overwrite
<1>7. Len(d \o b) >= Len(s) /\ Len(d \o b) >= m + 1
  <2>1. CASE m + 1 <= Len(s)
    <3>1. Len(b) = Len(s) - (m + 1) BY <1>2, <2>1
    <3>2. Len(d \o b) = Len(s) BY <1>0, <1>5, <3>1
    <3> QED BY <1>0, <2>1, <3>2
  <2>2. CASE ~(m + 1 <= Len(s))
    <3>1. m + 1 + Len(b) >= m + 1 /\ m + 1 + Len(b) >= Len(s) BY <1>0, <1>5, <2>2
    <3>2. PICK l : l = Len(d \o b) OBVIOUS
    <3> QED BY <1>5, <3>1, <3>2
  <2> QED BY <2>1, <2>2
<1> QED BY <1>5, <1>6, <1>7

\* What a read can return are lines, and no more than the object has.
LEMMA AvailableType ==
  ASSUME SystemOK(obj, file, dir), NEW k \in 1 .. Len(obj)
  PROVE  /\ Available(k) \in Seq(Lines)
         /\ obj[k].kind = "file" => obj[k].at + Len(Available(k)) <= Len(file[obj[k].file])
<1>1. obj[k] \in Objects /\ ObjectOK(obj[k], file) /\ k # 0
  <2>1. Len(obj) \in Nat BY LenProperties DEF SystemOK
  <2> QED BY <2>1, ElementOfSeq DEF SystemOK
<1>2. CASE obj[k].kind = "file"
  <2>1. PICK s \in Seq(Lines), m \in Nat : s = file[obj[k].file] /\ m = obj[k].at /\ m <= Len(s)
    <3>1. obj[k].file \in 1 .. Len(file) /\ obj[k].at <= Len(file[obj[k].file]) BY <1>1, <1>2 DEF ObjectOK
    <3>2. file[obj[k].file] \in Seq(Lines) BY <3>1, ElementOfSeq DEF SystemOK
    <3>3. obj[k].at \in Nat BY <1>1 DEF Objects
    <3> QED BY <3>1, <3>2, <3>3
  <2>2. Available(k) = SubSeq(s, m + 1, Len(s))
    BY <1>1, <1>2, <2>1 DEF Available
  <2>3. SubSeq(s, m + 1, Len(s)) \in Seq(Lines) /\ Len(SubSeq(s, m + 1, Len(s))) = Len(s) - m /\ Len(s) \in Nat
    BY <2>1, CutType, LenProperties
  <2>4. PICK l : l = Len(Available(k)) OBVIOUS
  <2>5. m + l <= Len(s) BY <2>1, <2>2, <2>3, <2>4
  <2>6. obj[k].at + Len(Available(k)) <= Len(file[obj[k].file]) BY <2>1, <2>4, <2>5
  <2> QED BY <2>2, <2>3, <2>6
<1>3. CASE obj[k].kind # "file"
  BY <1>1, <1>3 DEF Available, Objects
<1> QED BY <1>2, <1>3

\* One object is replaced by another.
LEMMA ObjectChanges ==
  ASSUME NEW o, NEW f, NEW d, SystemOK(o, f, d), NEW k \in 1 .. Len(o), NEW x \in Objects, ObjectOK(x, f)
  PROVE  SystemOK([o EXCEPT ![k] = x], f, d) /\ Len([o EXCEPT ![k] = x]) = Len(o)
<1>1. PICK q : q = [o EXCEPT ![k] = x]
  OBVIOUS
<1>2. q \in Seq(Objects) /\ Len(q) = Len(o) /\ \A j \in 1 .. Len(o) : q[j] = IF j = k THEN x ELSE o[j]
  BY <1>1, ExceptSeq DEF SystemOK
<1>3. \A j \in 1 .. Len(q) : ObjectOK(q[j], f)
  BY <1>2 DEF SystemOK
<1>4. SystemOK(q, f, d)
  BY <1>2, <1>3 DEF SystemOK
<1> QED BY <1>1, <1>2, <1>4

\* One file is replaced by another that is not shorter.
LEMMA FileChanges ==
  ASSUME NEW o, NEW f, NEW d, SystemOK(o, f, d), NEW k \in 1 .. Len(f), NEW x \in Seq(Lines), Len(x) >= Len(f[k])
  PROVE  SystemOK(o, [f EXCEPT ![k] = x], d) /\ Len([f EXCEPT ![k] = x]) = Len(f)
<1>1. PICK q : q = [f EXCEPT ![k] = x]
  OBVIOUS
<1>2. q \in Seq(Seq(Lines)) /\ Len(q) = Len(f) /\ \A j \in 1 .. Len(f) : q[j] = IF j = k THEN x ELSE f[j]
  <2>1. PICK S : S = Seq(Lines) OBVIOUS
  <2>2. f \in Seq(S) /\ x \in S BY <2>1 DEF SystemOK
  <2>3. [f EXCEPT ![k] = x] \in Seq(S) /\ Len([f EXCEPT ![k] = x]) = Len(f)
        /\ \A j \in 1 .. Len(f) : [f EXCEPT ![k] = x][j] = IF j = k THEN x ELSE f[j]
    BY <2>2, ExceptSeq
  <2> QED BY <1>1, <2>1, <2>3
<1>3. \A j \in 1 .. Len(f) : Len(q[j]) \in Nat /\ Len(f[j]) \in Nat /\ Len(q[j]) >= Len(f[j])
  <2>1. \A s \in Seq(Lines) : Len(s) \in Nat BY LenProperties
  <2>2. \A j \in 1 .. Len(f) : f[j] \in Seq(Lines) BY ElementOfSeq DEF SystemOK
  <2>3. TAKE j \in 1 .. Len(f)
  <2>4. f[j] \in Seq(Lines) /\ Len(f[j]) \in Nat BY <2>1, <2>2
  <2>5. CASE j = k BY <1>2, <2>1, <2>4, <2>5
  <2>6. CASE j # k
    <3>1. q[j] = f[j] BY <1>2, <2>6
    <3> QED BY <2>4, <3>1
  <2> QED BY <2>5, <2>6
<1>4. ASSUME NEW j \in 1 .. Len(o) PROVE ObjectOK(o[j], q)
  <2>1. ObjectOK(o[j], f) /\ o[j] \in Objects BY ElementOfSeq DEF SystemOK
  <2>2. PICK n, a : n = o[j].file /\ a = o[j].at OBVIOUS
  <2>3. a \in Nat BY <2>1, <2>2 DEF Objects
  <2>4. o[j].kind = "file" => a <= Len(q[n])
    <3>1. SUFFICES ASSUME o[j].kind = "file" PROVE a <= Len(q[n]) OBVIOUS
    <3>2. n \in 1 .. Len(f) /\ a <= Len(f[n]) BY <2>1, <2>2, <3>1 DEF ObjectOK
    <3>3. Len(q[n]) \in Nat /\ Len(f[n]) \in Nat /\ Len(q[n]) >= Len(f[n]) BY <1>3, <3>2
    <3> QED BY <2>3, <3>2, <3>3
  <2> QED BY <1>2, <2>1, <2>2, <2>4 DEF ObjectOK
<1>5. SystemOK(o, q, d)
  BY <1>2, <1>4 DEF SystemOK
<1> QED BY <1>1, <1>2, <1>5

\* A read leaves the system well formed.
LEMMA TakenOK ==
  ASSUME SystemOK(obj, file, dir), NEW k \in 1 .. Len(obj), NEW n \in Nat, n <= Len(Available(k))
  PROVE  SystemOK(Taken(k, n), file, dir) /\ Len(Taken(k, n)) = Len(obj)
<1>1. obj[k] \in Objects /\ ObjectOK(obj[k], file) /\ k # 0 /\ k \in DOMAIN obj
  <2>1. Len(obj) \in Nat /\ DOMAIN obj = 1 .. Len(obj) BY LenProperties DEF SystemOK
  <2> QED BY <2>1, ElementOfSeq DEF SystemOK
<1>2. CASE obj[k].kind = "file"
  <2>1. PICK x : x = [obj[k] EXCEPT !.at = @ + n] OBVIOUS
  <2>2. x \in Objects BY <1>1, <2>1 DEF Objects
  <2>3. /\ obj[k].at \in Nat /\ Len(Available(k)) \in Nat /\ Len(file[obj[k].file]) \in Nat
        /\ obj[k].at + Len(Available(k)) <= Len(file[obj[k].file])
    <3>1. obj[k].file \in 1 .. Len(file) BY <1>1, <1>2 DEF ObjectOK
    <3>2. file[obj[k].file] \in Seq(Lines) BY <3>1, ElementOfSeq DEF SystemOK
    <3>3. Available(k) \in Seq(Lines) BY AvailableType
    <3>4. \A s \in Seq(Lines) : Len(s) \in Nat BY LenProperties
    <3> QED BY <1>1, <1>2, <3>2, <3>3, <3>4, AvailableType DEF Objects
  <2>4. x.kind = "file" /\ x.file = obj[k].file /\ x.at = obj[k].at + n
    BY <1>1, <1>2, <2>1 DEF Objects
  <2>5. x.at <= Len(file[x.file])
    BY <2>3, <2>4
  <2>6. ObjectOK(x, file)
    BY <1>1, <1>2, <2>4, <2>5 DEF ObjectOK
  <2>7. Taken(k, n) = [obj EXCEPT ![k] = x]
    BY <1>1, <1>2, <2>1 DEF Taken
  <2>8. SystemOK([obj EXCEPT ![k] = x], file, dir) /\ Len([obj EXCEPT ![k] = x]) = Len(obj)
    BY <2>2, <2>6, ObjectChanges
  <2> QED BY <2>7, <2>8
<1>3. CASE obj[k].kind # "file"
  <2>0. PICK s \in Seq(Lines) : s = obj[k].data BY <1>1 DEF Objects
  <2>1. PICK t \in Seq(Lines) : t = SubSeq(s, n + 1, Len(s)) BY CutType
  <2>2. PICK x : x = [obj[k] EXCEPT !.data = t] OBVIOUS
  <2>3. x \in Objects BY <1>1, <2>2 DEF Objects
  <2>4. ObjectOK(x, file)
    <3>1. x.kind = obj[k].kind /\ x.file = obj[k].file BY <1>1, <2>2 DEF Objects
    <3> QED BY <1>1, <1>3, <3>1 DEF ObjectOK
  <2>5. Taken(k, n) = [obj EXCEPT ![k] = x]
    BY <1>1, <1>3, <2>0, <2>1, <2>2 DEF Taken
  <2>6. SystemOK([obj EXCEPT ![k] = x], file, dir) /\ Len([obj EXCEPT ![k] = x]) = Len(obj)
    BY <2>3, <2>4, ObjectChanges
  <2> QED BY <2>5, <2>6
<1> QED BY <1>2, <1>3

\* So does a write.
LEMMA WriteOK ==
  ASSUME SystemOK(obj, file, dir), NEW k \in 1 .. Len(obj), NEW x \in Lines, WriteTo(k, x)
  PROVE  SystemOK(obj', file', dir') /\ Len(obj') = Len(obj)
<1>0. dir' = dir
  BY DEF WriteTo
<1>1. obj[k] \in Objects /\ ObjectOK(obj[k], file) /\ k # 0 /\ k \in DOMAIN obj
  <2>1. Len(obj) \in Nat /\ DOMAIN obj = 1 .. Len(obj) BY LenProperties DEF SystemOK
  <2> QED BY <2>1, ElementOfSeq DEF SystemOK
<1>2. CASE obj[k].kind = "pipe"
  <2>1. PICK t \in Seq(Lines) : t = Append(obj[k].data, x) BY <1>1, AppendProperties DEF Objects
  <2>2. PICK y : y = [obj[k] EXCEPT !.data = t] OBVIOUS
  <2>3. y \in Objects /\ y.kind = "pipe" BY <1>1, <1>2, <2>2 DEF Objects
  <2>4. ObjectOK(y, file) BY <2>3 DEF ObjectOK
  <2>5. obj' = [obj EXCEPT ![k] = y] /\ file' = file
    BY <1>1, <1>2, <2>1, <2>2 DEF WriteTo
  <2>6. SystemOK([obj EXCEPT ![k] = y], file, dir) /\ Len([obj EXCEPT ![k] = y]) = Len(obj)
    BY <2>3, <2>4, ObjectChanges
  <2> QED BY <1>0, <2>5, <2>6
<1>3. CASE obj[k].kind # "pipe"
  <2>1. PICK n : n = obj[k].file OBVIOUS
  <2>2. n \in 1 .. Len(file) BY <1>1, <1>3, <2>1 DEF ObjectOK
  <2>3. PICK s \in Seq(Lines) : s = file[n] BY <2>2, ElementOfSeq DEF SystemOK
  <2>4. n \in DOMAIN file BY <2>2, LenProperties DEF SystemOK
  <2>5. Len(s) \in Nat BY LenProperties
  <2>6. CASE obj[k].kind = "file"
    <3>1. PICK m \in Nat : m = obj[k].at /\ m <= Len(s)
      BY <1>1, <2>1, <2>3, <2>6 DEF Objects, ObjectOK
    <3>2. PICK t \in Seq(Lines) : t = Overwrite(s, m, x) /\ Len(t) >= Len(s) /\ Len(t) >= m + 1
      BY <3>1, OverwriteType
    <3>3. PICK f : f = [file EXCEPT ![n] = t] OBVIOUS
    <3>4. SystemOK(obj, f, dir) /\ Len(f) = Len(file)
      <4>1. Len(t) >= Len(file[n]) BY <2>3, <3>2
      <4>2. SystemOK(obj, [file EXCEPT ![n] = t], dir) /\ Len([file EXCEPT ![n] = t]) = Len(file)
        BY <2>2, <4>1, FileChanges
      <4> QED BY <3>3, <4>2
    <3>5. PICK y : y = [obj[k] EXCEPT !.at = @ + 1] OBVIOUS
    <3>6. y \in Objects /\ y.kind = "file" /\ y.file = n /\ y.at = m + 1
      <4>1. PICK o \in Objects : o = obj[k] BY <1>1
      <4>2. o.kind = "file" /\ o.file = n /\ o.at = m BY <2>1, <2>6, <3>1, <4>1
      <4>3. y = [o EXCEPT !.at = m + 1] BY <3>5, <4>1, <4>2
      <4>4. o.data \in Seq(Lines) /\ n \in Nat BY <4>2 DEF Objects
      <4>5. y = [kind |-> "file", file |-> n, data |-> o.data, at |-> m + 1] BY <4>2, <4>3 DEF Objects
      <4>6. m + 1 \in Nat BY <3>1
      <4>7. y \in Objects BY <4>4, <4>5, <4>6 DEF Objects
      <4> QED BY <4>5, <4>7
    <3>7. f[n] = t BY <2>4, <3>3
    <3>8. ObjectOK(y, f)
      BY <2>2, <3>2, <3>4, <3>6, <3>7 DEF ObjectOK
    <3>9. obj' = [obj EXCEPT ![k] = y] /\ file' = f
      BY <1>1, <2>1, <2>3, <2>4, <2>6, <3>1, <3>2, <3>3, <3>5 DEF WriteTo
    <3>10. SystemOK([obj EXCEPT ![k] = y], f, dir) /\ Len([obj EXCEPT ![k] = y]) = Len(obj)
      BY <3>4, <3>6, <3>8, ObjectChanges
    <3> QED BY <1>0, <3>9, <3>10
  <2>7. CASE obj[k].kind # "file"
    <3>1. PICK t \in Seq(Lines) : t = Append(s, x) /\ Len(t) = Len(s) + 1 BY AppendProperties
    <3>2. Len(t) >= Len(s) BY <2>5, <3>1
    <3>3. SystemOK(obj, [file EXCEPT ![n] = t], dir) BY <2>2, <2>3, <3>2, FileChanges
    <3>4. obj' = obj /\ file' = [file EXCEPT ![n] = t]
      BY <1>3, <2>1, <2>3, <2>4, <2>7, <3>1 DEF WriteTo
    <3> QED BY <1>0, <3>3, <3>4
  <2> QED BY <2>6, <2>7
<1> QED BY <1>2, <1>3

-----------------------------------------------------------------------------
(* The steps of the shell.                                                 *)

\* What the invariant says of every process.
LEMMA Facts ==
  ASSUME ShellInv, NEW p \in DOMAIN proc
  PROVE  /\ ProcessOK(proc[p], Len(obj)) /\ (p = 1 => FirstOK(proc[p], failures))
         /\ p \in Nat \ {0} /\ Len(obj) \in Nat /\ failures \in Nat
         /\ IsSequence(proc) /\ 1 \in DOMAIN proc /\ FirstOK(proc[1], failures)
         /\ SystemOK(obj, file, dir)
<1>1. SystemOK(obj, file, dir) /\ ProcessesOK(proc, Len(obj), failures)
  BY DEF ShellInv
<1>2. p \in Nat \ {0}
  BY <1>1 DEF ProcessesOK, IsSequence
<1> QED BY <1>1, <1>2, LenProperties DEF ProcessesOK, SystemOK

\* A step in which one process becomes r.
LEMMA OneMoves ==
  ASSUME ShellInv, NEW p \in DOMAIN proc, NEW r, proc' = [proc EXCEPT ![p] = r],
         SystemOK(obj', file', dir'), Len(obj') \in Nat, Len(obj) <= Len(obj'),
         failures' \in Nat, failures <= failures',
         ProcessOK(r, Len(obj')), p = 1 => FirstOK(r, failures')
  PROVE  ShellInv'
<1>1. ProcessesOK(proc, Len(obj), failures) /\ Len(obj) \in Nat
  BY Facts DEF ShellInv
<1>21. PICK n \in Nat : n = Len(obj) BY <1>1
<1>22. PICK m \in Nat : m = Len(obj') OBVIOUS
<1>23. PICK f : f = failures OBVIOUS
<1>24. PICK g \in Nat : g = failures' OBVIOUS
<1>2. n = Len(obj) /\ m = Len(obj') /\ f = failures /\ g = failures'
  BY <1>21, <1>22, <1>23, <1>24
<1>3. ProcessesOK([proc EXCEPT ![p] = r], m, g)
  BY <1>1, <1>2, Moves
<1> QED BY <1>2, <1>3 DEF ShellInv

\* A step in which a process forks.
LEMMA OneForks ==
  ASSUME ShellInv, NEW p \in DOMAIN proc, NEW r, NEW c, proc' = Append([proc EXCEPT ![p] = r], c),
         UNCHANGED <<obj, files, failures>>,
         ProcessOK(r, Len(obj)), p = 1 => FirstOK(r, failures), ProcessOK(c, Len(obj))
  PROVE  ShellInv'
<1>1. ProcessesOK(proc, Len(obj), failures) /\ Len(obj) \in Nat /\ failures \in Nat
  BY Facts DEF ShellInv
<1>2. PICK n \in Nat, f \in Nat : n = Len(obj) /\ f = failures
  BY <1>1
<1>3. n <= n /\ f <= f
  OBVIOUS
<1>4. ProcessesOK([proc EXCEPT ![p] = r], n, f)
  BY <1>1, <1>2, <1>3, Moves
<1>5. ProcessesOK(Append([proc EXCEPT ![p] = r], c), n, f)
  BY <1>2, <1>4, Joins
<1> QED BY <1>2, <1>5 DEF ShellInv, files

\* A process that ends is sound.
LEMMA EndedOK ==
  ASSUME NEW r, NEW n, ProcessOK(r, n), NEW f
  PROVE  ProcessOK(Ended(r), n) /\ (FirstOK(r, f) => FirstOK(Ended(r), f))
<1>1. DOMAIN r = ProcessFields
  BY DEF ProcessOK
<1>2. PICK e : e = Ended(r)
  OBVIOUS
<1>3. DOMAIN e = ProcessFields /\ e.pc = "zombie" /\ e.parent = r.parent
  BY <1>1, <1>2 DEF Ended, ProcessFields
<1>4. ProcessOK(e, n)
  BY <1>3 DEF ProcessOK, ShellPcs
<1>5. FirstOK(r, f) => FirstOK(e, f)
  BY <1>3 DEF FirstOK
<1> QED BY <1>2, <1>4, <1>5

\* A process goes back to the prompt, or to a place where it needs no more.
LEMMA PromptOK ==
  ASSUME NEW r, NEW n, ProcessOK(r, n), NEW f, NEW s, DOMAIN s = ProcessFields,
         r.pc \in ShellPcs, s.pc \in {"prompt", "wait", "child"},
         s.in = r.in, s.out = r.out, DOMAIN s.mem = MemoryFields, s.mem.ahead = r.mem.ahead
  PROVE  /\ ProcessOK(s, n)
         /\ FirstOK(r, f) /\ s.parent = r.parent /\ s.pc # "child" /\ s.more = r.more /\ r.pc # "spawn" => FirstOK(s, f)
<1>1. s.pc \in ShellPcs /\ s.pc \notin {"zombie", "gone", "run", "pipeline", "spawn", "stage"} /\ r.pc \notin {"zombie", "gone"}
  BY DEF ShellPcs
<1>2. MemoryOK(s.mem, s.pc, n)
  BY <1>1 DEF ProcessOK, MemoryOK
<1>3. ProcessOK(s, n)
  BY <1>1, <1>2 DEF ProcessOK
<1>4. FirstOK(r, f) /\ s.parent = r.parent /\ s.pc # "child" /\ s.more = r.more /\ r.pc # "spawn" => FirstOK(s, f)
  BY <1>1 DEF FirstOK, EndsToCome
<1> QED BY <1>3, <1>4

\* The first shell reads a line, or meets the end of its input.
LEMMA ReadLineStep ==
  ASSUME ShellInv, NEW p \in DOMAIN proc, ReadLine(p)
  PROVE  ShellInv'
<1> DEFINE r == proc[p]
           k == r.in[1]
           lines == IF r.mem.ahead # <<>> THEN r.mem.ahead ELSE Chunk(k)
           com == Commands[Head(lines)]
           s == [r EXCEPT !.pc = IF com.kind \in {"none", "pwd"} THEN "prompt" ELSE com.kind,
                          !.mem = [Memory(Tail(lines)) EXCEPT !.com = com, !.line = Head(lines),
                                                              !.before = [file |-> file, dir |-> dir]]]
           t == IF lines = <<>> \/ com.kind = "exit" THEN Ended(r) ELSE s
<1>0. /\ ProcessOK(r, Len(obj)) /\ (p = 1 => FirstOK(r, failures)) /\ Len(obj) \in Nat /\ failures \in Nat
      /\ SystemOK(obj, file, dir)
  BY Facts
<1>1. /\ r.pc = "prompt" /\ UNCHANGED <<files, failures>> /\ proc' = [proc EXCEPT ![p] = t]
      /\ obj' = IF r.mem.ahead # <<>> \/ lines = <<>> THEN obj ELSE Taken(k, Len(lines))
  BY DEF ReadLine
<1>2. k \in 1 .. Len(obj) /\ MemoryOK(r.mem, r.pc, Len(obj)) /\ DOMAIN r = ProcessFields
  BY <1>0, <1>1 DEF ProcessOK, ShellPcs
<1>3. Available(k) \in Seq(Lines)
  BY <1>0, <1>2, AvailableType
<1>4. Chunk(k) \in Seq(Lines) /\ Len(Chunk(k)) <= Len(Available(k))
  <2>1. PICK a \in Seq(Lines) : a = Available(k) BY <1>3
  <2>2. Len(a) \in Nat BY LenProperties
  <2>3. CASE a # <<>> /\ obj[k].kind = "tty"
    <3>1. PICK h \in Lines : h = Head(a) BY <2>3, HeadTailProperties
    <3>2. Chunk(k) = <<h>> BY <2>1, <2>3, <3>1 DEF Chunk
    <3>3. <<h>> \in Seq(Lines) /\ Len(<<h>>) = 1 OBVIOUS
    <3>4. Len(a) >= 1 BY <2>2, <2>3, EmptySeq
    <3> QED BY <2>1, <2>2, <3>2, <3>3, <3>4
  <2>4. CASE ~(a # <<>> /\ obj[k].kind = "tty")
    <3>1. Chunk(k) = a BY <2>1, <2>4 DEF Chunk
    <3> QED BY <2>1, <2>2, <3>1
  <2> QED BY <2>3, <2>4
<1>5. lines \in Seq(Lines)
  BY <1>2, <1>4 DEF MemoryOK
<1>6. SystemOK(obj', file', dir') /\ Len(obj') = Len(obj)
  <2>1. CASE r.mem.ahead # <<>> \/ lines = <<>> BY <1>0, <1>1, <2>1 DEF files
  <2>2. CASE ~(r.mem.ahead # <<>> \/ lines = <<>>)
    <3>1. PICK n \in Nat : n = Len(lines) /\ n <= Len(Available(k))
      <4>1. lines = Chunk(k) BY <2>2
      <4>2. Len(lines) \in Nat BY <1>5, LenProperties
      <4> HIDE DEF lines
      <4> QED BY <4>1, <4>2, <1>4
    <3>2. SystemOK(Taken(k, n), file, dir) /\ Len(Taken(k, n)) = Len(obj) BY <1>0, <1>2, <3>1, TakenOK
    <3>3. obj' = Taken(k, n) BY <1>1, <2>2, <3>1
    <3> QED BY <1>1, <3>2, <3>3 DEF files
  <2> QED BY <2>1, <2>2
<1>7. ProcessOK(t, Len(obj)) /\ (p = 1 => FirstOK(t, failures))
  <2>1. CASE lines = <<>> \/ com.kind = "exit"
    <3>1. t = Ended(r) BY <2>1
    <3> HIDE DEF t, r
    <3> QED BY <1>0, <3>1, EndedOK
  <2>2. CASE ~(lines = <<>> \/ com.kind = "exit")
    <3>1. Head(lines) \in Lines /\ Tail(lines) \in Seq(Lines)
      <4> HIDE DEF lines
      <4> QED BY <1>5, <2>2, HeadTailProperties
    <3>2. CommandOK(com)
      BY <3>1, LineCommands
    <3>3. PICK c, a, m : c = com /\ a = Tail(lines) /\ m = [Memory(a) EXCEPT !.com = c, !.line = Head(lines),
                                                              !.before = [file |-> file, dir |-> dir]]
      OBVIOUS
    <3>4. DOMAIN m = MemoryFields /\ m.ahead \in Seq(Lines) /\ m.i = 1 /\ m.com = c
      BY <3>1, <3>3 DEF Memory, MemoryFields
    <3>5. PICK w : w = IF c.kind \in {"none", "pwd"} THEN "prompt" ELSE c.kind
      OBVIOUS
    <3>6. w \in {"prompt", "cd", "ln", "rm", "basic", "pipeline"} /\ (w = "pipeline" => Len(c.stages) \in Nat \ {0})
      BY <2>2, <3>2, <3>3, <3>5 DEF CommandOK, Builtins
    <3>7. MemoryOK(m, w, Len(obj))
      BY <3>4, <3>6 DEF MemoryOK
    <3>8. PICK q : q = [r EXCEPT !.pc = w, !.mem = m]
      OBVIOUS
    <3>9. /\ DOMAIN q = ProcessFields /\ q.pc = w /\ q.mem = m /\ q.in = r.in /\ q.out = r.out
          /\ q.more = r.more /\ q.parent = r.parent
      BY <1>2, <3>8 DEF ProcessFields
    <3>10. ProcessOK(q, Len(obj))
      BY <1>0, <1>1, <3>6, <3>7, <3>9 DEF ProcessOK, ShellPcs
    <3>11. p = 1 => FirstOK(q, failures)
      BY <1>0, <1>1, <3>6, <3>9 DEF FirstOK, EndsToCome
    <3>12. t = q
      BY <2>2, <3>3, <3>5, <3>8
    <3> QED BY <3>10, <3>11, <3>12
  <2> QED BY <2>1, <2>2
<1>8. failures' = failures
  BY <1>1
<1>9. proc' = [proc EXCEPT ![p] = t]
  BY <1>1
<1> HIDE DEF t, r
<1>10. PICK q : q = t
  OBVIOUS
<1>11. ProcessOK(q, Len(obj')) /\ (p = 1 => FirstOK(q, failures'))
  BY <1>6, <1>7, <1>8, <1>10
<1>12. Len(obj') \in Nat /\ Len(obj) <= Len(obj') /\ failures' \in Nat /\ failures <= failures'
  BY <1>0, <1>6, <1>8
<1> QED BY <1>6, <1>9, <1>10, <1>11, <1>12, OneMoves

\* What leaves the objects and the files well formed.
LEMMA SameSystem ==
  ASSUME ShellInv, UNCHANGED <<obj, failures>>, UNCHANGED files \/ (UNCHANGED file /\ \A path \in DOMAIN dir' : dir'[path] \in 1 .. Len(file)),
         NEW p \in DOMAIN proc, NEW r, proc' = [proc EXCEPT ![p] = r],
         ProcessOK(r, Len(obj)), p = 1 => FirstOK(r, failures)
  PROVE  ShellInv'
<1>1. SystemOK(obj, file, dir) /\ Len(obj) \in Nat /\ failures \in Nat
  BY Facts
<1>2. SystemOK(obj', file', dir')
  BY <1>1 DEF SystemOK, files
<1>3. Len(obj') \in Nat /\ Len(obj) <= Len(obj') /\ failures' \in Nat /\ failures <= failures' /\ failures' = failures
      /\ obj' = obj
  BY <1>1
<1> QED BY <1>2, <1>3, OneMoves

\* A builtin runs in the shell.
LEMMA BuiltinStep ==
  ASSUME ShellInv, NEW p \in DOMAIN proc, ChangeDirectory(p) \/ Link(p) \/ Unlink(p)
  PROVE  ShellInv'
<1>0. /\ ProcessOK(proc[p], Len(obj)) /\ (p = 1 => FirstOK(proc[p], failures)) /\ Len(obj) \in Nat
      /\ SystemOK(obj, file, dir)
  BY Facts
<1>1. proc[p].pc \in {"cd", "ln", "rm"} /\ UNCHANGED <<obj, failures>>
  BY DEF ChangeDirectory, Link, Unlink
<1>2. DOMAIN proc[p] = ProcessFields /\ DOMAIN proc[p].mem = MemoryFields /\ proc[p].pc \in ShellPcs /\ proc[p].pc # "spawn"
  BY <1>0, <1>1 DEF ProcessOK, ShellPcs, MemoryOK
<1>3. PICK s : /\ proc' = [proc EXCEPT ![p] = s] /\ DOMAIN s = ProcessFields /\ s.pc = "prompt" /\ s.in = proc[p].in
               /\ s.out = proc[p].out /\ s.more = proc[p].more /\ s.parent = proc[p].parent /\ s.mem = proc[p].mem
  <2>1. PICK s : s = [proc[p] EXCEPT !.pc = "prompt"] OBVIOUS
  <2>2. PICK t, to : to = Arg(proc[p].mem.com, 1) /\ t = [proc[p] EXCEPT !.pc = "prompt", !.cwd = IF to \in Directories THEN to ELSE @] OBVIOUS
  <2>3. ChangeDirectory(p) => proc' = [proc EXCEPT ![p] = t] BY <2>2 DEF ChangeDirectory
  <2>4. Link(p) \/ Unlink(p) => proc' = [proc EXCEPT ![p] = s] BY <2>1 DEF Link, Unlink
  <2>5. \A q \in {s, t} : /\ DOMAIN q = ProcessFields /\ q.pc = "prompt" /\ q.in = proc[p].in
               /\ q.out = proc[p].out /\ q.more = proc[p].more /\ q.parent = proc[p].parent /\ q.mem = proc[p].mem
    BY <1>2, <2>1, <2>2 DEF ProcessFields
  <2> QED BY <2>3, <2>4, <2>5
<1>4. ProcessOK(s, Len(obj)) /\ (p = 1 => FirstOK(s, failures))
  BY <1>0, <1>2, <1>3, PromptOK
<1>5. UNCHANGED files \/ (UNCHANGED file /\ \A path \in DOMAIN dir' : dir'[path] \in 1 .. Len(file))
  <2>0. \A path \in DOMAIN dir : dir[path] \in 1 .. Len(file) BY <1>0 DEF SystemOK
  <2>1. CASE ChangeDirectory(p) BY <2>1 DEF ChangeDirectory
  <2>2. CASE Link(p)
    <3>1. PICK from, to : dir' = dir \/ (from \in DOMAIN dir /\ dir' = [path \in DOMAIN dir \union {to} |-> dir[IF path = to THEN from ELSE path]])
      <4>1. PICK from, to : /\ from = Path(proc[p], Arg(proc[p].mem.com, 1))
                            /\ to = Path(proc[p], Arg(proc[p].mem.com, 2))
        OBVIOUS
      <4>2. dir' = dir \/ (from \in DOMAIN dir /\ dir' = [path \in DOMAIN dir \union {to} |-> dir[IF path = to THEN from ELSE path]])
        BY <2>2, <4>1 DEF Link
      <4> QED BY <4>2
    <3>2. file' = file BY <2>2 DEF Link
    <3>3. CASE dir' = dir BY <3>2, <3>3, <2>0
    <3>4. CASE from \in DOMAIN dir /\ dir' = [path \in DOMAIN dir \union {to} |-> dir[IF path = to THEN from ELSE path]]
      BY <2>0, <3>2, <3>4
    <3> QED BY <3>1, <3>3, <3>4
  <2>3. CASE Unlink(p)
    <3>1. PICK S : S \subseteq DOMAIN dir /\ dir' = Restrict(dir, S)
      BY <2>3 DEF Unlink
    <3>2. file' = file BY <2>3 DEF Unlink
    <3> QED BY <2>0, <3>1, <3>2 DEF Restrict
  <2> QED BY <2>1, <2>2, <2>3
<1> QED BY <1>1, <1>3, <1>4, <1>5, SameSystem

\* The fork of a command without pipes.
LEMMA BasicForkStep ==
  ASSUME ShellInv, NEW p \in DOMAIN proc, BasicFork(p)
  PROVE  ShellInv'
<1>0. ProcessOK(proc[p], Len(obj)) /\ (p = 1 => FirstOK(proc[p], failures))
  BY Facts
<1>1. proc[p].pc = "basic"
  BY DEF BasicFork
<1>2. DOMAIN proc[p] = ProcessFields /\ DOMAIN proc[p].mem = MemoryFields /\ proc[p].pc \in ShellPcs /\ proc[p].pc # "spawn"
  BY <1>0, <1>1 DEF ProcessOK, ShellPcs, MemoryOK
<1>3. PICK s, c : s = Waiting(proc[p], Len(proc) + 1) /\ c = [proc[p] EXCEPT !.pc = "child", !.parent = p]
  OBVIOUS
<1>4. proc' = Append([proc EXCEPT ![p] = s], c) /\ UNCHANGED <<obj, files, failures>>
  BY <1>3 DEF BasicFork, Forked
<1>5. /\ DOMAIN s = ProcessFields /\ s.pc = "wait" /\ s.in = proc[p].in /\ s.out = proc[p].out
      /\ s.more = proc[p].more /\ s.parent = proc[p].parent
      /\ DOMAIN s.mem = MemoryFields /\ s.mem.ahead = proc[p].mem.ahead
  BY <1>2, <1>3 DEF Waiting, ProcessFields, MemoryFields
<1>6. /\ DOMAIN c = ProcessFields /\ c.pc = "child" /\ c.in = proc[p].in /\ c.out = proc[p].out
      /\ DOMAIN c.mem = MemoryFields /\ c.mem.ahead = proc[p].mem.ahead
  BY <1>2, <1>3 DEF ProcessFields
<1>7. ProcessOK(s, Len(obj)) /\ (p = 1 => FirstOK(s, failures))
  BY <1>0, <1>2, <1>5, PromptOK
<1>8. ProcessOK(c, Len(obj))
  BY <1>0, <1>2, <1>6, PromptOK
<1> QED BY <1>4, <1>7, <1>8, OneForks

\* The next iteration of the loop over the stages.
LEMMA NextStageOK ==
  ASSUME NEW r, NEW n, ProcessOK(r, n), r.pc \in {"spawn", "stage"}, NEW child,
         NEW s, s = NextStage(r, child)
  PROVE  /\ ProcessOK(s, n) /\ s.in = r.in /\ s.out = r.out /\ s.more = r.more /\ s.parent = r.parent
         /\ r.mem.i \in Nat /\ s.mem.i = r.mem.i + 1 /\ s.mem.com = r.mem.com /\ s.mem.fd = r.mem.fd
         /\ s.pc = IF r.mem.i = Len(r.mem.com.stages) THEN "wait" ELSE "spawn"
         /\ DOMAIN s = ProcessFields
<1>1. /\ DOMAIN r = ProcessFields /\ DOMAIN r.mem = MemoryFields /\ r.pc \in ShellPcs /\ r.pc \notin {"zombie", "gone"}
      /\ r.mem.ahead \in Seq(Lines) /\ StagesOK(r.mem, n)
  BY DEF ProcessOK, ShellPcs, MemoryOK
<1>2. /\ DOMAIN s = ProcessFields /\ DOMAIN s.mem = MemoryFields
      /\ s.in = r.in /\ s.out = r.out /\ s.more = r.more /\ s.parent = r.parent
      /\ s.mem.ahead = r.mem.ahead /\ s.mem.com = r.mem.com /\ s.mem.fd = r.mem.fd
      /\ s.pc = IF r.mem.i = Len(r.mem.com.stages) THEN "wait" ELSE "spawn"
      /\ s.mem.i = r.mem.i + 1
  BY <1>1 DEF NextStage, ProcessFields, MemoryFields
<1>3. PICK i, m : i = r.mem.i /\ m = Len(r.mem.com.stages)
  OBVIOUS
<1>4. m \in Nat /\ i \in 1 .. m
  BY <1>1, <1>3 DEF StagesOK
<1>5. s.pc = "spawn" => i + 1 \in 1 .. m
  BY <1>2, <1>3, <1>4
<1>6. s.pc = "spawn" => StagesOK(s.mem, n)
  BY <1>1, <1>2, <1>3, <1>5 DEF StagesOK
<1>7. MemoryOK(s.mem, s.pc, n) /\ s.pc \in ShellPcs /\ s.pc \notin {"zombie", "gone", "run"}
  BY <1>1, <1>2, <1>6 DEF MemoryOK, ShellPcs
<1>8. ProcessOK(s, n)
  BY <1>1, <1>2, <1>7 DEF ProcessOK
<1> QED BY <1>2, <1>3, <1>4, <1>8

\* What a process holds besides its descriptors does not matter to its type.
LEMMA OtherMore ==
  ASSUME NEW r, NEW n, ProcessOK(r, n), NEW S, NEW s, s = [r EXCEPT !.more = S]
  PROVE  /\ ProcessOK(s, n) /\ s.pc = r.pc /\ s.in = r.in /\ s.out = r.out /\ s.parent = r.parent
         /\ s.mem = r.mem /\ s.more = S
<1>1. DOMAIN r = ProcessFields
  BY DEF ProcessOK
<1>2. /\ DOMAIN s = ProcessFields /\ s.pc = r.pc /\ s.in = r.in /\ s.out = r.out /\ s.parent = r.parent
      /\ s.mem = r.mem /\ s.more = S
  BY <1>1 DEF ProcessFields
<1> QED BY <1>1, <1>2 DEF ProcessOK

\* The fork of a stage, after which the shell closes the ends of the stage.
LEMMA SpawnStageStep ==
  ASSUME ShellInv, NEW p \in DOMAIN proc, SpawnStage(p)
  PROVE  ShellInv'
<1>0. ProcessOK(proc[p], Len(obj)) /\ (p = 1 => FirstOK(proc[p], failures))
  BY Facts
<1>1. proc[p].pc = "spawn"
  BY DEF SpawnStage
<1>2. DOMAIN proc[p] = ProcessFields /\ MemoryOK(proc[p].mem, "spawn", Len(obj)) /\ proc[p].in[1] \in 1 .. Len(obj) /\ proc[p].out[1] \in 1 .. Len(obj)
  BY <1>0, <1>1 DEF ProcessOK, ShellPcs
<1>3. PICK r, q, c : /\ r = proc[p] /\ q = NextStage(r, Len(proc) + 1) /\ c = [r EXCEPT !.pc = "stage", !.parent = p]
  OBVIOUS
<1>4. PICK s : s = [q EXCEPT !.more = @ \ Ends(r)]
  OBVIOUS
<1>5. proc' = Append([proc EXCEPT ![p] = s], c) /\ UNCHANGED <<obj, files, failures>>
  BY <1>3, <1>4 DEF SpawnStage, Forked
<1>6. /\ ProcessOK(q, Len(obj)) /\ q.in = r.in /\ q.out = r.out /\ q.more = r.more /\ q.parent = r.parent
      /\ r.mem.i \in Nat /\ q.mem.i = r.mem.i + 1 /\ q.mem.com = r.mem.com /\ q.mem.fd = r.mem.fd
      /\ q.pc = IF r.mem.i = Len(r.mem.com.stages) THEN "wait" ELSE "spawn"
      /\ DOMAIN q = ProcessFields
  BY <1>0, <1>1, <1>3, NextStageOK
<1>7. s = [q EXCEPT !.more = q.more \ Ends(r)]
  BY <1>4
<1>8. /\ ProcessOK(s, Len(obj)) /\ s.pc = q.pc /\ s.in = q.in /\ s.out = q.out /\ s.parent = q.parent
      /\ s.mem = q.mem /\ s.more = r.more \ Ends(r)
  <2>1. PICK m : m = q.more \ Ends(r) OBVIOUS
  <2>2. s = [q EXCEPT !.more = m] BY <1>7, <2>1
  <2>3. DOMAIN s = ProcessFields /\ s.more = m BY <1>6, <2>2 DEF ProcessFields
  <2>4. /\ ProcessOK(s, Len(obj)) /\ s.pc = q.pc /\ s.in = q.in /\ s.out = q.out /\ s.parent = q.parent
        /\ s.mem = q.mem
    BY <1>6, <2>2, OtherMore
  <2>5. s.more = r.more \ Ends(r) BY <1>6, <2>1, <2>3
  <2> QED BY <2>4, <2>5
<1>9. ASSUME p = 1 PROVE FirstOK(s, failures)
  <2>1. FirstOK(r, failures)
    BY <1>0, <1>3, <1>9
  <2>2. PICK i, n : i = r.mem.i /\ n = Len(r.mem.com.stages)
    OBVIOUS
  <2>3. i \in Nat /\ n \in Nat
    BY <1>2, <1>3, <2>2 DEF MemoryOK, StagesOK
  <2>4. ASSUME failures = 0 PROVE EndsToCome(s)
    <3>1. \A e \in r.more : \E j \in i .. n : e \in {r.mem.fd[j].in, r.mem.fd[j].out}
      BY <1>1, <1>3, <2>1, <2>2, <2>4 DEF FirstOK, EndsToCome
    <3>2. \A e \in s.more : \E j \in i + 1 .. n : e \in {r.mem.fd[j].in, r.mem.fd[j].out}
      <4> TAKE e \in s.more
      <4>1. e \in r.more /\ e \notin {r.mem.fd[i].in, r.mem.fd[i].out} BY <1>8, <2>2 DEF Ends
      <4>2. PICK j \in i .. n : e \in {r.mem.fd[j].in, r.mem.fd[j].out} BY <3>1, <4>1
      <4>3. j # i BY <4>1, <4>2
      <4>4. j \in i + 1 .. n BY <2>3, <4>3
      <4> QED BY <4>2, <4>4
    <3>3. CASE i = n
      <4>1. i + 1 .. n = {} BY <2>3, <3>3
      <4>2. s.more = {} BY <3>2, <4>1
      <4> QED BY <1>6, <1>8, <2>2, <3>3, <4>2 DEF EndsToCome
    <3>4. CASE i # n
      <4>1. s.pc = "spawn" /\ s.mem.i = i + 1 /\ s.mem.com = r.mem.com /\ s.mem.fd = r.mem.fd
        BY <1>6, <1>8, <2>2, <3>4
      <4> QED BY <2>2, <3>2, <4>1 DEF EndsToCome
    <3> QED BY <3>3, <3>4
  <2> QED BY <1>1, <1>3, <1>6, <1>8, <2>1, <2>4 DEF FirstOK
<1>10. ProcessOK(c, Len(obj))
  <2>1. DOMAIN c = ProcessFields /\ c.pc = "stage" /\ c.in = r.in /\ c.out = r.out /\ c.mem = r.mem
    BY <1>2, <1>3 DEF ProcessFields
  <2>2. MemoryOK(c.mem, "stage", Len(obj))
    BY <1>2, <1>3, <2>1 DEF MemoryOK
  <2> QED BY <1>2, <1>3, <2>1, <2>2 DEF ProcessOK, ShellPcs
<1> QED BY <1>5, <1>8, <1>9, <1>10, OneForks

\* A fork that fails.
LEMMA ForkFailsStep ==
  ASSUME ShellInv, NEW p \in DOMAIN proc, ForkFails(p)
  PROVE  ShellInv'
<1>0. /\ ProcessOK(proc[p], Len(obj)) /\ (p = 1 => FirstOK(proc[p], failures)) /\ failures \in Nat
      /\ Len(obj) \in Nat /\ SystemOK(obj, file, dir)
  BY Facts
<1>1. PICK s : /\ proc' = [proc EXCEPT ![p] = s] /\ UNCHANGED <<obj, files>> /\ failures' = failures + 1
               /\ ProcessOK(s, Len(obj)) /\ s.in = proc[p].in /\ s.out = proc[p].out /\ s.parent = proc[p].parent
               /\ s.pc \in {"wait", "spawn"} /\ proc[p].pc # "zombie"
  <2>1. CASE proc[p].pc = "basic" /\ ForkFailed(p, Waiting(proc[p], -1))
    <3>1. DOMAIN proc[p] = ProcessFields /\ DOMAIN proc[p].mem = MemoryFields /\ proc[p].pc \in ShellPcs
      BY <1>0, <2>1 DEF ProcessOK, ShellPcs, MemoryOK
    <3>2. PICK s : s = Waiting(proc[p], -1)
      OBVIOUS
    <3>3. /\ DOMAIN s = ProcessFields /\ s.pc = "wait" /\ s.in = proc[p].in /\ s.out = proc[p].out
          /\ s.parent = proc[p].parent /\ DOMAIN s.mem = MemoryFields /\ s.mem.ahead = proc[p].mem.ahead
      BY <3>1, <3>2 DEF Waiting, ProcessFields, MemoryFields
    <3>4. ProcessOK(s, Len(obj))
      BY <1>0, <3>1, <3>3, PromptOK
    <3>5. proc' = [proc EXCEPT ![p] = s] /\ UNCHANGED <<obj, files>> /\ failures' = failures + 1
      BY <2>1, <3>2 DEF ForkFails, ForkFailed
    <3> QED BY <2>1, <3>3, <3>4, <3>5
  <2>2. CASE proc[p].pc = "spawn" /\ ForkFailed(p, NextStage(proc[p], -1))
    <3>1. PICK s : s = NextStage(proc[p], -1)
      OBVIOUS
    <3>2. /\ ProcessOK(s, Len(obj)) /\ s.in = proc[p].in /\ s.out = proc[p].out /\ s.parent = proc[p].parent
          /\ s.pc \in {"wait", "spawn"}
      BY <1>0, <2>2, <3>1, NextStageOK
    <3>3. proc' = [proc EXCEPT ![p] = s] /\ UNCHANGED <<obj, files>> /\ failures' = failures + 1
      BY <2>2, <3>1 DEF ForkFails, ForkFailed
    <3> QED BY <2>2, <3>2, <3>3
  <2> QED BY <2>1, <2>2 DEF ForkFails
<1>2. failures' # 0 /\ failures' \in Nat /\ failures <= failures'
  BY <1>0, <1>1
<1>3. p = 1 => FirstOK(s, failures')
  BY <1>0, <1>1, <1>2 DEF FirstOK
<1>4. SystemOK(obj', file', dir') /\ obj' = obj /\ Len(obj') \in Nat /\ Len(obj) <= Len(obj')
  BY <1>0, <1>1 DEF files
<1> QED BY <1>1, <1>2, <1>3, <1>4, OneMoves

\* The shell waits for a child.
LEMMA WaitStep ==
  ASSUME ShellInv, NEW p \in DOMAIN proc, Wait(p)
  PROVE  ShellInv'
<1>0. ProcessOK(proc[p], Len(obj)) /\ (p = 1 => FirstOK(proc[p], failures)) /\ p \in Nat \ {0}
  BY Facts
<1>1. proc[p].pc = "wait" /\ UNCHANGED <<obj, files, failures>>
  BY DEF Wait
<1>2. DOMAIN proc[p] = ProcessFields /\ DOMAIN proc[p].mem = MemoryFields /\ proc[p].pc \in ShellPcs
  BY <1>0, <1>1 DEF ProcessOK, ShellPcs, MemoryOK
<1>3. PICK s : s = [proc[p] EXCEPT !.pc = "prompt"]
  OBVIOUS
<1>4. /\ DOMAIN s = ProcessFields /\ s.pc = "prompt" /\ s.in = proc[p].in /\ s.out = proc[p].out
      /\ s.more = proc[p].more /\ s.parent = proc[p].parent /\ s.mem = proc[p].mem
  BY <1>2, <1>3 DEF ProcessFields
<1>5. ProcessOK(s, Len(obj)) /\ (p = 1 => FirstOK(s, failures))
  BY <1>0, <1>1, <1>2, <1>4, PromptOK
<1>6. CASE proc' = [proc EXCEPT ![p].pc = "prompt"]
  BY <1>1, <1>3, <1>5, <1>6, SameSystem
<1>7. ASSUME NEW q \in DOMAIN proc, proc[q].parent = p, proc[q].pc = "zombie",
             proc' = [proc EXCEPT ![q].pc = "gone", ![p].pc = "prompt"]
      PROVE  ShellInv'
  <2>1. /\ ProcessOK(proc[q], Len(obj)) /\ (q = 1 => FirstOK(proc[q], failures)) /\ ProcessesOK(proc, Len(obj), failures)
        /\ Len(obj) \in Nat /\ failures \in Nat
    BY Facts DEF ShellInv
  <2>2. q # 1 /\ q # p
    BY <1>0, <1>1, <1>7, <2>1 DEF FirstOK
  <2>3. PICK t : t = [proc[q] EXCEPT !.pc = "gone"]
    OBVIOUS
  <2>4. ProcessOK(t, Len(obj))
    <3>1. DOMAIN proc[q] = ProcessFields BY <2>1 DEF ProcessOK
    <3>2. DOMAIN t = ProcessFields /\ t.pc = "gone" BY <2>3, <3>1 DEF ProcessFields
    <3> QED BY <3>2 DEF ProcessOK, ShellPcs
  <2>5. PICK n \in Nat, f \in Nat : n = Len(obj) /\ f = failures
    BY <2>1
  <2>6. n <= n /\ f <= f
    OBVIOUS
  <2>7. PICK ps : ps = [proc EXCEPT ![q] = t]
    OBVIOUS
  <2>8. ProcessesOK(ps, n, f)
    BY <2>1, <2>2, <2>4, <2>5, <2>6, <2>7, Moves
  <2>9. p \in DOMAIN ps /\ proc' = [ps EXCEPT ![p] = s]
    BY <1>3, <1>7, <2>2, <2>3, <2>7
  <2>10. ProcessesOK([ps EXCEPT ![p] = s], n, f)
    BY <1>5, <2>5, <2>6, <2>8, <2>9, Moves
  <2> QED BY <1>1, <2>5, <2>9, <2>10 DEF ShellInv, files
<1> QED BY <1>6, <1>7 DEF Wait, WaitPid

\* A process whose exec succeeds.
LEMMA ExecOK ==
  ASSUME NEW r, NEW n, DOMAIN r = ProcessFields, r.in[1] \in 1 .. n, r.out[1] \in 1 .. n,
         NEW name \in DOMAIN Programs
  PROVE  ProcessOK(Exec(r, name), n)
<1>1. PICK s : s = Exec(r, name)
  OBVIOUS
<1>2. Programs[name].gives \in Seq(Lines)
  <2>1. PICK g : g = Programs[name].gives OBVIOUS
  <2>2. g \in Seq(Seq(STRING)) BY <2>1, ShellAssumption
  <2>3. g \in Seq(Range(g)) BY <2>2, SeqOfRange
  <2>4. Range(g) \subseteq Lines BY <2>1 DEF Lines, Commands
  <2> QED BY <2>1, <2>3, <2>4, SeqMonotonic
<1>3. /\ DOMAIN s = ProcessFields /\ s.pc = "run" /\ s.in = r.in /\ s.out = r.out
      /\ DOMAIN s.mem = {"todo", "reads"} /\ s.mem.todo = Programs[name].gives
  BY <1>1 DEF Exec, ProcessFields
<1>4. ProcessOK(s, n)
  BY <1>2, <1>3 DEF ProcessOK, ShellPcs
<1> QED BY <1>1, <1>4

\* The child of a stage redirects itself and becomes its program.
LEMMA StageChildStep ==
  ASSUME ShellInv, NEW p \in DOMAIN proc, StageChild(p)
  PROVE  ShellInv'
<1>0. ProcessOK(proc[p], Len(obj)) /\ (p = 1 => FirstOK(proc[p], failures)) /\ Len(obj) \in Nat
  BY Facts
<1>1. proc[p].pc = "stage" /\ UNCHANGED <<obj, files, failures>>
  BY DEF StageChild
<1>2. p # 1
  BY <1>0, <1>1 DEF FirstOK
<1>3. /\ DOMAIN proc[p] = ProcessFields /\ MemoryOK(proc[p].mem, "stage", Len(obj))
      /\ proc[p].in[1] \in 1 .. Len(obj) /\ proc[p].out[1] \in 1 .. Len(obj)
  BY <1>0, <1>1 DEF ProcessOK, ShellPcs
<1>4. PICK r, e, n : r = proc[p] /\ e = r.mem.fd[r.mem.i] /\ n = Len(obj)
  OBVIOUS
<1>5. (e.in = None \/ e.in[1] \in 1 .. n) /\ (e.out = None \/ e.out[1] \in 1 .. n)
  BY <1>3, <1>4 DEF MemoryOK, StagesOK
<1>6. PICK a, b : a = (IF e.in = None THEN r.in ELSE e.in) /\ b = (IF e.out = None THEN r.out ELSE e.out)
  OBVIOUS
<1>7. a[1] \in 1 .. n /\ b[1] \in 1 .. n
  BY <1>3, <1>4, <1>5, <1>6
<1>8. PICK s : s = [r EXCEPT !.in = a, !.out = b, !.more = @ \ Ends(r)]
  OBVIOUS
<1>9. DOMAIN s = ProcessFields /\ s.pc = "stage" /\ s.in = a /\ s.out = b /\ s.mem = r.mem
  BY <1>1, <1>3, <1>4, <1>8 DEF ProcessFields
<1>10. ProcessOK(s, n)
  BY <1>3, <1>4, <1>7, <1>9 DEF ProcessOK, ShellPcs
<1>11. PICK name : name = Name(s.mem.com.stages[s.mem.i])
  OBVIOUS
<1>12. PICK t : t = IF name \in DOMAIN Programs THEN Exec(s, name) ELSE NextStage(s, 0)
  OBVIOUS
<1>13. ProcessOK(t, n)
  <2>1. CASE name \in DOMAIN Programs BY <1>7, <1>9, <1>12, <2>1, ExecOK
  <2>2. CASE name \notin DOMAIN Programs
    <3>1. ProcessOK(NextStage(s, 0), n) BY <1>9, <1>10, NextStageOK
    <3> QED BY <1>12, <2>2, <3>1
  <2> QED BY <2>1, <2>2
<1>14. proc' = [proc EXCEPT ![p] = t]
  <2> DEFINE e0 == proc[p].mem.fd[proc[p].mem.i]
             s0 == [proc[p] EXCEPT !.in = IF e0.in = None THEN @ ELSE e0.in,
                                   !.out = IF e0.out = None THEN @ ELSE e0.out,
                                   !.more = @ \ Ends(proc[p])]
             n0 == Name(s0.mem.com.stages[s0.mem.i])
  <2>1. proc' = [proc EXCEPT ![p] = IF n0 \in DOMAIN Programs THEN Exec(s0, n0) ELSE NextStage(s0, 0)]
    BY DEF StageChild
  <2>2. e0 = e
    BY <1>4
  <2>3. s0 = s
    <3> HIDE DEF e0
    <3> QED BY <1>4, <1>6, <1>8, <2>2
  <2> HIDE DEF e0, s0
  <2>4. n0 = name
    BY <1>11, <2>3
  <2> HIDE DEF n0
  <2> QED BY <1>12, <2>1, <2>3, <2>4
<1> QED BY <1>1, <1>2, <1>4, <1>13, <1>14, SameSystem

\* More objects are opened, and no file becomes shorter.
LEMMA Opening ==
  ASSUME NEW o, NEW f, NEW d, SystemOK(o, f, d), NEW g \in Seq(Seq(Lines)), NEW e,
         Len(f) <= Len(g), \A k \in 1 .. Len(f) : g[k] = f[k],
         \A path \in DOMAIN e : e[path] \in 1 .. Len(g),
         NEW x \in Seq(Objects), \A k \in 1 .. Len(x) : ObjectOK(x[k], g)
  PROVE  SystemOK(o \o x, g, e) /\ Len(o \o x) = Len(o) + Len(x) /\ Len(x) \in Nat /\ Len(o) \in Nat
<1>1. PICK q : q = o \o x
  OBVIOUS
<1>2. /\ q \in Seq(Objects) /\ Len(q) = Len(o) + Len(x)
      /\ \A i \in 1 .. Len(o) + Len(x) : q[i] = IF i <= Len(o) THEN o[i] ELSE x[i - Len(o)]
  BY <1>1, ConcatProperties DEF SystemOK
<1>3. Len(o) \in Nat /\ Len(x) \in Nat /\ Len(f) \in Nat /\ Len(g) \in Nat
  BY LenProperties DEF SystemOK
<1>4. ASSUME NEW i \in 1 .. Len(q) PROVE ObjectOK(q[i], g)
  <2>1. CASE i <= Len(o)
    <3>1. i \in 1 .. Len(o) /\ q[i] = o[i] BY <1>2, <1>3, <2>1
    <3>2. ObjectOK(o[i], f) BY <3>1 DEF SystemOK
    <3>3. \A k : k \in 1 .. Len(f) => k \in 1 .. Len(g) /\ g[k] = f[k] BY <1>3
    <3>4. o[i] \in Objects BY <3>1, ElementOfSeq DEF SystemOK
    <3>5. ObjectOK(o[i], g) BY <3>2, <3>3, <3>4 DEF ObjectOK, Objects
    <3> QED BY <3>1, <3>5
  <2>2. CASE ~(i <= Len(o))
    <3>1. i - Len(o) \in 1 .. Len(x) /\ q[i] = x[i - Len(o)] BY <1>2, <1>3, <2>2
    <3> QED BY <3>1
  <2> QED BY <2>1, <2>2
<1>5. SystemOK(q, g, e)
  BY <1>2, <1>4 DEF SystemOK
<1> QED BY <1>1, <1>2, <1>3, <1>5

\* open with O_CREAT: what it leaves and what it returns.
LEMMA Creating ==
  ASSUME ShellInv, NEW r, dir' = Created(r), file' = (IF OutPath(r) \subseteq DOMAIN dir THEN file ELSE Append(file, <<>>))
  PROVE  /\ file' \in Seq(Seq(Lines)) /\ Len(file) <= Len(file') /\ \A k \in 1 .. Len(file) : file'[k] = file[k]
         /\ \A path \in DOMAIN dir' : dir'[path] \in 1 .. Len(file')
         /\ OpenedOut(r) \in Seq(Objects) /\ Len(OpenedOut(r)) \in {0, 1}
         /\ OpenedOut(r) = <<>> \/ Len(OpenedOut(r)) = 1
         /\ \A k \in 1 .. Len(OpenedOut(r)) : ObjectOK(OpenedOut(r)[k], file')
<1>0. SystemOK(obj, file, dir) /\ file \in Seq(Seq(Lines)) /\ Len(file) \in Nat
  BY LenProperties DEF ShellInv, SystemOK
<1>1. /\ file' \in Seq(Seq(Lines)) /\ Len(file) <= Len(file') /\ \A k \in 1 .. Len(file) : file'[k] = file[k]
      /\ IF OutPath(r) \subseteq DOMAIN dir THEN file' = file ELSE Len(file') = Len(file) + 1
  <2>1. CASE OutPath(r) \subseteq DOMAIN dir
    <3>1. file' = file BY <2>1
    <3> QED BY <1>0, <2>1, <3>1
  <2>2. CASE ~(OutPath(r) \subseteq DOMAIN dir)
    <3>1. file' = Append(file, <<>>) BY <2>2
    <3>2. PICK S, z : S = Seq(Lines) /\ z = <<>> OBVIOUS
    <3>3. z \in S BY <3>2, EmptySeq
    <3>4. Append(file, z) \in Seq(S) /\ Len(Append(file, z)) = Len(file) + 1 /\ \A k \in 1 .. Len(file) : Append(file, z)[k] = file[k]
      BY <1>0, <3>2, <3>3, AppendProperties
    <3>5. file' = Append(file, z) BY <3>1, <3>2
    <3> QED BY <1>0, <2>2, <3>2, <3>4, <3>5
  <2> QED BY <2>1, <2>2
<1>2. DOMAIN Created(r) = DOMAIN dir \union OutPath(r)
  BY DEF Created
<1>3. \A path \in DOMAIN Created(r) : Created(r)[path] \in 1 .. Len(file')
  <2> TAKE path \in DOMAIN Created(r)
  <2>1. CASE path \in DOMAIN dir
    <3>1. Created(r)[path] = dir[path] BY <2>1 DEF Created
    <3>2. dir[path] \in 1 .. Len(file) BY <1>0, <2>1 DEF SystemOK
    <3>3. Len(file') \in Nat BY <1>1, LenProperties
    <3>4. \A k \in 1 .. Len(file) : k \in 1 .. Len(file') BY <1>0, <1>1, <3>3
    <3> QED BY <3>1, <3>2, <3>4
  <2>2. CASE path \notin DOMAIN dir
    <3>1. Created(r)[path] = Len(file) + 1 BY <2>2, <1>2 DEF Created
    <3>2. ~(OutPath(r) \subseteq DOMAIN dir) BY <1>2, <2>2
    <3>3. Len(file') = Len(file) + 1 BY <1>1, <3>2
    <3>4. Len(file) + 1 \in 1 .. Len(file) + 1 BY <1>0
    <3> QED BY <3>1, <3>3, <3>4
  <2> QED BY <2>1, <2>2
<1>4. dir' = Created(r)
  OBVIOUS
<1>5. CASE OutPath(r) = {}
  <2>1. OpenedOut(r) = <<>> BY <1>5 DEF OpenedOut
  <2>2. <<>> \in Seq(Objects) /\ Len(<<>>) = 0 BY EmptySeq
  <2>3. 1 .. 0 = {} OBVIOUS
  <2> QED BY <1>1, <1>3, <1>4, <2>1, <2>2, <2>3
<1>6. CASE OutPath(r) # {}
  <2>1. PICK path \in OutPath(r) : path = CHOOSE q \in OutPath(r) : TRUE BY <1>6
  <2>2. PICK n : n = Created(r)[path] OBVIOUS
  <2>3. n \in 1 .. Len(file') BY <1>2, <1>3, <2>2
  <2>4. PICK kind \in {"append", "file"} : kind = IF r.mem.com.mode = ">>" THEN "append" ELSE "file" OBVIOUS
  <2>5. PICK x : x = Object(kind, n, <<>>) OBVIOUS
  <2>6. OpenedOut(r) = <<x>> BY <1>6, <2>1, <2>2, <2>4, <2>5 DEF OpenedOut
  <2>7. x \in Objects
    <3>1. <<>> \in Seq(Lines) BY EmptySeq
    <3>2. n \in Nat BY <1>1, <2>3, LenProperties
    <3> QED BY <2>5, <3>1, <3>2 DEF Objects, Object
  <2>8. ObjectOK(x, file')
    <3>1. x.kind = kind /\ x.file = n /\ x.at = 0 BY <2>5 DEF Object
    <3>2. file'[n] \in Seq(Lines) BY <1>1, <2>3, ElementOfSeq
    <3>3. Len(file'[n]) \in Nat BY <3>2, LenProperties
    <3> QED BY <2>3, <3>1, <3>3 DEF ObjectOK
  <2>9. <<x>> \in Seq(Objects) /\ Len(<<x>>) = 1 /\ <<x>>[1] = x BY <2>7
  <2>10. \A k \in 1 .. 1 : k = 1 OBVIOUS
  <2> QED BY <1>1, <1>3, <1>4, <2>6, <2>8, <2>9, <2>10
<1> QED BY <1>5, <1>6

\* open for reading.
LEMMA OpeningIn ==
  ASSUME ShellInv, NEW r
  PROVE  /\ OpenedIn(r) \in Seq(Objects) /\ Len(OpenedIn(r)) \in {0, 1}
         /\ OpenedIn(r) = <<>> \/ Len(OpenedIn(r)) = 1
         /\ \A k \in 1 .. Len(OpenedIn(r)) : ObjectOK(OpenedIn(r)[k], file)
<1>0. SystemOK(obj, file, dir) /\ file \in Seq(Seq(Lines)) /\ Len(file) \in Nat
  BY LenProperties DEF ShellInv, SystemOK
<1>1. CASE r.mem.com.in # <<>> /\ Path(r, r.mem.com.in[1]) \in DOMAIN dir
  <2>1. PICK n : n = dir[Path(r, r.mem.com.in[1])] OBVIOUS
  <2>2. n \in 1 .. Len(file) BY <1>0, <1>1, <2>1 DEF SystemOK
  <2>3. PICK x : x = Object("file", n, <<>>) OBVIOUS
  <2>4. OpenedIn(r) = <<x>> BY <1>1, <2>1, <2>3 DEF OpenedIn
  <2>5. x \in Objects
    <3>1. <<>> \in Seq(Lines) BY EmptySeq
    <3>2. n \in Nat BY <1>0, <2>2
    <3> QED BY <2>3, <3>1, <3>2 DEF Objects, Object
  <2>6. ObjectOK(x, file)
    <3>1. x.kind = "file" /\ x.file = n /\ x.at = 0 BY <2>3 DEF Object
    <3>2. file[n] \in Seq(Lines) BY <1>0, <2>2, ElementOfSeq
    <3>3. Len(file[n]) \in Nat BY <3>2, LenProperties
    <3> QED BY <2>2, <3>1, <3>3 DEF ObjectOK
  <2>7. <<x>> \in Seq(Objects) /\ Len(<<x>>) = 1 /\ <<x>>[1] = x BY <2>5
  <2>8. \A k \in 1 .. 1 : k = 1 OBVIOUS
  <2> QED BY <2>4, <2>6, <2>7, <2>8
<1>2. CASE ~(r.mem.com.in # <<>> /\ Path(r, r.mem.com.in[1]) \in DOMAIN dir)
  <2>1. OpenedIn(r) = <<>> BY <1>2 DEF OpenedIn
  <2>2. <<>> \in Seq(Objects) /\ Len(<<>>) = 0 BY EmptySeq
  <2>3. 1 .. 0 = {} OBVIOUS
  <2> QED BY <2>1, <2>2, <2>3
<1> QED BY <1>1, <1>2

\* The output of r is open as outs, with the files g and the directory e; or
\* nothing is opened.
OutputOpened(r, outs, g, e) ==
  \/ /\ e = Created(r) /\ g = (IF OutPath(r) \subseteq DOMAIN dir THEN file ELSE Append(file, <<>>))
     /\ outs = OpenedOut(r)
  \/ e = dir /\ g = file /\ outs = <<>>

OnlyPipes(pipes) == pipes \in Seq(Objects) /\ \A k \in 1 .. Len(pipes) : pipes[k].kind = "pipe"

AllOpened(o, g, e, pipes, ins, outs) ==
  /\ SystemOK(o, g, e)
  /\ Len(o) = Len(obj) + Len(pipes) + Len(ins) + Len(outs)
  /\ ins = <<>> \/ Len(ins) = 1
  /\ outs = <<>> \/ Len(outs) = 1
  /\ Len(ins) \in {0, 1} /\ Len(outs) \in {0, 1}
  /\ Len(obj \o ins) = Len(obj) + Len(ins)

\* What is opened for a command: the pipes, then the redirections.
LEMMA OpeningAll ==
  ASSUME ShellInv, NEW r, NEW ins, ins = OpenedIn(r), NEW outs, OutputOpened(r, outs, file', dir'),
         NEW pipes, OnlyPipes(pipes), obj' = obj \o pipes \o ins \o outs
  PROVE  AllOpened(obj', file', dir', pipes, ins, outs)
<1>0. SystemOK(obj, file, dir) /\ file \in Seq(Seq(Lines)) /\ Len(file) \in Nat /\ obj \in Seq(Objects)
  BY LenProperties DEF ShellInv, SystemOK
<1>1. /\ ins \in Seq(Objects) /\ Len(ins) \in {0, 1} /\ (ins = <<>> \/ Len(ins) = 1)
      /\ \A k \in 1 .. Len(ins) : ObjectOK(ins[k], file)
  BY OpeningIn
<1>2. /\ file' \in Seq(Seq(Lines)) /\ Len(file) <= Len(file') /\ \A k \in 1 .. Len(file) : file'[k] = file[k]
      /\ \A path \in DOMAIN dir' : dir'[path] \in 1 .. Len(file')
      /\ outs \in Seq(Objects) /\ Len(outs) \in {0, 1} /\ (outs = <<>> \/ Len(outs) = 1)
      /\ \A k \in 1 .. Len(outs) : ObjectOK(outs[k], file')
  <2>1. CASE /\ dir' = Created(r) /\ file' = (IF OutPath(r) \subseteq DOMAIN dir THEN file ELSE Append(file, <<>>))
             /\ outs = OpenedOut(r)
    BY <2>1, Creating
  <2>2. CASE dir' = dir /\ file' = file /\ outs = <<>>
    <3>1. file' = file /\ dir' = dir BY <2>2
    <3>2. outs \in Seq(Objects) /\ Len(outs) = 0 BY <2>2, EmptySeq
    <3>3. 1 .. 0 = {} OBVIOUS
    <3>4. \A path \in DOMAIN dir : dir[path] \in 1 .. Len(file) BY <1>0 DEF SystemOK
    <3> QED BY <1>0, <2>2, <3>1, <3>2, <3>3, <3>4
  <2> QED BY <2>1, <2>2 DEF OutputOpened
<1>3. pipes \in Seq(Objects) /\ \A k \in 1 .. Len(pipes) : ObjectOK(pipes[k], file')
  BY DEF ObjectOK, OnlyPipes
<1>4. Len(file') \in Nat
  BY <1>2, LenProperties
<1>5. \A k \in 1 .. Len(ins) : ObjectOK(ins[k], file')
  <2> TAKE k \in 1 .. Len(ins)
  <2>1. ObjectOK(ins[k], file) BY <1>1
  <2>2. \A j : j \in 1 .. Len(file) => j \in 1 .. Len(file') /\ file'[j] = file[j] BY <1>0, <1>2, <1>4
  <2>3. ins[k].kind = "file" => ins[k].kind # "pipe" OBVIOUS
  <2> QED BY <2>1, <2>2, <2>3 DEF ObjectOK
<1>6. PICK g, e : g = file' /\ e = dir'
  OBVIOUS
<1>7. PICK o1 : o1 = obj \o pipes
  OBVIOUS
<1>8. SystemOK(o1, g, e) /\ Len(o1) = Len(obj) + Len(pipes) /\ Len(pipes) \in Nat /\ Len(obj) \in Nat
  BY <1>0, <1>2, <1>3, <1>6, <1>7, Opening
<1>9. Len(g) <= Len(g) /\ \A k \in 1 .. Len(g) : g[k] = g[k]
  BY <1>4, <1>6
<1>10. \A path \in DOMAIN e : e[path] \in 1 .. Len(g)
  BY <1>2, <1>6
<1>11. PICK o2 : o2 = o1 \o ins
  OBVIOUS
<1>12. SystemOK(o2, g, e) /\ Len(o2) = Len(o1) + Len(ins)
  BY <1>1, <1>2, <1>5, <1>6, <1>8, <1>9, <1>10, <1>11, Opening
<1>13. PICK o3 : o3 = o2 \o outs
  OBVIOUS
<1>14. SystemOK(o3, g, e) /\ Len(o3) = Len(o2) + Len(outs)
  BY <1>2, <1>6, <1>9, <1>10, <1>12, <1>13, Opening
<1>15. obj' = o3
  BY <1>7, <1>11, <1>13
<1>16. Len(obj \o ins) = Len(obj) + Len(ins)
  BY <1>0, <1>1, ConcatProperties
<1>17. Len(o3) = Len(obj) + Len(pipes) + Len(ins) + Len(outs)
  BY <1>1, <1>2, <1>8, <1>12, <1>14
<1> QED BY <1>1, <1>2, <1>6, <1>8, <1>14, <1>15, <1>16, <1>17 DEF AllOpened

\* The child of a basic command opens its files and becomes its program.
LEMMA BasicChildStep ==
  ASSUME ShellInv, NEW p \in DOMAIN proc, BasicChild(p)
  PROVE  ShellInv'
<1>0. /\ ProcessOK(proc[p], Len(obj)) /\ (p = 1 => FirstOK(proc[p], failures)) /\ Len(obj) \in Nat /\ failures \in Nat
      /\ SystemOK(obj, file, dir)
  BY Facts
<1>1. proc[p].pc = "child" /\ failures' = failures
  BY DEF BasicChild
<1>2. p # 1
  BY <1>0, <1>1 DEF FirstOK
<1>3. /\ DOMAIN proc[p] = ProcessFields /\ MemoryOK(proc[p].mem, "child", Len(obj))
      /\ proc[p].in[1] \in 1 .. Len(obj) /\ proc[p].out[1] \in 1 .. Len(obj)
  BY <1>0, <1>1 DEF ProcessOK, ShellPcs
<1>4. PICK c, ins : c = proc[p].mem.com /\ ins = OpenedIn(proc[p])
  OBVIOUS
<1>5. PICK outs : outs = IF Len(ins) = Len(c.in) THEN OpenedOut(proc[p]) ELSE <<>>
  OBVIOUS
<1>6. PICK a, b : a = (IF ins = <<>> THEN proc[p].in ELSE R(Len(obj) + 1)) /\ b = (IF outs = <<>> THEN proc[p].out ELSE W(Len(obj \o ins) + 1))
  OBVIOUS
<1>7. PICK s : s = [proc[p] EXCEPT !.in = a, !.out = b]
  OBVIOUS
<1>8. PICK name : name = Name(c.stages[1])
  OBVIOUS
<1>9. PICK t : t = IF Len(ins) < Len(c.in) \/ Len(outs) < Len(c.out) THEN Ended(s)
                   ELSE IF name \in DOMAIN Programs THEN Exec(s, name) ELSE [s EXCEPT !.pc = "prompt"]
  OBVIOUS
<1>10. proc' = [proc EXCEPT ![p] = t] /\ obj' = obj \o ins \o outs
  BY <1>4, <1>5, <1>6, <1>7, <1>8, <1>9 DEF BasicChild
<1>11. PICK r : r = proc[p]
  OBVIOUS
<1>30. OutputOpened(r, outs, file', dir')
  <2>1. IF Len(ins) = Len(c.in) THEN CreateOutput(proc[p]) ELSE UNCHANGED files
    BY <1>4 DEF BasicChild
  <2> QED BY <1>5, <1>11, <2>1 DEF CreateOutput, OutputOpened, files
<1>12. /\ SystemOK(obj', file', dir') /\ Len(obj') = Len(obj) + 0 + Len(ins) + Len(outs)
       /\ ins = <<>> \/ Len(ins) = 1
       /\ outs = <<>> \/ Len(outs) = 1
       /\ Len(ins) \in {0, 1} /\ Len(outs) \in {0, 1} /\ Len(obj \o ins) = Len(obj) + Len(ins)
  <2>1. PICK pipes \in Seq(Objects) : pipes = <<>> BY EmptySeq
  <2>2. Len(pipes) = 0 BY <2>1
  <2>3. \A k \in 1 .. Len(pipes) : pipes[k].kind = "pipe" BY <2>2
  <2>4. obj \o pipes = obj BY <2>1, <1>0, ConcatEmptySeq DEF SystemOK
  <2>5. obj' = obj \o pipes \o ins \o outs BY <1>10, <2>4
  <2>6. ins = OpenedIn(r) BY <1>4, <1>11
  <2>7. OnlyPipes(pipes) BY <2>3 DEF OnlyPipes
  <2>8. AllOpened(obj', file', dir', pipes, ins, outs)
    BY <1>30, <2>5, <2>6, <2>7, OpeningAll
  <2> QED BY <2>2, <2>8 DEF AllOpened
<1>13. PICK n \in Nat : n = Len(obj') /\ Len(obj) <= n
  <2>1. Len(obj) + 0 + Len(ins) + Len(outs) \in Nat /\ Len(obj) <= Len(obj) + 0 + Len(ins) + Len(outs) BY <1>0, <1>12
  <2> QED BY <1>12, <2>1
<1>14. a[1] \in 1 .. n
  <2>1. CASE ins = <<>> BY <1>0, <1>3, <1>6, <1>13, <2>1
  <2>2. CASE ins # <<>>
    <3>1. a[1] = Len(obj) + 1 BY <1>6, <2>2 DEF R
    <3>2. Len(ins) = 1 BY <1>12, <2>2
    <3> QED BY <1>0, <1>12, <1>13, <3>1, <3>2
  <2> QED BY <2>1, <2>2
<1>15. b[1] \in 1 .. n
  <2>1. CASE outs = <<>> BY <1>0, <1>3, <1>6, <1>13, <2>1
  <2>2. CASE outs # <<>>
    <3>1. b[1] = Len(obj) + Len(ins) + 1 BY <1>6, <1>12, <2>2 DEF W
    <3>2. Len(outs) = 1 BY <1>12, <2>2
    <3> QED BY <1>0, <1>12, <1>13, <3>1, <3>2
  <2> QED BY <2>1, <2>2
<1>16. DOMAIN s = ProcessFields /\ s.pc = "child" /\ s.in = a /\ s.out = b /\ s.mem = proc[p].mem
  BY <1>1, <1>3, <1>7 DEF ProcessFields
<1>17. ProcessOK(s, n)
  <2>1. MemoryOK(s.mem, "child", n) BY <1>3, <1>16 DEF MemoryOK
  <2> QED BY <1>14, <1>15, <1>16, <2>1 DEF ProcessOK, ShellPcs
<1>18. ProcessOK(t, n)
  <2>1. CASE t = Ended(s) BY <1>17, <2>1, EndedOK
  <2>2. CASE name \in DOMAIN Programs /\ t = Exec(s, name) BY <1>14, <1>15, <1>16, <2>2, ExecOK
  <2>3. CASE t = [s EXCEPT !.pc = "prompt"]
    <3>1. DOMAIN t = ProcessFields /\ t.pc = "prompt" /\ t.in = s.in /\ t.out = s.out /\ t.mem = s.mem
      BY <1>16, <2>3 DEF ProcessFields
    <3>2. DOMAIN t.mem = MemoryFields /\ t.mem.ahead = s.mem.ahead BY <1>3, <1>16, <3>1 DEF MemoryOK
    <3>3. s.pc \in ShellPcs BY <1>16 DEF ShellPcs
    <3> QED BY <1>17, <3>1, <3>2, <3>3, PromptOK
  <2> QED BY <1>9, <2>1, <2>2, <2>3
<1>19. failures' \in Nat /\ failures <= failures' /\ Len(obj') \in Nat /\ Len(obj) <= Len(obj') /\ ProcessOK(t, Len(obj'))
  BY <1>0, <1>1, <1>13, <1>18
<1>20. SystemOK(obj', file', dir')
  BY <1>12
<1> QED BY <1>2, <1>10, <1>19, <1>20, OneMoves

\* The ends that StageEnds gives to the stages are ends of open objects.
LEMMA StageEndsOK ==
  ASSUME NEW n \in Nat \ {0}, NEW k \in Nat, NEW m \in Nat, k + n - 1 <= m, NEW in, NEW out,
         in = None \/ in[1] \in 1 .. m, out = None \/ out[1] \in 1 .. m, NEW c,
         NEW fd, fd = StageEnds(c, n, k, in, out)
  PROVE  \A j \in 1 .. n : /\ fd[j].in = None \/ fd[j].in[1] \in 1 .. m
                           /\ fd[j].out = None \/ fd[j].out[1] \in 1 .. m
<1> TAKE j \in 1 .. n
<1>1. fd[j] = [in |-> IF j = 1 THEN in ELSE R(k + j - 1), out |-> IF j = n THEN out ELSE W(k + j)]
  BY DEF StageEnds
<1>2. fd[j].in = (IF j = 1 THEN in ELSE R(k + j - 1)) /\ fd[j].out = (IF j = n THEN out ELSE W(k + j))
  BY <1>1
<1>3. j # 1 => R(k + j - 1)[1] \in 1 .. m
  <2>1. R(k + j - 1)[1] = k + j - 1 BY DEF R
  <2> QED BY <2>1
<1>4. j # n => W(k + j)[1] \in 1 .. m
  <2>1. W(k + j)[1] = k + j BY DEF W
  <2> QED BY <2>1
<1> QED BY <1>2, <1>3, <1>4

\* The shell opens the files and the pipes of a pipeline.
LEMMA SetupStep ==
  ASSUME ShellInv, NEW p \in DOMAIN proc, Setup(p)
  PROVE  ShellInv'
<1>0. /\ ProcessOK(proc[p], Len(obj)) /\ (p = 1 => FirstOK(proc[p], failures)) /\ Len(obj) \in Nat /\ failures \in Nat
      /\ SystemOK(obj, file, dir)
  BY Facts
<1>1. proc[p].pc = "pipeline" /\ failures' = failures
  BY DEF Setup
<1>2. /\ DOMAIN proc[p] = ProcessFields /\ MemoryOK(proc[p].mem, "pipeline", Len(obj))
      /\ proc[p].in[1] \in 1 .. Len(obj) /\ proc[p].out[1] \in 1 .. Len(obj)
  BY <1>0, <1>1 DEF ProcessOK, ShellPcs
<1>3. PICK r, c, k, ins, outs : r = proc[p] /\ c = r.mem.com /\ k = Len(obj) /\ ins = OpenedIn(r) /\ outs = OpenedOut(r)
  OBVIOUS
<1>4. PICK n \in Nat \ {0} : n = Len(c.stages) /\ r.mem.i = 1
  BY <1>2, <1>3 DEF MemoryOK
<1>5. PICK in, out : in = (IF ins = <<>> THEN None ELSE R(k + n)) /\ out = (IF outs = <<>> THEN None ELSE W(k + n + Len(ins)))
  OBVIOUS
<1>6. PICK fd : fd = StageEnds(c, n, k, in, out)
  OBVIOUS
<1>7. PICK S : S = (UNION {{fd[j].in, fd[j].out} : j \in 1 .. n}) \ {None}
  OBVIOUS
<1>8. PICK s : s = [r EXCEPT !.pc = "spawn", !.mem.fd = fd, !.more = @ \union S]
  OBVIOUS
<1>9. PICK pipes : pipes = [j \in 1 .. n - 1 |-> Pipe]
  OBVIOUS
<1>10. /\ proc' = [proc EXCEPT ![p] = s] /\ obj' = obj \o pipes \o ins \o outs
       /\ dir' = Created(r) /\ file' = (IF OutPath(r) \subseteq DOMAIN dir THEN file ELSE Append(file, <<>>))
  <2> DEFINE c0 == proc[p].mem.com
             n0 == Len(c0.stages)
             ins0 == OpenedIn(proc[p])
             outs0 == OpenedOut(proc[p])
             fd0 == StageEnds(c0, n0, Len(obj), IF ins0 = <<>> THEN None ELSE R(Len(obj) + n0),
                                                IF outs0 = <<>> THEN None ELSE W(Len(obj) + n0 + Len(ins0)))
  <2>1. /\ obj' = obj \o [j \in 1 .. n0 - 1 |-> Pipe] \o ins0 \o outs0
        /\ CreateOutput(proc[p])
        /\ proc' = [proc EXCEPT ![p] = [proc[p] EXCEPT !.pc = "spawn", !.mem.fd = fd0,
             !.more = @ \union ((UNION {{fd0[j].in, fd0[j].out} : j \in 1 .. n0}) \ {None})]]
    BY DEF Setup
  <2>2. c0 = c /\ ins0 = ins /\ outs0 = outs
    BY <1>3
  <2> HIDE DEF c0, ins0, outs0
  <2>3. n0 = n
    BY <1>4, <2>2
  <2> HIDE DEF n0
  <2>4. fd0 = fd
    BY <1>3, <1>5, <1>6, <2>2, <2>3
  <2> HIDE DEF fd0
  <2>5. proc' = [proc EXCEPT ![p] = s]
    <3>1. (UNION {{fd0[j].in, fd0[j].out} : j \in 1 .. n0}) \ {None} = S
      BY <1>7, <2>3, <2>4
    <3>2. [proc[p] EXCEPT !.pc = "spawn", !.mem.fd = fd0,
             !.more = @ \union ((UNION {{fd0[j].in, fd0[j].out} : j \in 1 .. n0}) \ {None})] = s
      BY <1>3, <1>8, <2>4, <3>1
    <3> QED BY <2>1, <3>2
  <2>6. obj' = obj \o pipes \o ins \o outs
    BY <1>9, <2>1, <2>2, <2>3
  <2> QED BY <1>3, <2>1, <2>5, <2>6 DEF CreateOutput
<1>11. pipes \in Seq(Objects) /\ Len(pipes) = n - 1 /\ \A j \in 1 .. Len(pipes) : pipes[j].kind = "pipe"
  <2>1. n - 1 \in Nat OBVIOUS
  <2>2. Pipe \in Objects /\ Pipe.kind = "pipe"
    <3>1. <<>> \in Seq(Lines) BY EmptySeq
    <3> QED BY <3>1 DEF Pipe, Object, Objects
  <2>3. pipes \in [1 .. n - 1 -> Objects] BY <1>9, <2>2
  <2>4. pipes \in Seq(Objects) BY <2>1, <2>3, SeqDef
  <2>5. Len(pipes) \in Nat /\ DOMAIN pipes = 1 .. Len(pipes) /\ DOMAIN pipes = 1 .. n - 1 BY <1>9, <2>4, LenProperties
  <2>6. Len(pipes) = n - 1
    <3>1. PICK a, b \in Nat : a = Len(pipes) /\ b = n - 1 BY <2>1, <2>5
    <3>2. 1 .. a = 1 .. b BY <2>5, <3>1
    <3>3. a = b
      <4>1. CASE a < b
        <5>1. b \in 1 .. b /\ b \notin 1 .. a BY <4>1
        <5> QED BY <3>2, <5>1
      <4>2. CASE b < a
        <5>1. a \in 1 .. a /\ a \notin 1 .. b BY <4>2, <3>1, <2>5
        <5> QED BY <3>2, <5>1
      <4> QED BY <4>1, <4>2, <3>1, <2>5
    <3> QED BY <3>1, <3>3
  <2> QED BY <1>9, <2>2, <2>4, <2>6
<1>12. /\ SystemOK(obj', file', dir') /\ Len(obj') = Len(obj) + Len(pipes) + Len(ins) + Len(outs)
       /\ ins = <<>> \/ Len(ins) = 1
       /\ outs = <<>> \/ Len(outs) = 1
       /\ Len(ins) \in {0, 1} /\ Len(outs) \in {0, 1}
  <2>1. ins = OpenedIn(r) /\ outs = OpenedOut(r) BY <1>3
  <2>2. OnlyPipes(pipes) BY <1>11 DEF OnlyPipes
  <2>3. OutputOpened(r, outs, file', dir') BY <1>10, <2>1 DEF OutputOpened
  <2>4. obj' = obj \o pipes \o ins \o outs BY <1>10
  <2>5. AllOpened(obj', file', dir', pipes, ins, outs) BY <2>1, <2>2, <2>3, <2>4, OpeningAll
  <2> QED BY <2>5 DEF AllOpened
<1>13. PICK m \in Nat : m = Len(obj') /\ m = k + (n - 1) + Len(ins) + Len(outs) /\ k <= m /\ k + n - 1 <= m /\ k \in Nat
  <2>1. k + (n - 1) + Len(ins) + Len(outs) \in Nat /\ k <= k + (n - 1) + Len(ins) + Len(outs)
        /\ k + n - 1 <= k + (n - 1) + Len(ins) + Len(outs) /\ k \in Nat
    BY <1>0, <1>3, <1>12
  <2> QED BY <1>3, <1>11, <1>12, <2>1
<1>14. in = None \/ in[1] \in 1 .. m
  <2>1. CASE ins = <<>> BY <1>5, <2>1
  <2>2. CASE ins # <<>>
    <3>1. in[1] = k + n BY <1>5, <2>2 DEF R
    <3>2. Len(ins) = 1 BY <1>12, <2>2
    <3> QED BY <1>12, <1>13, <3>1, <3>2
  <2> QED BY <2>1, <2>2
<1>15. out = None \/ out[1] \in 1 .. m
  <2>1. CASE outs = <<>> BY <1>5, <2>1
  <2>2. CASE outs # <<>>
    <3>1. out[1] = k + n + Len(ins) BY <1>5, <2>2 DEF W
    <3>2. Len(outs) = 1 BY <1>12, <2>2
    <3> QED BY <1>12, <1>13, <3>1, <3>2
  <2> QED BY <2>1, <2>2
<1>16. \A j \in 1 .. n : /\ fd[j].in = None \/ fd[j].in[1] \in 1 .. m
                         /\ fd[j].out = None \/ fd[j].out[1] \in 1 .. m
  BY <1>6, <1>13, <1>14, <1>15, StageEndsOK
<1>17. DOMAIN r.mem = MemoryFields /\ r.mem.ahead \in Seq(Lines)
  BY <1>2, <1>3 DEF MemoryOK
<1>18. /\ DOMAIN s = ProcessFields /\ s.pc = "spawn" /\ s.in = r.in /\ s.out = r.out /\ s.parent = r.parent
       /\ s.more = r.more \union S /\ DOMAIN s.mem = MemoryFields /\ s.mem.ahead = r.mem.ahead
       /\ s.mem.com = c /\ s.mem.i = 1 /\ s.mem.fd = fd
  BY <1>2, <1>3, <1>4, <1>8, <1>17 DEF ProcessFields, MemoryFields
<1>19. MemoryOK(s.mem, "spawn", m)
  <2>1. n \in Nat /\ 1 \in 1 .. n OBVIOUS
  <2> QED BY <1>4, <1>16, <1>17, <1>18, <2>1 DEF MemoryOK, StagesOK
<1>20. ProcessOK(s, m)
  <2>1. \A e : e \in 1 .. k => e \in 1 .. m BY <1>13
  <2> QED BY <1>2, <1>3, <1>18, <1>19, <2>1 DEF ProcessOK, ShellPcs
<1>21. ASSUME p = 1 PROVE FirstOK(s, failures)
  <2>1. FirstOK(r, failures) /\ r.pc = "pipeline"
    BY <1>0, <1>1, <1>3, <1>21
  <2>2. ASSUME failures = 0 PROVE EndsToCome(s)
    <3>1. s.more = S BY <1>18, <2>1, <2>2 DEF FirstOK, EndsToCome
    <3>2. \A e \in S : \E j \in 1 .. n : e \in {fd[j].in, fd[j].out} BY <1>7
    <3> QED BY <1>4, <1>18, <3>1, <3>2 DEF EndsToCome
  <2> QED BY <1>18, <2>1, <2>2 DEF FirstOK
<1>22. failures' \in Nat /\ failures <= failures' /\ Len(obj') \in Nat /\ Len(obj) <= Len(obj') /\ ProcessOK(s, Len(obj'))
       /\ (p = 1 => FirstOK(s, failures')) /\ SystemOK(obj', file', dir') /\ proc' = [proc EXCEPT ![p] = s]
  BY <1>0, <1>1, <1>3, <1>10, <1>12, <1>13, <1>20, <1>21
<1> QED BY <1>22, OneMoves

\* A program reads, writes or ends.
LEMMA RunStep ==
  ASSUME ShellInv, NEW p \in DOMAIN proc, Run(p)
  PROVE  ShellInv'
<1>0. /\ ProcessOK(proc[p], Len(obj)) /\ (p = 1 => FirstOK(proc[p], failures)) /\ Len(obj) \in Nat /\ failures \in Nat
      /\ SystemOK(obj, file, dir)
  BY Facts
<1>1. proc[p].pc = "run" /\ failures' = failures
  BY DEF Run, RunRead, RunWrite, RunEnd
<1>2. p # 1
  BY <1>0, <1>1 DEF FirstOK
<1>3. /\ DOMAIN proc[p] = ProcessFields /\ DOMAIN proc[p].mem = {"todo", "reads"} /\ proc[p].mem.todo \in Seq(Lines)
      /\ proc[p].in[1] \in 1 .. Len(obj) /\ proc[p].out[1] \in 1 .. Len(obj)
  BY <1>0, <1>1 DEF ProcessOK
<1>4. ASSUME NEW m, DOMAIN m = {"todo", "reads"}, m.todo \in Seq(Lines), NEW s, s = [proc[p] EXCEPT !.mem = m]
      PROVE  ProcessOK(s, Len(obj))
  <2>1. DOMAIN s = ProcessFields /\ s.pc = "run" /\ s.in = proc[p].in /\ s.out = proc[p].out /\ s.mem = m
    BY <1>1, <1>3, <1>4 DEF ProcessFields
  <2> QED BY <1>3, <1>4, <2>1 DEF ProcessOK, ShellPcs
<1>5. CASE RunRead(p)
  <2>1. PICK k \in 1 .. Len(obj) : k = proc[p].in[1]
    BY <1>3
  <2>2. PICK a \in Seq(Lines) : a = Available(k) /\ a # <<>>
    BY <1>0, <1>5, <2>1, AvailableType DEF RunRead
  <2>3. PICK x \in Lines : x = Head(a)
    BY <2>2, HeadTailProperties
  <2>4. Len(a) \in Nat /\ 1 <= Len(a)
    BY <2>2, EmptySeq
  <2>5. SystemOK(Taken(k, 1), file, dir) /\ Len(Taken(k, 1)) = Len(obj)
    <3>1. 1 \in Nat /\ 1 <= Len(Available(k)) BY <2>2, <2>4
    <3> QED BY <1>0, <3>1, TakenOK
  <2>6. PICK m : m = [todo |-> <<x>>, reads |-> proc[p].mem.reads - 1]
    OBVIOUS
  <2>7. DOMAIN m = {"todo", "reads"} /\ m.todo \in Seq(Lines)
    <3>1. <<x>> \in Seq(Lines) OBVIOUS
    <3> QED BY <2>6, <3>1
  <2>8. PICK s : s = [proc[p] EXCEPT !.mem = m]
    OBVIOUS
  <2>9. ProcessOK(s, Len(obj))
    BY <1>4, <2>7, <2>8
  <2>10. /\ proc' = [proc EXCEPT ![p].mem = [todo |-> <<Head(Available(proc[p].in[1]))>>, reads |-> @.reads - 1]]
         /\ obj' = Taken(proc[p].in[1], 1) /\ UNCHANGED files
    BY <1>5 DEF RunRead
  <2>11. proc' = [proc EXCEPT ![p] = s]
    BY <2>1, <2>2, <2>3, <2>6, <2>8, <2>10
  <2>12. SystemOK(obj', file', dir') /\ Len(obj') = Len(obj)
    BY <2>1, <2>5, <2>10 DEF files
  <2>13. failures' \in Nat /\ failures <= failures' /\ Len(obj') \in Nat /\ Len(obj) <= Len(obj') /\ ProcessOK(s, Len(obj'))
    BY <1>0, <1>1, <2>9, <2>12
  <2> QED BY <1>2, <2>11, <2>12, <2>13, OneMoves
<1>6. CASE RunWrite(p)
  <2>1. PICK k \in 1 .. Len(obj) : k = proc[p].out[1]
    BY <1>3
  <2>2. PICK t \in Seq(Lines) : t = proc[p].mem.todo /\ t # <<>>
    BY <1>3, <1>6 DEF RunWrite
  <2>3. PICK x \in Lines, u \in Seq(Lines) : x = Head(t) /\ u = Tail(t)
    BY <2>2, HeadTailProperties
  <2>4. WriteTo(proc[p].out[1], Head(proc[p].mem.todo)) /\ proc' = [proc EXCEPT ![p].mem.todo = Tail(@)]
    BY <1>6 DEF RunWrite
  <2>5. WriteTo(k, x)
    BY <2>1, <2>2, <2>3, <2>4 DEF WriteTo
  <2>6. SystemOK(obj', file', dir') /\ Len(obj') = Len(obj)
    BY <1>0, <2>5, WriteOK
  <2>7. PICK m : m = [proc[p].mem EXCEPT !.todo = u]
    OBVIOUS
  <2>8. DOMAIN m = {"todo", "reads"} /\ m.todo \in Seq(Lines)
    BY <1>3, <2>7
  <2>9. PICK s : s = [proc[p] EXCEPT !.mem = m]
    OBVIOUS
  <2>10. ProcessOK(s, Len(obj))
    BY <1>4, <2>8, <2>9
  <2>11. proc' = [proc EXCEPT ![p] = s]
    BY <2>2, <2>3, <2>4, <2>7, <2>9
  <2>12. failures' \in Nat /\ failures <= failures' /\ Len(obj') \in Nat /\ Len(obj) <= Len(obj') /\ ProcessOK(s, Len(obj'))
    BY <1>0, <1>1, <2>6, <2>10
  <2> QED BY <1>2, <2>6, <2>11, <2>12, OneMoves
<1>7. CASE RunEnd(p)
  <2>1. PICK s : s = Ended(proc[p])
    OBVIOUS
  <2>2. ProcessOK(s, Len(obj))
    BY <1>0, <2>1, EndedOK
  <2>3. proc' = [proc EXCEPT ![p] = s] /\ UNCHANGED <<obj, files>>
    BY <1>7, <2>1 DEF RunEnd
  <2> QED BY <1>1, <1>2, <2>2, <2>3, SameSystem
<1> QED BY <1>5, <1>6, <1>7 DEF Run

-----------------------------------------------------------------------------
(* The theorems.                                                           *)

\* The lines of the files are lines.
LEMMA FileLines ==
  ASSUME NEW path \in DOMAIN InitialFiles
  PROVE  InitialFiles[path] \in Seq(Lines)
<1>1. PICK g : g = InitialFiles[path] OBVIOUS
<1>2. g \in Seq(Seq(STRING)) BY <1>1, ShellAssumption
<1>3. g \in Seq(Range(g)) BY <1>2, SeqOfRange
<1>4. Range(g) \subseteq Lines BY <1>1 DEF Lines, Commands
<1> QED BY <1>1, <1>3, <1>4, SeqMonotonic

\* A finite set as a sequence.
LEMMA SetAsSequence ==
  ASSUME NEW S, IsFiniteSet(S)
  PROVE  SetToSeq(S) \in Seq(S)
<1>1. PICK n \in Nat : n = Cardinality(S)
  BY FS_CardinalityType
<1>2. \E f \in [1 .. n -> S] : IsInjective(f)
  <2>1. PICK f : f \in Bijection(1 .. n, S)
    BY <1>1, FS_CardinalityType DEF ExistsBijection
  <2> QED BY <2>1 DEF Bijection, Injection, IsInjective
<1>3. SetToSeq(S) \in [1 .. n -> S]
  BY <1>1, <1>2 DEF SetToSeq
<1> QED BY <1>3, SeqDef

\* The first prompt.
LEMMA ShellStart ==
  ASSUME ShellInit
  PROVE  ShellInv
<1>1. PICK typed \in Typed : Start("prompt", Memory(<<>>), typed)
  BY DEF ShellInit
<1>2. typed \in Seq(Lines)
  <2>1. typed \in Seq(Seq(STRING)) BY ShellAssumption
  <2>2. typed \in Seq(Range(typed)) BY <2>1, SeqOfRange
  <2>3. Range(typed) \subseteq Lines BY DEF Lines, Commands
  <2> QED BY <2>2, <2>3, SeqMonotonic
<1>3. PICK paths : paths = SetToSeq(DOMAIN InitialFiles)
  OBVIOUS
<1>4. PICK n \in Nat : n = Len(paths) /\ DOMAIN paths = 1 .. n /\ paths \in Seq(DOMAIN InitialFiles)
  BY <1>3, PipesAssumption, SetAsSequence, LenProperties
<1>5. PICK x, t : x = Process("prompt", 0, Memory(<<>>)) /\ t = Terminal(typed)
  OBVIOUS
<1>6. proc = <<x>> /\ obj = <<t>> /\ failures = 0
  BY <1>1, <1>5 DEF Start
<1>7. PICK fs : fs = [k \in DOMAIN paths |-> InitialFiles[paths[k]]]
  OBVIOUS
<1>8. file = << <<>> >> \o fs /\ dir = [path \in DOMAIN InitialFiles |-> 1 + SelectInSeq(paths, LAMBDA y : y = path)]
  BY <1>1, <1>3, <1>7 DEF Start
<1>9. file \in Seq(Seq(Lines)) /\ Len(file) = 1 + n
  <2>1. PICK S : S = Seq(Lines) OBVIOUS
  <2>2. \A k \in 1 .. n : InitialFiles[paths[k]] \in S BY <1>4, <2>1, ElementOfSeq, FileLines
  <2>3. fs \in [1 .. n -> S] BY <1>4, <1>7, <2>2
  <2>4. fs \in Seq(S) BY <2>3, SeqDef
  <2>5. Len(fs) = n BY <1>4, <1>7
  <2>6. PICK z \in S : z = <<>> BY <2>1, EmptySeq
  <2>7. <<z>> \in Seq(S) /\ Len(<<z>>) = 1 OBVIOUS
  <2>8. <<z>> \o fs \in Seq(S) /\ Len(<<z>> \o fs) = Len(<<z>>) + Len(fs) BY <2>4, <2>7, ConcatProperties
  <2> QED BY <1>8, <2>1, <2>5, <2>6, <2>7, <2>8
<1>10. \A path \in DOMAIN dir : dir[path] \in 1 .. Len(file)
  <2> TAKE path \in DOMAIN dir
  <2>1. path \in DOMAIN InitialFiles BY <1>8
  <2> DEFINE I == {i \in 1 .. Len(paths) : paths[i] = path}
             m == IF I # {} THEN Min(I) ELSE 0
  <2>2. dir[path] = 1 + m BY <1>8, <2>1 DEF SelectInSeq
  <2>3. m \in 0 .. n
    <3>1. I \subseteq 1 .. n /\ I \subseteq Nat BY <1>4
    <3>2. I # {} => Min(I) \in I
      <4> HIDE DEF I
      <4> QED BY <3>1, MinIn
    <3>3. CASE I = {} BY <3>3
    <3>4. CASE I # {}
      <4>1. m = Min(I) BY <3>4
      <4>2. m \in 1 .. n BY <3>1, <3>2, <3>4, <4>1
      <4> HIDE DEF m
      <4> QED BY <4>2
    <3> QED BY <3>3, <3>4
  <2> HIDE DEF m
  <2> QED BY <1>9, <2>2, <2>3
<1>11. t \in Objects /\ ObjectOK(t, file)
  <2>1. t.kind = "tty" /\ t.file = 1 /\ t \in Objects
    BY <1>2, <1>5 DEF Terminal, Object, Screen, Objects
  <2>2. 1 \in 1 .. Len(file) BY <1>9
  <2> QED BY <2>1, <2>2 DEF ObjectOK
<1>12. obj \in Seq(Objects) /\ Len(obj) = 1 /\ obj[1] = t
  BY <1>6, <1>11
<1>13. SystemOK(obj, file, dir)
  <2>1. \A k \in 1 .. Len(obj) : k = 1 BY <1>12
  <2> QED BY <1>9, <1>10, <1>11, <1>12, <2>1 DEF SystemOK
<1>14. /\ DOMAIN x = ProcessFields /\ x.pc = "prompt" /\ x.in = R(1) /\ x.out = W(1) /\ x.more = {} /\ x.parent = 0
       /\ DOMAIN x.mem = MemoryFields /\ x.mem.ahead = <<>>
  BY <1>5 DEF Process, Memory, ProcessFields, MemoryFields
<1>15. ProcessOK(x, 1)
  <2>1. <<>> \in Seq(Lines) BY EmptySeq
  <2>2. MemoryOK(x.mem, "prompt", 1) BY <1>14, <2>1 DEF MemoryOK
  <2>3. R(1)[1] \in 1 .. 1 /\ W(1)[1] \in 1 .. 1 BY DEF R, W
  <2> QED BY <1>14, <2>2, <2>3 DEF ProcessOK, ShellPcs
<1>16. FirstOK(x, 0)
  BY <1>14 DEF FirstOK, EndsToCome
<1>17. IsSequence(proc) /\ DOMAIN proc = {1} /\ proc[1] = x
  BY <1>6 DEF IsSequence
<1>18. ProcessesOK(proc, 1, 0)
  BY <1>15, <1>16, <1>17 DEF ProcessesOK
<1> QED BY <1>6, <1>12, <1>13, <1>18 DEF ShellInv

\* Every step of the shell keeps the invariant.
LEMMA ShellSteps ==
  ASSUME ShellInv, [ShellNext]_os
  PROVE  ShellInv'
<1>1. CASE UNCHANGED os
  BY <1>1 DEF os, files, ShellInv
<1>2. ASSUME NEW p \in DOMAIN proc, ShellStep(p) \/ ForkFails(p)
      PROVE  ShellInv'
  BY <1>2, ReadLineStep, BuiltinStep, BasicForkStep, BasicChildStep, SetupStep, SpawnStageStep, StageChildStep,
     WaitStep, RunStep, ForkFailsStep DEF ShellStep
<1> QED BY <1>1, <1>2 DEF ShellNext

\* The state of the shell and of the system stays well formed: a live process
\* has open objects behind its descriptors 0 and 1, offsets and file numbers
\* are in range, and everything read is one of the lines that exist.
THEOREM ShellInvariance == ShellSpec => []ShellInv
BY ShellStart, ShellSteps, PTL DEF ShellSpec

\* At its prompt the shell that the user started holds its terminal and
\* nothing else, as long as no fork fails: spawnStage in the parent closes the
\* ends of every stage that setupCommandPipeline opened.
THEOREM PromptClean == ShellSpec => []PromptHoldsNothing
<1>1. ShellInv => PromptHoldsNothing
  <2> SUFFICES ASSUME ShellInv, proc[1].pc = "prompt", failures = 0 PROVE Held(1) = {R(1), W(1)}
    BY DEF PromptHoldsNothing
  <2>1. FirstOK(proc[1], failures)
    BY DEF ShellInv, ProcessesOK
  <2> QED BY <2>1 DEF FirstOK, EndsToCome, Held
<1> QED BY <1>1, ShellInvariance, PTL

-----------------------------------------------------------------------------
(* The fixed pipes: parts of a text.                                       *)

\* The sequence s over S is the part of t from place i + 1 to place j.
Part(S, s, t, i, j) ==
  /\ s \in Seq(S) /\ t \in Seq(S)
  /\ i \in Nat /\ j \in Nat /\ i <= j /\ j <= Len(t)
  /\ Len(s) = j - i
  /\ \A k \in 1 .. j - i : s[k] = t[i + k]

-----------------------------------------------------------------------------
(* The message of lab6.                                                    *)

\* What goes through the three pipes: the message, then its cipher.
Cipher == Shift(Message, 1)
Text(k) == IF k = P_TO_C1 THEN Message ELSE Cipher

\* The part of a process in the round trip.
Role(r) ==
  IF r.pc \in {"caesar", "fork2", "parent", "send", "receive", "printed"} THEN "parent"
  ELSE IF r.pc \in {"child1", "read1"} \/ (r.pc = "pass" /\ r.in = R(P_TO_C1)) THEN "first"
  ELSE "second"

\* A process that reads a message from pipe k, of which it has read n characters.
Reads(r, k, n) ==
  r.in = R(k) /\ Part(Int, r.mem.buf, Text(k), 0, n) /\ r.mem.bcap \in Nat /\ n + 2 <= r.mem.bcap

\* A process that writes a message into pipe k, and has written n characters.
Writes(r, k, n) ==
  r.out = W(k) /\ Part(Int, r.mem.todo, Text(k), n, Len(Text(k)))

\* A child that writes what it read.
Relays(r, i, o, m, w) ==
  Writes(r, o, w[o]) /\ r.in = R(i) /\ Len(r.mem.buf) < r.mem.bcap

\* Where a process is, when w[k] characters were written to pipe k and d[k] read.
Place(r, w, d) ==
  \/ r.pc = "zombie"
  \/ r.pc = "caesar" /\ r.mem = Empty /\ \A k \in 2 .. 4 : w[k] = 0 /\ d[k] = 0
  \/ r.pc = "child1" /\ r.mem = Empty /\ d[2] = 0 /\ w[3] = 0
  \/ r.pc = "fork2" /\ r.mem = Empty /\ w[2] = 0 /\ d[3] = 0 /\ w[4] = 0 /\ d[4] = 0
  \/ r.pc = "child2" /\ r.mem = Empty /\ d[3] = 0 /\ w[4] = 0
  \/ r.pc = "parent" /\ r.mem = Empty /\ w[2] = 0 /\ d[4] = 0
  \/ r.pc = "read1" /\ Reads(r, 2, d[2]) /\ r.out = W(3) /\ w[3] = 0
  \/ r.pc = "read2" /\ Reads(r, 3, d[3]) /\ r.out = W(4) /\ w[4] = 0
  \/ r.pc = "send" /\ Writes(r, 2, w[2]) /\ r.in = R(4) /\ r.mem.buf = <<>> /\ r.mem.bcap = BufferSize /\ d[4] = 0
  \/ r.pc = "receive" /\ Reads(r, 4, d[4])
  \/ r.pc = "printed" /\ r.mem.buf = Message /\ Len(r.mem.buf) < r.mem.bcap
  \/ r.pc = "pass" /\ \/ Relays(r, 2, 3, Message, w)
                      \/ Relays(r, 3, 4, Cipher, w)

\* The pipes that exist, by the place of a process.
Opened(r, n) ==
  /\ r.pc = "caesar" => n = 1
  /\ r.pc = "fork2" => n = 3
  /\ r.pc # "zombie" /\ Role(r) = "first" => n \in {3, 4}
  /\ r.pc \in {"parent", "send", "receive", "printed"} \/ (r.pc # "zombie" /\ Role(r) = "second") => n = 4

ObjectFields == {"kind", "file", "data", "at"}

\* The pipes hold what was written and not yet read.
InTransit(o, w, d) ==
  /\ IsSequence(o) /\ Len(o) \in {1, 3, 4}
  /\ \A k \in 2 .. Len(o) : DOMAIN o[k] = ObjectFields /\ o[k].kind = "pipe" /\ Part(Int, o[k].data, Text(k), d[k], w[k])

\* The processes of lab6.
Travelling(ps, o, w, d) ==
  /\ \A p \in DOMAIN ps : Place(ps[p], w, d) /\ Opened(ps[p], Len(o)) /\ DOMAIN ps[p] = ProcessFields
                          /\ (ps[p].pc # "zombie" => DOMAIN ps[p].mem = {"buf", "bcap", "todo"})
  /\ \A p, q \in DOMAIN ps : ps[p].pc # "zombie" /\ ps[q].pc # "zombie" /\ Role(ps[p]) = Role(ps[q]) => p = q
  /\ \A p \in DOMAIN ps : ps[p].pc = "caesar" => DOMAIN ps = {p}
  /\ \A p, q \in DOMAIN ps : ps[p].pc = "fork2" /\ ps[q].pc # "zombie" => Role(ps[q]) # "second"
  /\ InTransit(o, w, d)

\* The invariant of lab6.
CaesarInv == IsSequence(proc) /\ \E w, d \in [2 .. 4 -> Nat] : Travelling(proc, obj, w, d)


-----------------------------------------------------------------------------
(* The three programs of mt2 Q1.                                           *)

\* What a program delivers of an input, and so each of the three.
Delivered(name, input) ==
  Programs[name].gives \o SubSeq(input, 1, Min({Len(input), Programs[name].reads}))
Listed == Delivered("ls", <<>>)
Joined == Delivered("xargs", Listed)
Chosen == Delivered("cut", Joined)

Items == UNION {Range(Programs[name].gives) : name \in {"ls", "xargs", "cut"}}

\* A program that has written n items of its output, and read m of its input.
Working(r, name, in, out, n, m, input, output) ==
  /\ r.pc = "run" /\ r.in = in /\ r.out = out /\ r.more = {}
  /\ DOMAIN r.mem = {"todo", "reads"}
  /\ m \in Nat /\ m <= Len(input) /\ m <= Programs[name].reads
  /\ r.mem.reads = Programs[name].reads - m
  /\ Part(Items, r.mem.todo, output, n, Len(Programs[name].gives) + m)

\* The parent, which becomes cut.
CutPlace(ps, o, n, m) ==
  \/ ps[1].pc = "cut1" /\ ps[1].more = {} /\ ps[1].in = R(1) /\ ps[1].out = W(1) /\ Len(ps) = 1 /\ Len(o) = 1 /\ n = 0 /\ m = 0
  \/ ps[1].pc = "cut2" /\ ps[1].more = {R(2), W(2)} /\ ps[1].out = W(1) /\ Len(ps) = 2 /\ Len(o) = 2 /\ n = 0 /\ m = 0
  \/ ps[1].pc = "cut" /\ ps[1].more = {R(2), W(2), R(3), W(3)} /\ ps[1].out = W(1) /\ Len(ps) = 3 /\ Len(o) = 3 /\ n = 0 /\ m = 0
  \/ Working(ps[1], "cut", R(3), W(1), n, m, Joined, Chosen) /\ Len(ps) = 3 /\ Len(o) = 3
  \/ ps[1].pc = "zombie" /\ n = Len(Chosen) /\ Len(ps) = 3 /\ Len(o) = 3

\* A child that becomes ls.
LsPlace(ps, n) ==
  IF Len(ps) < 2 THEN n = 0
  ELSE \/ ps[2].pc = "ls" /\ ps[2].in = R(1) /\ ps[2].more = {R(2), W(2)} /\ n = 0
       \/ Working(ps[2], "ls", R(1), W(2), n, 0, <<>>, Listed)
       \/ ps[2].pc = "zombie" /\ (n = Len(Listed) \/ (Len(ps) = 3 /\ ps[3].pc = "zombie"))

\* A child that becomes xargs.
XargsPlace(ps, n, m) ==
  IF Len(ps) < 3 THEN n = 0 /\ m = 0
  ELSE \/ ps[3].pc = "xargs" /\ ps[3].more = {R(2), W(2), R(3), W(3)} /\ n = 0 /\ m = 0
       \/ Working(ps[3], "xargs", R(2), W(3), n, m, Listed, Joined)
       \/ ps[3].pc = "zombie" /\ (n = Len(Joined) \/ ps[1].pc = "zombie")

\* The pipe k holds the items of t from the m-th on, up to the n-th.
Holding(o, k, t, m, n) ==
  k <= Len(o) => DOMAIN o[k] = ObjectFields /\ o[k].kind = "pipe" /\ Part(Items, o[k].data, t, m, n)

\* The three programs, when n1, n2 and n3 items were written, m2 and m3 read.
Composed(ps, o, f, n1, n2, m2, n3, m3) ==
  /\ IsSequence(o)
  /\ CutPlace(ps, o, n3, m3) /\ LsPlace(ps, n1) /\ XargsPlace(ps, n2, m2)
  /\ Holding(o, 2, Listed, m2, n1) /\ Holding(o, 3, Joined, m3, n2)
  /\ o[1] = Terminal(<<>>)
  /\ Screen \in DOMAIN f /\ Part(Items, f[Screen], Chosen, 0, n3)

\* Where a process of mt2 Q1 can be.
Executes(r) == DOMAIN r = ProcessFields /\ r.pc \in {"cut1", "cut2", "cut", "ls", "xargs", "run", "zombie"}
Executing(ps) == IsSequence(ps) /\ 1 \in DOMAIN ps /\ \A p \in DOMAIN ps : Executes(ps[p])

\* The invariant of mt2 Q1: what it says of the items holds as long as no fork
\* failed.
CutInv ==
  /\ failures \in Nat /\ Executing(proc)
  /\ failures = 0 => \E n1, n2, m2, n3, m3 \in Nat : Composed(proc, obj, file, n1, n2, m2, n3, m3)
\* A sequence with one place changed.
LEMMA ExceptSequence ==
  ASSUME NEW s, IsSequence(s), NEW p \in DOMAIN s, NEW e
  PROVE  IsSequence([s EXCEPT ![p] = e]) /\ Len([s EXCEPT ![p] = e]) = Len(s)
<1>1. PICK t : t = [s EXCEPT ![p] = e]
  OBVIOUS
<1>2. PICK n \in Nat : n = Len(s) /\ DOMAIN s = 1 .. n
  BY DEF IsSequence
<1>3. DOMAIN t = 1 .. n /\ t = [k \in 1 .. n |-> t[k]]
  BY <1>1, <1>2
<1>4. Len(t) = n
  BY <1>3
<1> QED BY <1>1, <1>2, <1>3, <1>4 DEF IsSequence

\* A part read as far as it goes is the text.
LEMMA PartWhole ==
  ASSUME NEW S, NEW s, NEW t, Part(S, s, t, 0, Len(t))
  PROVE  s = t
<1>1. s \in Seq(S) /\ t \in Seq(S) /\ Len(t) \in Nat
  BY DEF Part
<1>2. Len(s) = Len(t)
  BY <1>1 DEF Part
<1>3. \A k \in 1 .. Len(s) : s[k] = t[k]
  BY <1>1, <1>2 DEF Part
<1> QED BY <1>1, <1>2, <1>3, SeqEqual

\* The text is a part of itself.
LEMMA WholePart ==
  ASSUME NEW S, NEW t \in Seq(S)
  PROVE  Part(S, t, t, 0, Len(t)) /\ Len(t) \in Nat
BY LenProperties DEF Part

\* The empty part.
LEMMA EmptyPart ==
  ASSUME NEW S, NEW t \in Seq(S), NEW i \in Nat, i <= Len(t)
  PROVE  Part(S, <<>>, t, i, i)
<1>1. <<>> \in Seq(S) /\ Len(<<>>) = 0
  BY EmptySeq
<1>2. i - i = 0 /\ \A k \in 1 .. i - i : FALSE
  OBVIOUS
<1> QED BY <1>1, <1>2 DEF Part

\* A part of no length is empty, and conversely.
LEMMA NoPart ==
  ASSUME NEW S, NEW s, NEW t, NEW i, NEW j, Part(S, s, t, i, j)
  PROVE  /\ s = <<>> <=> i = j
         /\ i \in Nat /\ j \in Nat /\ i <= j /\ j <= Len(t) /\ Len(t) \in Nat /\ Len(s) = j - i
         /\ s \in Seq(S) /\ t \in Seq(S)
<1>1. s \in Seq(S) /\ t \in Seq(S) /\ i \in Nat /\ j \in Nat /\ i <= j /\ j <= Len(t) /\ Len(s) = j - i
  BY DEF Part
<1>2. Len(t) \in Nat
  BY <1>1, LenProperties
<1>3. s = <<>> => Len(s) = 0
  BY EmptySeq
<1>4. s # <<>> => Len(s) # 0
  BY <1>1, EmptySeq
<1> QED BY <1>1, <1>2, <1>3, <1>4

\* One more item.
LEMMA PartGrows ==
  ASSUME NEW S, NEW s, NEW t, NEW i, NEW j, Part(S, s, t, i, j), j < Len(t)
  PROVE  Part(S, Append(s, t[j + 1]), t, i, j + 1)
<1>1. /\ s \in Seq(S) /\ t \in Seq(S) /\ i \in Nat /\ j \in Nat /\ i <= j /\ Len(s) = j - i /\ Len(t) \in Nat
  BY NoPart
<1>2. PICK x \in S : x = t[j + 1]
  <2>1. j + 1 \in 1 .. Len(t) BY <1>1
  <2> QED BY <1>1, <2>1, ElementOfSeq
<1>3. PICK u \in Seq(S) : /\ u = Append(s, x) /\ Len(u) = j - i + 1
                          /\ \A k \in 1 .. j - i : u[k] = s[k]
                          /\ u[j - i + 1] = x
  <2>1. PICK n \in Nat : n = Len(s) /\ n = j - i BY <1>1
  <2>2. /\ Append(s, x) \in Seq(S) /\ Len(Append(s, x)) = n + 1
        /\ \A k \in 1 .. n : Append(s, x)[k] = s[k]
        /\ Append(s, x)[n + 1] = x
    BY <1>1, <2>1, AppendProperties
  <2>3. PICK u \in Seq(S) : u = Append(s, x) BY <2>2
  <2> QED BY <2>1, <2>2, <2>3
<1>4. ASSUME NEW k \in 1 .. j + 1 - i PROVE u[k] = t[i + k]
  <2>1. CASE k = j - i + 1
    <3>1. i + k = j + 1 BY <1>1, <2>1
    <3> QED BY <1>2, <1>3, <2>1, <3>1
  <2>2. CASE k # j - i + 1
    <3>1. k \in 1 .. j - i BY <1>1, <2>2
    <3>2. s[k] = t[i + k] BY <3>1 DEF Part
    <3> QED BY <1>3, <3>1, <3>2
  <2> QED BY <2>1, <2>2
<1>5. j + 1 - i = j - i + 1 /\ j + 1 \in Nat /\ i <= j + 1 /\ j + 1 <= Len(t)
  BY <1>1
<1>6. Part(S, u, t, i, j + 1)
  BY <1>1, <1>3, <1>4, <1>5 DEF Part
<1> QED BY <1>2, <1>3, <1>6

\* The first item taken away.
LEMMA PartShrinks ==
  ASSUME NEW S, NEW s, NEW t, NEW i, NEW j, Part(S, s, t, i, j), s # <<>>
  PROVE  /\ Head(s) = t[i + 1] /\ t[i + 1] \in S /\ i < j /\ i + 1 \in 1 .. Len(t)
         /\ Part(S, Tail(s), t, i + 1, j) /\ Part(S, SubSeq(s, 2, Len(s)), t, i + 1, j)
<1>1. /\ s \in Seq(S) /\ t \in Seq(S) /\ i \in Nat /\ j \in Nat /\ i < j /\ Len(s) = j - i /\ Len(t) \in Nat /\ j <= Len(t)
  BY NoPart
<1>2. s[1] = t[i + 1] /\ Head(s) = s[1] /\ i + 1 \in 1 .. Len(t)
  <2>1. 1 \in 1 .. j - i BY <1>1
  <2>2. s[1] = t[i + 1] BY <2>1 DEF Part
  <2>3. i + 1 \in 1 .. Len(t) BY <1>1
  <2> QED BY <1>1, <2>2, <2>3
<1>3. PICK u \in Seq(S) : u = Tail(s) /\ Len(u) = j - (i + 1) /\ \A k \in 1 .. j - (i + 1) : u[k] = t[i + 1 + k]
  <2>1. PICK u \in Seq(S) : u = Tail(s) /\ Len(u) = Len(s) - 1 /\ \A k \in 1 .. Len(u) : u[k] = s[k + 1]
    BY <1>1, HeadTailProperties
  <2>2. Len(u) = j - (i + 1) BY <1>1, <2>1
  <2>3. ASSUME NEW k \in 1 .. j - (i + 1) PROVE u[k] = t[i + 1 + k]
    <3>1. k + 1 \in 1 .. j - i /\ i + (k + 1) = i + 1 + k BY <1>1
    <3>2. s[k + 1] = t[i + (k + 1)] BY <3>1 DEF Part
    <3> QED BY <2>1, <2>2, <3>1, <3>2
  <2> QED BY <2>1, <2>2, <2>3
<1>4. i + 1 \in Nat /\ i + 1 <= j
  BY <1>1
<1>5. Part(S, u, t, i + 1, j)
  BY <1>1, <1>3, <1>4 DEF Part
<1>6. PICK v \in Seq(S) : v = SubSeq(s, 2, Len(s)) /\ Len(v) = j - (i + 1) /\ \A k \in 1 .. j - (i + 1) : v[k] = t[i + 1 + k]
  <2>1. PICK n \in Nat : n = Len(s) /\ n = j - i /\ n >= 1 BY <1>1
  <2>2. \A k \in 2 .. n : s[k] \in S BY <1>1, <2>1, ElementOfSeq
  <2>3. /\ SubSeq(s, 2, n) \in Seq(S)
        /\ Len(SubSeq(s, 2, n)) = IF 2 <= n THEN n - 2 + 1 ELSE 0
        /\ \A k \in 1 .. n - 2 + 1 : SubSeq(s, 2, n)[k] = s[2 + k - 1]
    BY <2>2, SubSeqProperties
  <2>4. Len(SubSeq(s, 2, n)) = j - (i + 1) BY <1>1, <2>1, <2>3
  <2>5. ASSUME NEW k \in 1 .. j - (i + 1) PROVE SubSeq(s, 2, n)[k] = t[i + 1 + k]
    <3>1. k + 1 \in 1 .. j - i /\ i + (k + 1) = i + 1 + k /\ k \in 1 .. n - 2 + 1 /\ 2 + k - 1 = k + 1 BY <1>1, <2>1
    <3>2. s[k + 1] = t[i + (k + 1)] BY <3>1 DEF Part
    <3> QED BY <2>3, <3>1, <3>2
  <2> QED BY <2>1, <2>3, <2>4, <2>5
<1>7. Part(S, v, t, i + 1, j)
  BY <1>1, <1>4, <1>6 DEF Part
<1>8. t[i + 1] \in S
  BY <1>1, <1>2, ElementOfSeq
<1> QED BY <1>1, <1>2, <1>3, <1>5, <1>6, <1>7, <1>8

-----------------------------------------------------------------------------
(* The round trip of lab6.                                                 *)

\* A text that ends at its only newline, shifted.
LEMMA ShiftEnds ==
  ASSUME NEW s \in Seq(Int), \A k \in DOMAIN s : s[k] = Newline <=> k = Len(s), NEW by \in Int
  PROVE  Shift(s, by) = [k \in DOMAIN s |-> IF k < Len(s) THEN s[k] + by ELSE s[k]]
<1>1. PICK n \in Nat : n = Len(s) /\ DOMAIN s = 1 .. n
  BY LenProperties
<1> DEFINE I == {i \in 1 .. Len(s) : s[i] = Newline}
           m == IF I # {} THEN Min(I) ELSE 0
<1>2. Shift(s, by) = [k \in DOMAIN s |-> IF m = 0 \/ k < m THEN s[k] + by ELSE s[k]]
  BY DEF Shift, SelectInSeq
<1>3. m = n
  <2>1. CASE n = 0
    <3>1. I = {} BY <1>1, <2>1
    <3> QED BY <2>1, <3>1
  <2>2. CASE n # 0
    <3>1. I = {n} BY <1>1, <2>2
    <3>2. Min(I) \in I
      <4>1. I \subseteq Nat /\ I # {} BY <3>1
      <4> HIDE DEF I
      <4> QED BY <4>1, MinIn
    <3> HIDE DEF I
    <3> QED BY <3>1, <3>2
  <2> QED BY <2>1, <2>2
<1>4. ASSUME NEW k \in DOMAIN s
      PROVE  (IF m = 0 \/ k < m THEN s[k] + by ELSE s[k]) = (IF k < Len(s) THEN s[k] + by ELSE s[k])
  <2>1. n # 0 BY <1>1, <1>4
  <2> HIDE DEF m
  <2> QED BY <1>1, <1>3, <2>1
<1> HIDE DEF m
<1> QED BY <1>2, <1>4

\* The cipher is as long as the message, ends at its newline, and is deciphered.
LEMMA CipherText ==
  /\ Message \in Seq(Int) /\ Cipher \in Seq(Int) /\ Len(Cipher) = Len(Message) /\ Len(Message) \in Nat
  /\ \A k \in DOMAIN Message : Message[k] = Newline <=> k = Len(Message)
  /\ \A k \in DOMAIN Cipher : Cipher[k] = Newline <=> k = Len(Cipher)
  /\ Shift(Cipher, -1) = Message
<1> USE FixedAssumption
<1>1. PICK n \in Nat : n = Len(Message) /\ DOMAIN Message = 1 .. n /\ \A k \in 1 .. n : Message[k] \in Int
  BY LenProperties, ElementOfSeq
<1>2. Cipher = [k \in 1 .. n |-> IF k < n THEN Message[k] + 1 ELSE Message[k]]
  BY <1>1, ShiftEnds DEF Cipher
<1>3. Cipher \in [1 .. n -> Int]
  BY <1>1, <1>2
<1>4. PICK c \in Seq(Int) : c = Cipher /\ Len(c) = n /\ DOMAIN c = 1 .. n
  BY <1>3, SeqDef
<1>5. \A k \in DOMAIN c : c[k] = Newline <=> k = Len(c)
  BY <1>1, <1>2, <1>4
<1>6. Shift(c, -1) = [k \in DOMAIN c |-> IF k < Len(c) THEN c[k] + (-1) ELSE c[k]]
  <2>1. PICK by \in Int : by = -1 OBVIOUS
  <2>2. Shift(c, by) = [k \in DOMAIN c |-> IF k < Len(c) THEN c[k] + by ELSE c[k]] BY <1>4, <1>5, ShiftEnds
  <2> QED BY <2>1, <2>2
<1>7. \A k \in 1 .. n : (IF k < n THEN c[k] + (-1) ELSE c[k]) = Message[k]
  BY <1>1, <1>2, <1>4
<1>8. Message = [k \in 1 .. n |-> Message[k]]
  BY <1>1, LenProperties
<1>9. Shift(c, -1) = Message
  BY <1>4, <1>6, <1>7, <1>8
<1> QED BY <1>1, <1>4, <1>5, <1>9

\* Both texts are as long as the message and end at their only newline.
LEMMA TextFacts ==
  ASSUME NEW k
  PROVE  /\ Text(k) \in Seq(Int) /\ Len(Text(k)) = Len(Message) /\ Len(Text(k)) \in Nat
         /\ \A i \in DOMAIN Text(k) : Text(k)[i] = Newline <=> i = Len(Text(k))
BY CipherText DEF Text

\* The pipes a role writes to and reads from.
WritesTo(role) == CASE role = "parent" -> 2 [] role = "first" -> 3 [] role = "second" -> 4
ReadsFrom(role) == CASE role = "parent" -> 4 [] role = "first" -> 2 [] role = "second" -> 3

\* The counts v and e differ from w and d where the role writes and reads.
OwnCounts(role, w, d, v, e) ==
  \A k \in 2 .. 4 : (k # WritesTo(role) => v[k] = w[k]) /\ (k # ReadsFrom(role) => e[k] = d[k])

\* What one role writes and reads concerns no other role.
LEMMA OthersStay ==
  ASSUME NEW r, NEW w, NEW d, Place(r, w, d), r.pc # "caesar",
         NEW role \in {"parent", "first", "second"}, r.pc # "zombie" => role # Role(r),
         role = "second" => r.pc # "fork2",
         NEW v, NEW e, OwnCounts(role, w, d, v, e)
  PROVE  Place(r, v, e)
<1>1. CASE role = "parent"
  <2>1. v[3] = w[3] /\ v[4] = w[4] /\ e[2] = d[2] /\ e[3] = d[3]
    BY <1>1 DEF OwnCounts, WritesTo, ReadsFrom
  <2>2. r.pc \in {"zombie", "child1", "child2", "read1", "read2", "pass"}
    BY <1>1 DEF Place, Role
  <2> QED BY <2>1, <2>2 DEF Place, Relays
<1>2. CASE role = "first"
  <2>1. v[2] = w[2] /\ v[4] = w[4] /\ e[3] = d[3] /\ e[4] = d[4]
    BY <1>2 DEF OwnCounts, WritesTo, ReadsFrom
  <2>2. r.pc \notin {"child1", "read1"} /\ ~(r.pc = "pass" /\ r.in = R(2))
    BY <1>2 DEF Role, P_TO_C1
  <2> QED BY <2>1, <2>2 DEF Place, Relays
<1>3. CASE role = "second"
  <2>1. v[2] = w[2] /\ v[3] = w[3] /\ e[2] = d[2] /\ e[4] = d[4]
    BY <1>3 DEF OwnCounts, WritesTo, ReadsFrom
  <2>2. r.pc # "zombie" => Role(r) # "second"
    BY <1>3
  <2>3. r.pc \notin {"child2", "read2", "fork2"} /\ ~(r.pc = "pass" /\ r.in = R(3))
    <3>1. R(3) # R(2) BY DEF R
    <3> QED BY <1>3, <2>2, <3>1 DEF Role, P_TO_C1
  <2> QED BY <2>1, <2>3 DEF Place, Relays
<1> QED BY <1>1, <1>2, <1>3

\* The fields of a process, and of its memory.
Whole(r) == DOMAIN r = ProcessFields /\ (r.pc # "zombie" => DOMAIN r.mem = {"buf", "bcap", "todo"})

\* A step in which process p of ps becomes s.
LEMMA TravelMoves ==
  ASSUME NEW ps, IsSequence(ps), NEW o, NEW w, NEW d, Travelling(ps, o, w, d),
         NEW p \in DOMAIN ps, ps[p].pc # "zombie",
         NEW s, Whole(s), s.pc = "zombie" \/ Role(s) = Role(ps[p]), s.pc # "caesar",
         s.pc = "fork2" => ps[p].pc = "caesar",
         NEW v, NEW e, NEW u, InTransit(u, v, e), Place(s, v, e), Opened(s, Len(u)),
         \A q \in DOMAIN ps : q # p => Place(ps[q], v, e) /\ Opened(ps[q], Len(u))
  PROVE  IsSequence([ps EXCEPT ![p] = s]) /\ Travelling([ps EXCEPT ![p] = s], u, v, e)
<1>1. PICK ns : ns = [ps EXCEPT ![p] = s]
  OBVIOUS
<1>2. DOMAIN ns = DOMAIN ps /\ ns[p] = s /\ \A q \in DOMAIN ps : q # p => ns[q] = ps[q]
  BY <1>1
<1>3. IsSequence(ns)
  BY <1>1, ExceptSequence
<1>4. \A q \in DOMAIN ns : Place(ns[q], v, e) /\ Opened(ns[q], Len(u)) /\ DOMAIN ns[q] = ProcessFields
                           /\ (ns[q].pc # "zombie" => DOMAIN ns[q].mem = {"buf", "bcap", "todo"})
  BY <1>2 DEF Whole, Travelling
<1>5. \A q, t \in DOMAIN ns : ns[q].pc # "zombie" /\ ns[t].pc # "zombie" /\ Role(ns[q]) = Role(ns[t]) => q = t
  BY <1>2 DEF Travelling
<1>6. \A q \in DOMAIN ns : ns[q].pc = "caesar" => DOMAIN ns = {q}
  BY <1>2 DEF Travelling
<1>7. \A q, t \in DOMAIN ns : ns[q].pc = "fork2" /\ ns[t].pc # "zombie" => Role(ns[t]) # "second"
  <2> SUFFICES ASSUME NEW q \in DOMAIN ns, NEW t \in DOMAIN ns, ns[q].pc = "fork2", ns[t].pc # "zombie"
               PROVE  Role(ns[t]) # "second"
    OBVIOUS
  <2>1. CASE q = p
    <3>1. DOMAIN ps = {p} BY <1>2, <2>1 DEF Travelling
    <3>2. ns[t].pc = "fork2" BY <1>2, <2>1, <3>1
    <3> QED BY <3>2 DEF Role
  <2>2. CASE q # p
    <3>1. ps[q].pc = "fork2" BY <1>2, <2>2
    <3>2. Role(ns[t]) = Role(ps[t]) /\ ps[t].pc # "zombie" BY <1>2
    <3> QED BY <1>2, <3>1, <3>2 DEF Travelling
  <2> QED BY <2>1, <2>2
<1> QED BY <1>1, <1>3, <1>4, <1>5, <1>6, <1>7 DEF Travelling

\* Two sequences joined.
LEMMA JoinSequence ==
  ASSUME NEW s, IsSequence(s), NEW t, IsSequence(t)
  PROVE  /\ IsSequence(s \o t) /\ Len(s \o t) = Len(s) + Len(t)
         /\ \A k \in 1 .. Len(s) : (s \o t)[k] = s[k]
         /\ \A k \in 1 .. Len(t) : (s \o t)[Len(s) + k] = t[k]
<1> DEFINE S == {s[k] : k \in 1 .. Len(s)} \union {t[k] : k \in 1 .. Len(t)}
<1>1. (\A k \in 1 .. Len(s) : s[k] \in S) /\ (\A k \in 1 .. Len(t) : t[k] \in S)
  OBVIOUS
<1> HIDE DEF S
<1>2. s \in Seq(S) /\ t \in Seq(S) /\ Len(s) \in Nat /\ Len(t) \in Nat
  BY <1>1, SeqDef DEF IsSequence
<1>3. PICK m \in Nat, n \in Nat : m = Len(s) /\ n = Len(t)
  BY <1>2
<1>4. PICK u \in Seq(S) : /\ u = s \o t /\ Len(u) = m + n
                          /\ \A k \in 1 .. m + n : u[k] = IF k <= m THEN s[k] ELSE t[k - m]
  <2>1. /\ s \o t \in Seq(S) /\ Len(s \o t) = m + n
        /\ \A k \in 1 .. m + n : (s \o t)[k] = IF k <= m THEN s[k] ELSE t[k - m]
    BY <1>2, <1>3, ConcatProperties
  <2>2. PICK u \in Seq(S) : u = s \o t BY <2>1
  <2> QED BY <2>1, <2>2
<1>5. \A k \in 1 .. m : u[k] = s[k]
  <2> TAKE k \in 1 .. m
  <2>1. k \in 1 .. m + n /\ k <= m BY <1>3
  <2> QED BY <1>4, <2>1
<1>6. \A k \in 1 .. n : u[m + k] = t[k]
  <2> TAKE k \in 1 .. n
  <2>1. m + k \in 1 .. m + n /\ ~(m + k <= m) /\ (m + k) - m = k BY <1>3
  <2> QED BY <1>4, <2>1
<1>7. IsSequence(u)
  <2>1. Len(u) \in Nat /\ u \in [1 .. Len(u) -> S] /\ DOMAIN u = 1 .. Len(u) BY LenProperties
  <2> QED BY <2>1 DEF IsSequence
<1> QED BY <1>3, <1>4, <1>5, <1>6, <1>7

\* A new pipe is empty.
LEMMA NewPipe ==
  ASSUME NEW S, NEW t \in Seq(S)
  PROVE  /\ DOMAIN Pipe = ObjectFields /\ Pipe.kind = "pipe" /\ Part(S, Pipe.data, t, 0, 0)
         /\ IsSequence(<<Pipe>>) /\ Len(<<Pipe>>) = 1
<1>1. Pipe.data = <<>> /\ DOMAIN Pipe = ObjectFields /\ Pipe.kind = "pipe"
  BY DEF Pipe, Object, ObjectFields
<1>2. Part(S, <<>>, t, 0, 0)
  <2>1. 0 \in Nat /\ 0 <= Len(t) BY LenProperties
  <2> QED BY <2>1, EmptyPart
<1> QED BY <1>1, <1>2 DEF IsSequence

\* The objects u are those of o after x was written to pipe k, or one item
\* was read from it.
Put(u, o, k, x) == u = [o EXCEPT ![k].data = Append(@, x)]
Took(u, o, k) == u = [o EXCEPT ![k].data = SubSeq(@, 2, Len(@))]
Counted(v, w, k) == v = [w EXCEPT ![k] = w[k] + 1]

\* The pipes after a character was written to pipe k.
LEMMA PutTransit ==
  ASSUME NEW o, NEW w \in [2 .. 4 -> Nat], NEW d \in [2 .. 4 -> Nat], InTransit(o, w, d),
         NEW k \in 2 .. 4, k <= Len(o), w[k] < Len(Text(k)), NEW u, Put(u, o, k, Text(k)[w[k] + 1]),
         NEW v, Counted(v, w, k)
  PROVE  InTransit(u, v, d) /\ Len(u) = Len(o)
<1>0. IsSequence(o) /\ Len(o) \in {1, 3, 4} /\ DOMAIN o = 1 .. Len(o)
  BY DEF InTransit, IsSequence
<1>1. IsSequence(o) /\ Len(o) \in {1, 3, 4} /\ k \in DOMAIN o /\ k \in 2 .. Len(o)
  <2>1. PICK n \in Nat : n = Len(o) BY <1>0
  <2>2. k \in 1 .. n /\ k \in 2 .. n BY <2>1
  <2> QED BY <1>0, <2>1, <2>2
<1>2. PICK b : b = o[k]
  OBVIOUS
<1>3. DOMAIN b = ObjectFields /\ b.kind = "pipe" /\ Part(Int, b.data, Text(k), d[k], w[k])
  BY <1>1, <1>2 DEF InTransit
<1>4. PICK c : c = Append(b.data, Text(k)[w[k] + 1])
  OBVIOUS
<1>5. Part(Int, c, Text(k), d[k], w[k] + 1)
  BY <1>3, <1>4, PartGrows
<1>6. PICK f : f = [b EXCEPT !.data = c]
  OBVIOUS
<1>7. DOMAIN f = ObjectFields /\ f.kind = "pipe" /\ f.data = c
  BY <1>3, <1>6 DEF ObjectFields
<1>8. u = [o EXCEPT ![k] = f]
  BY <1>1, <1>2, <1>4, <1>6 DEF Put
<1>9. IsSequence(u) /\ Len(u) = Len(o) /\ u[k] = f /\ \A i \in DOMAIN o : i # k => u[i] = o[i]
  <2>1. IsSequence([o EXCEPT ![k] = f]) /\ Len([o EXCEPT ![k] = f]) = Len(o) BY <1>1, ExceptSequence
  <2>2. u[k] = f /\ \A i \in DOMAIN o : i # k => u[i] = o[i] BY <1>1, <1>8
  <2> QED BY <1>8, <2>1, <2>2
<1>11. v[k] = w[k] + 1 /\ \A i \in 2 .. 4 : i # k => v[i] = w[i]
  BY DEF Counted
<1>12. ASSUME NEW i \in 2 .. Len(u)
       PROVE  DOMAIN u[i] = ObjectFields /\ u[i].kind = "pipe" /\ Part(Int, u[i].data, Text(i), d[i], v[i])
  <2>1. i \in 2 .. 4 /\ i \in 2 .. Len(o) /\ i \in DOMAIN o BY <1>1, <1>9 DEF IsSequence
  <2>2. CASE i = k BY <1>5, <1>7, <1>9, <1>11, <2>2
  <2>3. CASE i # k BY <1>9, <1>11, <2>1, <2>3 DEF InTransit
  <2> QED BY <2>2, <2>3
<1> QED BY <1>1, <1>9, <1>12 DEF InTransit

\* The pipes after a character was read from pipe k.
LEMMA TakeTransit ==
  ASSUME NEW o, NEW w \in [2 .. 4 -> Nat], NEW d \in [2 .. 4 -> Nat], InTransit(o, w, d),
         NEW k \in 2 .. 4, k <= Len(o), o[k].data # <<>>, NEW u, Took(u, o, k), NEW v, Counted(v, d, k)
  PROVE  InTransit(u, w, v) /\ Len(u) = Len(o)
<1>0. IsSequence(o) /\ Len(o) \in {1, 3, 4} /\ DOMAIN o = 1 .. Len(o)
  BY DEF InTransit, IsSequence
<1>1. IsSequence(o) /\ Len(o) \in {1, 3, 4} /\ k \in DOMAIN o /\ k \in 2 .. Len(o)
  <2>1. PICK n \in Nat : n = Len(o) BY <1>0
  <2>2. k \in 1 .. n /\ k \in 2 .. n BY <2>1
  <2> QED BY <1>0, <2>1, <2>2
<1>2. PICK b : b = o[k]
  OBVIOUS
<1>3. DOMAIN b = ObjectFields /\ b.kind = "pipe" /\ Part(Int, b.data, Text(k), d[k], w[k]) /\ b.data # <<>>
  BY <1>1, <1>2 DEF InTransit
<1>4. PICK c : c = SubSeq(b.data, 2, Len(b.data))
  OBVIOUS
<1>5. Part(Int, c, Text(k), d[k] + 1, w[k])
  BY <1>3, <1>4, PartShrinks
<1>6. PICK f : f = [b EXCEPT !.data = c]
  OBVIOUS
<1>7. DOMAIN f = ObjectFields /\ f.kind = "pipe" /\ f.data = c
  BY <1>3, <1>6 DEF ObjectFields
<1>8. u = [o EXCEPT ![k] = f]
  BY <1>1, <1>2, <1>4, <1>6 DEF Took
<1>9. IsSequence(u) /\ Len(u) = Len(o) /\ u[k] = f /\ \A i \in DOMAIN o : i # k => u[i] = o[i]
  <2>1. IsSequence([o EXCEPT ![k] = f]) /\ Len([o EXCEPT ![k] = f]) = Len(o) BY <1>1, ExceptSequence
  <2>2. u[k] = f /\ \A i \in DOMAIN o : i # k => u[i] = o[i] BY <1>1, <1>8
  <2> QED BY <1>8, <2>1, <2>2
<1>11. v[k] = d[k] + 1 /\ \A i \in 2 .. 4 : i # k => v[i] = d[i]
  BY DEF Counted
<1>12. ASSUME NEW i \in 2 .. Len(u)
       PROVE  DOMAIN u[i] = ObjectFields /\ u[i].kind = "pipe" /\ Part(Int, u[i].data, Text(i), v[i], w[i])
  <2>1. i \in 2 .. 4 /\ i \in 2 .. Len(o) /\ i \in DOMAIN o BY <1>1, <1>9 DEF IsSequence
  <2>2. CASE i = k BY <1>5, <1>7, <1>9, <1>11, <2>2
  <2>3. CASE i # k BY <1>9, <1>11, <2>1, <2>3 DEF InTransit
  <2> QED BY <2>2, <2>3
<1> QED BY <1>1, <1>9, <1>12 DEF InTransit

\* A new process c besides those of ps.
LEMMA TravelAppends ==
  ASSUME NEW ps, IsSequence(ps), NEW o, NEW w, NEW d, Travelling(ps, o, w, d),
         NEW c, Whole(c), Place(c, w, d), Opened(c, Len(o)), c.pc \in {"child1", "child2"},
         \A q \in DOMAIN ps : ps[q].pc # "zombie" => Role(ps[q]) # Role(c),
         \A q \in DOMAIN ps : ps[q].pc # "caesar" /\ (ps[q].pc = "fork2" => c.pc = "child1")
  PROVE  IsSequence(Append(ps, c)) /\ Travelling(Append(ps, c), o, w, d)
<1>1. PICK n \in Nat : n = Len(ps) /\ DOMAIN ps = 1 .. n
  BY DEF IsSequence
<1>2. PICK ns : ns = Append(ps, c)
  OBVIOUS
<1>3. IsSequence(ns) /\ Len(ns) = n + 1 /\ (\A k \in 1 .. n : ns[k] = ps[k]) /\ ns[n + 1] = c
  BY <1>1, <1>2, AppendSequence
<1>4. DOMAIN ns = 1 .. n + 1
  BY <1>3 DEF IsSequence
<1>5. \A q \in DOMAIN ns : q = n + 1 \/ q \in DOMAIN ps
  BY <1>1, <1>4
<1>6. /\ \A q \in DOMAIN ps : q \in DOMAIN ns /\ ns[q] = ps[q] /\ q # n + 1
      /\ n + 1 \in DOMAIN ns /\ ns[n + 1] = c
  BY <1>1, <1>3, <1>4
<1>7. \A q \in DOMAIN ns : Place(ns[q], w, d) /\ Opened(ns[q], Len(o)) /\ DOMAIN ns[q] = ProcessFields
                           /\ (ns[q].pc # "zombie" => DOMAIN ns[q].mem = {"buf", "bcap", "todo"})
  BY <1>5, <1>6 DEF Whole, Travelling
<1>8. \A q, t \in DOMAIN ns : ns[q].pc # "zombie" /\ ns[t].pc # "zombie" /\ Role(ns[q]) = Role(ns[t]) => q = t
  <2> SUFFICES ASSUME NEW q \in DOMAIN ns, NEW t \in DOMAIN ns, ns[q].pc # "zombie", ns[t].pc # "zombie",
                      Role(ns[q]) = Role(ns[t])
               PROVE  q = t
    OBVIOUS
  <2>1. CASE q = n + 1 BY <1>5, <1>6, <2>1
  <2>2. CASE t = n + 1 BY <1>5, <1>6, <2>2
  <2>3. CASE q \in DOMAIN ps /\ t \in DOMAIN ps BY <1>6, <2>3 DEF Travelling
  <2> QED BY <1>5, <2>1, <2>2, <2>3
<1>9. \A q \in DOMAIN ns : ns[q].pc # "caesar"
  BY <1>5, <1>6
<1>10. \A q, t \in DOMAIN ns : ns[q].pc = "fork2" /\ ns[t].pc # "zombie" => Role(ns[t]) # "second"
  <2> SUFFICES ASSUME NEW q \in DOMAIN ns, NEW t \in DOMAIN ns, ns[q].pc = "fork2", ns[t].pc # "zombie"
               PROVE  Role(ns[t]) # "second"
    OBVIOUS
  <2>1. q \in DOMAIN ps /\ ps[q].pc = "fork2" /\ c.pc = "child1" BY <1>5, <1>6
  <2>2. CASE t = n + 1 BY <1>6, <2>1, <2>2 DEF Role
  <2>3. CASE t \in DOMAIN ps BY <1>6, <2>1, <2>3 DEF Travelling
  <2> QED BY <1>5, <2>2, <2>3
<1>11. InTransit(o, w, d)
  BY DEF Travelling
<1> QED BY <1>2, <1>3, <1>7, <1>8, <1>9, <1>10, <1>11 DEF Travelling

\* The places of the other processes, after p wrote or read.
LEMMA OthersPlaced ==
  ASSUME NEW ps, NEW o, NEW w, NEW d, Travelling(ps, o, w, d), NEW p \in DOMAIN ps, ps[p].pc \notin {"zombie", "caesar"},
         NEW v, NEW e, OwnCounts(Role(ps[p]), w, d, v, e)
  PROVE  \A q \in DOMAIN ps : q # p => Place(ps[q], v, e)
<1> SUFFICES ASSUME NEW q \in DOMAIN ps, q # p PROVE Place(ps[q], v, e)
  OBVIOUS
<1>1. PICK role : role = Role(ps[p])
  OBVIOUS
<1>2. role \in {"parent", "first", "second"}
  BY <1>1 DEF Role
<1>3. Place(ps[q], w, d) /\ ps[q].pc # "caesar"
  BY DEF Travelling
<1>4. ps[q].pc # "zombie" => role # Role(ps[q])
  BY <1>1 DEF Travelling
<1>5. role = "second" => ps[q].pc # "fork2"
  BY <1>1 DEF Travelling
<1>6. OwnCounts(role, w, d, v, e)
  BY <1>1
<1> QED BY <1>2, <1>3, <1>4, <1>5, <1>6, OthersStay

\* A process that ends.
LEMMA EndTravels ==
  ASSUME CaesarInv, NEW p \in DOMAIN proc, proc[p].pc # "zombie", proc' = [proc EXCEPT ![p] = Ended(proc[p])], obj' = obj
  PROVE  CaesarInv'
<1>1. PICK w \in [2 .. 4 -> Nat], d \in [2 .. 4 -> Nat] : IsSequence(proc) /\ Travelling(proc, obj, w, d)
  BY DEF CaesarInv
<1>2. PICK s : s = Ended(proc[p])
  OBVIOUS
<1>3. DOMAIN proc[p] = ProcessFields
  BY <1>1 DEF Travelling
<1>4. s.pc = "zombie" /\ Whole(s)
  BY <1>2, <1>3 DEF Ended, Whole, ProcessFields
<1>5. Place(s, w, d) /\ Opened(s, Len(obj)) /\ s.pc # "caesar" /\ s.pc # "fork2"
  BY <1>4 DEF Place, Opened
<1>6. InTransit(obj, w, d) /\ \A q \in DOMAIN proc : q # p => Place(proc[q], w, d) /\ Opened(proc[q], Len(obj))
  BY <1>1 DEF Travelling
<1>7. IsSequence([proc EXCEPT ![p] = s]) /\ Travelling([proc EXCEPT ![p] = s], obj, w, d)
  BY <1>1, <1>4, <1>5, <1>6, TravelMoves
<1> QED BY <1>2, <1>7 DEF CaesarInv

\* A step in which a process moves on and the pipes change to u.
LEMMA GoesOn ==
  ASSUME CaesarInv, NEW w \in [2 .. 4 -> Nat], NEW d \in [2 .. 4 -> Nat], Travelling(proc, obj, w, d),
         NEW p \in DOMAIN proc, proc[p].pc \notin {"zombie", "caesar"},
         NEW s, Whole(s), Role(s) = Role(proc[p]), s.pc \notin {"zombie", "caesar", "fork2"},
         NEW v \in [2 .. 4 -> Nat], NEW e \in [2 .. 4 -> Nat],
         OwnCounts(Role(proc[p]), w, d, v, e),
         Place(s, v, e), Opened(s, Len(obj)),
         proc' = [proc EXCEPT ![p] = s], NEW u, obj' = u, InTransit(u, v, e), Len(u) = Len(obj)
  PROVE  CaesarInv'
<1>1. \A q \in DOMAIN proc : q # p => Place(proc[q], v, e)
  BY OthersPlaced
<1>2. \A q \in DOMAIN proc : q # p => Opened(proc[q], Len(u))
  BY DEF Travelling
<1>3. IsSequence(proc)
  BY DEF CaesarInv
<1>4. IsSequence([proc EXCEPT ![p] = s]) /\ Travelling([proc EXCEPT ![p] = s], u, v, e)
  BY <1>1, <1>2, <1>3, TravelMoves
<1> QED BY <1>4 DEF CaesarInv

\* The pipe behind the output of a process that writes.
LEMMA WriterFacts ==
  ASSUME NEW r, NEW w, NEW d, NEW n, Place(r, w, d), Opened(r, n), r.pc \in {"pass", "send"}
  PROVE  \E k \in 2 .. 4 : k = WritesTo(Role(r)) /\ Writes(r, k, w[k]) /\ k <= n
<1>1. CASE r.pc = "send"
  <2>1. Role(r) = "parent" /\ Writes(r, 2, w[2]) /\ n = 4 BY <1>1 DEF Place, Role, Opened
  <2> QED BY <2>1 DEF WritesTo
<1>2. CASE r.pc = "pass"
  <2>1. Relays(r, 2, 3, Message, w) \/ Relays(r, 3, 4, Cipher, w) BY <1>2 DEF Place
  <2>2. CASE Relays(r, 2, 3, Message, w)
    <3>1. Role(r) = "first" /\ Writes(r, 3, w[3]) BY <1>2, <2>2 DEF Relays, Role, P_TO_C1
    <3>2. n \in {3, 4} BY <1>2, <3>1 DEF Opened
    <3>3. 3 <= n BY <3>2
    <3> QED BY <3>1, <3>3 DEF WritesTo
  <2>3. CASE Relays(r, 3, 4, Cipher, w)
    <3>1. r.in = R(3) /\ R(3) # R(2) BY <2>3 DEF Relays, R
    <3>2. Role(r) = "second" /\ Writes(r, 4, w[4]) BY <1>2, <2>3, <3>1 DEF Relays, Role, P_TO_C1
    <3>3. n = 4 BY <1>2, <3>2 DEF Opened
    <3> QED BY <3>2, <3>3 DEF WritesTo
  <2> QED BY <2>1, <2>2, <2>3
<1> QED BY <1>1, <1>2

\* write_message.
LEMMA WriteMessageStep ==
  ASSUME CaesarInv, NEW p \in DOMAIN proc, WriteMessage(p)
  PROVE  CaesarInv'
<1>1. PICK w \in [2 .. 4 -> Nat], d \in [2 .. 4 -> Nat] : IsSequence(proc) /\ Travelling(proc, obj, w, d)
  BY DEF CaesarInv
<1>2. PICK r : r = proc[p]
  OBVIOUS
<1>3. Place(r, w, d) /\ Opened(r, Len(obj)) /\ Whole(r) /\ InTransit(obj, w, d)
  BY <1>1, <1>2 DEF Travelling, Whole
<1>4. r.pc \in {"pass", "send"} /\ r.mem.todo # <<>>
  BY <1>2 DEF WriteMessage
<1>5. PICK k \in 2 .. 4 : k = WritesTo(Role(r)) /\ Writes(r, k, w[k]) /\ k <= Len(obj)
  BY <1>3, <1>4, WriterFacts
<1>6. /\ r.out[1] = k /\ Part(Int, r.mem.todo, Text(k), w[k], Len(Text(k)))
      /\ Head(r.mem.todo) = Text(k)[w[k] + 1] /\ Part(Int, Tail(r.mem.todo), Text(k), w[k] + 1, Len(Text(k)))
      /\ w[k] < Len(Text(k))
  <2>1. PICK t, n, a : t = Text(k) /\ n = w[k] /\ a = r.mem.todo OBVIOUS
  <2>2. r.out = W(k) /\ Part(Int, a, t, n, Len(t)) /\ a # <<>> BY <1>4, <1>5, <2>1 DEF Writes
  <2>3. Head(a) = t[n + 1] /\ n < Len(t) /\ Part(Int, Tail(a), t, n + 1, Len(t)) BY <2>2, PartShrinks
  <2>4. W(k)[1] = k BY DEF W
  <2> QED BY <2>1, <2>2, <2>3, <2>4
<1>7. Len(obj) \in {1, 3, 4} /\ IsSequence(obj)
  BY <1>3 DEF InTransit
<1>8. k \in 2 .. Len(obj) /\ obj[k].kind = "pipe"
  <2>1. k \in 2 .. Len(obj) BY <1>5, <1>7
  <2> QED BY <1>3, <2>1 DEF InTransit
<1>9. CASE Broken(k)
  <2>1. proc' = [proc EXCEPT ![p] = Ended(@)] /\ obj' = obj BY <1>2, <1>6, <1>9 DEF WriteMessage
  <2>2. proc' = [proc EXCEPT ![p] = Ended(proc[p])] BY <2>1
  <2>3. proc[p].pc # "zombie" BY <1>2, <1>4
  <2> QED BY <2>1, <2>2, <2>3, EndTravels
<1>10. CASE ~Broken(k)
  <2>1. PICK x : x = Head(r.mem.todo) OBVIOUS
  <2>2. WriteTo(k, x) /\ proc' = [proc EXCEPT ![p].mem.todo = Tail(@)]
    BY <1>2, <1>6, <1>10, <2>1 DEF WriteMessage
  <2>3. obj' = [obj EXCEPT ![k].data = Append(@, x)] BY <1>8, <2>2 DEF WriteTo
  <2>4. PICK u : u = obj' OBVIOUS
  <2>5. PICK v : v = [w EXCEPT ![k] = @ + 1] OBVIOUS
  <2>6. v \in [2 .. 4 -> Nat] /\ v[k] = w[k] + 1 /\ \A i \in 2 .. 4 : i # k => v[i] = w[i] BY <2>5
  <2>7. InTransit(u, v, d) /\ Len(u) = Len(obj)
    <3>1. Put(u, obj, k, Text(k)[w[k] + 1]) BY <1>6, <2>1, <2>3, <2>4 DEF Put
    <3>2. Counted(v, w, k) BY <2>5 DEF Counted
    <3>3. w[k] < Len(Text(k)) /\ k <= Len(obj) BY <1>5, <1>6
    <3> QED BY <1>1, <1>3, <1>5, <3>1, <3>2, <3>3, PutTransit
  <2>8. PICK t : t = Tail(r.mem.todo) OBVIOUS
  <2>9. PICK m : m = [r.mem EXCEPT !.todo = t] OBVIOUS
  <2>10. PICK s : s = [r EXCEPT !.mem = m] OBVIOUS
  <2>11. proc' = [proc EXCEPT ![p] = s] BY <1>2, <2>2, <2>8, <2>9, <2>10
  <2>12. DOMAIN r = ProcessFields /\ DOMAIN r.mem = {"buf", "bcap", "todo"} BY <1>3, <1>4 DEF Whole
  <2>13. /\ s.pc = r.pc /\ s.in = r.in /\ s.out = r.out /\ DOMAIN s = ProcessFields /\ s.mem = m
         /\ m.todo = t /\ m.buf = r.mem.buf /\ m.bcap = r.mem.bcap /\ DOMAIN m = {"buf", "bcap", "todo"}
    BY <2>9, <2>10, <2>12 DEF ProcessFields
  <2>14. Whole(s) /\ Role(s) = Role(r) /\ s.pc \notin {"zombie", "caesar", "fork2"} /\ Opened(s, Len(obj))
    BY <1>3, <1>4, <2>13 DEF Whole, Role, Opened
  <2>15. Writes(s, k, v[k])
    BY <1>5, <1>6, <2>6, <2>8, <2>13 DEF Writes
  <2>16. Place(s, v, d)
    <3>1. CASE r.pc = "send"
      <4>1. k = 2 BY <1>5, <3>1 DEF WritesTo, Role
      <4>2. r.in = R(4) /\ r.mem.buf = <<>> /\ r.mem.bcap = BufferSize /\ d[4] = 0 BY <1>3, <3>1 DEF Place
      <4> QED BY <2>13, <2>15, <3>1, <4>1, <4>2 DEF Place
    <3>2. CASE r.pc = "pass"
      <4>1. Relays(r, 2, 3, Message, w) \/ Relays(r, 3, 4, Cipher, w) BY <1>3, <3>2 DEF Place
      <4>2. r.out = W(k) /\ W(3) # W(4) /\ W(2) # W(3) /\ W(2) # W(4) BY <1>5 DEF Writes, W
      <4>3. CASE Relays(r, 2, 3, Message, w)
        <5>1. r.out = W(3) BY <4>3 DEF Relays, Writes
        <5>2. k = 3 BY <4>2, <5>1 DEF W
        <5>3. Relays(s, 2, 3, Message, v) BY <2>13, <2>15, <4>3, <5>2 DEF Relays
        <5> QED BY <2>13, <3>2, <5>3 DEF Place
      <4>4. CASE Relays(r, 3, 4, Cipher, w)
        <5>1. r.out = W(4) BY <4>4 DEF Relays, Writes
        <5>2. k = 4 BY <4>2, <5>1 DEF W
        <5>3. Relays(s, 3, 4, Cipher, v) BY <2>13, <2>15, <4>4, <5>2 DEF Relays
        <5> QED BY <2>13, <3>2, <5>3 DEF Place
      <4> QED BY <4>1, <4>3, <4>4
    <3> QED BY <1>4, <3>1, <3>2
  <2>17. OwnCounts(Role(proc[p]), w, d, v, d)
    BY <1>2, <1>5, <2>6 DEF OwnCounts
  <2>18. proc[p].pc \notin {"zombie", "caesar"} /\ Role(s) = Role(proc[p]) BY <1>2, <1>4, <2>14
  <2> QED BY <1>1, <2>4, <2>6, <2>7, <2>11, <2>14, <2>16, <2>17, <2>18, GoesOn
<1> QED BY <1>9, <1>10


\* The pipe behind the input of a process that reads.
LEMMA ReaderFacts ==
  ASSUME NEW r, NEW w, NEW d, NEW n, Place(r, w, d), Opened(r, n), r.pc \in {"read1", "read2", "receive"}
  PROVE  \E k \in 2 .. 4 : k = ReadsFrom(Role(r)) /\ Reads(r, k, d[k]) /\ k <= n
<1>1. CASE r.pc = "read1"
  <2>1. Role(r) = "first" /\ Reads(r, 2, d[2]) BY <1>1 DEF Place, Role
  <2>2. n \in {3, 4} BY <1>1, <2>1 DEF Opened
  <2>3. 2 <= n BY <2>2
  <2> QED BY <2>1, <2>3 DEF ReadsFrom
<1>2. CASE r.pc = "read2"
  <2>1. Role(r) = "second" /\ Reads(r, 3, d[3]) BY <1>2 DEF Place, Role
  <2>2. n = 4 BY <1>2, <2>1 DEF Opened
  <2> QED BY <2>1, <2>2 DEF ReadsFrom
<1>3. CASE r.pc = "receive"
  <2>1. Role(r) = "parent" /\ Reads(r, 4, d[4]) BY <1>3 DEF Place, Role
  <2>2. n = 4 BY <1>3 DEF Opened
  <2> QED BY <2>1, <2>2 DEF ReadsFrom
<1> QED BY <1>1, <1>2, <1>3

\* One more character in the buffer.
Longer(buf, r, k, n) == buf = Append(r.mem.buf, Text(k)[n + 1])

\* The buffer with one more character.
LEMMA Buffered ==
  ASSUME NEW r, NEW k, NEW n, Reads(r, k, n), n < Len(Text(k)), NEW buf, Longer(buf, r, k, n)
  PROVE  /\ n \in Nat /\ Part(Int, buf, Text(k), 0, n + 1) /\ Len(buf) = n + 1
         /\ Grown(r.mem.bcap, Len(buf)) \in Nat /\ (n + 1) + 2 <= Grown(r.mem.bcap, Len(buf))
         /\ Last(buf) = Newline <=> buf = Text(k)
<1>1. PICK t, a, b : t = Text(k) /\ a = r.mem.buf /\ b = r.mem.bcap
  OBVIOUS
<1>2. Part(Int, a, t, 0, n) /\ b \in Nat /\ n + 2 <= b
  BY <1>1 DEF Reads
<1>3. /\ t \in Seq(Int) /\ Len(t) \in Nat /\ n \in Nat
      /\ \A i \in DOMAIN t : t[i] = Newline <=> i = Len(t)
  BY <1>1, <1>2, TextFacts, NoPart
<1>4. Part(Int, buf, t, 0, n + 1)
  BY <1>1, <1>2, PartGrows DEF Longer
<1>5. Len(buf) = n + 1 /\ buf[n + 1] = t[n + 1] /\ n + 1 \in DOMAIN t
  <2>1. Len(buf) = (n + 1) - 0 BY <1>4 DEF Part
  <2>2. n + 1 \in 1 .. (n + 1) - 0 BY <1>3
  <2>3. buf[n + 1] = t[0 + (n + 1)] BY <1>4, <2>2 DEF Part
  <2>4. DOMAIN t = 1 .. Len(t) BY <1>3, LenProperties
  <2>5. n + 1 \in 1 .. Len(t) BY <1>1, <1>3
  <2> QED BY <1>3, <2>1, <2>3, <2>4, <2>5
<1>6. Grown(b, n + 1) \in Nat /\ (n + 1) + 2 <= Grown(b, n + 1)
  <2>1. CASE (n + 1) - 1 = b - 2 BY <1>2, <1>3, <2>1 DEF Grown
  <2>2. CASE (n + 1) - 1 # b - 2 BY <1>2, <1>3, <2>2 DEF Grown
  <2> QED BY <2>1, <2>2
<1>7. Last(buf) = t[n + 1]
  BY <1>5 DEF Last
<1>8. Last(buf) = Newline <=> n + 1 = Len(t)
  BY <1>3, <1>5, <1>7
<1>9. n + 1 = Len(t) => buf = t
  BY <1>4, PartWhole
<1>10. buf = t => n + 1 = Len(t)
  BY <1>5
<1> QED BY <1>1, <1>3, <1>4, <1>5, <1>6, <1>8, <1>9, <1>10

\* What a process is after read_message put one more character into buf.
Buffering(r, s, buf, c) ==
  /\ s.pc = r.pc /\ s.in = r.in /\ s.out = r.out /\ DOMAIN s = ProcessFields
  /\ DOMAIN s.mem = {"buf", "bcap", "todo"} /\ s.mem.buf = buf /\ s.mem.bcap = c /\ s.mem.todo = r.mem.todo

\* The place of a process after read_message: it reads on, or has the message.
LEMMA ReadsOn ==
  ASSUME NEW r, NEW w, NEW d, NEW k, k = ReadsFrom(Role(r)), Reads(r, k, d[k]), Place(r, w, d),
         r.pc \in {"read1", "read2", "receive"},
         NEW s, NEW buf, NEW c, Buffering(r, s, buf, c), NEW e, Part(Int, buf, Text(k), 0, e[k]),
         c \in Nat, e[k] + 2 <= c
  PROVE  Place(s, w, e) /\ Role(s) = Role(r)
<1>1. Reads(s, k, e[k])
  BY DEF Reads, Buffering
<1>2. Role(s) = Role(r) /\ s.pc = r.pc /\ s.out = r.out
  BY DEF Role, Buffering
<1>3. CASE r.pc = "read1"
  <2>1. k = 2 BY <1>3 DEF Role, ReadsFrom
  <2>2. r.out = W(3) /\ w[3] = 0 BY <1>3 DEF Place
  <2> QED BY <1>1, <1>2, <1>3, <2>1, <2>2 DEF Place
<1>4. CASE r.pc = "read2"
  <2>1. k = 3 BY <1>4 DEF Role, ReadsFrom
  <2>2. r.out = W(4) /\ w[4] = 0 BY <1>4 DEF Place
  <2> QED BY <1>1, <1>2, <1>4, <2>1, <2>2 DEF Place
<1>5. CASE r.pc = "receive"
  <2>1. k = 4 BY <1>5 DEF Role, ReadsFrom
  <2> QED BY <1>1, <1>2, <1>5, <2>1 DEF Place
<1> QED BY <1>2, <1>3, <1>4, <1>5

\* A process that has read the whole message.
LEMMA HasRead ==
  ASSUME NEW r, NEW w, NEW d, NEW k, k = ReadsFrom(Role(r)), Place(r, w, d), r.in = R(k),
         r.pc \in {"read1", "read2", "receive"}, NEW c \in Nat, Len(Text(k)) + 2 <= c,
         NEW s, DOMAIN s.mem = {"buf", "bcap", "todo"}, s.in = r.in, s.out = r.out, s.mem.bcap = c,
         IF r.pc = "receive" THEN s.pc = "printed" /\ s.mem.buf = Shift(Text(k), -1)
         ELSE s.pc = "pass" /\ s.mem.buf = Text(k) /\ s.mem.todo = IF r.pc = "read1" THEN Shift(Text(k), 1) ELSE Text(k),
         NEW e
  PROVE  Place(s, w, e) /\ Role(s) = Role(r) /\ s.pc \notin {"zombie", "caesar", "fork2"}
<1>1. /\ Len(Text(k)) = Len(Message) /\ Len(Message) \in Nat
      /\ Len(Cipher) = Len(Message) /\ Cipher \in Seq(Int)
  BY TextFacts, CipherText
<1>2. CASE r.pc = "receive"
  <2>1. k = 4 BY <1>2 DEF Role, ReadsFrom
  <2>2. Text(k) = Cipher BY <2>1 DEF Text, P_TO_C1
  <2>3. s.mem.buf = Message BY <1>2, <2>2, CipherText
  <2>4. Len(s.mem.buf) < s.mem.bcap BY <1>1, <2>3
  <2> QED BY <1>2, <2>3, <2>4 DEF Place, Role
<1>3. CASE r.pc = "read1"
  <2>1. k = 2 BY <1>3 DEF Role, ReadsFrom
  <2>2. Text(k) = Message /\ Text(3) = Cipher BY <2>1 DEF Text, P_TO_C1
  <2>3. s.mem.todo = Text(3) BY <1>3, <2>2 DEF Cipher
  <2>4. w[3] = 0 /\ r.out = W(3) BY <1>3 DEF Place
  <2>5. Part(Int, Text(3), Text(3), 0, Len(Text(3))) BY <1>1, <2>2, WholePart
  <2>6. Writes(s, 3, w[3]) BY <2>3, <2>4, <2>5 DEF Writes
  <2>7. Len(s.mem.buf) < s.mem.bcap BY <1>1, <1>3
  <2>8. Relays(s, 2, 3, Message, w) BY <2>1, <2>6, <2>7 DEF Relays
  <2>9. s.pc = "pass" /\ s.in = R(P_TO_C1) BY <1>3, <2>1 DEF P_TO_C1
  <2> QED BY <1>3, <2>8, <2>9 DEF Place, Role
<1>4. CASE r.pc = "read2"
  <2>1. k = 3 BY <1>4 DEF Role, ReadsFrom
  <2>2. Text(k) = Cipher /\ Text(4) = Cipher BY <2>1 DEF Text, P_TO_C1
  <2>3. s.mem.todo = Text(4) BY <1>4, <2>2
  <2>4. w[4] = 0 /\ r.out = W(4) BY <1>4 DEF Place
  <2>5. Part(Int, Text(4), Text(4), 0, Len(Text(4))) BY <1>1, <2>2, WholePart
  <2>6. Writes(s, 4, w[4]) BY <2>3, <2>4, <2>5 DEF Writes
  <2>7. Len(s.mem.buf) < s.mem.bcap BY <1>1, <1>4
  <2>8. Relays(s, 3, 4, Cipher, w) BY <2>1, <2>6, <2>7 DEF Relays
  <2>9. s.pc = "pass" /\ s.in = R(3) /\ R(3) # R(P_TO_C1) BY <1>4, <2>1 DEF R, P_TO_C1
  <2> QED BY <1>4, <2>8, <2>9 DEF Place, Role
<1> QED BY <1>2, <1>3, <1>4

\* read_message.
LEMMA ReadMessageStep ==
  ASSUME CaesarInv, NEW p \in DOMAIN proc, ReadMessage(p)
  PROVE  CaesarInv'
<1>1. PICK w \in [2 .. 4 -> Nat], d \in [2 .. 4 -> Nat] : IsSequence(proc) /\ Travelling(proc, obj, w, d)
  BY DEF CaesarInv
<1>2. PICK r : r = proc[p]
  OBVIOUS
<1>3. Place(r, w, d) /\ Opened(r, Len(obj)) /\ Whole(r) /\ InTransit(obj, w, d)
  BY <1>1, <1>2 DEF Travelling, Whole
<1>4. r.pc \in {"read1", "read2", "receive"}
  BY <1>2 DEF ReadMessage
<1>5. PICK k \in 2 .. 4 : k = ReadsFrom(Role(r)) /\ Reads(r, k, d[k]) /\ k <= Len(obj)
  BY <1>3, <1>4, ReaderFacts
<1>6. r.in = R(k) /\ r.in[1] = k
  BY <1>5 DEF Reads, R
<1>7. Len(obj) \in {1, 3, 4} /\ IsSequence(obj)
  BY <1>3 DEF InTransit
<1>8. k \in 2 .. Len(obj)
  BY <1>5, <1>7
<1>9. DOMAIN obj[k] = ObjectFields /\ obj[k].kind = "pipe" /\ Part(Int, obj[k].data, Text(k), d[k], w[k])
  BY <1>3, <1>8 DEF InTransit
<1>10. CASE proc' = [proc EXCEPT ![p] = Ended(r)] /\ obj' = obj
  <2>1. proc' = [proc EXCEPT ![p] = Ended(proc[p])] BY <1>2, <1>10
  <2>2. proc[p].pc # "zombie" BY <1>2, <1>4
  <2> QED BY <1>10, <2>1, <2>2, EndTravels
<1>11. PICK a : a = Available(k)
  OBVIOUS
<1>12. a = obj[k].data
  BY <1>8, <1>9, <1>11 DEF Available
<1>15. PICK buf : buf = Append(r.mem.buf, Head(a)) OBVIOUS
<1>16. PICK got : got = [r EXCEPT !.mem.buf = buf, !.mem.bcap = Grown(@, Len(buf))] OBVIOUS
<1>17. PICK next : next = IF Last(buf) # Newline THEN got
                          ELSE IF r.pc = "receive" THEN [got EXCEPT !.pc = "printed", !.mem.buf = Shift(buf, -1)]
                          ELSE [got EXCEPT !.pc = "pass", !.mem.todo = IF r.pc = "read1" THEN Shift(buf, 1) ELSE buf]
  OBVIOUS
<1>13. CASE a # <<>> /\ obj' = Taken(k, 1) /\ proc' = [proc EXCEPT ![p] = next]
  <2>1. PICK u : u = obj' OBVIOUS
  <2>2. Took(u, obj, k) BY <1>9, <1>13, <2>1 DEF Taken, Took
  <2>3. PICK e : e = [d EXCEPT ![k] = d[k] + 1] OBVIOUS
  <2>4. e \in [2 .. 4 -> Nat] /\ e[k] = d[k] + 1 /\ (\A i \in 2 .. 4 : i # k => e[i] = d[i]) /\ Counted(e, d, k)
    BY <2>3 DEF Counted
  <2>5. InTransit(u, w, e) /\ Len(u) = Len(obj)
    <3>1. obj[k].data # <<>> BY <1>12, <1>13
    <3>2. Counted(e, d, k) BY <2>4
    <3> QED BY <1>1, <1>3, <1>5, <2>2, <3>1, <3>2, TakeTransit
  <2>6. Head(a) = Text(k)[d[k] + 1] /\ d[k] < Len(Text(k))
    <3>1. Part(Int, a, Text(k), d[k], w[k]) BY <1>9, <1>12
    <3>2. Head(a) = Text(k)[d[k] + 1] /\ d[k] + 1 \in 1 .. Len(Text(k))
      <4>1. PICK t, i, j : t = Text(k) /\ i = d[k] /\ j = w[k] OBVIOUS
      <4>2. Part(Int, a, t, i, j) BY <3>1, <4>1
      <4>3. a # <<>> BY <1>13
      <4>4. Head(a) = t[i + 1] /\ i + 1 \in 1 .. Len(t) /\ Part(Int, Tail(a), t, i + 1, j) BY <4>2, <4>3, PartShrinks
      <4> QED BY <4>1, <4>4
    <3>3. Len(Text(k)) \in Nat /\ d[k] \in Nat BY TextFacts, <1>1
    <3> QED BY <3>2, <3>3
  <2>8. PICK c : c = Grown(r.mem.bcap, Len(buf)) OBVIOUS
  <2>9. /\ Part(Int, buf, Text(k), 0, d[k] + 1) /\ Len(buf) = d[k] + 1
        /\ c \in Nat /\ (d[k] + 1) + 2 <= c
        /\ Last(buf) = Newline <=> buf = Text(k)
    <3>1. PICK n : n = d[k] OBVIOUS
    <3>2. Reads(r, k, n) /\ n < Len(Text(k)) /\ Longer(buf, r, k, n) BY <1>5, <1>15, <2>6, <3>1 DEF Longer
    <3>3. /\ Part(Int, buf, Text(k), 0, n + 1) /\ Len(buf) = n + 1
          /\ Grown(r.mem.bcap, Len(buf)) \in Nat /\ (n + 1) + 2 <= Grown(r.mem.bcap, Len(buf))
          /\ Last(buf) = Newline <=> buf = Text(k)
      BY <3>2, Buffered
    <3> QED BY <2>8, <3>1, <3>3
  <2>11. PICK m : m = [[r.mem EXCEPT !.buf = buf] EXCEPT !.bcap = c] OBVIOUS
  <2>12. DOMAIN r = ProcessFields /\ DOMAIN r.mem = {"buf", "bcap", "todo"} BY <1>3, <1>4 DEF Whole
  <2>13. got = [r EXCEPT !.mem = m] BY <1>16, <2>8, <2>11, <2>12 DEF ProcessFields
  <2>14. DOMAIN m = {"buf", "bcap", "todo"} /\ m.buf = buf /\ m.bcap = c /\ m.todo = r.mem.todo
    BY <2>11, <2>12
  <2>15. /\ DOMAIN got = ProcessFields /\ got.mem = m
         /\ got.pc = r.pc /\ got.in = r.in /\ got.out = r.out
    BY <2>12, <2>13 DEF ProcessFields
  <2>16. OwnCounts(Role(r), w, d, w, e) BY <1>5, <2>4 DEF OwnCounts
  <2>17. proc[p].pc \notin {"zombie", "caesar"} /\ Role(r) = Role(proc[p]) /\ OwnCounts(Role(proc[p]), w, d, w, e)
    BY <1>2, <1>4, <2>16
  <2>18. CASE Last(buf) # Newline
    <3>1. proc' = [proc EXCEPT ![p] = got] BY <1>13, <1>17, <2>18
    <3>2. Buffering(r, got, buf, c) BY <2>14, <2>15 DEF Buffering
    <3>3. Place(got, w, e) /\ Role(got) = Role(r)
      <4>1. Part(Int, buf, Text(k), 0, e[k]) /\ c \in Nat /\ e[k] + 2 <= c BY <2>4, <2>9
      <4> QED BY <1>3, <1>4, <1>5, <3>2, <4>1, ReadsOn
    <3>4. Whole(got) BY <2>14, <2>15 DEF Whole
    <3>5. Opened(got, Len(obj)) BY <1>3, <1>4, <2>15, <3>3 DEF Opened
    <3>6. got.pc \notin {"zombie", "caesar", "fork2"} /\ Role(got) = Role(proc[p]) BY <1>4, <2>15, <2>17, <3>3
    <3> QED BY <1>1, <2>1, <2>4, <2>5, <2>17, <3>1, <3>3, <3>4, <3>5, <3>6, GoesOn
  <2>19. CASE Last(buf) = Newline
    <3>1. buf = Text(k) /\ Len(Text(k)) + 2 <= c BY <2>9, <2>19
    <3>2. PICK s : s = next OBVIOUS
    <3>3. proc' = [proc EXCEPT ![p] = s] BY <1>13, <3>2
    <3>4. /\ DOMAIN s = ProcessFields /\ DOMAIN s.mem = {"buf", "bcap", "todo"} /\ s.in = r.in /\ s.out = r.out
          /\ s.mem.bcap = c
          /\ IF r.pc = "receive" THEN s.pc = "printed" /\ s.mem.buf = Shift(Text(k), -1)
             ELSE /\ s.pc = "pass" /\ s.mem.buf = Text(k)
                  /\ s.mem.todo = IF r.pc = "read1" THEN Shift(Text(k), 1) ELSE Text(k)
      <4>1. CASE r.pc = "receive"
        <5>1. s = [got EXCEPT !.pc = "printed", !.mem.buf = Shift(Text(k), -1)] BY <1>17, <2>19, <3>1, <3>2, <4>1
        <5> QED BY <2>14, <2>15, <4>1, <5>1 DEF ProcessFields
      <4>2. CASE r.pc # "receive"
        <5>1. PICK t : t = IF r.pc = "read1" THEN Shift(Text(k), 1) ELSE Text(k) OBVIOUS
        <5>2. s = [got EXCEPT !.pc = "pass", !.mem.todo = t] BY <1>17, <2>19, <3>1, <3>2, <4>2, <5>1
        <5>3. /\ DOMAIN s = ProcessFields /\ DOMAIN s.mem = {"buf", "bcap", "todo"} /\ s.in = r.in /\ s.out = r.out
              /\ s.mem.bcap = c /\ s.pc = "pass" /\ s.mem.buf = buf /\ s.mem.todo = t
          BY <2>14, <2>15, <5>2 DEF ProcessFields
        <5> QED BY <3>1, <4>2, <5>1, <5>3
      <4> QED BY <4>1, <4>2
    <3>5. Place(s, w, e) /\ Role(s) = Role(r) /\ s.pc \notin {"zombie", "caesar", "fork2"}
      BY <1>3, <1>4, <1>5, <1>6, <2>9, <3>1, <3>4, HasRead
    <3>6. Whole(s) BY <3>4 DEF Whole
    <3>7. Opened(s, Len(obj)) BY <1>3, <1>4, <3>4, <3>5 DEF Opened, Role
    <3>8. Role(s) = Role(proc[p]) BY <2>17, <3>5
    <3> QED BY <1>1, <2>1, <2>4, <2>5, <2>17, <3>3, <3>5, <3>6, <3>7, <3>8, GoesOn
  <2> QED BY <2>18, <2>19
<1> QED BY <1>2, <1>6, <1>10, <1>11, <1>13, <1>15, <1>16, <1>17 DEF ReadMessage

\* A step in which a process moves on and the pipes stay.
LEMMA GoesAlone ==
  ASSUME CaesarInv, NEW w \in [2 .. 4 -> Nat], NEW d \in [2 .. 4 -> Nat], IsSequence(proc), Travelling(proc, obj, w, d),
         NEW p \in DOMAIN proc, proc[p].pc \notin {"zombie", "caesar"},
         NEW s, Whole(s), Role(s) = Role(proc[p]), s.pc \notin {"zombie", "caesar", "fork2"},
         Place(s, w, d), Opened(s, Len(obj)), proc' = [proc EXCEPT ![p] = s], obj' = obj
  PROVE  CaesarInv'
<1>1. InTransit(obj, w, d) /\ OwnCounts(Role(proc[p]), w, d, w, d)
  BY DEF Travelling, OwnCounts
<1>2. PICK u : u = obj
  OBVIOUS
<1>3. obj' = u /\ InTransit(u, w, d) /\ Len(u) = Len(obj)
  BY <1>1, <1>2
<1> QED BY <1>1, <1>3, GoesOn

\* A process with an empty buffer before a pipe of which nothing was read.
LEMMA BeginsReading ==
  ASSUME NEW k, NEW s, s.in = R(k), s.mem.buf = <<>>, s.mem.bcap = BufferSize
  PROVE  Reads(s, k, 0)
<1>1. Text(k) \in Seq(Int) /\ 0 \in Nat /\ 0 <= Len(Text(k))
  BY TextFacts
<1>2. Part(Int, <<>>, Text(k), 0, 0)
  BY <1>1, EmptyPart
<1> QED BY <1>2, FixedAssumption DEF Reads

\* The end of write_message, and of main.
LEMMA WrittenStep ==
  ASSUME CaesarInv, NEW p \in DOMAIN proc, Written(p)
  PROVE  CaesarInv'
<1>1. PICK w \in [2 .. 4 -> Nat], d \in [2 .. 4 -> Nat] : IsSequence(proc) /\ Travelling(proc, obj, w, d)
  BY DEF CaesarInv
<1>2. PICK r : r = proc[p]
  OBVIOUS
<1>3. Place(r, w, d) /\ Opened(r, Len(obj)) /\ Whole(r)
  BY <1>1, <1>2 DEF Travelling, Whole
<1>4. r.pc \in {"pass", "send", "printed"} /\ obj' = obj
  BY <1>2 DEF Written
<1>5. CASE r.pc = "send"
  <2>1. PICK s : s = [r EXCEPT !.pc = "receive", !.out = None] OBVIOUS
  <2>2. proc' = [proc EXCEPT ![p] = s] BY <1>2, <1>5, <2>1 DEF Written
  <2>3. DOMAIN r = ProcessFields /\ DOMAIN r.mem = {"buf", "bcap", "todo"} BY <1>3, <1>5 DEF Whole
  <2>4. s.pc = "receive" /\ s.in = r.in /\ s.mem = r.mem /\ DOMAIN s = ProcessFields BY <2>1, <2>3 DEF ProcessFields
  <2>5. Whole(s) BY <2>3, <2>4 DEF Whole
  <2>6. r.in = R(4) /\ r.mem.buf = <<>> /\ r.mem.bcap = BufferSize /\ d[4] = 0 BY <1>3, <1>5 DEF Place
  <2>7. Reads(s, 4, d[4]) BY <2>4, <2>6, BeginsReading
  <2>8. Place(s, w, d) BY <2>4, <2>7 DEF Place
  <2>9. Opened(s, Len(obj)) /\ Role(s) = Role(proc[p]) BY <1>2, <1>3, <1>5, <2>4 DEF Opened, Role
  <2>10. s.pc \notin {"zombie", "caesar", "fork2"} /\ proc[p].pc \notin {"zombie", "caesar"} BY <1>2, <1>5, <2>4
  <2> QED BY <1>1, <1>4, <2>2, <2>5, <2>8, <2>9, <2>10, GoesAlone
<1>6. CASE r.pc # "send"
  <2>1. proc' = [proc EXCEPT ![p] = Ended(proc[p])] BY <1>2, <1>6 DEF Written
  <2>2. proc[p].pc # "zombie" BY <1>2, <1>4
  <2> QED BY <1>4, <2>1, <2>2, EndTravels
<1> QED BY <1>5, <1>6

\* The calls of close.
LEMMA CloseUnneededStep ==
  ASSUME CaesarInv, NEW p \in DOMAIN proc, CloseUnneeded(p)
  PROVE  CaesarInv'
<1>1. PICK w \in [2 .. 4 -> Nat], d \in [2 .. 4 -> Nat] : IsSequence(proc) /\ Travelling(proc, obj, w, d)
  BY DEF CaesarInv
<1>2. PICK r : r = proc[p]
  OBVIOUS
<1>3. Place(r, w, d) /\ Opened(r, Len(obj)) /\ Whole(r)
  BY <1>1, <1>2 DEF Travelling, Whole
<1>4. r.pc \in {"child1", "child2", "parent"} /\ obj' = obj
  BY <1>2 DEF CloseUnneeded
<1>5. r.mem = Empty /\ DOMAIN r = ProcessFields
  BY <1>3, <1>4 DEF Place, Whole
<1>6. /\ Empty.buf = <<>> /\ Empty.bcap = BufferSize /\ Empty.todo = <<>> /\ DOMAIN Empty = {"buf", "bcap", "todo"}
      /\ P_TO_C1 = 2 /\ C1_TO_C2 = 3 /\ C2_TO_P = 4
  BY DEF Empty, Letter, P_TO_C1, C1_TO_C2, C2_TO_P
<1>7. CASE r.pc = "child1"
  <2>1. PICK s : s = [r EXCEPT !.pc = "read1", !.in = R(2), !.out = W(3), !.more = {}] OBVIOUS
  <2>2. proc' = [proc EXCEPT ![p] = s] BY <1>2, <1>6, <1>7, <2>1 DEF CloseUnneeded
  <2>3. s.pc = "read1" /\ s.in = R(2) /\ s.out = W(3) /\ s.mem = Empty /\ DOMAIN s = ProcessFields
    BY <1>5, <2>1 DEF ProcessFields
  <2>4. d[2] = 0 /\ w[3] = 0 BY <1>3, <1>7 DEF Place
  <2>5. Reads(s, 2, d[2]) BY <1>6, <2>3, <2>4, BeginsReading
  <2>6. Place(s, w, d) BY <2>3, <2>4, <2>5 DEF Place
  <2>7. Whole(s) BY <1>6, <2>3 DEF Whole
  <2>8. Opened(s, Len(obj)) /\ Role(s) = Role(proc[p]) BY <1>2, <1>3, <1>7, <2>3 DEF Opened, Role
  <2>9. s.pc \notin {"zombie", "caesar", "fork2"} /\ proc[p].pc \notin {"zombie", "caesar"} BY <1>2, <1>7, <2>3
  <2> QED BY <1>1, <1>4, <2>2, <2>6, <2>7, <2>8, <2>9, GoesAlone
<1>8. CASE r.pc = "child2"
  <2>1. PICK s : s = [r EXCEPT !.pc = "read2", !.in = R(3), !.out = W(4), !.more = {}] OBVIOUS
  <2>2. proc' = [proc EXCEPT ![p] = s] BY <1>2, <1>6, <1>8, <2>1 DEF CloseUnneeded
  <2>3. s.pc = "read2" /\ s.in = R(3) /\ s.out = W(4) /\ s.mem = Empty /\ DOMAIN s = ProcessFields
    BY <1>5, <2>1 DEF ProcessFields
  <2>4. d[3] = 0 /\ w[4] = 0 BY <1>3, <1>8 DEF Place
  <2>5. Reads(s, 3, d[3]) BY <1>6, <2>3, <2>4, BeginsReading
  <2>6. Place(s, w, d) BY <2>3, <2>4, <2>5 DEF Place
  <2>7. Whole(s) BY <1>6, <2>3 DEF Whole
  <2>8. Opened(s, Len(obj)) /\ Role(s) = Role(proc[p]) BY <1>2, <1>3, <1>8, <2>3 DEF Opened, Role
  <2>9. s.pc \notin {"zombie", "caesar", "fork2"} /\ proc[p].pc \notin {"zombie", "caesar"} BY <1>2, <1>8, <2>3
  <2> QED BY <1>1, <1>4, <2>2, <2>6, <2>7, <2>8, <2>9, GoesAlone
<1>9. CASE r.pc = "parent"
  <2>1. PICK s : s = [r EXCEPT !.pc = "send", !.in = R(4), !.out = W(2), !.more = {R(3), W(3)}, !.mem.todo = Message] OBVIOUS
  <2>2. proc' = [proc EXCEPT ![p] = s] BY <1>2, <1>6, <1>9, <2>1 DEF CloseUnneeded
  <2>3. PICK m : m = [Empty EXCEPT !.todo = Message] OBVIOUS
  <2>4. s.pc = "send" /\ s.in = R(4) /\ s.out = W(2) /\ s.mem = m /\ DOMAIN s = ProcessFields
    BY <1>5, <2>1, <2>3 DEF ProcessFields
  <2>5. m.buf = <<>> /\ m.bcap = BufferSize /\ m.todo = Message /\ DOMAIN m = {"buf", "bcap", "todo"}
    BY <1>6, <2>3
  <2>6. d[4] = 0 /\ w[2] = 0 BY <1>3, <1>9 DEF Place
  <2>7. Text(2) = Message /\ Message \in Seq(Int) BY CipherText DEF Text, P_TO_C1
  <2>8. Part(Int, Text(2), Text(2), 0, Len(Text(2))) BY <2>7, WholePart
  <2>9. Writes(s, 2, w[2]) BY <2>4, <2>5, <2>6, <2>7, <2>8 DEF Writes
  <2>10. Place(s, w, d) BY <2>4, <2>5, <2>6, <2>9 DEF Place
  <2>11. Whole(s) BY <2>4, <2>5 DEF Whole
  <2>12. Opened(s, Len(obj)) /\ Role(s) = Role(proc[p]) BY <1>2, <1>3, <1>9, <2>4 DEF Opened, Role
  <2>13. s.pc \notin {"zombie", "caesar", "fork2"} /\ proc[p].pc \notin {"zombie", "caesar"} BY <1>2, <1>9, <2>4
  <2> QED BY <1>1, <1>4, <2>2, <2>10, <2>11, <2>12, <2>13, GoesAlone
<1> QED BY <1>4, <1>7, <1>8, <1>9

\* New pipes, which nobody has used.
NewPipes(t) == IsSequence(t) /\ \A k \in 1 .. Len(t) : t[k] = Pipe
Unused(o, t, w, d) == \A k \in Len(o) + 1 .. Len(o) + Len(t) : w[k] = 0 /\ d[k] = 0

\* Pipes that are opened hold nothing, and the others stay.
LEMMA PipesOpened ==
  ASSUME NEW o, NEW w, NEW d, InTransit(o, w, d), NEW t, NewPipes(t), Unused(o, t, w, d), Len(o) + Len(t) \in {3, 4}
  PROVE  InTransit(o \o t, w, d) /\ Len(o \o t) = Len(o) + Len(t)
<1>0. PICK n \in Nat, m \in Nat : /\ n = Len(o) /\ m = Len(t) /\ n + m \in {3, 4}
                                  /\ \A k \in 1 .. m : t[k] = Pipe
                                  /\ \A k \in n + 1 .. n + m : w[k] = 0 /\ d[k] = 0
  BY DEF InTransit, NewPipes, IsSequence, Unused
<1>1. IsSequence(o) /\ IsSequence(t)
  BY DEF InTransit, NewPipes
<1>2. PICK u : u = o \o t
  OBVIOUS
<1>3. /\ IsSequence(u) /\ Len(u) = n + m
      /\ \A k \in 1 .. n : u[k] = o[k]
      /\ \A k \in 1 .. m : u[n + k] = t[k]
  BY <1>0, <1>1, <1>2, JoinSequence
<1>4. ASSUME NEW k \in 2 .. n + m
      PROVE  DOMAIN u[k] = ObjectFields /\ u[k].kind = "pipe" /\ Part(Int, u[k].data, Text(k), d[k], w[k])
  <2>1. CASE k <= n
    <3>1. k \in 1 .. n /\ k \in 2 .. n BY <2>1
    <3>2. u[k] = o[k] BY <1>3, <3>1
    <3> QED BY <1>0, <3>1, <3>2 DEF InTransit
  <2>2. CASE k > n
    <3>1. PICK j : j = k - n OBVIOUS
    <3>2. j \in 1 .. m /\ k = n + j /\ k \in n + 1 .. n + m BY <2>2, <3>1
    <3>3. u[k] = Pipe BY <1>0, <1>3, <3>2
    <3>4. w[k] = 0 /\ d[k] = 0 BY <1>0, <3>2
    <3>5. Text(k) \in Seq(Int) BY TextFacts
    <3>6. DOMAIN Pipe = ObjectFields /\ Pipe.kind = "pipe" /\ Part(Int, Pipe.data, Text(k), 0, 0) BY <3>5, NewPipe
    <3> QED BY <3>3, <3>4, <3>6
  <2> QED BY <2>1, <2>2
<1>5. Len(u) \in {1, 3, 4} /\ \A k \in 2 .. Len(u) : k \in 2 .. n + m
  BY <1>0, <1>3
<1> QED BY <1>0, <1>2, <1>3, <1>4, <1>5 DEF InTransit

\* The first two pipes and the first fork.
LEMMA ForkChild1Step ==
  ASSUME CaesarInv, NEW p \in DOMAIN proc, ForkChild1(p)
  PROVE  CaesarInv'
<1>1. PICK w \in [2 .. 4 -> Nat], d \in [2 .. 4 -> Nat] : IsSequence(proc) /\ Travelling(proc, obj, w, d)
  BY DEF CaesarInv
<1>2. PICK r : r = proc[p]
  OBVIOUS
<1>3. Place(r, w, d) /\ Opened(r, Len(obj)) /\ Whole(r) /\ InTransit(obj, w, d)
  BY <1>1, <1>2 DEF Travelling, Whole
<1>4. r.pc = "caesar"
  BY <1>2 DEF ForkChild1
<1>5. DOMAIN r = ProcessFields /\ r.mem = Empty /\ DOMAIN r.mem = {"buf", "bcap", "todo"}
  BY <1>3, <1>4 DEF Place, Whole
<1>6. \A k \in 2 .. 4 : w[k] = 0 /\ d[k] = 0
  BY <1>3, <1>4 DEF Place
<1>7. Len(obj) = 1 /\ DOMAIN proc = {p}
  BY <1>1, <1>2, <1>3, <1>4 DEF Opened, Travelling
<1>8. PICK u : u = obj'
  OBVIOUS
<1>9. InTransit(u, w, d) /\ Len(u) = 3
  <2>1. PICK t : t = <<Pipe, Pipe>> OBVIOUS
  <2>2. IsSequence(t) /\ Len(t) = 2 /\ \A k \in 1 .. 2 : t[k] = Pipe
    <3>1. Len(t) = 2 /\ DOMAIN t = 1 .. 2 /\ t[1] = Pipe /\ t[2] = Pipe BY <2>1
    <3>2. t = [k \in 1 .. 2 |-> t[k]] BY <2>1
    <3> QED BY <3>1, <3>2 DEF IsSequence
  <2>3. u = obj \o t BY <1>8, <2>1 DEF ForkChild1
  <2>4. Len(obj) + Len(t) = 3 /\ Unused(obj, t, w, d) BY <1>6, <1>7, <2>2 DEF Unused
  <2>5. NewPipes(t) BY <2>2 DEF NewPipes
  <2>6. InTransit(obj \o t, w, d) /\ Len(obj \o t) = Len(obj) + Len(t) BY <1>3, <2>4, <2>5, PipesOpened
  <2> QED BY <2>3, <2>4, <2>6
<1>10. PICK q : q = [r EXCEPT !.more = {R(P_TO_C1), W(P_TO_C1), R(C1_TO_C2), W(C1_TO_C2)}]
  OBVIOUS
<1>11. PICK s, c : s = [q EXCEPT !.pc = "fork2"] /\ c = [q EXCEPT !.pc = "child1", !.parent = p]
  OBVIOUS
<1>12. Forked(p, s, c) \/ ForkFailed(p, s)
  BY <1>2, <1>10, <1>11 DEF ForkChild1
<1>13. /\ DOMAIN q = ProcessFields /\ q.mem = Empty
       /\ DOMAIN s = ProcessFields /\ s.mem = Empty /\ s.pc = "fork2"
       /\ DOMAIN c = ProcessFields /\ c.mem = Empty /\ c.pc = "child1"
  BY <1>5, <1>10, <1>11 DEF ProcessFields
<1>14. Whole(s) /\ Whole(c)
  BY <1>5, <1>13 DEF Whole
<1>15. /\ Place(s, w, d) /\ Opened(s, 3) /\ Role(s) = "parent"
       /\ Place(c, w, d) /\ Opened(c, 3) /\ Role(c) = "first"
  BY <1>6, <1>13 DEF Place, Opened, Role
<1>16. PICK ps : ps = [proc EXCEPT ![p] = s]
  OBVIOUS
<1>17. IsSequence(ps) /\ Travelling(ps, u, w, d)
  <2>1. \A k \in DOMAIN proc : k # p => Place(proc[k], w, d) /\ Opened(proc[k], Len(u)) BY <1>7
  <2>2. Role(s) = Role(proc[p]) /\ proc[p].pc # "zombie" /\ s.pc # "caesar" /\ proc[p].pc = "caesar"
    BY <1>2, <1>4, <1>13, <1>15 DEF Role
  <2>3. Opened(s, Len(u)) BY <1>9, <1>15
  <2> QED BY <1>1, <1>9, <1>14, <1>15, <1>16, <2>1, <2>2, <2>3, TravelMoves
<1>18. CASE ForkFailed(p, s)
  <2>1. proc' = ps BY <1>16, <1>18 DEF ForkFailed
  <2> QED BY <1>8, <1>17, <2>1 DEF CaesarInv
<1>19. CASE Forked(p, s, c)
  <2>1. proc' = Append(ps, c) BY <1>16, <1>19 DEF Forked
  <2>2. \A k \in DOMAIN ps : ps[k] = s BY <1>7, <1>16
  <2>3. Opened(c, Len(u)) BY <1>9, <1>15
  <2>4. c.pc \in {"child1", "child2"} /\ \A k \in DOMAIN ps : ps[k].pc # "zombie" => Role(ps[k]) # Role(c)
    BY <1>13, <1>15, <2>2
  <2>5. \A k \in DOMAIN ps : ps[k].pc # "caesar" /\ (ps[k].pc = "fork2" => c.pc = "child1")
    BY <1>13, <2>2
  <2>6. IsSequence(Append(ps, c)) /\ Travelling(Append(ps, c), u, w, d)
    BY <1>14, <1>15, <1>17, <2>3, <2>4, <2>5, TravelAppends
  <2> QED BY <1>8, <2>1, <2>6 DEF CaesarInv
<1> QED BY <1>12, <1>18, <1>19

\* The third pipe and the second fork.
LEMMA ForkChild2Step ==
  ASSUME CaesarInv, NEW p \in DOMAIN proc, ForkChild2(p)
  PROVE  CaesarInv'
<1>1. PICK w \in [2 .. 4 -> Nat], d \in [2 .. 4 -> Nat] : IsSequence(proc) /\ Travelling(proc, obj, w, d)
  BY DEF CaesarInv
<1>2. PICK r : r = proc[p]
  OBVIOUS
<1>3. Place(r, w, d) /\ Opened(r, Len(obj)) /\ Whole(r) /\ InTransit(obj, w, d)
  BY <1>1, <1>2 DEF Travelling, Whole
<1>4. r.pc = "fork2"
  BY <1>2 DEF ForkChild2
<1>5. DOMAIN r = ProcessFields /\ r.mem = Empty /\ DOMAIN r.mem = {"buf", "bcap", "todo"}
  BY <1>3, <1>4 DEF Place, Whole
<1>6. w[2] = 0 /\ d[3] = 0 /\ w[4] = 0 /\ d[4] = 0 /\ Len(obj) = 3
  BY <1>3, <1>4 DEF Place, Opened
<1>7. \A k \in DOMAIN proc : k # p => proc[k].pc = "zombie" \/ Role(proc[k]) = "first"
  <2> SUFFICES ASSUME NEW k \in DOMAIN proc, k # p, proc[k].pc # "zombie" PROVE Role(proc[k]) = "first"
    OBVIOUS
  <2>1. Role(proc[k]) # Role(r) BY <1>1, <1>2, <1>4 DEF Travelling
  <2>2. Role(proc[k]) # "second" BY <1>1, <1>2, <1>4 DEF Travelling
  <2>3. Role(r) = "parent" BY <1>4 DEF Role
  <2> QED BY <2>1, <2>2, <2>3 DEF Role
<1>8. PICK u : u = obj'
  OBVIOUS
<1>9. InTransit(u, w, d) /\ Len(u) = 4
  <2>1. PICK t : t = <<Pipe>> OBVIOUS
  <2>2. IsSequence(t) /\ Len(t) = 1 /\ \A k \in 1 .. 1 : t[k] = Pipe
    <3>1. Len(t) = 1 /\ DOMAIN t = 1 .. 1 /\ t[1] = Pipe BY <2>1
    <3>2. t = [k \in 1 .. 1 |-> t[k]] BY <2>1
    <3> QED BY <3>1, <3>2 DEF IsSequence
  <2>3. u = obj \o t BY <1>8, <2>1 DEF ForkChild2
  <2>4. Len(obj) + Len(t) = 4 /\ Unused(obj, t, w, d) BY <1>6, <1>6, <2>2 DEF Unused
  <2>5. NewPipes(t) BY <2>2 DEF NewPipes
  <2>6. InTransit(obj \o t, w, d) /\ Len(obj \o t) = Len(obj) + Len(t) BY <1>3, <2>4, <2>5, PipesOpened
  <2> QED BY <2>3, <2>4, <2>6
<1>10. PICK q : q = [r EXCEPT !.more = @ \union {R(C2_TO_P), W(C2_TO_P)}]
  OBVIOUS
<1>11. PICK s, c : s = [q EXCEPT !.pc = "parent"] /\ c = [q EXCEPT !.pc = "child2", !.parent = p]
  OBVIOUS
<1>12. Forked(p, s, c) \/ ForkFailed(p, s)
  BY <1>2, <1>10, <1>11 DEF ForkChild2
<1>13. /\ DOMAIN q = ProcessFields /\ q.mem = Empty
       /\ DOMAIN s = ProcessFields /\ s.mem = Empty /\ s.pc = "parent"
       /\ DOMAIN c = ProcessFields /\ c.mem = Empty /\ c.pc = "child2"
  BY <1>5, <1>10, <1>11 DEF ProcessFields
<1>14. Whole(s) /\ Whole(c)
  BY <1>5, <1>13 DEF Whole
<1>15. /\ Place(s, w, d) /\ Opened(s, 4) /\ Role(s) = "parent"
       /\ Place(c, w, d) /\ Opened(c, 4) /\ Role(c) = "second"
  BY <1>6, <1>13 DEF Place, Opened, Role
<1>16. PICK ps : ps = [proc EXCEPT ![p] = s]
  OBVIOUS
<1>17. IsSequence(ps) /\ Travelling(ps, u, w, d)
  <2>1. \A k \in DOMAIN proc : k # p => Place(proc[k], w, d) /\ Opened(proc[k], Len(u))
    <3> SUFFICES ASSUME NEW k \in DOMAIN proc, k # p PROVE Place(proc[k], w, d) /\ Opened(proc[k], 4)
      BY <1>9
    <3>1. Place(proc[k], w, d) BY <1>1 DEF Travelling
    <3>2. CASE proc[k].pc = "zombie" BY <3>1, <3>2 DEF Opened
    <3>3. CASE Role(proc[k]) = "first" BY <3>1, <3>3 DEF Opened, Role
    <3> QED BY <1>7, <3>2, <3>3
  <2>2. Role(s) = Role(proc[p]) /\ proc[p].pc # "zombie" /\ s.pc # "caesar" /\ s.pc # "fork2"
    BY <1>2, <1>4, <1>13, <1>15 DEF Role
  <2>3. Opened(s, Len(u)) BY <1>9, <1>15
  <2> QED BY <1>1, <1>9, <1>14, <1>15, <1>16, <2>1, <2>2, <2>3, TravelMoves
<1>18. CASE ForkFailed(p, s)
  <2>1. proc' = ps BY <1>16, <1>18 DEF ForkFailed
  <2> QED BY <1>8, <1>17, <2>1 DEF CaesarInv
<1>19. CASE Forked(p, s, c)
  <2>1. proc' = Append(ps, c) BY <1>16, <1>19 DEF Forked
  <2>2. \A k \in DOMAIN ps : ps[k] = s \/ ps[k].pc = "zombie" \/ Role(ps[k]) = "first" BY <1>7, <1>16
  <2>3. Opened(c, Len(u)) BY <1>9, <1>15
  <2>4. c.pc \in {"child1", "child2"} /\ \A k \in DOMAIN ps : ps[k].pc # "zombie" => Role(ps[k]) # Role(c)
    BY <1>13, <1>15, <2>2
  <2>5. \A k \in DOMAIN ps : ps[k].pc # "caesar" /\ (ps[k].pc = "fork2" => c.pc = "child1")
    BY <1>13, <2>2 DEF Role
  <2>6. IsSequence(Append(ps, c)) /\ Travelling(Append(ps, c), u, w, d)
    BY <1>14, <1>15, <1>17, <2>3, <2>4, <2>5, TravelAppends
  <2> QED BY <1>8, <2>1, <2>6 DEF CaesarInv
<1> QED BY <1>12, <1>18, <1>19

\* lab6 begins alone at a terminal.
LEMMA CaesarBegins == CaesarInit => CaesarInv
<1> SUFFICES ASSUME CaesarInit PROVE CaesarInv
  OBVIOUS
<1>1. PICK r, o : r = Process("caesar", 0, Empty) /\ o = Terminal(<<>>)
  OBVIOUS
<1>2. proc = <<r>> /\ obj = <<o>>
  BY <1>1 DEF CaesarInit, Start
<1>3. /\ r.pc = "caesar" /\ r.mem = Empty /\ DOMAIN r = ProcessFields
      /\ DOMAIN Empty = {"buf", "bcap", "todo"}
  BY <1>1 DEF Process, ProcessFields, Empty, Letter
<1>4. PICK z : z = [k \in 2 .. 4 |-> 0]
  OBVIOUS
<1>5. z \in [2 .. 4 -> Nat] /\ \A k \in 2 .. 4 : z[k] = 0
  BY <1>4
<1>6. Place(r, z, z)
  BY <1>3, <1>5 DEF Place
<1>7. IsSequence(proc) /\ DOMAIN proc = {1} /\ proc[1] = r
  <2>1. Len(proc) = 1 /\ DOMAIN proc = 1 .. 1 /\ proc = [k \in 1 .. 1 |-> proc[k]] /\ proc[1] = r BY <1>2
  <2> QED BY <2>1 DEF IsSequence
<1>8. IsSequence(obj) /\ Len(obj) = 1
  <2>1. Len(obj) = 1 /\ DOMAIN obj = 1 .. 1 /\ obj = [k \in 1 .. 1 |-> obj[k]] BY <1>2
  <2> QED BY <2>1 DEF IsSequence
<1>9. InTransit(obj, z, z)
  BY <1>8 DEF InTransit
<1>10. Opened(r, 1)
  BY <1>3 DEF Opened, Role
<1>11. Travelling(proc, obj, z, z)
  BY <1>3, <1>6, <1>7, <1>8, <1>9, <1>10 DEF Travelling
<1> QED BY <1>5, <1>7, <1>11 DEF CaesarInv

\* Where the processes of lab6 are; none executes a program.
LEMMA CaesarPlaces ==
  ASSUME CaesarInv, NEW p \in DOMAIN proc
  PROVE  proc[p].pc \notin {"cut1", "cut2", "cut", "ls", "xargs", "run"}
<1>1. PICK w \in [2 .. 4 -> Nat], d \in [2 .. 4 -> Nat] : IsSequence(proc) /\ Travelling(proc, obj, w, d)
  BY DEF CaesarInv
<1>2. PICK r : r = proc[p]
  OBVIOUS
<1>3. Place(r, w, d)
  BY <1>1, <1>2 DEF Travelling
<1> QED BY <1>2, <1>3 DEF Place

\* Every step of lab6 keeps its invariant.
LEMMA CaesarSteps == CaesarInv /\ [FixedNext]_os => CaesarInv'
<1> SUFFICES ASSUME CaesarInv, [FixedNext]_os PROVE CaesarInv'
  OBVIOUS
<1>1. CASE UNCHANGED os
  BY <1>1 DEF os, CaesarInv
<1>2. CASE FixedNext
  <2>1. PICK p \in DOMAIN proc : FixedStep(p) BY <1>2 DEF FixedNext
  <2>2. ~CutStep(p) /\ ~Run(p)
    BY CaesarPlaces DEF CutStep, Run, RunRead, RunWrite, RunEnd, ForkBefore, ExecCut, ExecChild
  <2>3. CaesarStep(p) BY <2>1, <2>2 DEF FixedStep
  <2> QED BY <2>3, ForkChild1Step, ForkChild2Step, CloseUnneededStep, ReadMessageStep, WriteMessageStep, WrittenStep
          DEF CaesarStep
<1> QED BY <1>1, <1>2

\* What lab6 shows of FixedCorrect.
InBuffers == \A p \in DOMAIN proc : InBuffer(proc[p])
RoundTrip == proc[1].pc = "printed" => proc[1].mem.buf = Message

\* The invariant gives the properties.
LEMMA CaesarRight ==
  ASSUME CaesarInv
  PROVE  InBuffers /\ (1 \in DOMAIN proc => RoundTrip)
<1>1. PICK w \in [2 .. 4 -> Nat], d \in [2 .. 4 -> Nat] : IsSequence(proc) /\ Travelling(proc, obj, w, d)
  BY DEF CaesarInv
<1>2. ASSUME NEW p \in DOMAIN proc PROVE InBuffer(proc[p]) /\ (proc[p].pc = "printed" => proc[p].mem.buf = Message)
  <2>1. PICK r : r = proc[p] OBVIOUS
  <2>2. Place(r, w, d) BY <1>1, <2>1 DEF Travelling
  <2>3. CASE r.pc = "read1"
    <3>1. Reads(r, 2, d[2]) BY <2>2, <2>3 DEF Place
    <3> QED BY <2>1, <2>3, <3>1 DEF InBuffer, Reads, Part
  <2>4. CASE r.pc = "read2"
    <3>1. Reads(r, 3, d[3]) BY <2>2, <2>4 DEF Place
    <3> QED BY <2>1, <2>4, <3>1 DEF InBuffer, Reads, Part
  <2>5. CASE r.pc = "receive"
    <3>1. Reads(r, 4, d[4]) BY <2>2, <2>5 DEF Place
    <3> QED BY <2>1, <2>5, <3>1 DEF InBuffer, Reads, Part
  <2>6. CASE r.pc = "pass"
    <3>1. Relays(r, 2, 3, Message, w) \/ Relays(r, 3, 4, Cipher, w) BY <2>2, <2>6 DEF Place
    <3> QED BY <2>1, <2>6, <3>1 DEF InBuffer, Relays
  <2>7. CASE r.pc = "printed" BY <2>1, <2>2, <2>7 DEF InBuffer, Place
  <2>8. CASE r.pc \notin {"read1", "read2", "receive", "pass", "printed"} BY <2>1, <2>8 DEF InBuffer
  <2> QED BY <2>3, <2>4, <2>5, <2>6, <2>7, <2>8
<1> QED BY <1>2 DEF InBuffers, RoundTrip

-----------------------------------------------------------------------------
(* The run of mt2 Q1.                                                      *)

\* execvp finds the three programs.
Installed == {"ls", "xargs", "cut"} \subseteq DOMAIN Programs

\* Sequences over a part of a set are sequences over the set.
LEMMA GivesItems ==
  ASSUME Installed, NEW name \in {"ls", "xargs", "cut"}
  PROVE  Programs[name].gives \in Seq(Items) /\ Programs[name].reads \in Nat
<1>1. PICK g : g = Programs[name].gives
  OBVIOUS
<1>2. g \in Seq(Range(g)) /\ Programs[name].reads \in Nat
  BY <1>1, PipesAssumption DEF Installed
<1>3. Range(g) \subseteq Items
  BY <1>1 DEF Items
<1>4. g \in Seq(Items)
  BY <1>2, <1>3, SeqMonotonic
<1> QED BY <1>1, <1>2, <1>4

\* The shorter of an input and what a program reads of it.
LEMMA LessOf ==
  ASSUME NEW a \in Nat, NEW b \in Nat
  PROVE  Min({a, b}) = IF a <= b THEN a ELSE b
<1>1. {a, b} \subseteq Nat /\ {a, b} # {}
  OBVIOUS
<1>2. Min({a, b}) \in {a, b} /\ Min({a, b}) <= a /\ Min({a, b}) <= b
  BY <1>1, MinIn
<1> QED BY <1>2

\* What a program delivers: its own items, then those it reads.
DeliversOf(output, gives, input, reads) ==
  /\ gives \in Seq(Items) /\ input \in Seq(Items) /\ output \in Seq(Items) /\ reads \in Nat
  /\ Len(gives) \in Nat /\ Len(input) \in Nat
  /\ Len(output) = Len(gives) + (IF Len(input) <= reads THEN Len(input) ELSE reads)
  /\ \A k \in 1 .. Len(gives) : output[k] = gives[k]
  /\ \A k \in 1 .. (IF Len(input) <= reads THEN Len(input) ELSE reads) : output[Len(gives) + k] = input[k]

\* The output of a program, item by item.
LEMMA DeliveredIs ==
  ASSUME Installed, NEW name \in {"ls", "xargs", "cut"}, NEW input \in Seq(Items)
  PROVE  DeliversOf(Delivered(name, input), Programs[name].gives, input, Programs[name].reads)
<1>1. PICK g \in Seq(Items), reads \in Nat : g = Programs[name].gives /\ reads = Programs[name].reads
  BY GivesItems
<1>2. PICK n \in Nat, m \in Nat : n = Len(input) /\ m = Len(g)
  BY LenProperties
<1>3. PICK j \in Nat : j = IF n <= reads THEN n ELSE reads
  OBVIOUS
<1>4. Min({n, reads}) = j
  BY <1>3, LessOf
<1>5. PICK part : part = SubSeq(input, 1, j)
  OBVIOUS
<1>6. part \in Seq(Items) /\ Len(part) = j /\ \A k \in 1 .. j : part[k] = input[k]
  <2>1. 1 \in Nat /\ j \in Nat /\ j <= n BY <1>3
  <2>2. \A k \in 1 .. j : k \in 1 .. n BY <2>1
  <2>3. \A k \in 1 .. j : input[k] \in Items BY <1>2, <2>2, ElementOfSeq
  <2>4. SubSeq(input, 1, j) = [k \in 1 .. (1 + j - 1) |-> input[k + 1 - 1]] BY <1>2, <2>1
  <2>5. part = [k \in 1 .. j |-> input[k]] BY <1>5, <2>4
  <2>6. part \in [1 .. j -> Items] BY <2>3, <2>5
  <2>7. part \in Seq(Items) BY <2>6, SeqDef
  <2>8. Len(part) = j BY <2>6, <2>7, LenProperties
  <2> QED BY <2>5, <2>7, <2>8
<1>7. PICK out : out = g \o part
  OBVIOUS
<1>8. /\ out \in Seq(Items) /\ Len(out) = m + j
      /\ \A k \in 1 .. m + j : out[k] = IF k <= m THEN g[k] ELSE part[k - m]
  BY <1>2, <1>6, <1>7, ConcatProperties
<1>9. \A k \in 1 .. m : out[k] = g[k]
  <2> TAKE k \in 1 .. m
  <2>1. k \in 1 .. m + j /\ k <= m OBVIOUS
  <2> QED BY <1>8, <2>1
<1>10. \A k \in 1 .. j : out[m + k] = input[k]
  <2> TAKE k \in 1 .. j
  <2>1. m + k \in 1 .. m + j /\ ~(m + k <= m) /\ (m + k) - m = k OBVIOUS
  <2> QED BY <1>6, <1>8, <2>1
<1>11. out = Delivered(name, input)
  BY <1>1, <1>2, <1>4, <1>5, <1>7 DEF Delivered
<1>12. DeliversOf(out, g, input, reads)
  BY <1>2, <1>3, <1>8, <1>9, <1>10 DEF DeliversOf
<1> QED BY <1>1, <1>11, <1>12

\* The outputs of the three programs.
LEMMA Deliveries ==
  ASSUME Installed
  PROVE  /\ DeliversOf(Listed, Programs["ls"].gives, <<>>, Programs["ls"].reads)
         /\ DeliversOf(Joined, Programs["xargs"].gives, Listed, Programs["xargs"].reads)
         /\ DeliversOf(Chosen, Programs["cut"].gives, Joined, Programs["cut"].reads)
<1>1. <<>> \in Seq(Items)
  BY EmptySeq
<1>2. DeliversOf(Listed, Programs["ls"].gives, <<>>, Programs["ls"].reads)
  BY <1>1, DeliveredIs DEF Listed
<1>3. Listed \in Seq(Items)
  BY <1>2 DEF DeliversOf
<1>4. DeliversOf(Joined, Programs["xargs"].gives, Listed, Programs["xargs"].reads)
  BY <1>3, DeliveredIs DEF Joined
<1>5. Joined \in Seq(Items)
  BY <1>4 DEF DeliversOf
<1>6. DeliversOf(Chosen, Programs["cut"].gives, Joined, Programs["cut"].reads)
  BY <1>5, DeliveredIs DEF Chosen
<1> QED BY <1>2, <1>4, <1>6

\* The meaning of the pipeline.
LEMMA FlowIs == Flow(<<"ls", "xargs", "cut">>, <<>>) = Chosen
<1> DEFINE names == <<"ls", "xargs", "cut">>
           FlowStep(g, j) == Programs[names[j]].gives \o SubSeq(g[j - 1], 1, Min({Len(g[j - 1]), Programs[names[j]].reads}))
           IsFlow(g) == g = [j \in 0 .. 3 |-> IF j = 0 THEN <<>> ELSE FlowStep(g, j)]
           Meant(g) == g = [j \in 0 .. Len(names) |-> IF j = 0 THEN <<>> ELSE FlowStep(g, j)]
           f == CHOOSE g : Meant(g)
<1>1. Len(names) = 3 /\ names[1] = "ls" /\ names[2] = "xargs" /\ names[3] = "cut"
  OBVIOUS
<1>2. Flow(names, <<>>) = f[Len(names)]
  BY DEF Flow
<1>3. PICK h : h = [j \in 0 .. 3 |-> CASE j = 0 -> <<>> [] j = 1 -> Listed [] j = 2 -> Joined [] j = 3 -> Chosen]
  OBVIOUS
<1>4. h[0] = <<>> /\ h[1] = Listed /\ h[2] = Joined /\ h[3] = Chosen /\ DOMAIN h = 0 .. 3
  BY <1>3
<1>5. IsFlow(h)
  <2>1. FlowStep(h, 1) = Listed /\ FlowStep(h, 2) = Joined /\ FlowStep(h, 3) = Chosen
    <3>1. 1 - 1 = 0 /\ 2 - 1 = 1 /\ 3 - 1 = 2 OBVIOUS
    <3>2. FlowStep(h, 1) = Delivered("ls", h[0]) BY <1>1, <3>1 DEF Delivered
    <3>3. FlowStep(h, 2) = Delivered("xargs", h[1]) BY <1>1, <3>1 DEF Delivered
    <3>4. FlowStep(h, 3) = Delivered("cut", h[2]) BY <1>1, <3>1 DEF Delivered
    <3> QED BY <1>4, <3>2, <3>3, <3>4 DEF Listed, Joined, Chosen
  <2> HIDE DEF FlowStep
  <2>2. PICK t : t = [j \in 0 .. 3 |-> IF j = 0 THEN <<>> ELSE FlowStep(h, j)] OBVIOUS
  <2>3. t[0] = <<>> /\ t[1] = Listed /\ t[2] = Joined /\ t[3] = Chosen BY <2>1, <2>2
  <2>4. \A j \in 0 .. 3 : h[j] = t[j]
    <3> TAKE j \in 0 .. 3
    <3>1. j = 0 \/ j = 1 \/ j = 2 \/ j = 3 OBVIOUS
    <3> QED BY <1>4, <2>3, <3>1
  <2>5. h = t BY <1>3, <2>2, <2>4
  <2> QED BY <2>2, <2>5
<1>6. PICK g : g = f /\ IsFlow(g)
  <2>1. Meant(h) BY <1>1, <1>5
  <2>2. Meant(f)
    <3> HIDE DEF Meant
    <3> QED BY <2>1
  <2>3. IsFlow(f) BY <1>1, <2>2
  <2> QED BY <2>3
<1>7. /\ g[0] = <<>> /\ g[1] = FlowStep(g, 1) /\ g[2] = FlowStep(g, 2) /\ g[3] = FlowStep(g, 3)
  <2> HIDE DEF FlowStep, f
  <2> QED BY <1>6
<1>8. g[1] = Listed /\ g[2] = Joined /\ g[3] = Chosen
  <2>1. 1 - 1 = 0 /\ 2 - 1 = 1 /\ 3 - 1 = 2 OBVIOUS
  <2>2. FlowStep(g, 1) = Delivered("ls", g[0]) BY <1>1, <2>1 DEF Delivered
  <2>3. FlowStep(g, 2) = Delivered("xargs", g[1]) BY <1>1, <2>1 DEF Delivered
  <2>4. FlowStep(g, 3) = Delivered("cut", g[2]) BY <1>1, <2>1 DEF Delivered
  <2> HIDE DEF FlowStep, f
  <2> QED BY <1>7, <2>2, <2>3, <2>4 DEF Listed, Joined, Chosen
<1> HIDE DEF f
<1> QED BY <1>1, <1>2, <1>6, <1>8

\* The process s is r but for its memory, todo and reads.
Kept(r, s, todo, reads) ==
  /\ s.pc = r.pc /\ s.in = r.in /\ s.out = r.out /\ s.more = r.more /\ DOMAIN s = ProcessFields
  /\ DOMAIN s.mem = {"todo", "reads"} /\ s.mem.todo = todo /\ s.mem.reads = reads

\* The process s is r after it wrote an item.
Wrote(r, s) == Kept(r, s, Tail(r.mem.todo), r.mem.reads)

\* A program that wrote an item.
LEMMA WorkWrites ==
  ASSUME NEW r, NEW name, NEW in, NEW out, NEW n, NEW m, NEW input, NEW output,
         Working(r, name, in, out, n, m, input, output), r.mem.todo # <<>>,
         NEW s, Wrote(r, s)
  PROVE  /\ Working(s, name, in, out, n + 1, m, input, output)
         /\ n \in Nat /\ n + 1 \in Nat /\ n < Len(output) /\ Head(r.mem.todo) = output[n + 1]
<1>1. PICK todo, j : todo = r.mem.todo /\ j = Len(Programs[name].gives) + m
  OBVIOUS
<1>2. Part(Items, todo, output, n, j) /\ todo # <<>>
  BY <1>1 DEF Working
<1>3. /\ Head(todo) = output[n + 1] /\ n < j /\ n + 1 \in 1 .. Len(output)
      /\ Part(Items, Tail(todo), output, n + 1, j)
  BY <1>2, PartShrinks
<1>4. n \in Nat /\ Len(output) \in Nat
  BY <1>2, NoPart
<1>5. Working(s, name, in, out, n + 1, m, input, output)
  BY <1>1, <1>3 DEF Working, Wrote, Kept
<1> QED BY <1>1, <1>3, <1>4, <1>5

\* A program that read an item.
LEMMA WorkReads ==
  ASSUME NEW r, NEW name, NEW in, NEW out, NEW n, NEW m, NEW input, NEW output,
         Working(r, name, in, out, n, m, input, output), r.mem.todo = <<>>, r.mem.reads > 0,
         DeliversOf(output, Programs[name].gives, input, Programs[name].reads), m < Len(input),
         NEW s, Kept(r, s, <<input[m + 1]>>, r.mem.reads - 1)
  PROVE  Working(s, name, in, out, n, m + 1, input, output) /\ m + 1 \in Nat
<1>1. PICK g, reads \in Nat : g = Len(Programs[name].gives) /\ reads = Programs[name].reads
  BY DEF DeliversOf
<1>2. /\ output \in Seq(Items) /\ g \in Nat /\ Len(input) \in Nat
      /\ Len(output) = g + (IF Len(input) <= reads THEN Len(input) ELSE reads)
      /\ \A k \in 1 .. (IF Len(input) <= reads THEN Len(input) ELSE reads) : output[g + k] = input[k]
  BY <1>1 DEF DeliversOf
<1>3. m \in Nat /\ m <= reads /\ r.mem.reads = reads - m /\ Part(Items, <<>>, output, n, g + m)
  BY <1>1 DEF Working
<1>4. n = g + m
  BY <1>3, NoPart
<1>5. m + 1 \in Nat /\ m + 1 <= reads /\ m + 1 <= Len(input) /\ r.mem.reads - 1 = reads - (m + 1)
  BY <1>2, <1>3
<1>6. output[n + 1] = input[m + 1] /\ n < Len(output)
  <2>1. m + 1 \in 1 .. (IF Len(input) <= reads THEN Len(input) ELSE reads)
    <3>1. PICK a \in Nat : a = Len(input) BY <1>2
    <3>2. m + 1 \in Nat /\ 1 <= m + 1 /\ m + 1 <= a /\ m + 1 <= reads BY <1>3, <1>5, <3>1
    <3>3. m + 1 \in 1 .. (IF a <= reads THEN a ELSE reads) BY <3>2
    <3> QED BY <3>1, <3>3
  <2>2. output[g + (m + 1)] = input[m + 1] BY <1>2, <2>1
  <2>3. g + (m + 1) = n + 1 BY <1>2, <1>3, <1>4
  <2>4. n < Len(output) BY <1>2, <1>3, <1>4, <1>5
  <2> QED BY <2>2, <2>3, <2>4
<1>7. Part(Items, Append(<<>>, output[n + 1]), output, n, n + 1)
  <2>1. Part(Items, <<>>, output, n, n) BY <1>3, <1>4
  <2> QED BY <1>6, <2>1, PartGrows
<1>8. Append(<<>>, output[n + 1]) = <<input[m + 1]>>
  BY <1>6
<1>9. n + 1 = g + (m + 1)
  BY <1>2, <1>3, <1>4
<1>10. Part(Items, <<input[m + 1]>>, output, n, g + (m + 1))
  BY <1>7, <1>8, <1>9
<1> QED BY <1>1, <1>5, <1>10 DEF Working, Kept

\* A program with nothing to write that reads no more, or has read its input.
LEMMA WorkEnds ==
  ASSUME NEW r, NEW name, NEW in, NEW out, NEW n, NEW m, NEW input, NEW output,
         Working(r, name, in, out, n, m, input, output), r.mem.todo = <<>>,
         DeliversOf(output, Programs[name].gives, input, Programs[name].reads),
         r.mem.reads = 0 \/ m = Len(input)
  PROVE  n = Len(output)
<1>1. PICK g, reads \in Nat : g = Len(Programs[name].gives) /\ reads = Programs[name].reads
  BY DEF DeliversOf
<1>2. /\ g \in Nat /\ Len(input) \in Nat
      /\ Len(output) = g + (IF Len(input) <= reads THEN Len(input) ELSE reads)
  BY <1>1 DEF DeliversOf
<1>3. m \in Nat /\ m <= reads /\ m <= Len(input) /\ r.mem.reads = reads - m /\ Part(Items, <<>>, output, n, g + m)
  BY <1>1 DEF Working
<1>4. n = g + m
  BY <1>3, NoPart
<1> QED BY <1>2, <1>3, <1>4

\* A program that was just executed.
LEMMA WorkBegins ==
  ASSUME NEW r, DOMAIN r = ProcessFields, NEW name, NEW input, NEW output,
         DeliversOf(output, Programs[name].gives, input, Programs[name].reads), r.more = {}
  PROVE  Working(Exec(r, name), name, r.in, r.out, 0, 0, input, output) /\ DOMAIN Exec(r, name) = ProcessFields
<1>9. PICK s, g : s = Exec(r, name) /\ g = Programs[name].gives
  OBVIOUS
<1>10. PICK reads \in Nat : reads = Programs[name].reads
  BY DEF DeliversOf
<1>1. s = Exec(r, name) /\ g = Programs[name].gives /\ reads = Programs[name].reads
  BY <1>9, <1>10
<1>2. PICK m : m = [todo |-> g, reads |-> reads]
  OBVIOUS
<1>3. s = [r EXCEPT !.pc = "run", !.mem = m]
  BY <1>1, <1>2 DEF Exec
<1>4. s.pc = "run" /\ s.in = r.in /\ s.out = r.out /\ s.more = {} /\ s.mem = m /\ DOMAIN s = ProcessFields
  BY <1>3 DEF ProcessFields
<1>5. DOMAIN m = {"todo", "reads"} /\ m.todo = g /\ m.reads = reads
  BY <1>2
<1>6. /\ g \in Seq(Items) /\ output \in Seq(Items) /\ Len(g) \in Nat /\ Len(input) \in Nat
      /\ Len(output) = Len(g) + (IF Len(input) <= reads THEN Len(input) ELSE reads)
      /\ \A k \in 1 .. Len(g) : output[k] = g[k]
  BY <1>1 DEF DeliversOf
<1>7. Part(Items, g, output, 0, Len(g) + 0)
  <2>1. Len(g) + 0 = Len(g) /\ Len(g) - 0 = Len(g) /\ Len(g) <= Len(output) BY <1>6
  <2>2. \A k \in 1 .. Len(g) : g[k] = output[0 + k] BY <1>6
  <2> QED BY <1>6, <2>1, <2>2 DEF Part
<1>8. 0 \in Nat /\ 0 <= Len(input) /\ 0 <= reads /\ reads = reads - 0
  BY <1>6
<1> QED BY <1>1, <1>4, <1>5, <1>7, <1>8 DEF Working

\* A pipe after an item was written to it.
LEMMA HoldPut ==
  ASSUME NEW o, IsSequence(o), NEW k, k \in DOMAIN o, NEW t, NEW m, NEW n, Holding(o, k, t, m, n), n < Len(t),
         NEW u, Put(u, o, k, t[n + 1])
  PROVE  /\ IsSequence(u) /\ Len(u) = Len(o) /\ Holding(u, k, t, m, n + 1)
         /\ \A i \in DOMAIN o : i # k => u[i] = o[i]
<1>1. PICK b : b = o[k]
  OBVIOUS
<1>2. k <= Len(o)
  BY DEF IsSequence
<1>3. DOMAIN b = ObjectFields /\ b.kind = "pipe" /\ Part(Items, b.data, t, m, n)
  BY <1>1, <1>2 DEF Holding
<1>4. PICK c : c = Append(b.data, t[n + 1])
  OBVIOUS
<1>5. Part(Items, c, t, m, n + 1)
  BY <1>3, <1>4, PartGrows
<1>6. PICK f : f = [b EXCEPT !.data = c]
  OBVIOUS
<1>7. DOMAIN f = ObjectFields /\ f.kind = "pipe" /\ f.data = c
  BY <1>3, <1>6 DEF ObjectFields
<1>8. u = [o EXCEPT ![k] = f]
  BY <1>1, <1>4, <1>6 DEF Put
<1>9. IsSequence([o EXCEPT ![k] = f]) /\ Len([o EXCEPT ![k] = f]) = Len(o)
  BY ExceptSequence
<1>10. u[k] = f /\ \A i \in DOMAIN o : i # k => u[i] = o[i]
  BY <1>8
<1>11. Holding(u, k, t, m, n + 1)
  BY <1>5, <1>7, <1>10 DEF Holding
<1> QED BY <1>8, <1>9, <1>10, <1>11

\* A pipe after an item was read from it.
LEMMA HoldTook ==
  ASSUME NEW o, IsSequence(o), NEW k, k \in DOMAIN o, NEW t, NEW m, NEW n, Holding(o, k, t, m, n), o[k].data # <<>>,
         NEW u, Took(u, o, k)
  PROVE  /\ IsSequence(u) /\ Len(u) = Len(o) /\ Holding(u, k, t, m + 1, n)
         /\ \A i \in DOMAIN o : i # k => u[i] = o[i]
         /\ Head(o[k].data) = t[m + 1] /\ m < Len(t)
<1>1. PICK b : b = o[k]
  OBVIOUS
<1>2. k <= Len(o)
  BY DEF IsSequence
<1>3. DOMAIN b = ObjectFields /\ b.kind = "pipe" /\ Part(Items, b.data, t, m, n) /\ b.data # <<>>
  BY <1>1, <1>2 DEF Holding
<1>4. PICK a, c : a = b.data /\ c = SubSeq(b.data, 2, Len(b.data))
  OBVIOUS
<1>5. Part(Items, a, t, m, n) /\ a # <<>>
  BY <1>3, <1>4
<1>6. /\ Head(a) = t[m + 1] /\ m + 1 \in 1 .. Len(t) /\ Part(Items, Tail(a), t, m + 1, n)
      /\ Part(Items, SubSeq(a, 2, Len(a)), t, m + 1, n)
  BY <1>5, PartShrinks
<1>7. m < Len(t)
  <2>1. m \in Nat /\ Len(t) \in Nat BY <1>5, NoPart
  <2> QED BY <1>6, <2>1
<1>8. PICK f : f = [b EXCEPT !.data = c]
  OBVIOUS
<1>9. DOMAIN f = ObjectFields /\ f.kind = "pipe" /\ f.data = c
  BY <1>3, <1>8 DEF ObjectFields
<1>10. u = [o EXCEPT ![k] = f]
  BY <1>1, <1>4, <1>8 DEF Took
<1>11. IsSequence([o EXCEPT ![k] = f]) /\ Len([o EXCEPT ![k] = f]) = Len(o)
  BY ExceptSequence
<1>12. u[k] = f /\ \A i \in DOMAIN o : i # k => u[i] = o[i]
  BY <1>10
<1>13. Holding(u, k, t, m + 1, n)
  BY <1>4, <1>6, <1>9, <1>12 DEF Holding
<1> QED BY <1>1, <1>4, <1>6, <1>7, <1>10, <1>11, <1>12, <1>13

\* How many processes and pipes there are.
LEMMA HowMany ==
  ASSUME NEW ps, IsSequence(ps), NEW o, NEW n, NEW m, CutPlace(ps, o, n, m)
  PROVE  Len(ps) \in {1, 2, 3} /\ Len(o) = Len(ps) /\ DOMAIN ps \subseteq {1, 2, 3} /\ 1 \in DOMAIN ps
<1>1. Len(ps) \in {1, 2, 3} /\ Len(o) = Len(ps)
  BY DEF CutPlace
<1>2. PICK k \in {1, 2, 3} : k = Len(ps) /\ DOMAIN ps = 1 .. k
  BY <1>1 DEF IsSequence
<1> QED BY <1>1, <1>2

\* The processes, when one of them changes.
AllPlaced(ps, o, n1, n2, m2, n3, m3) ==
  IsSequence(ps) /\ CutPlace(ps, o, n3, m3) /\ LsPlace(ps, n1) /\ XargsPlace(ps, n2, m2)
Moved(ps, qs, p, s) == p \in DOMAIN ps /\ ps[p].pc # "zombie" /\ qs = [ps EXCEPT ![p] = s]
SameNumber(u, o) == Len(u) = Len(o)
OthersWaiting(ps, qs, u, p, s, n1, n2, m2, n3, m3) ==
  /\ IsSequence(qs) /\ Len(qs) = Len(ps) /\ DOMAIN qs = DOMAIN ps /\ qs[p] = s
  /\ p # 1 => CutPlace(qs, u, n3, m3)
  /\ p # 2 => LsPlace(qs, n1)
  /\ p # 3 => XargsPlace(qs, n2, m2)
  /\ \A k \in DOMAIN ps : k # p => qs[k] = ps[k]

\* The places of the others.
LEMMA OthersWait ==
  ASSUME NEW ps, NEW o, NEW n1, NEW n2, NEW m2, NEW n3, NEW m3, AllPlaced(ps, o, n1, n2, m2, n3, m3),
         NEW p, NEW s, NEW qs, Moved(ps, qs, p, s), NEW u, SameNumber(u, o)
  PROVE  OthersWaiting(ps, qs, u, p, s, n1, n2, m2, n3, m3)
<1> SUFFICES ASSUME IsSequence(ps), CutPlace(ps, o, n3, m3), LsPlace(ps, n1), XargsPlace(ps, n2, m2),
                    p \in DOMAIN ps, ps[p].pc # "zombie", qs = [ps EXCEPT ![p] = s], Len(u) = Len(o)
             PROVE  /\ IsSequence(qs) /\ Len(qs) = Len(ps) /\ DOMAIN qs = DOMAIN ps /\ qs[p] = s
                    /\ p # 1 => CutPlace(qs, u, n3, m3)
                    /\ p # 2 => LsPlace(qs, n1)
                    /\ p # 3 => XargsPlace(qs, n2, m2)
                    /\ \A k \in DOMAIN ps : k # p => qs[k] = ps[k]
  BY DEF AllPlaced, Moved, SameNumber, OthersWaiting
<1>1. IsSequence([ps EXCEPT ![p] = s]) /\ Len([ps EXCEPT ![p] = s]) = Len(ps)
  BY ExceptSequence
<1>2. IsSequence(qs) /\ Len(qs) = Len(ps) /\ DOMAIN qs = DOMAIN ps /\ qs[p] = s
  BY <1>1
<1>3. \A k \in DOMAIN ps : k # p => qs[k] = ps[k]
  OBVIOUS
<1>4. Len(ps) \in {1, 2, 3} /\ 1 \in DOMAIN ps /\ \A k \in {1, 2, 3} : k <= Len(ps) => k \in DOMAIN ps
  <2>1. Len(ps) \in {1, 2, 3} /\ 1 \in DOMAIN ps BY HowMany
  <2>2. PICK k \in {1, 2, 3} : k = Len(ps) /\ DOMAIN ps = 1 .. k BY <2>1 DEF IsSequence
  <2> QED BY <2>1, <2>2
<1>5. ASSUME p # 1 PROVE CutPlace(qs, u, n3, m3)
  <2>1. qs[1] = ps[1] BY <1>3, <1>4, <1>5
  <2> QED BY <1>2, <2>1 DEF CutPlace
<1>6. ASSUME p # 2 PROVE LsPlace(qs, n1)
  <2>1. CASE Len(ps) < 2 BY <1>2, <2>1 DEF LsPlace
  <2>2. CASE ~(Len(ps) < 2)
    <3>1. 2 \in DOMAIN ps BY <1>4, <2>2
    <3>2. qs[2] = ps[2] BY <1>3, <1>6, <3>1
    <3>3. Len(ps) = 3 /\ ps[3].pc = "zombie" => qs[3].pc = "zombie" BY <1>3, <1>4
    <3> QED BY <1>2, <2>2, <3>2, <3>3 DEF LsPlace
  <2> QED BY <2>1, <2>2
<1>7. ASSUME p # 3 PROVE XargsPlace(qs, n2, m2)
  <2>1. CASE Len(ps) < 3 BY <1>2, <2>1 DEF XargsPlace
  <2>2. CASE ~(Len(ps) < 3)
    <3>1. 3 \in DOMAIN ps BY <1>4, <2>2
    <3>2. qs[3] = ps[3] BY <1>3, <1>7, <3>1
    <3>3. ps[1].pc = "zombie" => qs[1].pc = "zombie" BY <1>3, <1>4
    <3> QED BY <1>2, <2>2, <3>2, <3>3 DEF XargsPlace
  <2> QED BY <2>1, <2>2
<1> QED BY <1>2, <1>3, <1>5, <1>6, <1>7

\* The three things a program does.
TakesItem(p, r) ==
  /\ r.mem.todo = <<>> /\ r.mem.reads > 0 /\ Available(r.in[1]) # <<>>
  /\ obj' = Taken(r.in[1], 1) /\ file' = file
  /\ \E s : proc' = [proc EXCEPT ![p] = s] /\ Kept(r, s, <<Head(Available(r.in[1]))>>, r.mem.reads - 1)

PutsItem(p, r) ==
  /\ r.mem.todo # <<>> /\ WriteTo(r.out[1], Head(r.mem.todo))
  /\ \E s : proc' = [proc EXCEPT ![p] = s] /\ Wrote(r, s)

Stops(p, r) ==
  /\ IF r.mem.todo = <<>> THEN r.mem.reads = 0 \/ AtEnd(r.in[1]) ELSE Broken(r.out[1])
  /\ obj' = obj /\ file' = file
  /\ \E s : proc' = [proc EXCEPT ![p] = s] /\ s.pc = "zombie" /\ DOMAIN s = ProcessFields

\* A step of a program is one of the three.
LEMMA RunEffect ==
  ASSUME NEW p \in DOMAIN proc, NEW r, r = proc[p], DOMAIN r = ProcessFields, DOMAIN r.mem = {"todo", "reads"}, Run(p)
  PROVE  (TakesItem(p, r) \/ PutsItem(p, r) \/ Stops(p, r)) /\ failures' = failures /\ r.pc = "run"
<1>1. CASE RunRead(p)
  <2>1. /\ r.mem.todo = <<>> /\ r.mem.reads > 0 /\ Available(r.in[1]) # <<>>
        /\ obj' = Taken(r.in[1], 1) /\ file' = file /\ r.pc = "run"
    BY <1>1 DEF RunRead, files
  <2>2. PICK m : m = [todo |-> <<Head(Available(r.in[1]))>>, reads |-> r.mem.reads - 1] OBVIOUS
  <2>3. PICK s : s = [r EXCEPT !.mem = m] OBVIOUS
  <2>4. proc' = [proc EXCEPT ![p] = s]
    <3>1. proc' = [proc EXCEPT ![p].mem = [todo |-> <<Head(Available(r.in[1]))>>, reads |-> r.mem.reads - 1]]
      BY <1>1 DEF RunRead
    <3> QED BY <2>2, <2>3, <3>1
  <2>5. DOMAIN m = {"todo", "reads"} /\ m.todo = <<Head(Available(r.in[1]))>> /\ m.reads = r.mem.reads - 1
    BY <2>2
  <2>6. Kept(r, s, <<Head(Available(r.in[1]))>>, r.mem.reads - 1)
    BY <2>3, <2>5 DEF Kept, ProcessFields
  <2>7. TakesItem(p, r) BY <2>1, <2>4, <2>6 DEF TakesItem
  <2> QED BY <2>1, <2>7 DEF Run
<1>2. CASE RunWrite(p)
  <2>1. r.mem.todo # <<>> /\ WriteTo(r.out[1], Head(r.mem.todo)) /\ r.pc = "run"
    BY <1>2 DEF RunWrite
  <2>2. PICK m, t : t = Tail(r.mem.todo) /\ m = [r.mem EXCEPT !.todo = t] OBVIOUS
  <2>3. PICK s : s = [r EXCEPT !.mem = m] OBVIOUS
  <2>4. proc' = [proc EXCEPT ![p] = s]
    <3>1. proc' = [proc EXCEPT ![p].mem.todo = Tail(@)] BY <1>2 DEF RunWrite
    <3> QED BY <2>2, <2>3, <3>1
  <2>5. DOMAIN m = {"todo", "reads"} /\ m.todo = t /\ m.reads = r.mem.reads
    BY <2>2
  <2>6. Kept(r, s, t, r.mem.reads)
    BY <2>3, <2>5 DEF Kept, ProcessFields
  <2>7. PutsItem(p, r) BY <2>1, <2>2, <2>4, <2>6 DEF PutsItem, Wrote
  <2> QED BY <2>1, <2>7 DEF Run
<1>3. CASE RunEnd(p)
  <2>1. /\ IF r.mem.todo = <<>> THEN r.mem.reads = 0 \/ AtEnd(r.in[1]) ELSE Broken(r.out[1])
        /\ obj' = obj /\ file' = file /\ r.pc = "run"
    BY <1>3 DEF RunEnd, files
  <2>2. PICK s : s = Ended(r) OBVIOUS
  <2>3. proc' = [proc EXCEPT ![p] = s] BY <1>3, <2>2 DEF RunEnd
  <2>4. s.pc = "zombie" /\ DOMAIN s = ProcessFields BY <2>2 DEF Ended, ProcessFields
  <2>5. Stops(p, r) BY <2>1, <2>3, <2>4 DEF Stops
  <2> QED BY <2>1, <2>5 DEF Run
<1> QED BY <1>1, <1>2, <1>3 DEF Run

\* An end nobody holds.
LEMMA NotHeld ==
  ASSUME NEW e, ~IsHeld(e), NEW q \in DOMAIN proc
  PROVE  proc[q].in # e /\ proc[q].out # e /\ e \notin proc[q].more
BY DEF IsHeld, Held

\* The terminal has nothing to read.
LEMMA TerminalIs == Terminal(<<>>).kind = "tty" /\ Terminal(<<>>).file = Screen /\ Terminal(<<>>).data = <<>>
BY DEF Terminal, Object

\* A step of ls.
LEMMA LsRuns ==
  ASSUME Installed, IsSequence(proc), NEW n1 \in Nat, NEW n2 \in Nat, NEW m2 \in Nat, NEW n3 \in Nat, NEW m3 \in Nat,
         Composed(proc, obj, file, n1, n2, m2, n3, m3),
         2 \in DOMAIN proc, DOMAIN proc[2] = ProcessFields, proc[2].pc = "run", Run(2)
  PROVE  \E k1 \in Nat : Composed(proc', obj', file', k1, n2, m2, n3, m3)
<1>1. /\ IsSequence(obj) /\ CutPlace(proc, obj, n3, m3) /\ LsPlace(proc, n1) /\ XargsPlace(proc, n2, m2)
      /\ Holding(obj, 2, Listed, m2, n1) /\ Holding(obj, 3, Joined, m3, n2)
      /\ obj[1] = Terminal(<<>>)
      /\ Screen \in DOMAIN file /\ Part(Items, file[Screen], Chosen, 0, n3)
  BY DEF Composed
<1>40. AllPlaced(proc, obj, n1, n2, m2, n3, m3)
  BY <1>1 DEF AllPlaced
<1>2. PICK r : r = proc[2]
  OBVIOUS
<1>3. Len(proc) \in {2, 3} /\ Len(obj) = Len(proc) /\ DOMAIN obj = 1 .. Len(obj) /\ 2 \in DOMAIN obj /\ 1 \in DOMAIN obj
  <2>1. Len(proc) \in {1, 2, 3} /\ Len(obj) = Len(proc) BY <1>1, HowMany
  <2>2. 2 \in 1 .. Len(proc) /\ DOMAIN obj = 1 .. Len(obj) BY <1>1 DEF IsSequence
  <2>3. PICK k \in {1, 2, 3} : k = Len(proc) /\ k = Len(obj) BY <2>1
  <2>4. k \in {2, 3} /\ 2 \in 1 .. k /\ 1 \in 1 .. k BY <2>2, <2>3
  <2> QED BY <2>2, <2>3, <2>4
<1>4. Working(r, "ls", R(1), W(2), n1, 0, <<>>, Listed)
  BY <1>1, <1>2, <1>3 DEF LsPlace
<1>5. /\ r.in = R(1) /\ r.in[1] = 1 /\ r.out = W(2) /\ r.out[1] = 2 /\ DOMAIN r.mem = {"todo", "reads"}
  BY <1>4 DEF Working, R, W
<1>6. TakesItem(2, r) \/ PutsItem(2, r) \/ Stops(2, r)
  BY <1>2, <1>5, RunEffect
<1>7. PICK u, g, qs : u = obj' /\ g = file' /\ qs = proc'
  OBVIOUS
<1>8. CASE TakesItem(2, r)
  <2>1. Available(1) = <<>> BY <1>1, TerminalIs DEF Available
  <2> QED BY <1>5, <1>8, <2>1 DEF TakesItem
<1>9. CASE PutsItem(2, r)
  <2>1. PICK s : qs = [proc EXCEPT ![2] = s] /\ Wrote(r, s) BY <1>7, <1>9 DEF PutsItem
  <2>2. r.mem.todo # <<>> /\ WriteTo(2, Head(r.mem.todo)) BY <1>5, <1>9 DEF PutsItem
  <2>3. /\ Working(s, "ls", R(1), W(2), n1 + 1, 0, <<>>, Listed)
        /\ n1 + 1 \in Nat /\ n1 < Len(Listed) /\ Head(r.mem.todo) = Listed[n1 + 1]
    BY <1>4, <2>1, <2>2, WorkWrites
  <2>4. obj[2].kind = "pipe" BY <1>1, <1>3 DEF Holding
  <2>5. Put(u, obj, 2, Listed[n1 + 1]) /\ g = file BY <1>7, <2>2, <2>3, <2>4 DEF WriteTo, Put
  <2>6. /\ IsSequence(u) /\ Len(u) = Len(obj) /\ Holding(u, 2, Listed, m2, n1 + 1)
        /\ \A i \in DOMAIN obj : i # 2 => u[i] = obj[i]
    <3>1. 2 \in DOMAIN obj /\ IsSequence(obj) /\ Holding(obj, 2, Listed, m2, n1) BY <1>1, <1>3
    <3>2. n1 < Len(Listed) BY <2>3
    <3> QED BY <2>5, <3>1, <3>2, HoldPut
  <2>7. /\ IsSequence(qs) /\ Len(qs) = Len(proc) /\ qs[2] = s
        /\ CutPlace(qs, u, n3, m3) /\ XargsPlace(qs, n2, m2)
    <3>1. SameNumber(u, obj) BY <1>1, <2>1, <2>6 DEF SameNumber
    <3>2. Moved(proc, qs, 2, s) BY <1>1, <2>1, <2>6, <1>2 DEF Moved
    <3>3. OthersWaiting(proc, qs, u, 2, s, n1, n2, m2, n3, m3) BY <1>40, <3>1, <3>2, OthersWait
    <3> QED BY <3>3 DEF OthersWaiting
  <2>8. LsPlace(qs, n1 + 1) BY <1>3, <2>3, <2>7 DEF LsPlace
  <2>9. Holding(u, 3, Joined, m3, n2) /\ u[1] = Terminal(<<>>)
    <3>1. u[1] = obj[1] /\ (3 <= Len(u) => u[3] = obj[3]) BY <1>3, <2>6
    <3> QED BY <1>1, <2>6, <3>1 DEF Holding
  <2>10. Composed(qs, u, g, n1 + 1, n2, m2, n3, m3) BY <1>1, <2>5, <2>6, <2>7, <2>8, <2>9 DEF Composed
  <2> QED BY <1>7, <2>3, <2>10
<1>10. CASE Stops(2, r)
  <2>1. PICK s : qs = [proc EXCEPT ![2] = s] /\ s.pc = "zombie" BY <1>7, <1>10 DEF Stops
  <2>2. u = obj /\ g = file BY <1>7, <1>10 DEF Stops
  <2>3. /\ Len(qs) = Len(proc) /\ qs[2] = s /\ CutPlace(qs, u, n3, m3) /\ XargsPlace(qs, n2, m2)
        /\ \A q \in DOMAIN proc : q # 2 => qs[q] = proc[q]
    <3>1. SameNumber(u, obj) BY <1>1, <2>1, <2>2 DEF SameNumber
    <3>2. Moved(proc, qs, 2, s) BY <1>1, <2>1, <2>2, <1>2 DEF Moved
    <3>3. OthersWaiting(proc, qs, u, 2, s, n1, n2, m2, n3, m3) BY <1>40, <3>1, <3>2, OthersWait
    <3> QED BY <3>3 DEF OthersWaiting
  <2>4. n1 = Len(Listed) \/ (Len(proc) = 3 /\ proc[3].pc = "zombie")
    <3>1. CASE r.mem.todo = <<>>
      <4>1. DeliversOf(Listed, Programs["ls"].gives, <<>>, Programs["ls"].reads) /\ Len(<<>>) = 0 BY Deliveries
      <4>2. n1 = Len(Listed) BY <1>4, <3>1, <4>1, WorkEnds
      <4> QED BY <4>2
    <3>2. CASE r.mem.todo # <<>>
      <4>1. ~IsHeld(R(2)) BY <1>5, <1>10, <3>2 DEF Stops, Broken
      <4>2. 1 \in DOMAIN proc /\ R(2) \notin proc[1].more BY <1>1, <4>1, HowMany, NotHeld
      <4>8. CutPlace(proc, obj, n3, m3) BY <1>1
      <4>9. ASSUME proc[1].pc = "cut2" PROVE FALSE
        <5>1. proc[1].more = {R(2), W(2)} BY <4>8, <4>9 DEF CutPlace, Working
        <5> QED BY <4>2, <5>1
      <4>10. ASSUME proc[1].pc = "cut" PROVE FALSE
        <5>1. proc[1].more = {R(2), W(2), R(3), W(3)} BY <4>8, <4>10 DEF CutPlace, Working
        <5> QED BY <4>2, <5>1
      <4>3. proc[1].pc \notin {"cut2", "cut"} BY <4>9, <4>10
      <4>4. Len(proc) = 3 BY <1>1, <1>3, <4>3 DEF CutPlace
      <4>5. 3 \in DOMAIN proc BY <4>4 DEF IsSequence
      <4>6. R(2) \notin proc[3].more /\ proc[3].in # R(2) BY <4>1, <4>5, NotHeld
      <4>7. proc[3].pc = "zombie" BY <1>1, <4>4, <4>6 DEF XargsPlace, Working
      <4> QED BY <4>4, <4>7
    <3> QED BY <3>1, <3>2
  <2>5. Len(proc) = 3 /\ proc[3].pc = "zombie" => qs[3].pc = "zombie"
    <3>1. Len(proc) = 3 => 3 \in DOMAIN proc BY DEF IsSequence
    <3> QED BY <2>3, <3>1
  <2>6. LsPlace(qs, n1) BY <1>3, <2>1, <2>3, <2>4, <2>5 DEF LsPlace
  <2>7. Composed(qs, u, g, n1, n2, m2, n3, m3) BY <1>1, <2>2, <2>3, <2>6 DEF Composed
  <2> QED BY <1>7, <2>7
<1> QED BY <1>6, <1>8, <1>9, <1>10

\* A step of xargs.
LEMMA XargsRuns ==
  ASSUME Installed, IsSequence(proc), NEW n1 \in Nat, NEW n2 \in Nat, NEW m2 \in Nat, NEW n3 \in Nat, NEW m3 \in Nat,
         Composed(proc, obj, file, n1, n2, m2, n3, m3),
         3 \in DOMAIN proc, DOMAIN proc[3] = ProcessFields, proc[3].pc = "run", Run(3)
  PROVE  \E k2 \in Nat, l2 \in Nat : Composed(proc', obj', file', n1, k2, l2, n3, m3)
<1>1. /\ IsSequence(obj) /\ CutPlace(proc, obj, n3, m3) /\ LsPlace(proc, n1) /\ XargsPlace(proc, n2, m2)
      /\ Holding(obj, 2, Listed, m2, n1) /\ Holding(obj, 3, Joined, m3, n2)
      /\ obj[1] = Terminal(<<>>)
      /\ Screen \in DOMAIN file /\ Part(Items, file[Screen], Chosen, 0, n3)
  BY DEF Composed
<1>40. AllPlaced(proc, obj, n1, n2, m2, n3, m3)
  BY <1>1 DEF AllPlaced
<1>2. PICK r : r = proc[3]
  OBVIOUS
<1>3. Len(proc) = 3 /\ Len(obj) = 3 /\ DOMAIN obj = 1 .. 3 /\ DOMAIN proc = 1 .. 3
  <2>1. Len(proc) \in {1, 2, 3} /\ Len(obj) = Len(proc) BY <1>1, HowMany
  <2>2. 3 \in 1 .. Len(proc) /\ DOMAIN obj = 1 .. Len(obj) /\ DOMAIN proc = 1 .. Len(proc) BY <1>1 DEF IsSequence
  <2>3. PICK k \in {1, 2, 3} : k = Len(proc) /\ k = Len(obj) BY <2>1
  <2>4. k = 3 BY <2>2, <2>3
  <2> QED BY <2>2, <2>3, <2>4
<1>4. Working(r, "xargs", R(2), W(3), n2, m2, Listed, Joined)
  BY <1>1, <1>2, <1>3 DEF XargsPlace
<1>5. /\ r.in = R(2) /\ r.in[1] = 2 /\ r.out = W(3) /\ r.out[1] = 3 /\ DOMAIN r.mem = {"todo", "reads"}
  BY <1>4 DEF Working, R, W
<1>6. TakesItem(3, r) \/ PutsItem(3, r) \/ Stops(3, r)
  BY <1>2, <1>5, RunEffect
<1>7. PICK u, g, qs : u = obj' /\ g = file' /\ qs = proc'
  OBVIOUS
<1>8. DeliversOf(Joined, Programs["xargs"].gives, Listed, Programs["xargs"].reads)
  BY Deliveries
<1>9. obj[2].kind = "pipe" /\ obj[3].kind = "pipe" /\ 2 \in DOMAIN obj /\ 3 \in DOMAIN obj /\ 1 \in DOMAIN obj
  BY <1>1, <1>3 DEF Holding
<1>10. Available(2) = obj[2].data
  BY <1>9 DEF Available
<1>11. CASE TakesItem(3, r)
  <2>1. PICK s : qs = [proc EXCEPT ![3] = s] /\ Kept(r, s, <<Head(obj[2].data)>>, r.mem.reads - 1)
    BY <1>5, <1>7, <1>10, <1>11 DEF TakesItem
  <2>2. /\ r.mem.todo = <<>> /\ r.mem.reads > 0 /\ obj[2].data # <<>> /\ u = Taken(2, 1) /\ g = file
    BY <1>5, <1>7, <1>10, <1>11 DEF TakesItem
  <2>3. Took(u, obj, 2) BY <1>9, <2>2 DEF Taken, Took
  <2>4. /\ IsSequence(u) /\ Len(u) = Len(obj) /\ Holding(u, 2, Listed, m2 + 1, n1)
        /\ \A i \in DOMAIN obj : i # 2 => u[i] = obj[i]
        /\ Head(obj[2].data) = Listed[m2 + 1] /\ m2 < Len(Listed)
    BY <1>1, <1>9, <2>2, <2>3, HoldTook
  <2>5. Kept(r, s, <<Listed[m2 + 1]>>, r.mem.reads - 1) BY <2>1, <2>4
  <2>6. Working(s, "xargs", R(2), W(3), n2, m2 + 1, Listed, Joined) /\ m2 + 1 \in Nat
    BY <1>4, <1>8, <2>2, <2>4, <2>5, WorkReads
  <2>7. /\ IsSequence(qs) /\ Len(qs) = Len(proc) /\ qs[3] = s
        /\ CutPlace(qs, u, n3, m3) /\ LsPlace(qs, n1)
    <3>1. SameNumber(u, obj) BY <1>1, <2>1, <2>4 DEF SameNumber
    <3>2. Moved(proc, qs, 3, s) BY <1>1, <2>1, <2>4, <1>2 DEF Moved
    <3>3. OthersWaiting(proc, qs, u, 3, s, n1, n2, m2, n3, m3) BY <1>40, <3>1, <3>2, OthersWait
    <3> QED BY <3>3 DEF OthersWaiting
  <2>8. XargsPlace(qs, n2, m2 + 1) BY <1>3, <2>6, <2>7 DEF XargsPlace
  <2>9. Holding(u, 3, Joined, m3, n2) /\ u[1] = Terminal(<<>>)
    <3>3. \A i \in DOMAIN obj : i # 2 => u[i] = obj[i] BY <2>4
    <3>4. 1 \in DOMAIN obj /\ 3 \in DOMAIN obj BY <1>9
    <3>5. u[1] = obj[1] BY <3>3, <3>4
    <3>6. u[3] = obj[3] BY <3>3, <3>4
    <3>1. u[1] = obj[1] /\ u[3] = obj[3] BY <3>5, <3>6
    <3> QED BY <1>1, <2>4, <3>1 DEF Holding
  <2>10. Composed(qs, u, g, n1, n2, m2 + 1, n3, m3) BY <1>1, <2>2, <2>4, <2>7, <2>8, <2>9 DEF Composed
  <2> QED BY <1>7, <2>6, <2>10
<1>12. CASE PutsItem(3, r)
  <2>1. PICK s : qs = [proc EXCEPT ![3] = s] /\ Wrote(r, s) BY <1>7, <1>12 DEF PutsItem
  <2>2. r.mem.todo # <<>> /\ WriteTo(3, Head(r.mem.todo)) BY <1>5, <1>12 DEF PutsItem
  <2>3. /\ Working(s, "xargs", R(2), W(3), n2 + 1, m2, Listed, Joined)
        /\ n2 + 1 \in Nat /\ n2 < Len(Joined) /\ Head(r.mem.todo) = Joined[n2 + 1]
    BY <1>4, <2>1, <2>2, WorkWrites
  <2>4. Put(u, obj, 3, Joined[n2 + 1]) /\ g = file BY <1>7, <1>9, <2>2, <2>3 DEF WriteTo, Put
  <2>5. /\ IsSequence(u) /\ Len(u) = Len(obj) /\ Holding(u, 3, Joined, m3, n2 + 1)
        /\ \A i \in DOMAIN obj : i # 3 => u[i] = obj[i]
    BY <1>1, <1>9, <2>3, <2>4, HoldPut
  <2>6. /\ IsSequence(qs) /\ Len(qs) = Len(proc) /\ qs[3] = s
        /\ CutPlace(qs, u, n3, m3) /\ LsPlace(qs, n1)
    <3>1. SameNumber(u, obj) BY <1>1, <2>1, <2>5 DEF SameNumber
    <3>2. Moved(proc, qs, 3, s) BY <1>1, <2>1, <2>5, <1>2 DEF Moved
    <3>3. OthersWaiting(proc, qs, u, 3, s, n1, n2, m2, n3, m3) BY <1>40, <3>1, <3>2, OthersWait
    <3> QED BY <3>3 DEF OthersWaiting
  <2>7. XargsPlace(qs, n2 + 1, m2) BY <1>3, <2>3, <2>6 DEF XargsPlace
  <2>8. Holding(u, 2, Listed, m2, n1) /\ u[1] = Terminal(<<>>)
    <3>3. \A i \in DOMAIN obj : i # 3 => u[i] = obj[i] BY <2>5
    <3>4. 1 \in DOMAIN obj /\ 2 \in DOMAIN obj BY <1>9
    <3>5. u[1] = obj[1] BY <3>3, <3>4
    <3>6. u[2] = obj[2] BY <3>3, <3>4
    <3>1. u[1] = obj[1] /\ u[2] = obj[2] BY <3>5, <3>6
    <3> QED BY <1>1, <2>5, <3>1 DEF Holding
  <2>9. Composed(qs, u, g, n1, n2 + 1, m2, n3, m3) BY <1>1, <2>4, <2>5, <2>6, <2>7, <2>8 DEF Composed
  <2> QED BY <1>7, <2>3, <2>9
<1>13. CASE Stops(3, r)
  <2>1. PICK s : qs = [proc EXCEPT ![3] = s] /\ s.pc = "zombie" BY <1>7, <1>13 DEF Stops
  <2>2. u = obj /\ g = file BY <1>7, <1>13 DEF Stops
  <2>3. /\ Len(qs) = Len(proc) /\ qs[3] = s /\ CutPlace(qs, u, n3, m3) /\ LsPlace(qs, n1)
        /\ \A q \in DOMAIN proc : q # 3 => qs[q] = proc[q]
    <3>1. SameNumber(u, obj) BY <1>1, <2>1, <2>2 DEF SameNumber
    <3>2. Moved(proc, qs, 3, s) BY <1>1, <2>1, <2>2, <1>2 DEF Moved
    <3>3. OthersWaiting(proc, qs, u, 3, s, n1, n2, m2, n3, m3) BY <1>40, <3>1, <3>2, OthersWait
    <3> QED BY <3>3 DEF OthersWaiting
  <2>4. n2 = Len(Joined) \/ proc[1].pc = "zombie"
    <3>1. CASE r.mem.todo = <<>> /\ r.mem.reads = 0 BY <1>4, <1>8, <3>1, WorkEnds
    <3>2. CASE r.mem.todo = <<>> /\ AtEnd(2)
      <4>1. obj[2].data = <<>> /\ ~IsHeld(W(2)) BY <1>9, <1>10, <3>2 DEF AtEnd
      <4>2. m2 = n1
        <5>1. Part(Items, <<>>, Listed, m2, n1) BY <1>1, <1>3, <4>1 DEF Holding
        <5> QED BY <5>1, NoPart
      <4>3. 2 \in DOMAIN proc /\ proc[2].out # W(2) /\ W(2) \notin proc[2].more BY <1>3, <4>1, NotHeld
      <4>4. n1 = Len(Listed) BY <1>1, <1>2, <1>3, <1>4, <4>3 DEF LsPlace, Working
      <4> QED BY <1>4, <1>8, <3>2, <4>2, <4>4, WorkEnds
    <3>3. CASE r.mem.todo # <<>>
      <4>1. ~IsHeld(R(3)) BY <1>5, <1>13, <3>3 DEF Stops, Broken
      <4>2. 1 \in DOMAIN proc /\ R(3) \notin proc[1].more /\ proc[1].in # R(3) BY <1>3, <4>1, NotHeld
      <4>3. proc[1].pc = "zombie" BY <1>1, <1>3, <4>2 DEF CutPlace, Working
      <4> QED BY <4>3
    <3> QED BY <1>5, <1>13, <3>1, <3>2, <3>3 DEF Stops
  <2>5. qs[1] = proc[1] BY <1>3, <2>3
  <2>6. XargsPlace(qs, n2, m2) BY <1>3, <2>1, <2>3, <2>4, <2>5 DEF XargsPlace
  <2>7. Composed(qs, u, g, n1, n2, m2, n3, m3) BY <1>1, <2>2, <2>3, <2>6 DEF Composed
  <2> QED BY <1>7, <2>7
<1> QED BY <1>6, <1>11, <1>12, <1>13

\* A step of cut.
LEMMA CutRuns ==
  ASSUME Installed, IsSequence(proc), NEW n1 \in Nat, NEW n2 \in Nat, NEW m2 \in Nat, NEW n3 \in Nat, NEW m3 \in Nat,
         Composed(proc, obj, file, n1, n2, m2, n3, m3),
         1 \in DOMAIN proc, DOMAIN proc[1] = ProcessFields, proc[1].pc = "run", Run(1)
  PROVE  \E k3 \in Nat, l3 \in Nat : Composed(proc', obj', file', n1, n2, m2, k3, l3)
<1>1. /\ IsSequence(obj) /\ CutPlace(proc, obj, n3, m3) /\ LsPlace(proc, n1) /\ XargsPlace(proc, n2, m2)
      /\ Holding(obj, 2, Listed, m2, n1) /\ Holding(obj, 3, Joined, m3, n2)
      /\ obj[1] = Terminal(<<>>)
      /\ Screen \in DOMAIN file /\ Part(Items, file[Screen], Chosen, 0, n3)
  BY DEF Composed
<1>40. AllPlaced(proc, obj, n1, n2, m2, n3, m3)
  BY <1>1 DEF AllPlaced
<1>2. PICK r : r = proc[1]
  OBVIOUS
<1>4. Working(r, "cut", R(3), W(1), n3, m3, Joined, Chosen) /\ Len(proc) = 3 /\ Len(obj) = 3
  BY <1>1, <1>2 DEF CutPlace
<1>3. DOMAIN obj = 1 .. 3 /\ DOMAIN proc = 1 .. 3
  BY <1>1, <1>4 DEF IsSequence
<1>5. /\ r.in = R(3) /\ r.in[1] = 3 /\ r.out = W(1) /\ r.out[1] = 1 /\ DOMAIN r.mem = {"todo", "reads"}
  BY <1>4 DEF Working, R, W
<1>6. TakesItem(1, r) \/ PutsItem(1, r) \/ Stops(1, r)
  BY <1>2, <1>5, RunEffect
<1>7. PICK u, g, qs : u = obj' /\ g = file' /\ qs = proc'
  OBVIOUS
<1>8. DeliversOf(Chosen, Programs["cut"].gives, Joined, Programs["cut"].reads)
  BY Deliveries
<1>9. obj[3].kind = "pipe" /\ obj[1].kind = "tty" /\ obj[1].file = Screen /\ 2 \in DOMAIN obj /\ 3 \in DOMAIN obj /\ 1 \in DOMAIN obj
  BY <1>1, <1>3, <1>4, TerminalIs DEF Holding
<1>10. Available(3) = obj[3].data
  BY <1>9 DEF Available
<1>11. CASE TakesItem(1, r)
  <2>1. PICK s : qs = [proc EXCEPT ![1] = s] /\ Kept(r, s, <<Head(obj[3].data)>>, r.mem.reads - 1)
    BY <1>5, <1>7, <1>10, <1>11 DEF TakesItem
  <2>2. /\ r.mem.todo = <<>> /\ r.mem.reads > 0 /\ obj[3].data # <<>> /\ u = Taken(3, 1) /\ g = file
    BY <1>5, <1>7, <1>10, <1>11 DEF TakesItem
  <2>3. Took(u, obj, 3) BY <1>9, <2>2 DEF Taken, Took
  <2>4. /\ IsSequence(u) /\ Len(u) = Len(obj) /\ Holding(u, 3, Joined, m3 + 1, n2)
        /\ \A i \in DOMAIN obj : i # 3 => u[i] = obj[i]
        /\ Head(obj[3].data) = Joined[m3 + 1] /\ m3 < Len(Joined)
    BY <1>1, <1>9, <2>2, <2>3, HoldTook
  <2>5. Kept(r, s, <<Joined[m3 + 1]>>, r.mem.reads - 1) BY <2>1, <2>4
  <2>6. Working(s, "cut", R(3), W(1), n3, m3 + 1, Joined, Chosen) /\ m3 + 1 \in Nat
    BY <1>4, <1>8, <2>2, <2>4, <2>5, WorkReads
  <2>7. /\ IsSequence(qs) /\ Len(qs) = Len(proc) /\ qs[1] = s
        /\ LsPlace(qs, n1) /\ XargsPlace(qs, n2, m2)
    <3>1. SameNumber(u, obj) BY <1>1, <1>2, <2>1, <2>4 DEF SameNumber
    <3>2. Moved(proc, qs, 1, s) BY <1>1, <1>2, <2>1, <2>4, <1>2 DEF Moved
    <3>3. OthersWaiting(proc, qs, u, 1, s, n1, n2, m2, n3, m3) BY <1>40, <3>1, <3>2, OthersWait
    <3> QED BY <3>3 DEF OthersWaiting
  <2>8. CutPlace(qs, u, n3, m3 + 1) BY <1>4, <2>4, <2>6, <2>7 DEF CutPlace
  <2>9. Holding(u, 2, Listed, m2, n1) /\ u[1] = Terminal(<<>>)
    <3>3. \A i \in DOMAIN obj : i # 3 => u[i] = obj[i] BY <2>4
    <3>4. 1 \in DOMAIN obj /\ 2 \in DOMAIN obj BY <1>9
    <3>5. u[1] = obj[1] BY <3>3, <3>4
    <3>6. u[2] = obj[2] BY <3>3, <3>4
    <3>1. u[1] = obj[1] /\ u[2] = obj[2] BY <3>5, <3>6
    <3> QED BY <1>1, <2>4, <3>1 DEF Holding
  <2>10. Composed(qs, u, g, n1, n2, m2, n3, m3 + 1) BY <1>1, <2>2, <2>4, <2>7, <2>8, <2>9 DEF Composed
  <2> QED BY <1>7, <2>6, <2>10
<1>12. CASE PutsItem(1, r)
  <2>1. PICK s : qs = [proc EXCEPT ![1] = s] /\ Wrote(r, s) BY <1>7, <1>12 DEF PutsItem
  <2>2. r.mem.todo # <<>> /\ WriteTo(1, Head(r.mem.todo)) BY <1>5, <1>12 DEF PutsItem
  <2>3. /\ Working(s, "cut", R(3), W(1), n3 + 1, m3, Joined, Chosen)
        /\ n3 + 1 \in Nat /\ n3 < Len(Chosen) /\ Head(r.mem.todo) = Chosen[n3 + 1]
    BY <1>4, <2>1, <2>2, WorkWrites
  <2>4. PICK a : a = Append(file[Screen], Chosen[n3 + 1]) OBVIOUS
  <2>5. u = obj /\ g = [file EXCEPT ![Screen] = a] BY <1>7, <1>9, <2>2, <2>3, <2>4 DEF WriteTo
  <2>6. Part(Items, a, Chosen, 0, n3 + 1) BY <1>1, <2>3, <2>4, PartGrows
  <2>7. /\ IsSequence(qs) /\ Len(qs) = Len(proc) /\ qs[1] = s
        /\ LsPlace(qs, n1) /\ XargsPlace(qs, n2, m2)
    <3>1. SameNumber(u, obj) BY <1>1, <1>2, <2>1, <2>5 DEF SameNumber
    <3>2. Moved(proc, qs, 1, s) BY <1>1, <1>2, <2>1, <2>5, <1>2 DEF Moved
    <3>3. OthersWaiting(proc, qs, u, 1, s, n1, n2, m2, n3, m3) BY <1>40, <3>1, <3>2, OthersWait
    <3> QED BY <3>3 DEF OthersWaiting
  <2>8. CutPlace(qs, u, n3 + 1, m3) BY <1>4, <2>3, <2>5, <2>7 DEF CutPlace
  <2>9. Screen \in DOMAIN g /\ Part(Items, g[Screen], Chosen, 0, n3 + 1) BY <1>1, <2>5, <2>6
  <2>10. Composed(qs, u, g, n1, n2, m2, n3 + 1, m3) BY <1>1, <2>5, <2>7, <2>8, <2>9 DEF Composed
  <2> QED BY <1>7, <2>3, <2>10
<1>13. CASE Stops(1, r)
  <2>1. PICK s : qs = [proc EXCEPT ![1] = s] /\ s.pc = "zombie" BY <1>7, <1>13 DEF Stops
  <2>2. u = obj /\ g = file BY <1>7, <1>13 DEF Stops
  <2>3. /\ Len(qs) = Len(proc) /\ qs[1] = s /\ LsPlace(qs, n1) /\ XargsPlace(qs, n2, m2)
    <3>1. SameNumber(u, obj) BY <1>1, <1>2, <2>1, <2>2 DEF SameNumber
    <3>2. Moved(proc, qs, 1, s) BY <1>1, <1>2, <2>1, <2>2, <1>2 DEF Moved
    <3>3. OthersWaiting(proc, qs, u, 1, s, n1, n2, m2, n3, m3) BY <1>40, <3>1, <3>2, OthersWait
    <3> QED BY <3>3 DEF OthersWaiting
  <2>4. n3 = Len(Chosen)
    <3>1. CASE r.mem.todo = <<>> /\ r.mem.reads = 0 BY <1>4, <1>8, <3>1, WorkEnds
    <3>2. CASE r.mem.todo = <<>> /\ AtEnd(3)
      <4>1. obj[3].data = <<>> /\ ~IsHeld(W(3)) BY <1>9, <1>10, <3>2 DEF AtEnd
      <4>2. m3 = n2
        <5>1. Part(Items, <<>>, Joined, m3, n2) BY <1>1, <1>4, <4>1 DEF Holding
        <5> QED BY <5>1, NoPart
      <4>3. 3 \in DOMAIN proc /\ proc[3].out # W(3) /\ W(3) \notin proc[3].more BY <1>3, <4>1, NotHeld
      <4>4. n2 = Len(Joined) BY <1>1, <1>2, <1>4, <4>3 DEF XargsPlace, Working
      <4> QED BY <1>4, <1>8, <3>2, <4>2, <4>4, WorkEnds
    <3>3. CASE r.mem.todo # <<>> BY <1>5, <1>9, <1>13, <3>3 DEF Stops, Broken
    <3> QED BY <1>5, <1>13, <3>1, <3>2, <3>3 DEF Stops
  <2>5. CutPlace(qs, u, n3, m3) BY <1>4, <2>1, <2>2, <2>3, <2>4 DEF CutPlace
  <2>6. Composed(qs, u, g, n1, n2, m2, n3, m3) BY <1>1, <2>2, <2>3, <2>5 DEF Composed
  <2> QED BY <1>7, <2>6
<1> QED BY <1>6, <1>11, <1>12, <1>13

\* Which process is where.
LEMMA WhichOne ==
  ASSUME NEW ps, IsSequence(ps), NEW o, NEW f, NEW n1, NEW n2, NEW m2, NEW n3, NEW m3,
         Composed(ps, o, f, n1, n2, m2, n3, m3), NEW p \in DOMAIN ps
  PROVE  /\ p \in {1, 2, 3}
         /\ ps[p].pc \in {"cut1", "cut2", "cut"} => p = 1
         /\ ps[p].pc = "ls" => p = 2
         /\ ps[p].pc = "xargs" => p = 3
<1>1. CutPlace(ps, o, n3, m3) /\ LsPlace(ps, n1) /\ XargsPlace(ps, n2, m2)
  BY DEF Composed
<1>2. Len(ps) \in {1, 2, 3} /\ p \in {1, 2, 3} /\ DOMAIN ps = 1 .. Len(ps)
  BY <1>1, HowMany DEF IsSequence
<1>3. PICK n \in {1, 2, 3} : n = Len(ps) /\ p <= n
  <2>1. PICK n \in {1, 2, 3} : n = Len(ps) BY <1>2
  <2>2. p \in 1 .. n BY <1>2, <2>1
  <2> QED BY <2>1, <2>2
<1>4. CASE p = 1
  BY <1>1, <1>4 DEF CutPlace, Working
<1>5. CASE p = 2
  <2>1. ~(Len(ps) < 2) BY <1>3, <1>5
  <2>2. ps[2].pc \in {"ls", "run", "zombie"} BY <1>1, <2>1 DEF LsPlace, Working
  <2> QED BY <1>5, <2>2
<1>6. CASE p = 3
  <2>1. ~(Len(ps) < 3) BY <1>3, <1>6
  <2>2. ps[3].pc \in {"xargs", "run", "zombie"} BY <1>1, <2>1 DEF XargsPlace, Working
  <2> QED BY <1>6, <2>2
<1> QED BY <1>2, <1>4, <1>5, <1>6

\* The processes after one of them changed, and after a fork.
LEMMA ExecutingMoves ==
  ASSUME NEW ps, Executing(ps), NEW p \in DOMAIN ps, NEW s, Executes(s), NEW qs, qs = [ps EXCEPT ![p] = s]
  PROVE  Executing(qs) /\ Len(qs) = Len(ps)
<1>1. IsSequence(ps) /\ 1 \in DOMAIN ps /\ \A k \in DOMAIN ps : Executes(ps[k])
  BY DEF Executing
<1>2. IsSequence([ps EXCEPT ![p] = s]) /\ Len([ps EXCEPT ![p] = s]) = Len(ps)
  BY <1>1, ExceptSequence
<1>3. DOMAIN qs = DOMAIN ps /\ \A k \in DOMAIN qs : qs[k] = IF k = p THEN s ELSE ps[k]
  OBVIOUS
<1>4. \A k \in DOMAIN qs : Executes(qs[k])
  BY <1>1, <1>3
<1> QED BY <1>1, <1>2, <1>3, <1>4 DEF Executing

LEMMA ExecutingForks ==
  ASSUME NEW ps, Executing(ps), NEW p \in DOMAIN ps, NEW s, Executes(s), NEW c, Executes(c),
         NEW qs, qs = Append([ps EXCEPT ![p] = s], c)
  PROVE  /\ Executing(qs) /\ Len(qs) = Len(ps) + 1 /\ qs[p] = s /\ qs[Len(ps) + 1] = c
         /\ \A k \in DOMAIN ps : k # p => qs[k] = ps[k]
<1>1. PICK t : t = [ps EXCEPT ![p] = s]
  OBVIOUS
<1>2. Executing(t) /\ Len(t) = Len(ps)
  BY <1>1, ExecutingMoves
<1>3. IsSequence(t) /\ 1 \in DOMAIN t /\ \A k \in DOMAIN t : Executes(t[k])
  BY <1>2 DEF Executing
<1>4. qs = Append(t, c)
  BY <1>1
<1>5. /\ IsSequence(Append(t, c)) /\ Len(Append(t, c)) = Len(t) + 1
      /\ \A k \in 1 .. Len(t) : Append(t, c)[k] = t[k]
      /\ Append(t, c)[Len(t) + 1] = c
  BY <1>3, AppendSequence
<1>6. PICK n \in Nat : n = Len(ps) /\ n = Len(t) /\ DOMAIN t = 1 .. n
  BY <1>2, <1>3 DEF IsSequence
<1>7. /\ IsSequence(qs) /\ Len(qs) = n + 1 /\ qs[n + 1] = c /\ \A k \in 1 .. n : qs[k] = t[k]
  BY <1>4, <1>5, <1>6
<1>8. DOMAIN qs = 1 .. n + 1
  BY <1>7 DEF IsSequence
<1>9. \A k \in DOMAIN qs : k \in 1 .. n \/ k = n + 1
  BY <1>8
<1>10. \A k \in DOMAIN qs : Executes(qs[k])
  BY <1>3, <1>6, <1>7, <1>9
<1>11. 1 \in DOMAIN qs
  BY <1>8
<1>12. t[p] = s /\ \A k \in DOMAIN ps : (k # p => t[k] = ps[k]) /\ k \in 1 .. n
  BY <1>1, <1>6
<1> QED BY <1>6, <1>7, <1>10, <1>11, <1>12 DEF Executing

\* What a fork of mt2 Q1 does.
Doubled(p, to, program, s, c, k) ==
  /\ s.pc = to /\ c.pc = program /\ Executes(s) /\ Executes(c)
  /\ s.more = proc[p].more \union {R(k), W(k)} /\ c.more = s.more
  /\ s.in = proc[p].in /\ c.in = s.in /\ s.out = proc[p].out /\ c.out = s.out

\* All the processes after it, and the two that forked unless it failed.
LEMMA ForkEffect ==
  ASSUME CutInv, NEW p \in DOMAIN proc, NEW from, NEW to \in {"cut2", "cut"}, NEW program \in {"ls", "xargs"},
         ForkBefore(p, from, to, program)
  PROVE  /\ Executing(proc') /\ failures' \in Nat /\ (failures' = 0 => failures = 0)
         /\ obj' = Append(obj, Pipe) /\ file' = file /\ proc[p].pc = from
         /\ failures' = 0 =>
              \E s, c : Doubled(p, to, program, s, c, Len(obj) + 1) /\ proc' = Append([proc EXCEPT ![p] = s], c)
<1>1. failures \in Nat /\ Executing(proc) /\ DOMAIN proc[p] = ProcessFields
  BY DEF CutInv, Executing, Executes
<1>2. PICK r, k : r = [proc[p] EXCEPT !.more = @ \union {R(k), W(k)}] /\ k = Len(obj) + 1
  OBVIOUS
<1>3. PICK s, c : s = [r EXCEPT !.pc = to] /\ c = [r EXCEPT !.pc = program, !.parent = p]
  OBVIOUS
<1>4. Doubled(p, to, program, s, c, k)
  BY <1>1, <1>2, <1>3 DEF Doubled, Executes, ProcessFields
<1>5. obj' = Append(obj, Pipe) /\ file' = file /\ proc[p].pc = from
  BY DEF ForkBefore, files
<1>6. Forked(p, s, c) \/ ForkFailed(p, s)
  BY <1>2, <1>3 DEF ForkBefore
<1>7. PICK qs : qs = proc'
  OBVIOUS
<1>8. CASE Forked(p, s, c)
  <2>1. qs = Append([proc EXCEPT ![p] = s], c) /\ failures' = failures BY <1>7, <1>8 DEF Forked
  <2>2. Executing(qs) BY <1>1, <1>4, <2>1, ExecutingForks DEF Doubled
  <2> QED BY <1>1, <1>2, <1>4, <1>5, <1>7, <2>1, <2>2
<1>9. CASE ForkFailed(p, s)
  <2>1. qs = [proc EXCEPT ![p] = s] /\ failures' = failures + 1 BY <1>7, <1>9 DEF ForkFailed
  <2>2. Executing(qs) BY <1>1, <1>4, <2>1, ExecutingMoves DEF Doubled
  <2> QED BY <1>1, <1>5, <1>7, <2>1, <2>2
<1> QED BY <1>6, <1>8, <1>9

\* A new pipe at the end of the objects.
LEMMA PipeAdded ==
  ASSUME NEW o, IsSequence(o), NEW u, u = Append(o, Pipe), NEW k, k = Len(o) + 1, NEW t \in Seq(Items)
  PROVE  /\ IsSequence(u) /\ Len(u) = Len(o) + 1 /\ (\A i \in 1 .. Len(o) : u[i] = o[i])
         /\ Holding(u, k, t, 0, 0)
<1>1. IsSequence(u) /\ Len(u) = Len(o) + 1 /\ (\A i \in 1 .. Len(o) : u[i] = o[i]) /\ u[k] = Pipe
  BY AppendSequence
<1>2. DOMAIN Pipe = ObjectFields /\ Pipe.kind = "pipe" /\ Pipe.data = <<>>
  BY DEF Pipe, Object, ObjectFields
<1>3. Part(Items, <<>>, t, 0, 0)
  <2>1. Len(t) \in Nat BY LenProperties
  <2> QED BY <2>1, EmptyPart
<1>4. Holding(u, k, t, 0, 0)
  BY <1>1, <1>2, <1>3 DEF Holding
<1> QED BY <1>1, <1>4

\* The fork of ls.
LEMMA ForkLsStep ==
  ASSUME Installed, CutInv, NEW p \in DOMAIN proc, ForkBefore(p, "cut1", "cut2", "ls")
  PROVE  CutInv'
<1>1. /\ Executing(proc') /\ failures' \in Nat /\ (failures' = 0 => failures = 0)
      /\ obj' = Append(obj, Pipe) /\ file' = file /\ proc[p].pc = "cut1"
      /\ failures' = 0 =>
           \E s, c : Doubled(p, "cut2", "ls", s, c, Len(obj) + 1) /\ proc' = Append([proc EXCEPT ![p] = s], c)
  BY ForkEffect
<1>2. SUFFICES ASSUME failures' = 0
               PROVE  \E n1, n2, m2, n3, m3 \in Nat : Composed(proc', obj', file', n1, n2, m2, n3, m3)
  BY <1>1 DEF CutInv, Executing, Executes
<1>3. PICK n1 \in Nat, n2 \in Nat, m2 \in Nat, n3 \in Nat, m3 \in Nat : Composed(proc, obj, file, n1, n2, m2, n3, m3)
  BY <1>1, <1>2 DEF CutInv
<1>4. Executing(proc) /\ IsSequence(proc)
  BY DEF CutInv, Executing
<1>5. p = 1
  BY <1>1, <1>3, <1>4, WhichOne
<1>6. /\ IsSequence(obj) /\ CutPlace(proc, obj, n3, m3) /\ LsPlace(proc, n1) /\ XargsPlace(proc, n2, m2)
      /\ obj[1] = Terminal(<<>>) /\ Screen \in DOMAIN file /\ Part(Items, file[Screen], Chosen, 0, n3)
  BY <1>3 DEF Composed
<1>7. /\ proc[1].more = {} /\ proc[1].in = R(1) /\ proc[1].out = W(1)
      /\ Len(proc) = 1 /\ Len(obj) = 1 /\ n3 = 0 /\ m3 = 0
  BY <1>1, <1>5, <1>6 DEF CutPlace, Working
<1>8. PICK s, c : Doubled(1, "cut2", "ls", s, c, 2) /\ proc' = Append([proc EXCEPT ![1] = s], c)
  BY <1>1, <1>2, <1>5, <1>7
<1>9. PICK u, g, qs : u = obj' /\ g = file' /\ qs = proc'
  OBVIOUS
<1>10. Executes(s) /\ Executes(c) /\ s.pc = "cut2" /\ c.pc = "ls" /\ s.more = {R(2), W(2)} /\ c.more = {R(2), W(2)}
       /\ c.in = R(1) /\ s.out = W(1)
  BY <1>7, <1>8 DEF Doubled
<1>11. Len(qs) = 2 /\ qs[1] = s /\ qs[2] = c
  <2>1. qs = Append([proc EXCEPT ![1] = s], c) /\ 1 \in DOMAIN proc BY <1>5, <1>8, <1>9
  <2>2. Len(qs) = Len(proc) + 1 /\ qs[1] = s /\ qs[Len(proc) + 1] = c BY <1>4, <1>10, <2>1, ExecutingForks
  <2> QED BY <1>7, <2>2
<1>12. IsSequence(u) /\ Len(u) = 2 /\ u[1] = obj[1] /\ Holding(u, 2, Listed, 0, 0)
  <2>1. Listed \in Seq(Items) BY Deliveries DEF DeliversOf
  <2>2. u = Append(obj, Pipe) /\ 2 = Len(obj) + 1 BY <1>1, <1>7, <1>9
  <2>3. /\ IsSequence(u) /\ Len(u) = Len(obj) + 1 /\ (\A i \in 1 .. Len(obj) : u[i] = obj[i])
        /\ Holding(u, 2, Listed, 0, 0)
    BY <1>6, <2>1, <2>2, PipeAdded
  <2> QED BY <1>7, <2>3
<1>13. CutPlace(qs, u, 0, 0)
  BY <1>10, <1>11, <1>12 DEF CutPlace
<1>14. LsPlace(qs, 0) /\ XargsPlace(qs, 0, 0)
  BY <1>10, <1>11 DEF LsPlace, XargsPlace
<1>15. Holding(u, 3, Joined, 0, 0)
  BY <1>12 DEF Holding
<1>16. Composed(qs, u, g, 0, 0, 0, 0, 0)
  BY <1>1, <1>6, <1>7, <1>9, <1>12, <1>13, <1>14, <1>15 DEF Composed
<1> QED BY <1>9, <1>16

\* The fork of xargs.
LEMMA ForkXargsStep ==
  ASSUME Installed, CutInv, NEW p \in DOMAIN proc, ForkBefore(p, "cut2", "cut", "xargs")
  PROVE  CutInv'
<1>1. /\ Executing(proc') /\ failures' \in Nat /\ (failures' = 0 => failures = 0)
      /\ obj' = Append(obj, Pipe) /\ file' = file /\ proc[p].pc = "cut2"
      /\ failures' = 0 =>
           \E s, c : Doubled(p, "cut", "xargs", s, c, Len(obj) + 1) /\ proc' = Append([proc EXCEPT ![p] = s], c)
  BY ForkEffect
<1>2. SUFFICES ASSUME failures' = 0
               PROVE  \E n1, n2, m2, n3, m3 \in Nat : Composed(proc', obj', file', n1, n2, m2, n3, m3)
  BY <1>1 DEF CutInv, Executing, Executes
<1>3. PICK n1 \in Nat, n2 \in Nat, m2 \in Nat, n3 \in Nat, m3 \in Nat : Composed(proc, obj, file, n1, n2, m2, n3, m3)
  BY <1>1, <1>2 DEF CutInv
<1>4. Executing(proc) /\ IsSequence(proc)
  BY DEF CutInv, Executing
<1>5. p = 1
  BY <1>1, <1>3, <1>4, WhichOne
<1>6. /\ IsSequence(obj) /\ CutPlace(proc, obj, n3, m3) /\ LsPlace(proc, n1) /\ XargsPlace(proc, n2, m2)
      /\ Holding(obj, 2, Listed, m2, n1)
      /\ obj[1] = Terminal(<<>>) /\ Screen \in DOMAIN file /\ Part(Items, file[Screen], Chosen, 0, n3)
  BY <1>3 DEF Composed
<1>7. /\ proc[1].more = {R(2), W(2)} /\ proc[1].out = W(1)
      /\ Len(proc) = 2 /\ Len(obj) = 2 /\ n3 = 0 /\ m3 = 0
  BY <1>1, <1>5, <1>6 DEF CutPlace, Working
<1>8. PICK s, c : Doubled(1, "cut", "xargs", s, c, 3) /\ proc' = Append([proc EXCEPT ![1] = s], c)
  BY <1>1, <1>2, <1>5, <1>7
<1>9. PICK u, g, qs : u = obj' /\ g = file' /\ qs = proc'
  OBVIOUS
<1>10. /\ Executes(s) /\ Executes(c) /\ s.pc = "cut" /\ c.pc = "xargs" /\ s.out = W(1)
       /\ s.more = {R(2), W(2), R(3), W(3)} /\ c.more = {R(2), W(2), R(3), W(3)}
  <2>1. {R(2), W(2)} \union {R(3), W(3)} = {R(2), W(2), R(3), W(3)} OBVIOUS
  <2> QED BY <1>7, <1>8, <2>1 DEF Doubled
<1>11. Len(qs) = 3 /\ qs[1] = s /\ qs[3] = c /\ qs[2] = proc[2]
  <2>1. qs = Append([proc EXCEPT ![1] = s], c) /\ 1 \in DOMAIN proc BY <1>5, <1>8, <1>9
  <2>2. /\ Len(qs) = Len(proc) + 1 /\ qs[1] = s /\ qs[Len(proc) + 1] = c
        /\ \A k \in DOMAIN proc : k # 1 => qs[k] = proc[k]
    BY <1>4, <1>10, <2>1, ExecutingForks
  <2>3. 2 \in DOMAIN proc BY <1>4, <1>7 DEF IsSequence
  <2> QED BY <1>7, <2>2, <2>3
<1>12. IsSequence(u) /\ Len(u) = 3 /\ u[1] = obj[1] /\ u[2] = obj[2] /\ Holding(u, 3, Joined, 0, 0)
  <2>1. Joined \in Seq(Items) BY Deliveries DEF DeliversOf
  <2>2. u = Append(obj, Pipe) /\ 3 = Len(obj) + 1 BY <1>1, <1>7, <1>9
  <2>3. /\ IsSequence(u) /\ Len(u) = Len(obj) + 1 /\ (\A i \in 1 .. Len(obj) : u[i] = obj[i])
        /\ Holding(u, 3, Joined, 0, 0)
    BY <1>6, <2>1, <2>2, PipeAdded
  <2> QED BY <1>7, <2>3
<1>13. CutPlace(qs, u, 0, 0)
  BY <1>10, <1>11, <1>12 DEF CutPlace
<1>14. LsPlace(qs, n1)
  <2>1. ~(Len(proc) < 2) /\ Len(proc) # 3 /\ ~(Len(qs) < 2) BY <1>7, <1>11
  <2> QED BY <1>6, <1>11, <2>1 DEF LsPlace
<1>15. XargsPlace(qs, 0, 0)
  BY <1>10, <1>11 DEF XargsPlace
<1>16. Holding(u, 2, Listed, 0, n1)
  <2>1. m2 = 0 BY <1>6, <1>7 DEF XargsPlace
  <2> QED BY <1>6, <1>7, <1>12, <2>1 DEF Holding
<1>17. Composed(qs, u, g, n1, 0, 0, 0, 0)
  BY <1>1, <1>6, <1>7, <1>9, <1>12, <1>13, <1>14, <1>15, <1>16 DEF Composed
<1> QED BY <1>9, <1>17

\* The records of the processes that execute programs.
LEMMA ExecIs ==
  ASSUME Installed, NEW name \in {"ls", "xargs", "cut"}, NEW r
  PROVE  Become(r, name) = Exec(r, name)
BY DEF Become, Installed

\* The parent becomes cut.
LEMMA ExecCutStep ==
  ASSUME Installed, CutInv, NEW p \in DOMAIN proc, ExecCut(p)
  PROVE  CutInv'
<1>1. failures \in Nat /\ Executing(proc) /\ IsSequence(proc) /\ DOMAIN proc[p] = ProcessFields
  BY DEF CutInv, Executing, Executes
<1>2. PICK r : r = [proc[p] EXCEPT !.in = R(3), !.more = {}]
  OBVIOUS
<1>3. r.in = R(3) /\ r.out = proc[p].out /\ r.more = {} /\ DOMAIN r = ProcessFields
  BY <1>1, <1>2 DEF ProcessFields
<1>4. PICK s : s = Exec(r, "cut")
  OBVIOUS
<1>5. Working(s, "cut", R(3), r.out, 0, 0, Joined, Chosen) /\ DOMAIN s = ProcessFields
  <2>1. DeliversOf(Chosen, Programs["cut"].gives, Joined, Programs["cut"].reads) BY Deliveries
  <2> QED BY <1>3, <1>4, <2>1, WorkBegins
<1>6. Executes(s)
  BY <1>5 DEF Executes, Working
<1>7. PICK qs, u, g : qs = proc' /\ u = obj' /\ g = file'
  OBVIOUS
<1>8. qs = [proc EXCEPT ![p] = s] /\ u = obj /\ g = file /\ failures' = failures /\ proc[p].pc = "cut"
  <2>1. Become(r, "cut") = s BY <1>4, ExecIs
  <2> QED BY <1>2, <1>7, <2>1 DEF ExecCut, XARGS_TO_CUT, files
<1>9. Executing(qs) /\ Len(qs) = Len(proc)
  BY <1>1, <1>6, <1>8, ExecutingMoves
<1>10. ASSUME failures = 0
       PROVE  \E n1, n2, m2, n3, m3 \in Nat : Composed(qs, u, g, n1, n2, m2, n3, m3)
  <2>1. PICK n1 \in Nat, n2 \in Nat, m2 \in Nat, n3 \in Nat, m3 \in Nat : Composed(proc, obj, file, n1, n2, m2, n3, m3)
    BY <1>10 DEF CutInv
  <2>2. p = 1 BY <1>1, <1>8, <2>1, WhichOne
  <2>3. CutPlace(proc, obj, n3, m3) /\ LsPlace(proc, n1) /\ XargsPlace(proc, n2, m2)
    BY <2>1 DEF Composed
  <2>4. proc[1].out = W(1) /\ Len(proc) = 3 /\ Len(obj) = 3 /\ n3 = 0 /\ m3 = 0
    BY <1>8, <2>2, <2>3 DEF CutPlace, Working
  <2>5. Working(s, "cut", R(3), W(1), n3, m3, Joined, Chosen)
    BY <1>3, <1>5, <2>2, <2>4
  <2>6. LsPlace(qs, n1) /\ XargsPlace(qs, n2, m2) /\ qs[1] = s
    <3>1. AllPlaced(proc, obj, n1, n2, m2, n3, m3) BY <1>1, <2>3 DEF AllPlaced
    <3>2. SameNumber(u, obj) BY <1>8 DEF SameNumber
    <3>3. Moved(proc, qs, 1, s) BY <1>8, <2>2 DEF Moved
    <3>4. OthersWaiting(proc, qs, u, 1, s, n1, n2, m2, n3, m3) BY <3>1, <3>2, <3>3, OthersWait
    <3> QED BY <3>4 DEF OthersWaiting
  <2>7. CutPlace(qs, u, n3, m3) BY <1>8, <1>9, <2>4, <2>5, <2>6 DEF CutPlace
  <2>8. Composed(qs, u, g, n1, n2, m2, n3, m3) BY <1>8, <2>1, <2>6, <2>7 DEF Composed
  <2> QED BY <2>8
<1>11. Executing(proc') /\ failures' = failures
  BY <1>7, <1>8, <1>9
<1>12. failures = 0 => \E n1, n2, m2, n3, m3 \in Nat : Composed(proc', obj', file', n1, n2, m2, n3, m3)
  BY <1>7, <1>10
<1> QED BY <1>1, <1>11, <1>12 DEF CutInv

\* A child becomes ls or xargs.
LEMMA ExecChildStep ==
  ASSUME Installed, CutInv, NEW p \in DOMAIN proc, ExecChild(p)
  PROVE  CutInv'
<1>1. failures \in Nat /\ Executing(proc) /\ IsSequence(proc) /\ DOMAIN proc[p] = ProcessFields
  BY DEF CutInv, Executing, Executes
<1>2. PICK r, a, b : /\ r = proc[p] /\ a = [r EXCEPT !.out = W(2), !.more = {}]
                     /\ b = [r EXCEPT !.in = R(2), !.out = W(3), !.more = {}]
  OBVIOUS
<1>3. /\ a.in = r.in /\ a.out = W(2) /\ a.more = {} /\ DOMAIN a = ProcessFields
      /\ b.in = R(2) /\ b.out = W(3) /\ b.more = {} /\ DOMAIN b = ProcessFields
  BY <1>1, <1>2 DEF ProcessFields
<1>4. PICK x, y : x = Exec(a, "ls") /\ y = Exec(b, "xargs")
  OBVIOUS
<1>5. /\ Working(x, "ls", r.in, W(2), 0, 0, <<>>, Listed) /\ DOMAIN x = ProcessFields
      /\ Working(y, "xargs", R(2), W(3), 0, 0, Listed, Joined) /\ DOMAIN y = ProcessFields
  <2>1. DeliversOf(Listed, Programs["ls"].gives, <<>>, Programs["ls"].reads) BY Deliveries
  <2>2. DeliversOf(Joined, Programs["xargs"].gives, Listed, Programs["xargs"].reads) BY Deliveries
  <2>3. Working(x, "ls", r.in, W(2), 0, 0, <<>>, Listed) /\ DOMAIN x = ProcessFields
    <3>1. Working(Exec(a, "ls"), "ls", a.in, a.out, 0, 0, <<>>, Listed) /\ DOMAIN Exec(a, "ls") = ProcessFields
      BY <1>3, <2>1, WorkBegins
    <3> QED BY <1>3, <1>4, <3>1
  <2>4. Working(y, "xargs", R(2), W(3), 0, 0, Listed, Joined) /\ DOMAIN y = ProcessFields
    <3>1. Working(Exec(b, "xargs"), "xargs", b.in, b.out, 0, 0, Listed, Joined) /\ DOMAIN Exec(b, "xargs") = ProcessFields
      BY <1>3, <2>2, WorkBegins
    <3> QED BY <1>3, <1>4, <3>1
  <2> QED BY <2>3, <2>4
<1>6. PICK s : s = IF r.pc = "ls" THEN x ELSE y
  OBVIOUS
<1>7. Executes(s)
  <2>1. s = x \/ s = y BY <1>6
  <2>2. Executes(x) /\ Executes(y) BY <1>5 DEF Executes, Working
  <2> QED BY <2>1, <2>2
<1>8. PICK qs, u, g : qs = proc' /\ u = obj' /\ g = file'
  OBVIOUS
<1>9. qs = [proc EXCEPT ![p] = s] /\ u = obj /\ g = file /\ failures' = failures /\ r.pc \in {"ls", "xargs"}
  <2>1. Become(a, "ls") = x /\ Become(b, "xargs") = y BY <1>4, ExecIs
  <2>2. proc' = [proc EXCEPT ![p] = IF r.pc = "ls" THEN Become(a, "ls") ELSE Become(b, "xargs")]
    BY <1>2 DEF ExecChild, LS_TO_XARGS, XARGS_TO_CUT
  <2> QED BY <1>2, <1>6, <1>8, <2>1, <2>2 DEF ExecChild, files
<1>10. Executing(qs) /\ Len(qs) = Len(proc)
  BY <1>1, <1>7, <1>9, ExecutingMoves
<1>11. ASSUME failures = 0
       PROVE  \E n1, n2, m2, n3, m3 \in Nat : Composed(qs, u, g, n1, n2, m2, n3, m3)
  <2>1. PICK n1 \in Nat, n2 \in Nat, m2 \in Nat, n3 \in Nat, m3 \in Nat : Composed(proc, obj, file, n1, n2, m2, n3, m3)
    BY <1>11 DEF CutInv
  <2>2. (r.pc = "ls" => p = 2) /\ (r.pc = "xargs" => p = 3) BY <1>1, <1>2, <2>1, WhichOne
  <2>3. CutPlace(proc, obj, n3, m3) /\ LsPlace(proc, n1) /\ XargsPlace(proc, n2, m2)
    BY <2>1 DEF Composed
  <2>4. OthersWaiting(proc, qs, u, p, s, n1, n2, m2, n3, m3)
    <3>1. AllPlaced(proc, obj, n1, n2, m2, n3, m3) BY <1>1, <2>3 DEF AllPlaced
    <3>2. SameNumber(u, obj) BY <1>9 DEF SameNumber
    <3>3. Moved(proc, qs, p, s) BY <1>2, <1>9 DEF Moved
    <3> QED BY <3>1, <3>2, <3>3, OthersWait
  <2>5. qs[p] = s /\ (p # 1 => CutPlace(qs, u, n3, m3)) /\ (p # 2 => LsPlace(qs, n1)) /\ (p # 3 => XargsPlace(qs, n2, m2))
    BY <2>4 DEF OthersWaiting
  <2>6. \A k \in {1, 2, 3} : p = k => ~(Len(proc) < k)
    <3>1. Len(proc) \in Nat /\ p \in 1 .. Len(proc) BY <1>1 DEF IsSequence
    <3> QED BY <3>1
  <2>7. CASE r.pc = "ls"
    <3>1. p = 2 /\ s = x /\ ~(Len(proc) < 2) BY <1>6, <2>2, <2>6, <2>7
    <3>2. r.in = R(1) /\ n1 = 0 BY <1>2, <2>3, <2>7, <3>1 DEF LsPlace, Working
    <3>3. Working(s, "ls", R(1), W(2), n1, 0, <<>>, Listed) BY <1>5, <3>1, <3>2
    <3>4. LsPlace(qs, n1) BY <1>10, <2>5, <3>1, <3>3 DEF LsPlace
    <3> QED BY <1>9, <2>1, <2>5, <3>1, <3>4 DEF Composed
  <2>8. CASE r.pc = "xargs"
    <3>1. p = 3 /\ s = y /\ ~(Len(proc) < 3) BY <1>6, <2>2, <2>6, <2>8
    <3>2. n2 = 0 /\ m2 = 0 BY <1>2, <2>3, <2>8, <3>1 DEF XargsPlace, Working
    <3>3. Working(s, "xargs", R(2), W(3), n2, m2, Listed, Joined) BY <1>5, <3>1, <3>2
    <3>4. XargsPlace(qs, n2, m2) BY <1>10, <2>5, <3>1, <3>3 DEF XargsPlace
    <3> QED BY <1>9, <2>1, <2>5, <3>1, <3>4 DEF Composed
  <2> QED BY <1>9, <2>7, <2>8
<1>12. Executing(proc') /\ failures' = failures
  BY <1>8, <1>9, <1>10
<1>13. failures = 0 => \E n1, n2, m2, n3, m3 \in Nat : Composed(proc', obj', file', n1, n2, m2, n3, m3)
  BY <1>8, <1>11
<1> QED BY <1>1, <1>12, <1>13 DEF CutInv

\* What an executed program does, with or without a fork that failed.
LEMMA RunExecutes ==
  ASSUME CutInv, NEW p \in DOMAIN proc, Run(p)
  PROVE  Executing(proc') /\ failures' = failures /\ proc[p].pc = "run"
<1>1. Executing(proc) /\ DOMAIN proc[p] = ProcessFields
  BY DEF CutInv, Executing, Executes
<1>2. failures' = failures /\ proc[p].pc = "run"
  BY DEF Run, RunRead, RunWrite, RunEnd
<1>3. PICK r, qs : r = proc[p] /\ qs = proc'
  OBVIOUS
<1>4. CASE RunRead(p)
  <2>1. PICK s : s = [r EXCEPT !.mem = [todo |-> <<Head(Available(r.in[1]))>>, reads |-> r.mem.reads - 1]] OBVIOUS
  <2>2. qs = [proc EXCEPT ![p] = s] BY <1>3, <1>4, <2>1 DEF RunRead
  <2>3. Executes(s) BY <1>1, <1>2, <1>3, <2>1 DEF Executes, ProcessFields
  <2> QED BY <1>1, <1>2, <1>3, <2>2, <2>3, ExecutingMoves
<1>5. CASE RunWrite(p)
  <2>1. PICK s : s = [r EXCEPT !.mem.todo = Tail(@)] OBVIOUS
  <2>2. qs = [proc EXCEPT ![p] = s] BY <1>3, <1>5, <2>1 DEF RunWrite
  <2>3. Executes(s) BY <1>1, <1>2, <1>3, <2>1 DEF Executes, ProcessFields
  <2> QED BY <1>1, <1>2, <1>3, <2>2, <2>3, ExecutingMoves
<1>6. CASE RunEnd(p)
  <2>1. PICK s : s = Ended(r) OBVIOUS
  <2>2. qs = [proc EXCEPT ![p] = s] BY <1>3, <1>6, <2>1 DEF RunEnd
  <2>3. Executes(s) BY <1>1, <1>3, <2>1 DEF Executes, Ended, ProcessFields
  <2> QED BY <1>1, <1>2, <1>3, <2>2, <2>3, ExecutingMoves
<1> QED BY <1>4, <1>5, <1>6 DEF Run

\* A step of an executed program.
LEMMA ProgramStep ==
  ASSUME Installed, CutInv, NEW p \in DOMAIN proc, Run(p)
  PROVE  CutInv'
<1>1. Executing(proc') /\ failures' = failures /\ proc[p].pc = "run"
  BY RunExecutes
<1>2. failures \in Nat /\ IsSequence(proc) /\ DOMAIN proc[p] = ProcessFields
  BY DEF CutInv, Executing, Executes
<1>3. ASSUME failures = 0
      PROVE  \E n1, n2, m2, n3, m3 \in Nat : Composed(proc', obj', file', n1, n2, m2, n3, m3)
  <2>1. PICK n1 \in Nat, n2 \in Nat, m2 \in Nat, n3 \in Nat, m3 \in Nat : Composed(proc, obj, file, n1, n2, m2, n3, m3)
    BY <1>3 DEF CutInv
  <2>2. p \in {1, 2, 3} BY <1>2, <2>1, WhichOne
  <2>3. CASE p = 1
    <3>1. \E k3 \in Nat, l3 \in Nat : Composed(proc', obj', file', n1, n2, m2, k3, l3)
      BY <1>1, <1>2, <2>1, <2>3, CutRuns
    <3> QED BY <3>1
  <2>4. CASE p = 2
    <3>1. \E k1 \in Nat : Composed(proc', obj', file', k1, n2, m2, n3, m3)
      BY <1>1, <1>2, <2>1, <2>4, LsRuns
    <3> QED BY <3>1
  <2>5. CASE p = 3
    <3>1. \E k2 \in Nat, l2 \in Nat : Composed(proc', obj', file', n1, k2, l2, n3, m3)
      BY <1>1, <1>2, <2>1, <2>5, XargsRuns
    <3> QED BY <3>1
  <2> QED BY <2>2, <2>3, <2>4, <2>5
<1> QED BY <1>1, <1>2, <1>3 DEF CutInv

\* mt2 Q1 begins alone at a terminal that shows nothing.
LEMMA CutBegins ==
  ASSUME Installed, CutInit
  PROVE  CutInv
<1>1. PICK r, o : r = Process("cut1", 0, Empty) /\ o = Terminal(<<>>)
  OBVIOUS
<1>2. PICK paths : paths = SetToSeq(DOMAIN InitialFiles)
  OBVIOUS
<1>3. PICK fs : fs = [k \in DOMAIN paths |-> InitialFiles[paths[k]]]
  OBVIOUS
<1>4. proc = <<r>> /\ obj = <<o>> /\ file = << <<>> >> \o fs /\ failures = 0
  BY <1>1, <1>2, <1>3 DEF CutInit, Start
<1>5. /\ r.pc = "cut1" /\ r.more = {} /\ r.in = R(1) /\ r.out = W(1) /\ DOMAIN r = ProcessFields
  BY <1>1 DEF Process, ProcessFields
<1>6. IsSequence(proc) /\ DOMAIN proc = {1} /\ proc[1] = r /\ Len(proc) = 1
  <2>1. Len(proc) = 1 /\ DOMAIN proc = 1 .. 1 /\ proc = [k \in 1 .. 1 |-> proc[k]] /\ proc[1] = r BY <1>4
  <2> QED BY <2>1 DEF IsSequence
<1>7. IsSequence(obj) /\ Len(obj) = 1 /\ obj[1] = o
  <2>1. Len(obj) = 1 /\ DOMAIN obj = 1 .. 1 /\ obj = [k \in 1 .. 1 |-> obj[k]] /\ obj[1] = o BY <1>4
  <2> QED BY <2>1 DEF IsSequence
<1>8. Screen \in DOMAIN file /\ file[Screen] = <<>>
  <2>1. paths \in Seq(DOMAIN InitialFiles) BY <1>2, PipesAssumption, SetAsSequence
  <2>2. PICK n \in Nat : n = Len(paths) /\ DOMAIN paths = 1 .. n BY <2>1, LenProperties
  <2>3. PICK S : S = {fs[k] : k \in 1 .. n} \union { <<>> } OBVIOUS
  <2>4. fs \in [1 .. n -> S] BY <1>3, <2>2, <2>3
  <2>5. fs \in Seq(S) BY <2>4, SeqDef
  <2>6. PICK z : z = <<>> OBVIOUS
  <2>7. z \in S BY <2>3, <2>6
  <2>8. <<z>> \in Seq(S) /\ Len(<<z>>) = 1 /\ <<z>>[1] = z BY <2>7
  <2>9. Len(fs) \in Nat BY <2>5, LenProperties
  <2>10. /\ <<z>> \o fs \in Seq(S) /\ Len(<<z>> \o fs) = 1 + Len(fs)
         /\ \A i \in 1 .. 1 + Len(fs) : (<<z>> \o fs)[i] = IF i <= 1 THEN <<z>>[i] ELSE fs[i - 1]
    BY <2>5, <2>8, ConcatProperties
  <2>11. 1 \in 1 .. 1 + Len(fs) BY <2>9
  <2>12. PICK f \in Seq(S) : f = <<z>> \o fs BY <2>10
  <2>13. f[1] = z /\ 1 \in DOMAIN f
    <3>1. DOMAIN f = 1 .. 1 + Len(fs) BY <2>10, <2>12, LenProperties
    <3> QED BY <2>8, <2>10, <2>11, <2>12, <3>1
  <2> QED BY <1>4, <2>6, <2>12, <2>13 DEF Screen
<1>9. Part(Items, file[Screen], Chosen, 0, 0)
  <2>1. Chosen \in Seq(Items) BY Deliveries DEF DeliversOf
  <2>2. Len(Chosen) \in Nat BY <2>1, LenProperties
  <2>3. Part(Items, <<>>, Chosen, 0, 0) BY <2>1, <2>2, EmptyPart
  <2> QED BY <1>8, <2>3
<1>10. CutPlace(proc, obj, 0, 0) /\ LsPlace(proc, 0) /\ XargsPlace(proc, 0, 0)
  BY <1>5, <1>6, <1>7 DEF CutPlace, LsPlace, XargsPlace
<1>11. Holding(obj, 2, Listed, 0, 0) /\ Holding(obj, 3, Joined, 0, 0)
  BY <1>7 DEF Holding
<1>12. Composed(proc, obj, file, 0, 0, 0, 0, 0)
  BY <1>1, <1>7, <1>8, <1>9, <1>10, <1>11 DEF Composed
<1>13. Executing(proc)
  BY <1>5, <1>6 DEF Executing, Executes
<1> QED BY <1>4, <1>12, <1>13 DEF CutInv

\* Every step of mt2 Q1 keeps its invariant.
LEMMA CutSteps ==
  ASSUME Installed
  PROVE  CutInv /\ [FixedNext]_os => CutInv'
<1> SUFFICES ASSUME CutInv, [FixedNext]_os PROVE CutInv'
  OBVIOUS
<1>1. CASE UNCHANGED os
  BY <1>1 DEF os, files, CutInv
<1>2. CASE FixedNext
  <2>1. PICK p \in DOMAIN proc : FixedStep(p) BY <1>2 DEF FixedNext
  <2>2. proc[p].pc \in {"cut1", "cut2", "cut", "ls", "xargs", "run", "zombie"}
    BY DEF CutInv, Executing, Executes
  <2>3. ~CaesarStep(p)
    BY <2>2 DEF CaesarStep, ForkChild1, ForkChild2, CloseUnneeded, ReadMessage, WriteMessage, Written
  <2>4. CutStep(p) \/ Run(p) BY <2>1, <2>3 DEF FixedStep
  <2> QED BY <2>4, ForkLsStep, ForkXargsStep, ExecCutStep, ExecChildStep, ProgramStep DEF CutStep
<1> QED BY <1>1, <1>2

\* What mt2 Q1 shows of FixedCorrect.
Prints == failures = 0 /\ proc[1].pc = "zombie" => file[Screen] = Flow(<<"ls", "xargs", "cut">>, <<>>)

\* The invariant gives the properties.
LEMMA CutRight ==
  ASSUME CutInv
  PROVE  InBuffers /\ RoundTrip /\ Prints
<1>1. \A p \in DOMAIN proc : proc[p].pc \in {"cut1", "cut2", "cut", "ls", "xargs", "run", "zombie"}
  BY DEF CutInv, Executing, Executes
<1>2. 1 \in DOMAIN proc
  BY DEF CutInv, Executing
<1>3. InBuffers /\ RoundTrip
  BY <1>1, <1>2 DEF InBuffers, InBuffer, RoundTrip
<1>4. ASSUME failures = 0, proc[1].pc = "zombie" PROVE file[Screen] = Flow(<<"ls", "xargs", "cut">>, <<>>)
  <2>1. PICK n1 \in Nat, n2 \in Nat, m2 \in Nat, n3 \in Nat, m3 \in Nat : Composed(proc, obj, file, n1, n2, m2, n3, m3)
    BY <1>4 DEF CutInv
  <2>2. CutPlace(proc, obj, n3, m3) /\ Part(Items, file[Screen], Chosen, 0, n3) BY <2>1 DEF Composed
  <2>3. n3 = Len(Chosen) BY <1>4, <2>2 DEF CutPlace, Working
  <2>4. file[Screen] = Chosen BY <2>2, <2>3, PartWhole
  <2> QED BY <2>4, FlowIs
<1> QED BY <1>3, <1>4 DEF Prints

-----------------------------------------------------------------------------
(* Both programs.                                                          *)


\* The first process of lab6 stays.
LEMMA CaesarFirst ==
  ASSUME IsSequence(proc), 1 \in DOMAIN proc, NEW p \in DOMAIN proc, CaesarStep(p)
  PROVE  1 \in DOMAIN proc'
<1>1. ASSUME NEW parent, NEW child, Forked(p, parent, child) PROVE 1 \in DOMAIN proc'
  <2>1. PICK qs, t : qs = proc' /\ t = [proc EXCEPT ![p] = parent] OBVIOUS
  <2>2. qs = Append(t, child) BY <1>1, <2>1 DEF Forked
  <2>3. IsSequence(t) /\ Len(t) = Len(proc) BY <2>1, ExceptSequence
  <2>4. IsSequence(Append(t, child)) /\ Len(Append(t, child)) = Len(t) + 1 BY <2>3, AppendSequence
  <2>5. DOMAIN qs = 1 .. Len(proc) + 1 /\ Len(proc) \in Nat BY <2>2, <2>3, <2>4 DEF IsSequence
  <2> QED BY <2>1, <2>5
<1>2. ASSUME NEW parent, ForkFailed(p, parent) PROVE 1 \in DOMAIN proc'
  BY <1>2 DEF ForkFailed
<1>3. CASE ForkChild1(p) BY <1>1, <1>2, <1>3 DEF ForkChild1
<1>4. CASE ForkChild2(p) BY <1>1, <1>2, <1>4 DEF ForkChild2
<1>5. CASE CloseUnneeded(p) BY <1>5 DEF CloseUnneeded
<1>6. CASE ReadMessage(p) BY <1>6 DEF ReadMessage
<1>7. CASE WriteMessage(p) BY <1>7 DEF WriteMessage
<1>8. CASE Written(p) BY <1>8 DEF Written
<1> QED BY <1>3, <1>4, <1>5, <1>6, <1>7, <1>8 DEF CaesarStep

\* It stays in every step.
LEMMA CaesarGoesOn == CaesarInv /\ 1 \in DOMAIN proc /\ [FixedNext]_os => 1 \in DOMAIN proc'
<1> SUFFICES ASSUME CaesarInv, 1 \in DOMAIN proc, [FixedNext]_os PROVE 1 \in DOMAIN proc'
  OBVIOUS
<1>1. CASE UNCHANGED os
  BY <1>1 DEF os
<1>2. CASE FixedNext
  <2>1. PICK p \in DOMAIN proc : FixedStep(p) BY <1>2 DEF FixedNext
  <2>2. ~CutStep(p) /\ ~Run(p)
    BY CaesarPlaces DEF CutStep, Run, RunRead, RunWrite, RunEnd, ForkBefore, ExecCut, ExecChild
  <2>3. CaesarStep(p) BY <2>1, <2>2 DEF FixedStep
  <2> QED BY <2>3, CaesarFirst DEF CaesarInv
<1> QED BY <1>1, <1>2

\* lab6 prints the message it sent, for every message that ends at its
\* newline and every order of the three processes, whatever fork returns, and
\* no buffer is overrun on the way (main, read_message and write_message).
THEOREM LetterRight == CaesarInit /\ [][FixedNext]_os => [](InBuffers /\ RoundTrip)
<1>1. CaesarInit => CaesarInv /\ 1 \in DOMAIN proc
  BY CaesarBegins DEF CaesarInit, Start
<1>2. (CaesarInv /\ 1 \in DOMAIN proc) /\ [FixedNext]_os => (CaesarInv /\ 1 \in DOMAIN proc)'
  BY CaesarSteps, CaesarGoesOn
<1>3. CaesarInv /\ 1 \in DOMAIN proc => InBuffers /\ RoundTrip
  BY CaesarRight
<1> QED BY <1>1, <1>2, <1>3, PTL

\* FixedCorrect, when the three programs of mt2 Q1 are installed: of lab6 as
\* above, and mt2 Q1 prints what ls, xargs and cut compute from each other.
THEOREM FixedRight ==
  ASSUME Installed
  PROVE  FixedSpec => FixedCorrect
<1>1. CutInit => CutInv
  BY CutBegins
<1>2. CutInv /\ [FixedNext]_os => CutInv'
  BY CutSteps
<1>3. CutInv => InBuffers /\ RoundTrip /\ Prints
  BY CutRight
<1>4. CaesarInit => ~(proc[1].pc = "cut1")
  <2> SUFFICES ASSUME CaesarInit PROVE ~(proc[1].pc = "cut1")
    OBVIOUS
  <2>1. PICK r : r = Process("caesar", 0, Empty) OBVIOUS
  <2>2. proc = <<r>> /\ r.pc = "caesar" BY <2>1 DEF CaesarInit, Start, Process
  <2> QED BY <2>2
<1> QED BY <1>1, <1>2, <1>3, <1>4, LetterRight, PTL DEF FixedSpec, FixedInit, FixedCorrect, InBuffers, RoundTrip, Prints

=============================================================================
