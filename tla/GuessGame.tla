----------------------------- MODULE GuessGame ------------------------------
(***************************************************************************)
(* The guessing game of ps9: thread_p (the parent) bisects an interval,    *)
(* thread_c (the child) compares each guess with the value of the command  *)
(* line.  They take turns over one mutex, one condition variable and the   *)
(* predicate shared->status.  The messages are left out, and so are the    *)
(* results 0xbadbeef (no int is unordered) and the child's test for 2.     *)
(***************************************************************************)
EXTENDS Integers

CONSTANTS
  MaxValue,  \* MAX_VALUE
  Values,    \* the values atoi may return
  Free       \* owner of the unlocked mutex

Threads == {"parent", "child"}

ASSUME GameAssumption ==
  /\ MaxValue \in Nat
  /\ Values \subseteq Int
  /\ Free \notin Threads

VARIABLES
  value, guess, result, status,  \* the fields of shared
  lock,                          \* owner of targs->lock
  waiting,                       \* threads inside pthread_cond_wait, not woken yet
  pc,                            \* where each thread is
  min, max,                      \* the interval of thread_p
  joined                         \* main reaped both threads and freed shared

shared == <<value, guess, result, status>>
vars   == <<shared, lock, waiting, pc, min, max, joined>>

-----------------------------------------------------------------------------

\* The status each thread waits for.
Turn == [parent |-> 0, child |-> 1]

\* main, up to the two calls of pthread_create; gmn_init sets shared.
Init ==
  /\ value \in Values
  /\ guess = 0 /\ result = 2 /\ status = 0
  /\ lock = Free /\ waiting = {}
  /\ pc = [t \in Threads |-> "lock"]
  /\ min = 0 /\ max = MaxValue + 1
  /\ joined = FALSE

Goto(t, from, to) == pc[t] = from /\ pc' = [pc EXCEPT ![t] = to]

Acquire(t) ==
  /\ Goto(t, "lock", "test")
  /\ lock = Free /\ lock' = t
  /\ UNCHANGED <<shared, waiting, min, max, joined>>

\* pthread_cond_wait: release and sleep in one step.
CondWait(t) ==
  /\ Goto(t, "test", "sleep")
  /\ status # Turn[t]
  /\ waiting' = waiting \union {t}
  /\ lock' = Free
  /\ UNCHANGED <<shared, min, max, joined>>

\* A wake-up without a signal, which POSIX allows.
SpuriousWakeup(t) ==
  /\ t \in waiting
  /\ waiting' = waiting \ {t}
  /\ UNCHANGED <<shared, lock, pc, min, max, joined>>

\* Mutant of Wakeup: the predicate is tested by an if.
WakeupUntested(t) ==
  /\ Goto(t, "sleep", "turn")
  /\ t \notin waiting
  /\ lock = Free /\ lock' = t
  /\ UNCHANGED <<shared, waiting, min, max, joined>>

\* pthread_cond_wait returns with the mutex, to the test of the while loop.
Wakeup(t) ==
  /\ Goto(t, "sleep", "test")
  /\ t \notin waiting
  /\ lock = Free /\ lock' = t
  /\ UNCHANGED <<shared, waiting, min, max, joined>>

\* The while loop ends.
MyTurn(t) ==
  /\ Goto(t, "test", "turn")
  /\ status = Turn[t]
  /\ UNCHANGED <<shared, lock, waiting, min, max, joined>>

\* Mutant of Signal: no signal.
SignalNobody == waiting' = waiting

\* pthread_cond_signal wakes one sleeper, if there is one.
Signal ==
  IF waiting = {} THEN waiting' = waiting
  ELSE \E t \in waiting : waiting' = waiting \ {t}

\* Mutant of NewMin: the two cases are swapped.
NewMinSwapped == IF result = 1 THEN guess ELSE min

\* Mutant of NewMax: the upper end is not updated.
NewMaxKept == max

NewMin == IF result = -1 THEN guess ELSE min
NewMax == IF result = 1 THEN guess ELSE max

Middle(lo, hi) == (lo + hi) \div 2

\* case 1, -1 or 2, then the next guess.
ParentGuess ==
  /\ Goto("parent", "turn", "unlock")
  /\ result # 0
  /\ min' = NewMin /\ max' = NewMax
  /\ guess' = Middle(min', max')
  /\ status' = 1
  /\ Signal
  /\ UNCHANGED <<value, result, lock, joined>>

\* case 0: unlock and pthread_exit.
ParentExit ==
  /\ Goto("parent", "turn", "exit")
  /\ result = 0
  /\ lock' = Free
  /\ UNCHANGED <<shared, waiting, min, max, joined>>

\* gmn_check.
Compare(g, v) == IF g = v THEN 0 ELSE IF g < v THEN -1 ELSE 1

\* gmn_check, the flag done, status = 0 and the signal.
ChildCheck ==
  /\ Goto("child", "turn", IF guess = value THEN "unlockLast" ELSE "unlock")
  /\ result' = Compare(guess, value)
  /\ status' = 0
  /\ Signal
  /\ UNCHANGED <<value, guess, lock, min, max, joined>>

Unlock(t) ==
  /\ Goto(t, "unlock", "lock") \/ Goto(t, "unlockLast", "exit")
  /\ lock' = Free
  /\ UNCHANGED <<shared, waiting, min, max, joined>>

\* main: both joins, free(shared), the mutex and the condition variable destroyed.
Join ==
  /\ ~joined /\ pc["parent"] = "exit" /\ pc["child"] = "exit"
  /\ joined' = TRUE
  /\ UNCHANGED <<shared, lock, waiting, pc, min, max>>

Step(t) == Acquire(t) \/ CondWait(t) \/ Wakeup(t) \/ MyTurn(t) \/ Unlock(t)

Parent == Step("parent") \/ ParentGuess \/ ParentExit
Child  == Step("child") \/ ChildCheck

Next == Parent \/ Child \/ Join \/ \E t \in Threads : SpuriousWakeup(t)

Spec == Init /\ [][Next]_vars

\* Both threads are scheduled, and spurious wake-ups do not go on for ever: an
\* endless run of them could keep the mutex from the thread whose turn it is.
FairSpec ==
  /\ Spec /\ WF_vars(Parent) /\ WF_vars(Child) /\ WF_vars(Join)
  /\ <>[][~\E t \in Threads : SpuriousWakeup(t)]_vars

-----------------------------------------------------------------------------
(* Properties.                                                             *)

InRange == value \in 0 .. MaxValue

\* Types; the guess and both ends stay in 0 .. MAX_VALUE + 1 for every value.
TypeOK ==
  /\ value \in Values /\ guess \in 0 .. MaxValue + 1
  /\ result \in {-1, 0, 1, 2} /\ status \in {0, 1}
  /\ lock \in Threads \union {Free}
  /\ waiting \subseteq Threads
  /\ pc \in [Threads -> {"lock", "test", "sleep", "turn", "unlock", "unlockLast", "exit"}]
  /\ min \in 0 .. MaxValue + 1 /\ max \in 0 .. MaxValue + 1
  /\ joined \in BOOLEAN

\* No thread sleeps, unwoken, while it is its turn: a signal is never lost.
NoLostWakeup == \A t \in waiting : status # Turn[t]

\* The two assert()s, thread_p:70 and thread_c:117: past its while loop a
\* thread finds status still at its turn.
TurnsAlternate == \A t \in Threads : pc[t] = "turn" => status = Turn[t]

\* A result the parent may read is the comparison of the last guess.
ResultFresh == status = 0 /\ result # 2 => result = Compare(guess, value)

\* The bisection never loses the value.
IntervalHoldsValue == InRange => min <= value /\ value < max

\* Each new guess after a wrong one at least halves the interval, rounded up.
GuessHalves ==
  [][InRange /\ result \in {-1, 1} /\ status = 0 /\ status' = 1
       => max' - min' <= (max - min + 1) \div 2]_vars

\* A value outside 0 .. MAX_VALUE is never guessed: both threads run forever.
OutsideNeverEnds == ~InRange => \A t \in Threads : pc[t] # "exit"

\* "repeat the following until guess is correct": for a value in range the
\* game ends and main returns, for no other value does a thread leave it.
GameEnds == (InRange => <>joined) /\ []OutsideNeverEnds

=============================================================================
