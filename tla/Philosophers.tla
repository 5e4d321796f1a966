---------------------------- MODULE Philosophers ----------------------------
(***************************************************************************)
(* The dining philosophers of final/philo.c: N threads run muse over a     *)
(* Table of N mutexes; main creates the threads, joins them and clears the *)
(* table.  The order in which a philosopher locks its two forks depends on *)
(* the parity of its id.                                                   *)
(*                                                                         *)
(* With Cycles > 0 every call of doActivity finds the state it requires,   *)
(* so its exit() branches are not reached and are left out.                *)
(***************************************************************************)
EXTENDS Integers

CONSTANTS
  N,       \* argv[1], number of philosophers
  Cycles,  \* argv[2], times each philosopher eats
  Free     \* owner of an unlocked mutex

\* makeTable asserts n > 0.
ASSUME TableAssumption ==
  /\ N \in Nat \ {0}
  /\ Cycles \in Nat \ {0}
  /\ Free \notin 0 .. N - 1

Philo == 0 .. N - 1

VARIABLES
  created,  \* threads 0 .. created - 1 exist
  cleared,  \* clearTable has destroyed the mutexes
  pc,       \* where each philosopher is inside muse
  state,    \* p->state
  ate,      \* p->ate
  fork      \* the owner of each mutex

vars == <<created, cleared, pc, state, ate, fork>>

-----------------------------------------------------------------------------

\* Mutant of Parity: every philosopher locks left then right.
ParityIgnored(i) == 0

Parity(i) == i % 2

\* Even ids lock left then right, odd ids right then left.
First(i)  == (i + Parity(i)) % N
Second(i) == (i + (1 - Parity(i))) % N

\* The condition of muse's loop.
MoreCycles(i) == ate[i] < Cycles

Init ==
  /\ created = 0 /\ cleared = FALSE
  /\ pc = [i \in Philo |-> "loop"]
  /\ state = [i \in Philo |-> "THINK"]
  /\ ate = [i \in Philo |-> 0]
  /\ fork = [f \in Philo |-> Free]

\* main's first loop: pthread_create of the next philosopher.
Create ==
  /\ created < N
  /\ created' = created + 1
  /\ UNCHANGED <<cleared, pc, state, ate, fork>>

\* Mutant of ClearTable: the threads are not joined.
ClearTableEarly ==
  /\ created = N /\ ~cleared
  /\ cleared' = TRUE
  /\ UNCHANGED <<created, pc, state, ate, fork>>

\* Every pthread_join returned, then clearTable.
ClearTable ==
  /\ created = N /\ ~cleared
  /\ \A i \in Philo : pc[i] = "return"
  /\ cleared' = TRUE
  /\ UNCHANGED <<created, pc, state, ate, fork>>

Goto(i, from, to) == i < created /\ pc[i] = from /\ pc' = [pc EXCEPT ![i] = to]

Lock(i, f)   == fork[f] = Free /\ fork' = [fork EXCEPT ![f] = i]
Unlock(f)    == fork' = [fork EXCEPT ![f] = Free]

\* case THINK: doActivity(HUNGRY).
Hunger(i) ==
  /\ Goto(i, "loop", "loop")
  /\ MoreCycles(i) /\ state[i] = "THINK"
  /\ state' = [state EXCEPT ![i] = "HUNGRY"]
  /\ UNCHANGED <<created, cleared, ate, fork>>

\* case HUNGRY: the two locks, then doActivity(EAT).
LockFirst(i) ==
  /\ Goto(i, "loop", "lockSecond")
  /\ MoreCycles(i) /\ state[i] = "HUNGRY"
  /\ Lock(i, First(i))
  /\ UNCHANGED <<created, cleared, state, ate>>

\* Mutant of LockSecond: the second fork is taken without its mutex.
LockSecondMissing(i) ==
  /\ Goto(i, "lockSecond", "eat")
  /\ UNCHANGED <<created, cleared, state, ate, fork>>

LockSecond(i) ==
  /\ Goto(i, "lockSecond", "eat")
  /\ Lock(i, Second(i))
  /\ UNCHANGED <<created, cleared, state, ate>>

Eat(i) ==
  /\ Goto(i, "eat", "loop")
  /\ state' = [state EXCEPT ![i] = "EAT"]
  /\ ate' = [ate EXCEPT ![i] = @ + 1]
  /\ UNCHANGED <<created, cleared, fork>>

\* case EAT and the statements after the loop are the same three calls.
UnlockSecond(i) ==
  /\ Goto(i, "loop", "unlockFirst")
  /\ state[i] = "EAT"
  /\ Unlock(Second(i))
  /\ UNCHANGED <<created, cleared, state, ate>>

\* Mutant of UnlockFirst: the first fork is kept.
UnlockFirstMissing(i) ==
  /\ Goto(i, "unlockFirst", "think")
  /\ UNCHANGED <<created, cleared, state, ate, fork>>

UnlockFirst(i) ==
  /\ Goto(i, "unlockFirst", "think")
  /\ Unlock(First(i))
  /\ UNCHANGED <<created, cleared, state, ate>>

\* doActivity(THINK): back to the loop test, or return when it has failed.
Think(i) ==
  /\ Goto(i, "think", IF MoreCycles(i) THEN "loop" ELSE "return")
  /\ state' = [state EXCEPT ![i] = "THINK"]
  /\ UNCHANGED <<created, cleared, ate, fork>>

Muse(i) ==
  \/ Hunger(i) \/ LockFirst(i) \/ LockSecond(i) \/ Eat(i)
  \/ UnlockSecond(i) \/ UnlockFirst(i) \/ Think(i)

Main == Create \/ ClearTable

Next == Main \/ \E i \in Philo : Muse(i)

Spec == Init /\ [][Next]_vars

\* Every thread that can run eventually runs; a mutex may be unfair.
FairSpec == Spec /\ WF_vars(Main) /\ \A i \in Philo : WF_vars(Muse(i))

-----------------------------------------------------------------------------
(* Properties.                                                             *)

\* Types of the model; the owner of a fork is a philosopher or nobody.
TypeOK ==
  /\ created \in 0 .. N /\ cleared \in BOOLEAN
  /\ pc \in [Philo -> {"loop", "lockSecond", "eat", "unlockFirst", "think", "return"}]
  /\ state \in [Philo -> {"THINK", "HUNGRY", "EAT"}]
  /\ ate \in [Philo -> 0 .. Cycles]
  /\ fork \in [Philo -> Philo \union {Free}]

\* Between the lock of the second fork and its unlock.
Eating(i) == pc[i] = "eat" \/ (pc[i] = "loop" /\ state[i] = "EAT")

Forks(i) == {First(i), Second(i)}

\* Two philosophers that share a fork are never eating at the same time.
NeighboursExclude ==
  \A i, j \in Philo : i # j /\ Eating(i) /\ Eating(j) => Forks(i) \intersect Forks(j) = {}

\* A philosopher inside pthread_mutex_lock on a mutex that is locked.
Blocked(i) ==
  \/ pc[i] = "loop" /\ state[i] = "HUNGRY" /\ fork[First(i)] # Free
  \/ pc[i] = "lockSecond" /\ fork[Second(i)] # Free

\* "this prevents deadlocking": while a philosopher is blocked, some
\* philosopher is neither blocked nor finished.
DeadlockFree ==
  (\E i \in Philo : Blocked(i)) =>
     \E j \in Philo : j < created /\ pc[j] # "return" /\ ~Blocked(j)

\* The mutexes are destroyed only when all are unlocked and everybody ate
\* Cycles times.
ClearedClean == cleared => \A i \in Philo : fork[i] = Free /\ ate[i] = Cycles

\* Every philosopher eats its share: main joins all threads and clears the table.
EverybodyEats == <>cleared

=============================================================================
