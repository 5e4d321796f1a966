------------------------------- MODULE TreeMT -------------------------------
(***************************************************************************)
(* The binary search tree of ps8 (treeMT.c) and its driver (treeMTTest.c): *)
(* threads insert their slice of an array into one tree, moving their lock *)
(* hand over hand from the tree to the node they work below.               *)
(*                                                                         *)
(* A tree never holds a value twice, so a node is named by its value.  A   *)
(* slot is a TNode* of the program: the root or a child field of a node.   *)
(* The lock of the root node is never taken: the lock of the tree guards   *)
(* the root slot and the two child slots of the root.                      *)
(***************************************************************************)
EXTENDS Integers, FiniteSets

CONSTANTS
  Vals,      \* the values an array may hold
  NNumbers,  \* argv[1], length of the array
  NThreads,  \* argv[2]
  Null,      \* the null pointer
  TheTree,   \* the mutex of the tree
  Free       \* owner of an unlocked mutex

Threads == 0 .. NThreads - 1

ASSUME TreeAssumption ==
  /\ Vals \subseteq Int
  /\ NNumbers \in Nat /\ NThreads \in Nat \ {0}
  /\ Null \notin Vals /\ TheTree \notin Vals
  /\ Free \notin Threads

VARIABLES
  numbers,  \* the array, in the order shuffle left it
  child,    \* the contents of every slot
  lock,     \* the owner of every mutex
  i,        \* startThread's loop variable
  pc,       \* where each thread is inside insertIntoTree
  curlock,  \* local variables of insertIntoTree
  cursor,
  next,
  joined    \* main has joined every thread

locals == <<curlock, cursor, next>>
vars   == <<numbers, child, lock, i, pc, locals, joined>>

-----------------------------------------------------------------------------
(* The driver.                                                             *)

\* divideWork: the first NNumbers % NThreads threads take one number more.
SliceSize(t) == NNumbers \div NThreads + (IF t < NNumbers % NThreads THEN 1 ELSE 0)

\* Mutant of SliceStart: slices overlap.
SliceStartOverlap(t) == t * (NNumbers \div NThreads)

SliceStart(t) ==
  t * (NNumbers \div NThreads) + (IF t < NNumbers % NThreads THEN t ELSE NNumbers % NThreads)

Val(t) == numbers[SliceStart(t) + i[t]]

-----------------------------------------------------------------------------
(* insertIntoTree.                                                         *)

RootSlot == <<TheTree, "root">>
Slots    == {RootSlot} \union (Vals \X {"left", "right"})
Locks    == Vals \union {TheTree}

Init ==
  /\ numbers \in [0 .. NNumbers - 1 -> Vals]
  /\ child = [s \in Slots |-> Null]
  /\ lock = [l \in Locks |-> Free]
  /\ i = [t \in Threads |-> 0]
  /\ pc = [t \in Threads |-> "loop"]
  /\ curlock = [t \in Threads |-> TheTree]
  /\ cursor = [t \in Threads |-> RootSlot]
  /\ next = [t \in Threads |-> RootSlot]
  /\ joined = FALSE

Goto(t, from, to) == pc[t] = from /\ pc' = [pc EXCEPT ![t] = to]

\* startThread's loop: the call, or the return of the thread.
Call(t) ==
  /\ Goto(t, "loop", IF i[t] < SliceSize(t) THEN "lockTree" ELSE "exit")
  /\ UNCHANGED <<numbers, child, lock, i, locals, joined>>

\* Mutant of LockTree: no lock is taken.
LockTreeMissing(t) ==
  /\ Goto(t, "lockTree", "root")
  /\ curlock' = [curlock EXCEPT ![t] = TheTree]
  /\ cursor' = [cursor EXCEPT ![t] = RootSlot]
  /\ UNCHANGED <<numbers, child, lock, i, next, joined>>

LockTree(t) ==
  /\ Goto(t, "lockTree", "root")
  /\ lock[TheTree] = Free /\ lock' = [lock EXCEPT ![TheTree] = t]
  /\ curlock' = [curlock EXCEPT ![t] = TheTree]
  /\ cursor' = [cursor EXCEPT ![t] = RootSlot]
  /\ UNCHANGED <<numbers, child, i, next, joined>>

\* if (!t->root).  The root is attached like any other node.
TestRoot(t) ==
  /\ Goto(t, "root", IF child[RootSlot] = Null THEN "attach" ELSE "compare")
  /\ next' = [next EXCEPT ![t] = RootSlot]
  /\ UNCHANGED <<numbers, child, lock, i, curlock, cursor, joined>>

Side(v, n) == IF v > n THEN "right" ELSE "left"

\* The value is there: nothing to insert.
FindEqual(t) ==
  /\ Goto(t, "compare", "unlock")
  /\ child[cursor[t]] = Val(t)
  /\ UNCHANGED <<numbers, child, lock, i, locals, joined>>

\* One comparison: next is the slot on the side of the value.
Compare(t) ==
  LET node == child[cursor[t]]
      slot == <<node, Side(Val(t), node)>>
  IN
  /\ Goto(t, "compare", IF child[slot] = Null THEN "attach" ELSE "lockNext")
  /\ node # Val(t)
  /\ next' = [next EXCEPT ![t] = slot]
  /\ UNCHANGED <<numbers, child, lock, i, curlock, cursor, joined>>

LockNext(t) ==
  LET node == child[next[t]] IN
  /\ Goto(t, "lockNext", "unlockCur")
  /\ lock[node] = Free /\ lock' = [lock EXCEPT ![node] = t]
  /\ UNCHANGED <<numbers, child, i, locals, joined>>

\* Mutant of UnlockCur: the lock above is kept.
UnlockCurMissing(t) ==
  /\ Goto(t, "unlockCur", "compare")
  /\ curlock' = [curlock EXCEPT ![t] = child[next[t]]]
  /\ cursor' = [cursor EXCEPT ![t] = next[t]]
  /\ UNCHANGED <<numbers, child, lock, i, next, joined>>

UnlockCur(t) ==
  /\ Goto(t, "unlockCur", "compare")
  /\ lock' = [lock EXCEPT ![curlock[t]] = Free]
  /\ curlock' = [curlock EXCEPT ![t] = child[next[t]]]
  /\ cursor' = [cursor EXCEPT ![t] = next[t]]
  /\ UNCHANGED <<numbers, child, i, next, joined>>

\* *next = make_node(val).
Attach(t) ==
  /\ Goto(t, "attach", "unlock")
  /\ child' = [child EXCEPT ![next[t]] = Val(t)]
  /\ UNCHANGED <<numbers, lock, i, locals, joined>>

\* The last unlock, the return and i++.
Unlock(t) ==
  /\ Goto(t, "unlock", "loop")
  /\ lock' = [lock EXCEPT ![curlock[t]] = Free]
  /\ i' = [i EXCEPT ![t] = @ + 1]
  /\ UNCHANGED <<numbers, child, locals, joined>>

Run(t) ==
  \/ Call(t) \/ LockTree(t) \/ TestRoot(t) \/ FindEqual(t) \/ Compare(t)
  \/ LockNext(t) \/ UnlockCur(t) \/ Attach(t) \/ Unlock(t)

\* main: every pthread_join has returned; the tree is printed and destroyed.
Join ==
  /\ ~joined /\ \A t \in Threads : pc[t] = "exit"
  /\ joined' = TRUE
  /\ UNCHANGED <<numbers, child, lock, i, pc, locals>>

Next == Join \/ \E t \in Threads : Run(t)

Spec == Init /\ [][Next]_vars

\* Every thread that can run eventually runs; a mutex may be unfair.
FairSpec == Spec /\ WF_vars(Join) /\ \A t \in Threads : WF_vars(Run(t))

-----------------------------------------------------------------------------
(* Properties.                                                             *)

\* Types; a slot holds a node or nothing.
TypeOK ==
  /\ numbers \in [0 .. NNumbers - 1 -> Vals]
  /\ child \in [Slots -> Vals \union {Null}]
  /\ lock \in [Locks -> Threads \union {Free}]
  /\ i \in [Threads -> Nat]
  /\ pc \in [Threads -> {"loop", "lockTree", "root", "compare", "lockNext", "unlockCur",
                         "attach", "unlock", "exit"}]
  /\ curlock \in [Threads -> Locks]
  /\ cursor \in [Threads -> Slots] /\ next \in [Threads -> Slots]
  /\ joined \in BOOLEAN

\* The values below a slot.
Below[s \in Slots] ==
  IF child[s] = Null THEN {}
  ELSE {child[s]} \union Below[<<child[s], "left">>] \union Below[<<child[s], "right">>]

Contents == Below[RootSlot]

\* At every moment a node is above all values of its left subtree and below all of
\* its right subtree: a search, or printInOrder, would find each value in its place.
SearchOrder ==
  \A n \in Contents : /\ \A v \in Below[<<n, "left">>] : v < n
                      /\ \A v \in Below[<<n, "right">>] : v > n

\* Two insertions never write the same slot: a link that was set stays, so no
\* subtree is ever lost.
LinksStay == [][\A s \in Slots : child[s] # Null => child'[s] = child[s]]_vars

\* The mutexes a thread owns, from its program counter.
Owned(t) ==
  CASE pc[t] \in {"loop", "lockTree", "exit"} -> {}
    [] pc[t] = "unlockCur" -> {curlock[t], child[next[t]]}
    [] OTHER -> {curlock[t]}

\* A thread owns one mutex while it works below a node, two while it moves
\* down, and none outside insertIntoTree.
LockCoupling == \A l \in Locks, t \in Threads : lock[l] = t <=> l \in Owned(t)

\* main prints a tree that holds the numbers of the whole array.
AllInserted == joined => Contents = {numbers[k] : k \in 0 .. NNumbers - 1}

\* The tree is a search tree at every moment, under locks held hand over hand,
\* and complete when main prints it.
TreeWellFormed == TypeOK /\ SearchOrder /\ LockCoupling /\ AllInserted

\* The tree implements an atomic set: an insertion takes effect when the
\* node is linked, or when an equal value is met.
Abstract == INSTANCE ConcurrentSet WITH
  set <- Contents,
  pending <- [t \in Threads |-> IF pc[t] \in {"loop", "unlock", "exit"} THEN Null
                                 ELSE <<"add", Val(t)>>],
  Idle <- Null
ImplementsSet == Abstract!Spec

\* Threads that lock hand over hand never wait in a circle: all of them finish.
EverythingJoined == <>joined

=============================================================================
