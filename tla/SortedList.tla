----------------------------- MODULE SortedList -----------------------------
(***************************************************************************)
(* The sorted doubly linked list of lab10 (dllist.c): threads insert       *)
(* integers, duplicates included, moving one lock hand over hand from the  *)
(* list to the node after which they insert; dltest.c has every thread     *)
(* insert 0, 1, 2, ...  A printer walks the list the same way.             *)
(*                                                                         *)
(* A node is the rank of its malloc.  The lock of a node guards its next   *)
(* field and the prv field of its successor; the lock of the list does so  *)
(* for head.                                                               *)
(***************************************************************************)
EXTENDS Integers, Sequences, FiniteSets

CONSTANTS
  Threads,     \* the inserting threads (argv[1] of dltest)
  NbToInsert,  \* job->nbToInsert
  Printer,     \* a thread that calls printListForward
  Null,        \* the null pointer
  TheList,     \* the mutex of the list
  Free         \* owner of an unlocked mutex

ASSUME ListAssumption ==
  /\ IsFiniteSet(Threads)
  /\ NbToInsert \in Nat
  /\ Printer \notin Threads
  /\ Null \notin Nat /\ TheList \notin Nat /\ Null # TheList
  /\ Free \notin Threads \union {Printer}

Everyone == Threads \union {Printer}
Nodes    == 1 .. Cardinality(Threads) * NbToInsert
Owners   == Nodes \union {TheList}
Pointers == Nodes \union {Null}

VARIABLES
  made,       \* number of nodes allocated
  val,        \* the field value of each node
  succ,       \* the field next of each node; head for TheList
  prv,        \* the field prv of each node
  tail,
  lock,       \* the owner of every mutex
  v,          \* the loop variable of insertData: the value being inserted
  pc,
  curlock,    \* the mutex a thread holds, last in printListForward
  cur,
  nn,         \* the node a thread allocated
  printed,    \* the nodes printListForward wrote
  present     \* history: the nodes in the list when it took its first lock

list     == <<made, val, succ, prv, tail>>
locals   == <<v, curlock, cur, nn>>
printing == <<printed, present>>
vars     == <<list, lock, locals, pc, printing>>

-----------------------------------------------------------------------------

Init ==
  /\ made = 0
  /\ val = [n \in Nodes |-> 0]
  /\ succ = [n \in Owners |-> Null]
  /\ prv = [n \in Nodes |-> Null]
  /\ tail = Null
  /\ lock = [l \in Owners |-> Free]
  /\ v = [t \in Threads |-> 0]
  /\ pc = [t \in Everyone |-> "lockList"]
  /\ curlock = [t \in Everyone |-> TheList]
  /\ cur = [t \in Everyone |-> Null]
  /\ nn = [t \in Threads |-> Null]
  /\ printed = <<>> /\ present = {}

Goto(t, from, to) == pc[t] = from /\ pc' = [pc EXCEPT ![t] = to]

Lock(l, t) == lock[l] = Free /\ lock' = [lock EXCEPT ![l] = t]
Unlock(l)  == lock' = [lock EXCEPT ![l] = Free]

\* The condition of insertData's loop.
MoreToInsert(t) == v[t] < NbToInsert

\* insertData's loop, the lock of the list, cur = list->head.
LockList(t) ==
  /\ Goto(t, "lockList", "walk")
  /\ t \in Threads => MoreToInsert(t)
  /\ Lock(TheList, t)
  /\ curlock' = [curlock EXCEPT ![t] = TheList]
  /\ cur' = [cur EXCEPT ![t] = succ[TheList]]
  /\ present' = IF t = Printer THEN 1 .. made ELSE present
  /\ UNCHANGED <<list, v, nn, printed>>

\* Mutant of Passes: the comparison is reversed.
PassesReversed(t) == cur[t] # Null /\ val[cur[t]] >= v[t]

\* The test of insertSortedList's loop.
Passes(t) == cur[t] # Null /\ val[cur[t]] <= v[t]

\* Mutant of LockCur: the lock is not taken.
LockCurMissing(t) ==
  /\ Goto(t, "walk", "unlockPrev")
  /\ cur[t] # Null /\ (t \in Threads => Passes(t))
  /\ UNCHANGED <<list, lock, locals, printing>>

\* The lock of the next node; printListForward prints its value.
LockCur(t) ==
  /\ Goto(t, "walk", "unlockPrev")
  /\ cur[t] # Null /\ (t \in Threads => Passes(t))
  /\ Lock(cur[t], t)
  /\ printed' = IF t = Printer THEN Append(printed, cur[t]) ELSE printed
  /\ UNCHANGED <<list, locals, present>>

\* Mutant of UnlockPrev: the mutex behind is kept.
UnlockPrevMissing(t) ==
  /\ Goto(t, "unlockPrev", "walk")
  /\ curlock' = [curlock EXCEPT ![t] = cur[t]]
  /\ cur' = [cur EXCEPT ![t] = succ[cur[t]]]
  /\ UNCHANGED <<list, lock, v, nn, printing>>

\* The unlock of the mutex behind, then the next node.
UnlockPrev(t) ==
  /\ Goto(t, "unlockPrev", "walk")
  /\ Unlock(curlock[t])
  /\ curlock' = [curlock EXCEPT ![t] = cur[t]]
  /\ cur' = [cur EXCEPT ![t] = succ[cur[t]]]
  /\ UNCHANGED <<list, v, nn, printing>>

\* The node in front of cur, as the code finds it.
Prev(t) == IF cur[t] # Null THEN prv[cur[t]] ELSE tail

\* The new node with its two links, then the forward link to it.
Link(t) ==
  LET n == made + 1 IN
  /\ Goto(t, "walk", "backlink")
  /\ t \in Threads /\ ~Passes(t)
  /\ made' = n
  /\ nn' = [nn EXCEPT ![t] = n]
  /\ val' = [val EXCEPT ![n] = v[t]]
  /\ succ' = [succ EXCEPT ![n] = cur[t], ![IF Prev(t) = Null THEN TheList ELSE Prev(t)] = n]
  /\ prv' = [prv EXCEPT ![n] = Prev(t)]
  /\ UNCHANGED <<tail, lock, v, curlock, cur, printing>>

\* Mutant of BackLink: prv and tail are not updated.
BackLinkMissing(t) ==
  Goto(t, "backlink", "unlock") /\ UNCHANGED <<list, lock, locals, printing>>

\* The back link to the new node: nxt->prv or list->tail.
BackLink(t) ==
  /\ Goto(t, "backlink", "unlock")
  /\ prv' = IF cur[t] # Null THEN [prv EXCEPT ![cur[t]] = nn[t]] ELSE prv
  /\ tail' = IF cur[t] = Null THEN nn[t] ELSE tail
  /\ UNCHANGED <<made, val, succ, lock, locals, printing>>

\* The last unlock and insertData's next iteration.
UnlockLast(t) ==
  /\ Goto(t, "unlock", "lockList")
  /\ Unlock(curlock[t])
  /\ v' = [v EXCEPT ![t] = @ + 1]
  /\ UNCHANGED <<list, curlock, cur, nn, printing>>

\* printListForward reached the end.
PrintEnd ==
  /\ Goto(Printer, "walk", "end")
  /\ cur[Printer] = Null
  /\ Unlock(curlock[Printer])
  /\ UNCHANGED <<list, locals, printing>>

InsertStep(t) == LockList(t) \/ LockCur(t) \/ UnlockPrev(t) \/ Link(t) \/ BackLink(t) \/ UnlockLast(t)
PrintStep     == LockList(Printer) \/ LockCur(Printer) \/ UnlockPrev(Printer) \/ PrintEnd

Next == PrintStep \/ \E t \in Threads : InsertStep(t)

Spec == Init /\ [][Next]_vars

\* Every thread that can run eventually runs; a mutex may be unfair.
FairSpec == Spec /\ WF_vars(PrintStep) /\ \A t \in Threads : WF_vars(InsertStep(t))

-----------------------------------------------------------------------------
(* Properties.                                                             *)

\* Types; nodes are never allocated beyond the insertions asked for.
TypeOK ==
  /\ made \in 0 .. Cardinality(Nodes)
  /\ val \in [Nodes -> 0 .. NbToInsert]
  /\ succ \in [Owners -> Pointers] /\ prv \in [Nodes -> Pointers] /\ tail \in Pointers
  /\ lock \in [Owners -> Everyone \union {Free}]
  /\ v \in [Threads -> 0 .. NbToInsert]
  /\ pc \in [Everyone -> {"lockList", "walk", "unlockPrev", "backlink", "unlock", "end"}]
  /\ curlock \in [Everyone -> Owners] /\ cur \in [Everyone -> Pointers]
  /\ nn \in [Threads -> Pointers]
  /\ printed \in Seq(Nodes) /\ present \subseteq Nodes

\* The nodes from a pointer on, following next.
From[n \in Pointers] == IF n = Null THEN <<>> ELSE <<n>> \o From[succ[n]]

Chain == From[succ[TheList]]

NonDecreasing(nodes) == \A k \in 1 .. Len(nodes) - 1 : val[nodes[k]] <= val[nodes[k + 1]]

\* At every moment the forward links hold every node that was inserted, in
\* order of value: two insertions at one place do not overwrite each other.
ForwardSorted ==
  /\ NonDecreasing(Chain)
  /\ {Chain[k] : k \in DOMAIN Chain} = 1 .. made /\ Len(Chain) = made

\* The back links and tail mirror the forward links, but for the successor of
\* a node whose insertion is between its two links.
BackMirrorsForward ==
  LET Settled(n) == \A t \in Threads : ~(pc[t] = "backlink" /\ nn[t] = n) IN
  \A k \in DOMAIN Chain : Settled(Chain[k]) =>
    IF k = Len(Chain) THEN tail = Chain[k] ELSE prv[Chain[k + 1]] = Chain[k]

\* Forward links, back links and tail describe one sorted list, whatever
\* insertions are in the middle of their two assignments (dllist.c:50-78).
ListWellFormed == TypeOK /\ ForwardSorted /\ BackMirrorsForward

\* The node that insertSortedList finds in front of the spot, through prv or
\* tail, is the one whose mutex the thread holds.
PrevIsLocked ==
  \A t \in Threads : pc[t] = "walk" /\ ~Passes(t) =>
    /\ curlock[t] = IF Prev(t) = Null THEN TheList ELSE Prev(t)
    /\ lock[curlock[t]] = t

\* What printListForward wrote is sorted, without repetition, and lists at
\* least the nodes that were there when it began.
PrintedSnapshot ==
  /\ NonDecreasing(printed)
  /\ \A j, k \in DOMAIN printed : printed[j] = printed[k] => j = k
  /\ pc[Printer] = "end" => present \subseteq {printed[k] : k \in DOMAIN printed}

\* Nobody waits for ever: every value is inserted and the printer returns.
EverythingInserted == <>(/\ \A t \in Threads : pc[t] = "lockList" /\ v[t] = NbToInsert
                         /\ pc[Printer] = "end")

=============================================================================
