------------------------------ MODULE HashMap -------------------------------
(***************************************************************************)
(* The hash map of lab9 (hashMap.c over the sorted lists of dllist.c) and  *)
(* its driver hmtest.c: threads insert keys, are joined, and new threads   *)
(* delete keys.  A bucket has its own lock, the counter of items another.  *)
(*                                                                         *)
(* The list of a bucket is sorted and holds a key once: it is modelled by  *)
(* the set of its keys.  The search for a key and the change it leads to   *)
(* are two steps.  Values, and retrieveValue, which nothing calls, are     *)
(* left out.  The bucket of a key is any function of the key.              *)
(***************************************************************************)
EXTENDS Integers, Sequences, FiniteSets

CONSTANTS
  Keys,        \* the keys, ordered by strcmp
  NumBuckets,  \* the argument nb of initHashMap
  AddKeys,     \* the keys each thread of the first phase inserts
  RemoveKeys,  \* the keys each thread of the second phase deletes
  UIntSize,    \* 2^32: numItems is an unsigned int
  Null,        \* the null pointer
  Free         \* owner of an unlocked mutex

Threads == DOMAIN AddKeys

ASSUME MapAssumption ==
  /\ Keys \subseteq Nat /\ IsFiniteSet(Threads)
  /\ NumBuckets \in Nat \ {0}
  /\ AddKeys \in [Threads -> Seq(Keys)] /\ RemoveKeys \in [Threads -> Seq(Keys)]
  /\ UIntSize \in Nat \ {0}
  /\ Null \notin Keys /\ Free \notin Threads

Buckets == 0 .. NumBuckets - 1

VARIABLES
  hash,      \* hash(key) % numBuckets
  bucket,    \* the keys in the list of each bucket
  numItems,
  lock,      \* the owner of each bucket's lock
  tableLock,
  phase,     \* main: inserting, deleting, joined
  i,         \* the loop variable of addPairs and of removeKeys
  pc,
  cur,       \* the key of the node where the search ended
  rc,        \* what the list operation returned
  old        \* numItems as read by the increment or the decrement

vars == <<hash, bucket, numItems, lock, tableLock, phase, i, pc, cur, rc, old>>

-----------------------------------------------------------------------------

Work(t) == IF phase = "add" THEN AddKeys[t] ELSE RemoveKeys[t]
Key(t)  == Work(t)[i[t]]
Bkt(t)  == hash[Key(t)]

Init ==
  /\ hash \in [Keys -> Buckets]
  /\ bucket = [b \in Buckets |-> {}]
  /\ numItems = 0
  /\ lock = [b \in Buckets |-> Free] /\ tableLock = Free
  /\ phase = "add"
  /\ i = [t \in Threads |-> 1]
  /\ pc = [t \in Threads |-> "loop"]
  /\ cur = [t \in Threads |-> Null]
  /\ rc = [t \in Threads |-> 0]
  /\ old = [t \in Threads |-> 0]

Goto(t, from, to) == pc[t] = from /\ pc' = [pc EXCEPT ![t] = to]

\* insertHashMap and deleteEntry begin with the lock of the bucket.
LockBucket(t) ==
  /\ i[t] <= Len(Work(t))
  /\ Goto(t, "loop", "search")
  /\ lock[Bkt(t)] = Free /\ lock' = [lock EXCEPT ![Bkt(t)] = t]
  /\ UNCHANGED <<hash, bucket, numItems, tableLock, phase, i, cur, rc, old>>

\* Mutant of FirstNotBelow: the search passes equal keys.
FirstAbove(keys, key) ==
  LET above == {k \in keys : k > key}
  IN  IF above = {} THEN Null ELSE CHOOSE k \in above : \A j \in above : k <= j

\* The node the while loop of both list operations stops at.
FirstNotBelow(keys, key) ==
  LET above == {k \in keys : k >= key}
  IN  IF above = {} THEN Null ELSE CHOOSE k \in above : \A j \in above : k <= j

Search(t) ==
  /\ Goto(t, "search", IF phase = "add" THEN "insert" ELSE "remove")
  /\ cur' = [cur EXCEPT ![t] = FirstNotBelow(bucket[Bkt(t)], Key(t))]
  /\ UNCHANGED <<hash, bucket, numItems, lock, tableLock, phase, i, rc, old>>

\* insertSortedList: nothing when the key is there.
InsertSorted(t) ==
  /\ Goto(t, "insert", "unlock")
  /\ bucket' = IF cur[t] = Key(t) THEN bucket ELSE [bucket EXCEPT ![Bkt(t)] = @ \union {Key(t)}]
  /\ rc' = [rc EXCEPT ![t] = IF cur[t] = Key(t) THEN 0 ELSE 1]
  /\ UNCHANGED <<hash, numItems, lock, tableLock, phase, i, cur, old>>

\* removeFromList unlinks the node the search stopped at, whatever its key.
RemoveFromList(t) ==
  /\ Goto(t, "remove", "unlock")
  /\ bucket' = IF cur[t] = Null THEN bucket ELSE [bucket EXCEPT ![Bkt(t)] = @ \ {cur[t]}]
  /\ rc' = [rc EXCEPT ![t] = IF cur[t] = Null THEN 0 ELSE 1]
  /\ UNCHANGED <<hash, numItems, lock, tableLock, phase, i, cur, old>>

\* The end of a call: the next iteration.
NextKey(t) == i' = [i EXCEPT ![t] = @ + 1]

\* Mutant of UnlockBucket: the lock is kept.
UnlockBucketMissing(t) ==
  /\ Goto(t, "unlock", IF rc[t] = 0 THEN "loop" ELSE "lockTable")
  /\ IF rc[t] = 0 THEN NextKey(t) ELSE i' = i
  /\ UNCHANGED <<hash, bucket, numItems, lock, tableLock, phase, cur, rc, old>>

UnlockBucket(t) ==
  /\ Goto(t, "unlock", IF rc[t] = 0 THEN "loop" ELSE "lockTable")
  /\ lock' = [lock EXCEPT ![Bkt(t)] = Free]
  /\ IF rc[t] = 0 THEN NextKey(t) ELSE i' = i
  /\ UNCHANGED <<hash, bucket, numItems, tableLock, phase, cur, rc, old>>

\* Mutant of LockTable: no lock is taken.
LockTableMissing(t) ==
  /\ Goto(t, "lockTable", "read")
  /\ UNCHANGED <<hash, bucket, numItems, lock, tableLock, phase, i, cur, rc, old>>

LockTable(t) ==
  /\ Goto(t, "lockTable", "read")
  /\ tableLock = Free /\ tableLock' = t
  /\ UNCHANGED <<hash, bucket, numItems, lock, phase, i, cur, rc, old>>

\* numItems += rc and numItems--: a read, then a write.
ReadItems(t) ==
  /\ Goto(t, "read", "write")
  /\ old' = [old EXCEPT ![t] = numItems]
  /\ UNCHANGED <<hash, bucket, numItems, lock, tableLock, phase, i, cur, rc>>

WriteItems(t) ==
  /\ Goto(t, "write", "unlockTable")
  /\ numItems' = (IF phase = "add" THEN old[t] + 1 ELSE old[t] - 1) % UIntSize
  /\ UNCHANGED <<hash, bucket, lock, tableLock, phase, i, cur, rc, old>>

UnlockTable(t) ==
  /\ Goto(t, "unlockTable", "loop")
  /\ tableLock' = Free
  /\ NextKey(t)
  /\ UNCHANGED <<hash, bucket, numItems, lock, phase, cur, rc, old>>

\* The two pthread_joins of a phase; the second one ends with destroyHashMap.
Join ==
  /\ phase # "joined"
  /\ \A t \in Threads : pc[t] = "loop" /\ i[t] > Len(Work(t))
  /\ phase' = IF phase = "add" THEN "remove" ELSE "joined"
  /\ i' = [t \in Threads |-> 1]
  /\ UNCHANGED <<hash, bucket, numItems, lock, tableLock, pc, cur, rc, old>>

Run(t) ==
  /\ phase # "joined"
  /\ \/ LockBucket(t) \/ Search(t) \/ InsertSorted(t) \/ RemoveFromList(t) \/ UnlockBucket(t)
     \/ LockTable(t) \/ ReadItems(t) \/ WriteItems(t) \/ UnlockTable(t)

Next == Join \/ \E t \in Threads : Run(t)

Spec == Init /\ [][Next]_vars

\* Every thread that can run eventually runs; a mutex may be unfair.
FairSpec == Spec /\ WF_vars(Join) /\ \A t \in Threads : WF_vars(Run(t))

-----------------------------------------------------------------------------
(* Properties.                                                             *)

\* Types; numItems stays an unsigned int.
TypeOK ==
  /\ hash \in [Keys -> Buckets] /\ bucket \in [Buckets -> SUBSET Keys]
  /\ numItems \in 0 .. UIntSize - 1
  /\ lock \in [Buckets -> Threads \union {Free}] /\ tableLock \in Threads \union {Free}
  /\ phase \in {"add", "remove", "joined"}
  /\ i \in [Threads -> Nat \ {0}]
  /\ pc \in [Threads -> {"loop", "search", "insert", "remove", "unlock", "lockTable", "read",
                         "write", "unlockTable"}]
  /\ cur \in [Threads -> Keys \union {Null}] /\ rc \in [Threads -> {0, 1}]
  /\ old \in [Threads -> 0 .. UIntSize - 1]

Entries == UNION {bucket[b] : b \in Buckets}

\* The items a thread has inserted, or removed, and not yet counted.
Uncounted ==
  Cardinality({t \in Threads : pc[t] \in {"unlock", "lockTable", "read", "write"} /\ rc[t] = 1})

\* numItems is the number of entries, but for the changes still to be counted.
CounterExact ==
  numItems = (Cardinality(Entries) + (IF phase = "add" THEN - Uncounted ELSE Uncounted)) % UIntSize

\* A position found by a search is still the right one when it is used.
SearchStaysValid ==
  \A t \in Threads : pc[t] \in {"insert", "remove"} =>
    cur[t] = FirstNotBelow(bucket[Bkt(t)], Key(t))

Listed(work) == UNION {{work[t][k] : k \in DOMAIN work[t]} : t \in Threads}

\* hmtest ends with the keys that were inserted and never deleted.
EndsWithDifference == phase = "joined" => Entries = Listed(AddKeys) \ Listed(RemoveKeys)

\* Counter, contents and the positions threads have found agree although they
\* are under different locks, and hmtest ends with the right keys.
MapWellFormed == TypeOK /\ CounterExact /\ SearchStaysValid /\ EndsWithDifference

\* The map implements an atomic set of keys: "If they key isn't in the bucket,
\* don't do anything".
Abstract == INSTANCE ConcurrentSet WITH
  Vals <- Keys, Idle <- Null, set <- Entries,
  pending <- [t \in Threads |->
    IF pc[t] \in {"search", "insert", "remove"}
    THEN <<IF phase = "add" THEN "add" ELSE "remove", Key(t)>> ELSE Null]
ImplementsSet == Abstract!Spec

\* Every thread finishes its keys: hmtest reaches destroyHashMap.
EverythingJoined == <>(phase = "joined")

=============================================================================
