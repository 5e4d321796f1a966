--------------------------- MODULE HashMapProofs ----------------------------
(***************************************************************************)
(* Proofs about the hash map of lab9, for any number of threads, keys and  *)
(* buckets, any keys inserted and deleted, and any width of the counter.   *)
(***************************************************************************)
EXTENDS HashMap, FiniteSetTheorems, WellFoundedInduction, TLAPS

-----------------------------------------------------------------------------
(* The invariant: what a thread holds at each of its statements.           *)

InBucket == {"search", "insert", "remove", "unlock"}
InTable  == {"read", "write", "unlockTable"}
Effected == {"unlock", "lockTable", "read", "write", "unlockTable"}

\* The operations a thread has begun are those of the phase.
Phases ==
  /\ \A t \in Threads : pc[t] = "insert" => phase = "add"
  /\ \A t \in Threads : pc[t] = "remove" => phase = "remove"
  /\ phase = "joined" => \A t \in Threads : pc[t] = "loop"
  /\ \A t \in Threads : pc[t] # "loop" => i[t] \in 1 .. Len(Work(t))

\* Each lock is owned by the thread whose statement it protects.
Locks ==
  /\ \A t \in Threads : pc[t] \in InBucket => lock[Bkt(t)] = t
  /\ \A t \in Threads : pc[t] \in InTable => tableLock = t

\* A key is only in the bucket it hashes to.
Homed == \A b \in Buckets : \A k \in bucket[b] : hash[k] = b

\* A counting thread changed the map, and has read the counter nobody changed since.
Counting ==
  /\ \A t \in Threads : pc[t] \in {"lockTable"} \union InTable => rc[t] = 1
  /\ \A t \in Threads : pc[t] = "write" => old[t] = numItems

MapInv ==
  /\ TypeOK /\ Phases /\ Locks /\ Homed /\ Counting
  /\ SearchStaysValid
  /\ IsFiniteSet(Entries) /\ CounterExact

-----------------------------------------------------------------------------
(* Lemmas about counting, searching and the keys of a thread.              *)

(* A counter of any width steps up and down with what it counts. *)
LEMMA ModStep ==
  ASSUME NEW n \in Nat \ {0}, NEW x \in Int
  PROVE  /\ x % n \in 0 .. n - 1
         /\ ((x % n) + 1) % n = (x + 1) % n
         /\ ((x % n) - 1) % n = (x - 1) % n
<1>1. PICK q \in Int, r \in 0 .. n - 1 : r = x % n /\ x = n * q + r
  <2>1. x % n \in 0 .. n - 1 /\ x \div n \in Int /\ x = n * (x \div n) + (x % n)
    OBVIOUS
  <2> QED BY <2>1
<1>2. ASSUME NEW p \in Int, NEW s \in 0 .. n - 1 PROVE (n * p + s) % n = s
  OBVIOUS
<1>3. ASSUME NEW p \in Int PROVE (n * p) % n = 0
  OBVIOUS
<1>4. (r + 1) % n = (x + 1) % n
  <2>1. CASE r + 1 < n
    <3>1. PICK s \in 0 .. n - 1 : s = r + 1
      BY <2>1
    <3>2. x + 1 = n * q + s
      <4>1. x = n * q + r /\ s = r + 1 /\ n * q \in Int
        BY <1>1, <3>1
      <4> QED BY <4>1
    <3>3. (n * q + s) % n = s /\ s % n = s
      BY <1>2
    <3> QED BY <3>1, <3>2, <3>3
  <2>2. CASE r + 1 = n
    <3>1. x + 1 = n * (q + 1) /\ n * 1 = r + 1 /\ q + 1 \in Int
      <4>1. x = n * q + r /\ n * (q + 1) = n * q + n /\ n * q \in Int
        BY <1>1
      <4> QED BY <2>2, <4>1
    <3>2. (n * (q + 1)) % n = 0 /\ (n * 1) % n = 0
      BY <3>1, <1>3
    <3> QED BY <3>1, <3>2
  <2> QED BY <2>1, <2>2
<1>5. (r - 1) % n = (x - 1) % n
  <2>1. CASE r > 0
    <3>1. PICK s \in 0 .. n - 1 : s = r - 1
      BY <2>1
    <3>2. x - 1 = n * q + s
      BY <1>1, <3>1
    <3>3. (n * q + s) % n = s /\ s % n = s
      BY <1>2
    <3> QED BY <3>1, <3>2, <3>3
  <2>2. CASE r = 0
    <3>1. PICK s \in 0 .. n - 1 : s = n - 1
      OBVIOUS
    <3>2. x - 1 = n * (q - 1) + s /\ r - 1 = n * (0 - 1) + s /\ q - 1 \in Int /\ 0 - 1 \in Int
      BY <1>1, <2>2, <3>1
    <3>3. (n * (q - 1) + s) % n = s /\ (n * (0 - 1) + s) % n = s
      BY <3>2, <1>2
    <3> QED BY <3>2, <3>3
  <2> QED BY <2>1, <2>2
<1> QED BY <1>1, <1>4, <1>5

(* The search stops at a key of the list, or at its end; and at the key it *)
(* looks for when the list has it.                                         *)
LEMMA SearchFinds ==
  ASSUME NEW keys \in SUBSET Keys, NEW key \in Keys
  PROVE  /\ FirstNotBelow(keys, key) \in keys \union {Null}
         /\ FirstNotBelow(keys, key) = key <=> key \in keys
<1> DEFINE above == {k \in keys : k >= key}
<1>0. Keys \subseteq Nat /\ Null \notin Keys
  BY MapAssumption
<1>1. CASE above = {}
  <2>1. key \notin keys
    BY <1>0, <1>1
  <2> QED BY <1>0, <1>1, <2>1 DEF FirstNotBelow
<1>2. CASE above # {}
  <2>1. above \in SUBSET Nat
    BY <1>0
  <2>2. \E k \in above : \A j \in above : k <= j
    <3>1. PICK k \in above : \A j \in above : ~ (<<j, k>> \in OpToRel(<, Nat))
      BY <1>2, <2>1, NatLessThanWellFounded, WFMin, Zenon
    <3>2. \A j \in above : ~ (j < k)
      BY <2>1, <3>1 DEF OpToRel
    <3> QED BY <2>1, <3>2
  <2>3. PICK c : c = CHOOSE k \in above : \A j \in above : k <= j
    OBVIOUS
  <2>4. c \in above /\ \A j \in above : c <= j
    BY <2>2, <2>3
  <2>5. FirstNotBelow(keys, key) = c
    BY <1>2, <2>3 DEF FirstNotBelow
  <2>6. key \in keys => c = key
    BY <1>0, <2>1, <2>4
  <2>7. c \in keys
    BY <2>4
  <2> QED BY <2>5, <2>6, <2>7
<1> QED BY <1>1, <1>2

(* The key a thread is at, and its bucket. *)
LEMMA KeyTyped ==
  ASSUME TypeOK, NEW t \in Threads, i[t] \in 1 .. Len(Work(t))
  PROVE  Key(t) \in Keys /\ Bkt(t) \in Buckets
<1>1. Work(t) \in Seq(Keys)
  BY MapAssumption DEF Work
<1>2. Key(t) \in Keys
  BY <1>1 DEF Key
<1> QED BY <1>2 DEF Bkt, TypeOK

(* A key is an entry exactly when it is in its bucket. *)
LEMMA EntryHome ==
  ASSUME TypeOK, Homed, NEW k \in Keys
  PROVE  k \in Entries <=> k \in bucket[hash[k]]
<1>1. hash[k] \in Buckets
  BY DEF TypeOK
<1> QED BY <1>1 DEF Homed, Entries

(* Only the thread that steps moves. *)
LEMMA OthersStay ==
  ASSUME TypeOK, NEW t \in Threads, Run(t)
  PROVE  /\ hash' = hash /\ phase' = phase /\ phase # "joined"
         /\ \A u \in Threads \ {t} : /\ pc'[u] = pc[u] /\ i'[u] = i[u] /\ cur'[u] = cur[u]
                                     /\ rc'[u] = rc[u] /\ old'[u] = old[u]
                                     /\ Work(u)' = Work(u) /\ Key(u)' = Key(u) /\ Bkt(u)' = Bkt(u)
         /\ i' = i \/ pc'[t] = "loop"
<1>1. hash' = hash /\ phase' = phase /\ phase # "joined"
  BY DEF Run, LockBucket, Search, InsertSorted, RemoveFromList, UnlockBucket, LockTable, ReadItems,
         WriteItems, UnlockTable
<1>2. /\ \E x : pc' = [pc EXCEPT ![t] = x]
      /\ i' = i \/ \E x : i' = [i EXCEPT ![t] = x]
  BY DEF Run, LockBucket, Search, InsertSorted, RemoveFromList, UnlockBucket, LockTable, ReadItems,
         WriteItems, UnlockTable, Goto, NextKey
<1>3. /\ cur' = cur \/ \E x : cur' = [cur EXCEPT ![t] = x]
      /\ rc' = rc \/ \E x : rc' = [rc EXCEPT ![t] = x]
      /\ old' = old \/ \E x : old' = [old EXCEPT ![t] = x]
  BY DEF Run, LockBucket, Search, InsertSorted, RemoveFromList, UnlockBucket, LockTable, ReadItems,
         WriteItems, UnlockTable
<1>4. ASSUME NEW u \in Threads \ {t}
      PROVE  pc'[u] = pc[u] /\ i'[u] = i[u] /\ cur'[u] = cur[u] /\ rc'[u] = rc[u] /\ old'[u] = old[u]
  BY <1>2, <1>3 DEF TypeOK
<1>5. ASSUME NEW u \in Threads \ {t}
      PROVE  Work(u)' = Work(u) /\ Key(u)' = Key(u) /\ Bkt(u)' = Bkt(u)
  BY <1>1, <1>4 DEF Work, Key, Bkt
<1>6. i' = i \/ pc'[t] = "loop"
  BY DEF TypeOK, Run, LockBucket, Search, InsertSorted, RemoveFromList, UnlockBucket, LockTable, ReadItems,
         WriteItems, UnlockTable, Goto
<1> QED BY <1>1, <1>4, <1>5, <1>6

-----------------------------------------------------------------------------
(* The invariant is kept, part by part.                                    *)

(* Every step keeps the types. *)
LEMMA TypesKept ==
  ASSUME TypeOK, Phases, [Next]_vars PROVE TypeOK'
<1>0. UIntSize \in Nat \ {0} /\ Null \notin Keys
  BY MapAssumption
<1>1. CASE UNCHANGED vars
  BY <1>1 DEF vars, TypeOK
<1>2. CASE Join
  BY <1>2 DEF Join, TypeOK
<1>3. ASSUME NEW t \in Threads, Run(t) PROVE TypeOK'
  <2>1. CASE LockBucket(t)
    <3>1. i[t] \in 1 .. Len(Work(t))
      <4>1. Work(t) \in Seq(Keys)
        BY MapAssumption DEF Work
      <4> QED BY <2>1, <4>1 DEF LockBucket, TypeOK
    <3>2. Bkt(t) \in Buckets
      BY <3>1, KeyTyped
    <3> QED BY <2>1, <3>2 DEF LockBucket, Goto, TypeOK
  <2>2. CASE Search(t)
    <3>1. Key(t) \in Keys /\ Bkt(t) \in Buckets
      BY <2>2, KeyTyped DEF Search, Goto, Phases
    <3>2. bucket[Bkt(t)] \in SUBSET Keys
      BY <3>1 DEF TypeOK
    <3>3. FirstNotBelow(bucket[Bkt(t)], Key(t)) \in Keys \union {Null}
      BY <3>1, <3>2, SearchFinds
    <3> QED BY <2>2, <3>3 DEF Search, Goto, TypeOK
  <2>3. CASE InsertSorted(t)
    <3>1. Key(t) \in Keys /\ Bkt(t) \in Buckets
      BY <2>3, KeyTyped DEF InsertSorted, Goto, Phases
    <3>2. bucket' \in [Buckets -> SUBSET Keys]
      BY <2>3, <3>1 DEF InsertSorted, TypeOK
    <3> QED BY <2>3, <3>2 DEF InsertSorted, Goto, TypeOK
  <2>4. CASE RemoveFromList(t)
    <3>1. Key(t) \in Keys /\ Bkt(t) \in Buckets
      BY <2>4, KeyTyped DEF RemoveFromList, Goto, Phases
    <3>2. bucket' \in [Buckets -> SUBSET Keys]
      BY <2>4, <3>1 DEF RemoveFromList, TypeOK
    <3> QED BY <2>4, <3>2 DEF RemoveFromList, Goto, TypeOK
  <2>5. CASE UnlockBucket(t)
    <3>1. Bkt(t) \in Buckets
      BY <2>5, KeyTyped DEF UnlockBucket, Goto, Phases
    <3>2. i' \in [Threads -> Nat \ {0}]
      BY <2>5 DEF UnlockBucket, NextKey, TypeOK
    <3> QED BY <2>5, <3>1, <3>2 DEF UnlockBucket, Goto, TypeOK
  <2>6. CASE LockTable(t)
    BY <2>6 DEF LockTable, Goto, TypeOK
  <2>7. CASE ReadItems(t)
    BY <2>7 DEF ReadItems, Goto, TypeOK
  <2>8. CASE WriteItems(t)
    <3>1. (old[t] + 1) % UIntSize \in 0 .. UIntSize - 1 /\ (old[t] - 1) % UIntSize \in 0 .. UIntSize - 1
      <4>1. old[t] + 1 \in Int /\ old[t] - 1 \in Int
        BY DEF TypeOK
      <4> QED BY <1>0, <4>1, ModStep
    <3>2. numItems' \in 0 .. UIntSize - 1
      BY <2>8, <3>1 DEF WriteItems
    <3> QED BY <2>8, <3>2 DEF WriteItems, Goto, TypeOK
  <2>9. CASE UnlockTable(t)
    BY <2>9 DEF UnlockTable, NextKey, Goto, TypeOK
  <2> QED BY <1>3, <2>1, <2>2, <2>3, <2>4, <2>5, <2>6, <2>7, <2>8, <2>9 DEF Run
<1> QED BY <1>1, <1>2, <1>3 DEF Next

(* Every step keeps threads inside their work and their phase. *)
LEMMA PhasesKept ==
  ASSUME TypeOK, Phases, [Next]_vars PROVE Phases'
<1>1. CASE UNCHANGED vars
  <2>1. \A t \in Threads : Work(t)' = Work(t)
    BY <1>1 DEF vars, Work
  <2> QED BY <1>1, <2>1 DEF vars, Phases
<1>2. CASE Join
  BY <1>2 DEF Join, Phases
<1>3. ASSUME NEW t \in Threads, Run(t) PROVE Phases'
  <2>0. /\ phase' = phase /\ phase # "joined"
        /\ \A u \in Threads \ {t} : pc'[u] = pc[u] /\ i'[u] = i[u] /\ Work(u)' = Work(u)
        /\ i' = i \/ pc'[t] = "loop"
        /\ phase \in {"add", "remove"}
    BY <1>3, OthersStay DEF TypeOK
  <2>1. pc'[t] = "insert" => phase = "add"
    BY <1>3, <2>0 DEF TypeOK, Run, LockBucket, Search, InsertSorted, RemoveFromList, UnlockBucket, LockTable,
       ReadItems, WriteItems, UnlockTable, Goto
  <2>2. pc'[t] = "remove" => phase = "remove"
    BY <1>3, <2>0 DEF TypeOK, Run, LockBucket, Search, InsertSorted, RemoveFromList, UnlockBucket, LockTable,
       ReadItems, WriteItems, UnlockTable, Goto
  <2>3. pc'[t] # "loop" => i'[t] \in 1 .. Len(Work(t)')
    <3>1. Work(t)' = Work(t) /\ Work(t) \in Seq(Keys)
      BY <2>0, MapAssumption DEF Work
    <3>2. CASE LockBucket(t)
      <4>1. i[t] \in Nat \ {0} /\ i[t] <= Len(Work(t)) /\ i' = i /\ Len(Work(t)) \in Nat
        BY <3>1, <3>2 DEF LockBucket, TypeOK
      <4> QED BY <3>1, <4>1
    <3>3. CASE ~ LockBucket(t)
      <4>1. pc[t] # "loop"
        BY <1>3, <3>3 DEF Run, Search, InsertSorted, RemoveFromList, UnlockBucket, LockTable,
           ReadItems, WriteItems, UnlockTable, Goto
      <4> QED BY <2>0, <3>1, <4>1 DEF Phases
    <3> QED BY <3>2, <3>3
  <2> QED BY <2>0, <2>1, <2>2, <2>3 DEF Phases
<1> QED BY <1>1, <1>2, <1>3 DEF Next

(* Every step keeps the locks with the threads they protect. *)
LEMMA LocksKept ==
  ASSUME TypeOK, Phases, Locks, [Next]_vars PROVE Locks'
<1>1. CASE UNCHANGED vars
  BY <1>1 DEF vars, Locks, Bkt, Key, Work
<1>2. CASE Join
  BY <1>2 DEF Join, Locks, InBucket, InTable
<1>3. ASSUME NEW t \in Threads, Run(t) PROVE Locks'
  <2>0. /\ \A u \in Threads \ {t} : pc'[u] = pc[u] /\ Bkt(u)' = Bkt(u)
        /\ pc \in [Threads -> {"loop", "search", "insert", "remove", "unlock", "lockTable", "read",
                               "write", "unlockTable"}]
        /\ hash' = hash /\ phase' = phase /\ t # Free
        /\ \A u \in Threads : u # Free
    BY <1>3, OthersStay, MapAssumption DEF TypeOK
  <2>1. CASE LockBucket(t)
    <3>1. pc'[t] = "search" /\ i' = i /\ tableLock' = tableLock
          /\ lock[Bkt(t)] = Free /\ lock' = [lock EXCEPT ![Bkt(t)] = t]
      BY <2>0, <2>1 DEF LockBucket, Goto
    <3>2. Bkt(t) \in Buckets
      <4>1. Work(t) \in Seq(Keys)
        BY MapAssumption DEF Work
      <4>2. i[t] \in 1 .. Len(Work(t))
        BY <2>1, <4>1 DEF LockBucket, TypeOK
      <4> QED BY <4>2, KeyTyped
    <3>3. Bkt(t)' = Bkt(t)
      BY <2>0, <3>1 DEF Bkt, Key, Work
    <3>4. lock'[Bkt(t)] = t /\ \A b \in Buckets : b # Bkt(t) => lock'[b] = lock[b]
      BY <3>1, <3>2 DEF TypeOK
    <3>5. \A u \in Threads \ {t} : pc[u] \in InBucket => Bkt(u) \in Buckets
      BY KeyTyped DEF Phases, InBucket
    <3> QED BY <2>0, <3>1, <3>3, <3>4, <3>5 DEF Locks, InBucket, InTable
  <2>2. CASE Search(t) \/ InsertSorted(t) \/ RemoveFromList(t)
    <3>1. pc[t] \in InBucket /\ i' = i /\ tableLock' = tableLock /\ lock' = lock /\ pc'[t] \notin InTable
      BY <2>0, <2>2 DEF Search, InsertSorted, RemoveFromList, Goto, InBucket, InTable
    <3>2. Bkt(t)' = Bkt(t)
      BY <2>0, <3>1 DEF Bkt, Key, Work
    <3> QED BY <2>0, <3>1, <3>2 DEF Locks
  <2>3. CASE UnlockBucket(t)
    <3>1. pc[t] = "unlock" /\ pc'[t] \in {"loop", "lockTable"} /\ lock' = [lock EXCEPT ![Bkt(t)] = Free]
          /\ tableLock' = tableLock
      BY <2>0, <2>3 DEF UnlockBucket, Goto
    <3>2. lock[Bkt(t)] = t
      BY <3>1 DEF Locks, InBucket
    <3>3. \A u \in Threads \ {t} : pc[u] \in InBucket => Bkt(u) # Bkt(t) /\ Bkt(u) \in Buckets
      BY <3>2, KeyTyped DEF Locks, Phases, InBucket
    <3>4. \A u \in Threads \ {t} : pc[u] \in InBucket => lock'[Bkt(u)] = lock[Bkt(u)]
      BY <3>1, <3>3 DEF TypeOK
    <3> QED BY <2>0, <3>1, <3>4 DEF Locks, InBucket, InTable
  <2>4. CASE LockTable(t) \/ ReadItems(t) \/ WriteItems(t)
    <3>1. pc'[t] \notin InBucket /\ lock' = lock /\ tableLock' = t
          /\ \A u \in Threads \ {t} : pc[u] \notin InTable
      <4>1. CASE LockTable(t)
        BY <2>0, <4>1 DEF LockTable, Goto, Locks, InBucket
      <4>2. CASE ReadItems(t) \/ WriteItems(t)
        <5>1. pc[t] \in InTable /\ tableLock' = tableLock /\ lock' = lock /\ pc'[t] \notin InBucket
          BY <2>0, <4>2 DEF ReadItems, WriteItems, Goto, InTable, InBucket
        <5> QED BY <5>1 DEF Locks
      <4> QED BY <2>4, <4>1, <4>2
    <3> QED BY <2>0, <3>1 DEF Locks
  <2>5. CASE UnlockTable(t)
    <3>1. pc[t] = "unlockTable" /\ pc'[t] = "loop" /\ lock' = lock /\ tableLock = t
      BY <2>0, <2>5 DEF UnlockTable, Goto, Locks, InTable
    <3> QED BY <2>0, <3>1 DEF Locks, InBucket, InTable
  <2> QED BY <1>3, <2>1, <2>2, <2>3, <2>4, <2>5 DEF Run
<1> QED BY <1>1, <1>2, <1>3 DEF Next

(* What a step does to the lists: the insertion of a missing key, the      *)
(* removal of the entry the search stopped at, or nothing.                 *)
LEMMA ListsMove ==
  ASSUME TypeOK, Phases, NEW t \in Threads, Run(t)
  PROVE  \/ bucket' = bucket
         \/ /\ pc[t] = "insert" /\ cur[t] # Key(t) /\ Key(t) \in Keys /\ Bkt(t) \in Buckets
            /\ bucket' = [bucket EXCEPT ![Bkt(t)] = @ \union {Key(t)}]
         \/ /\ pc[t] = "remove" /\ cur[t] # Null /\ Key(t) \in Keys /\ Bkt(t) \in Buckets
            /\ bucket' = [bucket EXCEPT ![Bkt(t)] = @ \ {cur[t]}]
<1>1. pc[t] # "loop" => Key(t) \in Keys /\ Bkt(t) \in Buckets
  BY KeyTyped DEF Phases
<1>2. CASE InsertSorted(t)
  BY <1>1, <1>2 DEF InsertSorted, Goto
<1>3. CASE RemoveFromList(t)
  BY <1>1, <1>3 DEF RemoveFromList, Goto
<1>4. CASE ~ (InsertSorted(t) \/ RemoveFromList(t))
  BY <1>4 DEF Run, LockBucket, Search, UnlockBucket, LockTable, ReadItems, WriteItems, UnlockTable
<1> QED BY <1>2, <1>3, <1>4

(* Every step keeps the keys in their buckets. *)
LEMMA HomedKept ==
  ASSUME TypeOK, Phases, Homed, [Next]_vars PROVE Homed'
<1>1. CASE UNCHANGED <<bucket, hash>>
  BY <1>1 DEF Homed
<1>2. ASSUME NEW t \in Threads, Run(t) PROVE Homed'
  <2>1. hash' = hash
    BY <1>2, OthersStay
  <2>2. ASSUME NEW b \in Buckets, NEW k \in bucket'[b] PROVE k \in bucket[b] \/ hash[k] = b
    BY <1>2, ListsMove DEF TypeOK, Bkt
  <2> QED BY <2>1, <2>2 DEF Homed
<1> QED BY <1>1, <1>2 DEF Next, Join, vars

(* Every step keeps the positions found by searches: nobody else changes a *)
(* locked bucket.                                                          *)
LEMMA SearchesKept ==
  ASSUME TypeOK, Phases, Locks, SearchStaysValid, [Next]_vars PROVE SearchStaysValid'
<1>1. CASE UNCHANGED vars
  BY <1>1 DEF vars, SearchStaysValid, Bkt, Key, Work
<1>2. CASE Join
  BY <1>2 DEF Join, SearchStaysValid
<1>3. ASSUME NEW t \in Threads, Run(t) PROVE SearchStaysValid'
  <2>0. /\ \A u \in Threads \ {t} : /\ pc'[u] = pc[u] /\ cur'[u] = cur[u]
                                    /\ Key(u)' = Key(u) /\ Bkt(u)' = Bkt(u)
        /\ hash' = hash /\ phase' = phase
    BY <1>3, OthersStay
  <2>1. ASSUME NEW u \in Threads \ {t}, pc[u] \in {"insert", "remove"}
        PROVE  bucket'[Bkt(u)] = bucket[Bkt(u)]
    <3>1. lock[Bkt(u)] = u /\ Bkt(u) \in Buckets
      BY <2>1, KeyTyped DEF Locks, Phases, InBucket
    <3>2. pc[t] \in {"insert", "remove"} => lock[Bkt(t)] = t
      BY DEF Locks, InBucket
    <3> QED BY <1>3, <3>1, <3>2, ListsMove DEF TypeOK
  <2>2. pc'[t] \in {"insert", "remove"} => cur'[t] = FirstNotBelow(bucket'[Bkt(t)'], Key(t)')
    <3>1. CASE Search(t)
      <4>1. bucket' = bucket /\ i' = i /\ cur'[t] = FirstNotBelow(bucket[Bkt(t)], Key(t))
        BY <3>1 DEF Search, TypeOK
      <4>2. Bkt(t)' = Bkt(t) /\ Key(t)' = Key(t)
        BY <2>0, <4>1 DEF Bkt, Key, Work
      <4> QED BY <4>1, <4>2
    <3>2. CASE ~ Search(t)
      BY <1>3, <3>2 DEF TypeOK, Run, LockBucket, InsertSorted, RemoveFromList, UnlockBucket, LockTable,
         ReadItems, WriteItems, UnlockTable, Goto
    <3> QED BY <3>1, <3>2
  <2> QED BY <2>0, <2>1, <2>2 DEF SearchStaysValid
<1> QED BY <1>1, <1>2, <1>3 DEF Next

(* Every step keeps the counter that was read current until it is written. *)
LEMMA CountingKept ==
  ASSUME TypeOK, Locks, Counting, [Next]_vars PROVE Counting'
<1>1. CASE UNCHANGED <<pc, rc, old, numItems>>
  BY <1>1 DEF Counting
<1>2. ASSUME NEW t \in Threads, Run(t) PROVE Counting'
  <2>0. \A u \in Threads \ {t} : pc'[u] = pc[u] /\ rc'[u] = rc[u] /\ old'[u] = old[u]
    BY <1>2, OthersStay
  <2>1. pc'[t] \in {"lockTable"} \union InTable => rc'[t] = 1
    BY <1>2 DEF TypeOK, Counting, InTable, Run, LockBucket, Search, InsertSorted, RemoveFromList, UnlockBucket,
       LockTable, ReadItems, WriteItems, UnlockTable, Goto
  <2>2. pc'[t] = "write" => old'[t] = numItems'
    BY <1>2 DEF TypeOK, Run, LockBucket, Search, InsertSorted, RemoveFromList, UnlockBucket,
       LockTable, ReadItems, WriteItems, UnlockTable, Goto
  <2>3. numItems' = numItems \/ \A u \in Threads \ {t} : pc[u] # "write"
    <3>1. CASE WriteItems(t)
      <4>1. tableLock = t
        BY <3>1 DEF WriteItems, Goto, Locks, InTable
      <4> QED BY <4>1 DEF Locks, InTable
    <3>2. CASE ~ WriteItems(t)
      BY <1>2, <3>2 DEF Run, LockBucket, Search, InsertSorted, RemoveFromList, UnlockBucket,
         LockTable, ReadItems, UnlockTable
    <3> QED BY <3>1, <3>2
  <2> QED BY <2>0, <2>1, <2>2, <2>3 DEF Counting
<1> QED BY <1>1, <1>2 DEF Next, Join, vars

-----------------------------------------------------------------------------
(* The counter.                                                            *)

\* The threads that have changed the map and not yet the counter.
Pending == {t \in Threads : pc[t] \in {"unlock", "lockTable", "read", "write"} /\ rc[t] = 1}

LEMMA PendingCount ==
  /\ IsFiniteSet(Pending) /\ Cardinality(Pending) \in Nat
  /\ Uncounted = Cardinality(Pending)
<1>1. Pending \in SUBSET Threads
  BY DEF Pending
<1>2. IsFiniteSet(Pending)
  BY <1>1, MapAssumption, FS_Subset
<1> QED BY <1>2, FS_CardinalityType DEF Pending, Uncounted

(* A thread becomes pending when it changes the map, and stops being so    *)
(* when it writes the counter.                                             *)
LEMMA PendingMoves ==
  ASSUME TypeOK, Counting, NEW t \in Threads, Run(t)
  PROVE  /\ InsertSorted(t) => Pending' = IF cur[t] = Key(t) THEN Pending ELSE Pending \union {t}
         /\ RemoveFromList(t) => Pending' = IF cur[t] = Null THEN Pending ELSE Pending \union {t}
         /\ WriteItems(t) => t \in Pending /\ Pending' = Pending \ {t}
         /\ ~ (InsertSorted(t) \/ RemoveFromList(t) \/ WriteItems(t)) => Pending' = Pending
         /\ pc[t] \in {"insert", "remove"} => t \notin Pending
<1>0. \A u \in Threads \ {t} : u \in Pending' <=> u \in Pending
  BY OthersStay DEF Pending
<1>1. CASE InsertSorted(t)
  <2>1. pc[t] = "insert" /\ pc'[t] = "unlock" /\ rc'[t] = IF cur[t] = Key(t) THEN 0 ELSE 1
    BY <1>1 DEF InsertSorted, Goto, TypeOK
  <2> QED BY <1>0, <1>1, <2>1 DEF Pending, WriteItems, RemoveFromList, Goto
<1>2. CASE RemoveFromList(t)
  <2>1. pc[t] = "remove" /\ pc'[t] = "unlock" /\ rc'[t] = IF cur[t] = Null THEN 0 ELSE 1
    BY <1>2 DEF RemoveFromList, Goto, TypeOK
  <2> QED BY <1>0, <1>2, <2>1 DEF Pending, WriteItems, InsertSorted, Goto
<1>3. CASE WriteItems(t)
  <2>1. pc[t] = "write" /\ pc'[t] = "unlockTable" /\ rc[t] = 1
    BY <1>3 DEF WriteItems, Goto, TypeOK, Counting, InTable
  <2> QED BY <1>0, <1>3, <2>1 DEF Pending, InsertSorted, RemoveFromList, Goto
<1>4. CASE ~ (InsertSorted(t) \/ RemoveFromList(t) \/ WriteItems(t))
  <2>1. t \in Pending' <=> t \in Pending
    <3>1. rc' = rc
      BY <1>4 DEF Run, LockBucket, Search, UnlockBucket, LockTable, ReadItems, UnlockTable
    <3>2. CASE UnlockBucket(t)
      <4>1. pc[t] = "unlock" /\ pc'[t] = IF rc[t] = 0 THEN "loop" ELSE "lockTable"
        BY <3>2 DEF UnlockBucket, Goto, TypeOK
      <4> QED BY <3>1, <4>1 DEF Pending, TypeOK
    <3>3. CASE ~ UnlockBucket(t)
      BY <1>4, <3>1, <3>3 DEF Pending, TypeOK, Run, LockBucket, Search, LockTable, ReadItems, UnlockTable, Goto
    <3> QED BY <3>2, <3>3
  <2> QED BY <1>0, <1>4, <2>1 DEF Pending
<1> QED BY <1>1, <1>2, <1>3, <1>4 DEF Pending

(* Every step keeps the counter equal to what it counts. *)
LEMMA CounterKept ==
  ASSUME MapInv, Homed', [Next]_vars PROVE IsFiniteSet(Entries)' /\ CounterExact'
<1>0. /\ TypeOK /\ Phases /\ Homed /\ Counting /\ SearchStaysValid /\ IsFiniteSet(Entries)
      /\ UIntSize \in Nat \ {0}
  BY MapAssumption DEF MapInv
<1>1. Cardinality(Entries) \in Nat /\ Cardinality(Pending) \in Nat /\ IsFiniteSet(Pending)
  BY <1>0, PendingCount, FS_CardinalityType
<1>2. numItems = (Cardinality(Entries)
                  + (IF phase = "add" THEN - Cardinality(Pending) ELSE Cardinality(Pending))) % UIntSize
  BY PendingCount DEF MapInv, CounterExact
<1>3. Uncounted' = Cardinality(Pending') /\ Uncounted = Cardinality(Pending)
  BY DEF Uncounted, Pending
<1>4. CASE UNCHANGED vars
  BY <1>0, <1>4 DEF vars, MapInv, Entries, CounterExact, Uncounted
<1>5. CASE Join
  <2>1. Pending = {} /\ Pending' = {} /\ Entries' = Entries /\ numItems' = numItems
    BY <1>5 DEF Join, Pending, Entries
  <2>2. Cardinality(Pending) = 0 /\ Cardinality(Pending') = 0
    BY <2>1, FS_EmptySet
  <2>3. \A c \in Nat : c + (- 0) = c /\ c + 0 = c
    OBVIOUS
  <2>4. numItems = Cardinality(Entries) % UIntSize
    BY <1>1, <1>2, <2>2, <2>3
  <2>5. Cardinality(Entries') + (IF phase' = "add" THEN - Uncounted' ELSE Uncounted') = Cardinality(Entries)
    BY <1>1, <1>3, <2>1, <2>2, <2>3
  <2> QED BY <1>0, <2>1, <2>4, <2>5 DEF CounterExact
<1>6. ASSUME NEW t \in Threads, Run(t) PROVE IsFiniteSet(Entries)' /\ CounterExact'
  <2>0. phase' = phase /\ phase \in {"add", "remove"} /\ (pc[t] # "loop" => Key(t) \in Keys /\ Bkt(t) \in Buckets)
    BY <1>0, <1>6, OthersStay, KeyTyped DEF TypeOK, Phases
  <2>1. CASE bucket' = bucket /\ numItems' = numItems /\ Pending' = Pending
    BY <1>0, <1>2, <1>3, <2>0, <2>1 DEF CounterExact, Entries
  <2>2. CASE InsertSorted(t)
    <3>1. pc[t] = "insert" /\ numItems' = numItems /\ phase = "add"
      BY <1>0, <2>2 DEF InsertSorted, Goto, Phases
    <3>2. CASE cur[t] = Key(t)
      BY <1>0, <1>6, <2>1, <2>2, <3>1, <3>2, PendingMoves DEF InsertSorted
    <3>3. CASE cur[t] # Key(t)
      <4>1. bucket' = [bucket EXCEPT ![Bkt(t)] = @ \union {Key(t)}]
        BY <2>2, <3>3 DEF InsertSorted
      <4>2. Entries' = Entries \union {Key(t)}
        <5>1. ASSUME NEW b \in Buckets
              PROVE  bucket'[b] = IF b = Bkt(t) THEN bucket[b] \union {Key(t)} ELSE bucket[b]
          BY <1>0, <4>1 DEF TypeOK
        <5> QED BY <2>0, <3>1, <5>1 DEF Entries
      <4>3. Key(t) \notin Entries
        <5>1. cur[t] = FirstNotBelow(bucket[Bkt(t)], Key(t))
          BY <1>0, <3>1 DEF SearchStaysValid
        <5>2. bucket[Bkt(t)] \in SUBSET Keys
          BY <1>0, <2>0, <3>1 DEF TypeOK
        <5>3. Key(t) \notin bucket[Bkt(t)]
          BY <2>0, <3>1, <3>3, <5>1, <5>2, SearchFinds
        <5> QED BY <1>0, <2>0, <3>1, <5>3, EntryHome DEF Bkt
      <4>4. IsFiniteSet(Entries') /\ Cardinality(Entries') = Cardinality(Entries) + 1
        BY <1>0, <4>2, <4>3, FS_AddElement
      <4>5. Pending' = Pending \union {t} /\ t \notin Pending
        BY <1>0, <1>6, <2>2, <3>1, <3>3, PendingMoves
      <4>6. Cardinality(Pending') = Cardinality(Pending) + 1
        BY <1>1, <4>5, FS_AddElement
      <4>7. Cardinality(Entries') + (- Cardinality(Pending')) = Cardinality(Entries) + (- Cardinality(Pending))
        BY <1>1, <4>4, <4>6
      <4> QED BY <1>2, <1>3, <2>0, <3>1, <4>4, <4>7 DEF CounterExact
    <3> QED BY <3>2, <3>3
  <2>3. CASE RemoveFromList(t)
    <3>1. pc[t] = "remove" /\ numItems' = numItems /\ phase = "remove"
      BY <1>0, <2>3 DEF RemoveFromList, Goto, Phases
    <3>2. CASE cur[t] = Null
      BY <1>0, <1>6, <2>1, <2>3, <3>1, <3>2, PendingMoves DEF RemoveFromList
    <3>3. CASE cur[t] # Null
      <4>1. bucket' = [bucket EXCEPT ![Bkt(t)] = @ \ {cur[t]}]
        BY <2>3, <3>3 DEF RemoveFromList
      <4>2. cur[t] \in bucket[Bkt(t)]
        <5>1. cur[t] = FirstNotBelow(bucket[Bkt(t)], Key(t))
          BY <1>0, <3>1 DEF SearchStaysValid
        <5>2. bucket[Bkt(t)] \in SUBSET Keys
          BY <1>0, <2>0, <3>1 DEF TypeOK
        <5> QED BY <2>0, <3>1, <3>3, <5>1, <5>2, SearchFinds
      <4>3. Entries' = Entries \ {cur[t]} /\ cur[t] \in Entries
        <5>1. ASSUME NEW b \in Buckets
              PROVE  bucket'[b] = IF b = Bkt(t) THEN bucket[b] \ {cur[t]} ELSE bucket[b]
          BY <1>0, <4>1 DEF TypeOK
        <5>2. ASSUME NEW b \in Buckets, b # Bkt(t) PROVE cur[t] \notin bucket[b]
          BY <1>0, <2>0, <3>1, <4>2, <5>2 DEF Homed
        <5>3. PICK k, h : k = cur[t] /\ h = Bkt(t) /\ h \in Buckets /\ k \in bucket[h]
          BY <2>0, <3>1, <4>2
        <5>4. \A b \in Buckets : bucket'[b] = bucket[b] \ {k}
          BY <5>1, <5>2, <5>3
        <5>5. Entries' = Entries \ {k} /\ k \in Entries
          BY <5>3, <5>4 DEF Entries
        <5> QED BY <5>3, <5>5
      <4>4. IsFiniteSet(Entries') /\ Cardinality(Entries') = Cardinality(Entries) - 1
        BY <1>0, <4>3, FS_RemoveElement
      <4>5. Pending' = Pending \union {t} /\ t \notin Pending
        BY <1>0, <1>6, <2>3, <3>1, <3>3, PendingMoves
      <4>6. Cardinality(Pending') = Cardinality(Pending) + 1
        BY <1>1, <4>5, FS_AddElement
      <4>7. Cardinality(Entries') + Cardinality(Pending') = Cardinality(Entries) + Cardinality(Pending)
        BY <1>1, <4>4, <4>6
      <4> QED BY <1>2, <1>3, <2>0, <3>1, <4>4, <4>7 DEF CounterExact
    <3> QED BY <3>2, <3>3
  <2>4. CASE WriteItems(t)
    <3>1. t \in Pending /\ Pending' = Pending \ {t}
      BY <1>0, <1>6, <2>4, PendingMoves
    <3>2. Cardinality(Pending') = Cardinality(Pending) - 1
      BY <1>1, <3>1, FS_RemoveElement
    <3>3. Entries' = Entries
      BY <2>4 DEF WriteItems, Entries
    <3>4. old[t] = numItems
      BY <1>0, <2>4 DEF WriteItems, Goto, Counting
    <3>5. CASE phase = "add"
      <4> DEFINE x == Cardinality(Entries) + (- Cardinality(Pending))
      <4>1. x \in Int /\ x + 1 = Cardinality(Entries') + (- Cardinality(Pending'))
        BY <1>1, <3>2, <3>3
      <4>2. numItems = x % UIntSize /\ numItems' = (numItems + 1) % UIntSize
        BY <1>2, <2>4, <3>4, <3>5 DEF WriteItems
      <4>3. numItems' = (x + 1) % UIntSize
        <5> HIDE DEF x
        <5> QED BY <1>0, <4>1, <4>2, ModStep
      <4> QED BY <1>0, <1>3, <2>0, <3>3, <3>5, <4>1, <4>3 DEF CounterExact
    <3>6. CASE phase = "remove"
      <4> DEFINE x == Cardinality(Entries) + Cardinality(Pending)
      <4>1. x \in Int /\ x - 1 = Cardinality(Entries') + Cardinality(Pending')
        BY <1>1, <3>2, <3>3
      <4>2. numItems = x % UIntSize /\ numItems' = (numItems - 1) % UIntSize
        BY <1>2, <2>4, <3>4, <3>6 DEF WriteItems
      <4>3. numItems' = (x - 1) % UIntSize
        <5> HIDE DEF x
        <5> QED BY <1>0, <4>1, <4>2, ModStep
      <4> QED BY <1>0, <1>3, <2>0, <3>3, <3>6, <4>1, <4>3 DEF CounterExact
    <3> QED BY <2>0, <3>5, <3>6
  <2>5. CASE ~ (InsertSorted(t) \/ RemoveFromList(t) \/ WriteItems(t))
    <3>1. Pending' = Pending
      BY <1>0, <1>6, <2>5, PendingMoves
    <3>2. bucket' = bucket /\ numItems' = numItems
      BY <1>6, <2>5 DEF Run, LockBucket, Search, UnlockBucket, LockTable, ReadItems, UnlockTable
    <3> QED BY <2>1, <3>1, <3>2
  <2> QED BY <2>2, <2>3, <2>4, <2>5
<1> QED BY <1>4, <1>5, <1>6 DEF Next

-----------------------------------------------------------------------------
(* The invariant holds.                                                    *)

(* In every reachable state each thread is where its locks say, each key   *)
(* in its bucket, and the counter exact up to what is still to be counted. *)
THEOREM Invariance == Spec => []MapInv
<1>1. Init => MapInv
  <2> SUFFICES ASSUME Init PROVE MapInv
    OBVIOUS
  <2>0. UIntSize \in Nat \ {0} /\ 0 \in 0 .. UIntSize - 1
    BY MapAssumption
  <2>1. TypeOK
    BY <2>0 DEF Init, TypeOK
  <2>2. Phases /\ Locks /\ Homed /\ Counting /\ SearchStaysValid
    BY DEF Init, Phases, Locks, InBucket, InTable, Homed, Counting, SearchStaysValid
  <2>3. Entries = {} /\ Pending = {}
    BY DEF Init, Entries, Pending
  <2>4. IsFiniteSet(Entries) /\ Cardinality(Entries) = 0 /\ Uncounted = 0
    BY <2>3, FS_EmptySet, PendingCount
  <2>5. CounterExact
    <3>1. 0 + (- 0) = 0 /\ 0 % UIntSize = 0
      BY <2>0
    <3> QED BY <2>4, <3>1 DEF CounterExact, Init
  <2> QED BY <2>1, <2>2, <2>4, <2>5 DEF MapInv
<1>2. MapInv /\ [Next]_vars => MapInv'
  <2> SUFFICES ASSUME MapInv, [Next]_vars PROVE MapInv'
    OBVIOUS
  <2>1. TypeOK' /\ Phases' /\ Locks' /\ Homed' /\ SearchStaysValid' /\ Counting'
    BY TypesKept, PhasesKept, LocksKept, HomedKept, SearchesKept, CountingKept DEF MapInv
  <2>2. IsFiniteSet(Entries)' /\ CounterExact'
    BY <2>1, CounterKept
  <2> QED BY <2>1, <2>2 DEF MapInv
<1> QED BY <1>1, <1>2, PTL DEF Spec

(* numItems counts the entries exactly once the threads that changed the   *)
(* map have counted, and a position found stays right until it is used:    *)
(* the two kinds of locks together, although no thread ever holds both.    *)
THEOREM CountsEntries == Spec => [](TypeOK /\ CounterExact /\ SearchStaysValid)
<1>1. MapInv => TypeOK /\ CounterExact /\ SearchStaysValid
  BY DEF MapInv
<1> QED BY <1>1, Invariance, PTL

-----------------------------------------------------------------------------
(* Which keys are in the map.  A removal takes the node where the search   *)
(* stopped, whatever its key: what follows is about drivers like hmtest,   *)
(* that delete keys they inserted, each of them once (hmtest.c:61-68).     *)

DeletesItsKeys ==
  \A t \in Threads : \A k \in DOMAIN RemoveKeys[t] :
    /\ RemoveKeys[t][k] \in Listed(AddKeys)
    /\ \A u \in Threads : \A j \in DOMAIN RemoveKeys[u] :
         RemoveKeys[u][j] = RemoveKeys[t][k] => u = t /\ j = k

\* How many of its keys a thread has inserted, or deleted.
Done(t) == IF pc[t] \in Effected THEN i[t] ELSE i[t] - 1

\* The keys that the threads have inserted, or deleted, of their work.
Handled(work) == UNION {{work[t][k] : k \in 1 .. Done(t)} : t \in Threads}

\* The entries are the keys handled in the first phase, and then the keys
\* added but those handled in the second.
ContentsRight ==
  /\ \A t \in Threads : Done(t) <= Len(Work(t))
  /\ phase = "add" => Entries = Handled(AddKeys)
  /\ phase = "remove" => Entries = Listed(AddKeys) \ Handled(RemoveKeys)
  /\ phase = "joined" => Entries = Listed(AddKeys) \ Listed(RemoveKeys)

(* What a thread's step adds to the keys it has handled. *)
LEMMA DoneMoves ==
  ASSUME TypeOK, Phases, NEW t \in Threads, Run(t)
  PROVE  /\ \A u \in Threads \ {t} : Done(u)' = Done(u)
         /\ Done(t)' = IF InsertSorted(t) \/ RemoveFromList(t) THEN Done(t) + 1 ELSE Done(t)
         /\ InsertSorted(t) \/ RemoveFromList(t) => Done(t) = i[t] - 1
<1>1. \A u \in Threads \ {t} : Done(u)' = Done(u)
  BY OthersStay DEF Done
<1>2. i[t] \in Nat \ {0} /\ i \in [Threads -> Nat \ {0}]
  BY DEF TypeOK
<1>3. CASE InsertSorted(t) \/ RemoveFromList(t)
  <2>1. pc[t] \in {"insert", "remove"} /\ pc'[t] = "unlock" /\ i' = i
    BY <1>3 DEF InsertSorted, RemoveFromList, Goto, TypeOK
  <2> QED BY <1>1, <1>2, <1>3, <2>1 DEF Done, Effected
<1>4. CASE UnlockBucket(t)
  <2>1. pc[t] = "unlock" /\ pc'[t] = (IF rc[t] = 0 THEN "loop" ELSE "lockTable")
        /\ i'[t] = (IF rc[t] = 0 THEN i[t] + 1 ELSE i[t])
    BY <1>4 DEF UnlockBucket, NextKey, Goto, TypeOK
  <2>2. ~ (InsertSorted(t) \/ RemoveFromList(t))
    BY <2>1 DEF InsertSorted, RemoveFromList, Goto
  <2> QED BY <1>1, <1>2, <2>1, <2>2 DEF Done, Effected
<1>5. CASE UnlockTable(t)
  <2>1. pc[t] = "unlockTable" /\ pc'[t] = "loop" /\ i'[t] = i[t] + 1
    BY <1>5 DEF UnlockTable, NextKey, Goto, TypeOK
  <2>2. ~ (InsertSorted(t) \/ RemoveFromList(t))
    BY <2>1 DEF InsertSorted, RemoveFromList, Goto
  <2> QED BY <1>1, <1>2, <2>1, <2>2 DEF Done, Effected
<1>6. CASE LockBucket(t) \/ Search(t) \/ LockTable(t) \/ ReadItems(t) \/ WriteItems(t)
  <2>1. i' = i /\ ~ (InsertSorted(t) \/ RemoveFromList(t)) /\ (pc'[t] \in Effected <=> pc[t] \in Effected)
    BY <1>6 DEF LockBucket, Search, LockTable, ReadItems, WriteItems, InsertSorted, RemoveFromList,
       Goto, TypeOK, Effected
  <2> QED BY <1>1, <2>1 DEF Done
<1> QED BY <1>3, <1>4, <1>5, <1>6 DEF Run

(* One more key handled is one more key in Handled. *)
LEMMA HandledMoves ==
  ASSUME TypeOK, Phases, NEW t \in Threads, Run(t), NEW work
  PROVE  Handled(work)' = IF InsertSorted(t) \/ RemoveFromList(t)
                          THEN Handled(work) \union {work[t][i[t]]} ELSE Handled(work)
<1>0. i[t] \in Nat \ {0}
  BY DEF TypeOK
<1>1. /\ \A u \in Threads \ {t} : Done(u)' = Done(u)
      /\ Done(t)' = IF InsertSorted(t) \/ RemoveFromList(t) THEN Done(t) + 1 ELSE Done(t)
      /\ InsertSorted(t) \/ RemoveFromList(t) => Done(t) = i[t] - 1
  BY DoneMoves
<1>2. CASE InsertSorted(t) \/ RemoveFromList(t)
  <2>1. \A k : k \in 1 .. Done(t)' <=> k \in 1 .. Done(t) \/ k = i[t]
    BY <1>0, <1>1, <1>2
  <2> QED BY <1>1, <1>2, <2>1 DEF Handled
<1>3. CASE ~ (InsertSorted(t) \/ RemoveFromList(t))
  BY <1>1, <1>3 DEF Handled
<1> QED BY <1>2, <1>3

(* A thread about to insert or to delete looks at its key. *)
LEMMA StopsAtKey ==
  ASSUME MapInv, NEW t \in Threads, pc[t] \in {"insert", "remove"}
  PROVE  /\ Key(t) \in Keys /\ Bkt(t) \in Buckets
         /\ cur[t] = Key(t) <=> Key(t) \in Entries
         /\ bucket[Bkt(t)] \in SUBSET Entries
<1>1. Key(t) \in Keys /\ Bkt(t) \in Buckets
  BY KeyTyped DEF MapInv, Phases
<1>2. cur[t] = FirstNotBelow(bucket[Bkt(t)], Key(t)) /\ bucket[Bkt(t)] \in SUBSET Keys
  BY <1>1 DEF MapInv, SearchStaysValid, TypeOK
<1>3. cur[t] = Key(t) <=> Key(t) \in bucket[Bkt(t)]
  BY <1>1, <1>2, SearchFinds
<1>4. Key(t) \in Entries <=> Key(t) \in bucket[Bkt(t)]
  BY <1>1, EntryHome DEF MapInv, Bkt
<1> QED BY <1>1, <1>3, <1>4 DEF Entries

(* The key a thread is about to delete is in the map: it was inserted, and *)
(* nobody else deletes it.                                                 *)
LEMMA DeletesPresent ==
  ASSUME MapInv, ContentsRight, DeletesItsKeys, NEW t \in Threads, pc[t] = "remove"
  PROVE  Key(t) \in Entries
<1>1. phase = "remove" /\ i[t] \in 1 .. Len(RemoveKeys[t]) /\ Key(t) = RemoveKeys[t][i[t]]
  BY DEF MapInv, Phases, Work, Key
<1>2. RemoveKeys \in [Threads -> Seq(Keys)]
  BY MapAssumption
<1>3. i[t] \in DOMAIN RemoveKeys[t]
  BY <1>1, <1>2
<1>4. Key(t) \in Listed(AddKeys)
  BY <1>1, <1>3 DEF DeletesItsKeys
<1>5. ASSUME NEW u \in Threads, NEW k \in 1 .. Done(u), RemoveKeys[u][k] = Key(t) PROVE FALSE
  <2>1. Done(u) \in Int /\ Done(u) <= Len(RemoveKeys[u]) /\ RemoveKeys[u] \in Seq(Keys)
    BY <1>1, <1>2 DEF ContentsRight, Work, MapInv, TypeOK, Done
  <2>2. k \in DOMAIN RemoveKeys[u]
    BY <2>1
  <2>3. u = t /\ k = i[t]
    BY <1>1, <1>3, <1>5, <2>2 DEF DeletesItsKeys
  <2>4. Done(t) = i[t] - 1 /\ i[t] \in Nat
    BY DEF Done, Effected, MapInv, TypeOK
  <2> QED BY <2>3, <2>4
<1>6. Key(t) \notin Handled(RemoveKeys)
  BY <1>5 DEF Handled
<1> QED BY <1>1, <1>4, <1>6 DEF ContentsRight

(* What a step does to the entries. *)
LEMMA EntriesMove ==
  ASSUME MapInv, ContentsRight, DeletesItsKeys, NEW t \in Threads, Run(t)
  PROVE  Entries' = IF InsertSorted(t) THEN Entries \union {Key(t)}
                    ELSE IF RemoveFromList(t) THEN Entries \ {Key(t)} ELSE Entries
<1>0. TypeOK /\ Homed /\ (RemoveFromList(t) => ~ InsertSorted(t)) /\ Null \notin Keys
  BY MapAssumption DEF MapInv, RemoveFromList, InsertSorted, Goto
<1>1. CASE InsertSorted(t)
  <2>1. /\ Key(t) \in Keys /\ Bkt(t) \in Buckets
        /\ cur[t] = Key(t) => Key(t) \in Entries
    BY <1>1, StopsAtKey DEF InsertSorted, Goto
  <2>2. CASE cur[t] = Key(t)
    BY <1>1, <2>1, <2>2 DEF InsertSorted, Entries
  <2>3. CASE cur[t] # Key(t)
    <3>1. ASSUME NEW b \in Buckets
          PROVE  bucket'[b] = IF b = Bkt(t) THEN bucket[b] \union {Key(t)} ELSE bucket[b]
      BY <1>0, <1>1, <2>3 DEF TypeOK, InsertSorted
    <3> QED BY <1>1, <2>1, <3>1 DEF Entries
  <2> QED BY <2>2, <2>3
<1>2. CASE RemoveFromList(t)
  <2>1. Key(t) \in Keys /\ Bkt(t) \in Buckets /\ cur[t] = Key(t)
    BY <1>2, StopsAtKey, DeletesPresent DEF RemoveFromList, Goto
  <2>2. ASSUME NEW b \in Buckets
        PROVE  bucket'[b] = IF b = Bkt(t) THEN bucket[b] \ {Key(t)} ELSE bucket[b]
    BY <1>0, <1>2, <2>1 DEF TypeOK, RemoveFromList
  <2>3. ASSUME NEW b \in Buckets, b # Bkt(t) PROVE Key(t) \notin bucket[b]
    BY <1>0, <2>3 DEF Homed, Bkt
  <2>4. Entries' = Entries \ {Key(t)}
    <3>1. Entries' = UNION {bucket'[b] : b \in Buckets}
      BY DEF Entries
    <3>2. \A k : k \in Entries' <=> \E b \in Buckets : k \in bucket'[b]
      BY <3>1
    <3>3. \A k : k \in Entries <=> \E b \in Buckets : k \in bucket[b]
      BY DEF Entries
    <3>4. \A k : k \in Entries' <=> k \in Entries /\ k # Key(t)
      BY <2>1, <2>2, <2>3, <3>2, <3>3
    <3> QED BY <3>4
  <2> QED BY <1>0, <1>2, <2>4
<1>3. CASE ~ (InsertSorted(t) \/ RemoveFromList(t))
  BY <1>3 DEF Entries, Run, LockBucket, Search, UnlockBucket, LockTable, ReadItems, WriteItems, UnlockTable
<1> QED BY <1>0, <1>1, <1>2, <1>3

(* Every step keeps the entries what the threads have made of them. *)
LEMMA ContentsKept ==
  ASSUME MapInv, ContentsRight, DeletesItsKeys, [Next]_vars PROVE ContentsRight'
<1>0. /\ TypeOK /\ Phases
      /\ AddKeys \in [Threads -> Seq(Keys)] /\ RemoveKeys \in [Threads -> Seq(Keys)]
  BY MapAssumption DEF MapInv
<1>1. CASE UNCHANGED vars
  <2>1. /\ \A t \in Threads : Done(t)' = Done(t) /\ Work(t)' = Work(t)
        /\ Entries' = Entries /\ phase' = phase
    BY <1>1 DEF vars, Done, Work, Entries
  <2> QED BY <2>1 DEF ContentsRight, Handled
<1>2. CASE Join
  <2>1. \A t \in Threads : Done(t)' = 0 /\ Done(t) = i[t] - 1 /\ i[t] \in Nat /\ i[t] > Len(Work(t))
    BY <1>0, <1>2 DEF Join, Done, Effected, TypeOK
  <2>2. \A t \in Threads : Done(t) = Len(Work(t))
    <3> SUFFICES ASSUME NEW t \in Threads PROVE Done(t) = Len(Work(t))
      OBVIOUS
    <3>1. Work(t) \in Seq(Keys)
      BY <1>0 DEF Work
    <3> QED BY <2>1, <3>1 DEF ContentsRight
  <2>3. Entries' = Entries /\ phase' = (IF phase = "add" THEN "remove" ELSE "joined") /\ phase \in {"add", "remove"}
    BY <1>0, <1>2 DEF Join, Entries, TypeOK
  <2>4. \A t \in Threads : Done(t)' <= Len(Work(t)')
    <3> SUFFICES ASSUME NEW t \in Threads PROVE Done(t)' <= Len(Work(t)')
      OBVIOUS
    <3>1. Work(t)' \in Seq(Keys)
      BY <1>0 DEF Work
    <3> QED BY <2>1, <3>1
  <2>5. CASE phase = "add"
    <3>1. Handled(AddKeys) = Listed(AddKeys)
      BY <1>0, <2>2, <2>5 DEF Handled, Listed, Work
    <3>2. Handled(RemoveKeys)' = {}
      BY <2>1 DEF Handled
    <3> QED BY <2>3, <2>4, <2>5, <3>1, <3>2 DEF ContentsRight
  <2>6. CASE phase = "remove"
    <3>1. Handled(RemoveKeys) = Listed(RemoveKeys)
      <4>1. \A t \in Threads : 1 .. Done(t) = DOMAIN RemoveKeys[t]
        BY <1>0, <2>2, <2>6 DEF Work
      <4> QED BY <4>1 DEF Handled, Listed
    <3> QED BY <2>3, <2>4, <2>6, <3>1 DEF ContentsRight
  <2> QED BY <2>3, <2>5, <2>6
<1>3. ASSUME NEW t \in Threads, Run(t) PROVE ContentsRight'
  <2>0. phase' = phase /\ phase \in {"add", "remove"}
    BY <1>0, <1>3, OthersStay DEF TypeOK
  <2>1. ASSUME NEW u \in Threads PROVE Done(u)' <= Len(Work(u)')
    <3>1. Work(u)' = Work(u) /\ Work(u) \in Seq(Keys)
      BY <1>0, <2>0 DEF Work
    <3>2. CASE Done(u)' = Done(u)
      BY <3>1, <3>2 DEF ContentsRight
    <3>3. CASE u = t /\ (InsertSorted(t) \/ RemoveFromList(t))
      <4>1. i[t] \in 1 .. Len(Work(t)) /\ Done(t)' = Done(t) + 1 /\ Done(t) = i[t] - 1
        BY <1>0, <1>3, <3>3, DoneMoves DEF Phases, InsertSorted, RemoveFromList, Goto
      <4> QED BY <3>1, <3>3, <4>1
    <3> QED BY <1>0, <1>3, <3>2, <3>3, DoneMoves
  <2>2. \A work : Handled(work)' = IF InsertSorted(t) \/ RemoveFromList(t)
                                   THEN Handled(work) \union {work[t][i[t]]} ELSE Handled(work)
    BY <1>0, <1>3, HandledMoves
  <2>3. Entries' = IF InsertSorted(t) THEN Entries \union {Key(t)}
                   ELSE IF RemoveFromList(t) THEN Entries \ {Key(t)} ELSE Entries
    BY <1>3, EntriesMove
  <2>4. CASE phase = "add"
    <3>1. ~ RemoveFromList(t) /\ Key(t) = AddKeys[t][i[t]]
      BY <1>0, <2>4 DEF RemoveFromList, Goto, Phases, Key, Work
    <3>2. Handled(AddKeys)' = IF InsertSorted(t) THEN Handled(AddKeys) \union {Key(t)} ELSE Handled(AddKeys)
      BY <2>2, <3>1
    <3> QED BY <2>0, <2>1, <2>3, <2>4, <3>1, <3>2 DEF ContentsRight
  <2>5. CASE phase = "remove"
    <3>1. ~ InsertSorted(t) /\ Key(t) = RemoveKeys[t][i[t]]
      BY <1>0, <2>5 DEF InsertSorted, Goto, Phases, Key, Work
    <3>2. Handled(RemoveKeys)' = IF RemoveFromList(t) THEN Handled(RemoveKeys) \union {Key(t)}
                                 ELSE Handled(RemoveKeys)
      BY <2>2, <3>1
    <3> QED BY <2>0, <2>1, <2>3, <2>5, <3>1, <3>2 DEF ContentsRight
  <2> QED BY <2>0, <2>4, <2>5
<1> QED BY <1>1, <1>2, <1>3 DEF Next

(* A driver that deletes its own keys finds in the map what was handled. *)
LEMMA Contents == DeletesItsKeys => (Spec => []ContentsRight)
<1> SUFFICES ASSUME DeletesItsKeys PROVE Spec => []ContentsRight
  OBVIOUS
<1>1. Init => ContentsRight
  <2> SUFFICES ASSUME Init PROVE ContentsRight
    OBVIOUS
  <2>1. \A t \in Threads : Done(t) = 0
    BY DEF Init, Done, Effected
  <2>2. \A t \in Threads : Work(t) \in Seq(Keys)
    BY MapAssumption DEF Work
  <2>3. \A t \in Threads : Done(t) <= Len(Work(t))
    <3> SUFFICES ASSUME NEW t \in Threads PROVE 0 <= Len(Work(t))
      BY <2>1
    <3> QED BY <2>2
  <2>4. Entries = {} /\ Handled(AddKeys) = {}
    BY <2>1 DEF Init, Entries, Handled
  <2> QED BY <2>3, <2>4 DEF ContentsRight, Init
<1>2. MapInv /\ ContentsRight /\ [Next]_vars => ContentsRight'
  BY ContentsKept
<1> QED BY <1>1, <1>2, Invariance, PTL DEF Spec

(* Types, counter, searches, and at the end the keys that were inserted    *)
(* and not deleted, for every driver that deletes its own keys once.       *)
THEOREM WellFormed == DeletesItsKeys => (Spec => []MapWellFormed)
<1> SUFFICES ASSUME DeletesItsKeys PROVE Spec => []MapWellFormed
  OBVIOUS
<1>1. MapInv /\ ContentsRight => MapWellFormed
  BY DEF MapInv, ContentsRight, MapWellFormed, EndsWithDifference
<1>2. Spec => []ContentsRight
  BY Contents
<1> QED BY <1>1, <1>2, Invariance, PTL

(* Each call takes effect at once, at one moment between lock and unlock   *)
(* of its bucket: for such a driver the map implements an atomic set.      *)
THEOREM SetImplemented == DeletesItsKeys => (Spec => ImplementsSet)
<1> SUFFICES ASSUME DeletesItsKeys PROVE Spec => ImplementsSet
  OBVIOUS
<1> DEFINE op(t) == <<IF phase = "add" THEN "add" ELSE "remove", Key(t)>>
           pending == [t \in Threads |-> IF pc[t] \in {"search", "insert", "remove"} THEN op(t) ELSE Null]
<1>1. Init => Abstract!Init
  BY DEF Init, Abstract!Init, Entries
<1>2. MapInv /\ ContentsRight /\ [Next]_vars => [Abstract!Next]_<<Entries, pending>>
  <2> SUFFICES ASSUME MapInv, ContentsRight, [Next]_vars PROVE [Abstract!Next]_<<Entries, pending>>
    OBVIOUS
  <2>0. TypeOK /\ Phases
    BY DEF MapInv
  <2>1. CASE UNCHANGED vars
    BY <2>1 DEF vars, Entries, Key, Work
  <2>2. CASE Join
    BY <2>2 DEF Join, Entries
  <2>3. ASSUME NEW t \in Threads, Run(t) PROVE [Abstract!Next]_<<Entries, pending>>
    <3>1. /\ phase' = phase /\ phase # "joined"
          /\ \A u \in Threads \ {t} : pc'[u] = pc[u] /\ Key(u)' = Key(u)
      BY <2>0, <2>3, OthersStay
    <3>2. Entries' = IF InsertSorted(t) THEN Entries \union {Key(t)}
                     ELSE IF RemoveFromList(t) THEN Entries \ {Key(t)} ELSE Entries
      BY <2>3, EntriesMove
    <3>3. CASE LockBucket(t)
      <4>1. pc[t] = "loop" /\ pc'[t] = "search" /\ i' = i /\ Key(t)' = Key(t)
        BY <2>0, <3>1, <3>3 DEF LockBucket, Goto, TypeOK, Key, Work
      <4>2. Entries' = Entries
        BY <3>3 DEF LockBucket, Entries
      <4>3. Key(t) \in Keys
        <5>1. Work(t) \in Seq(Keys)
          BY MapAssumption DEF Work
        <5> QED BY <2>0, <3>3, <5>1 DEF LockBucket, TypeOK, Key
      <4>4. pending' = [pending EXCEPT ![t] = op(t)] /\ pending[t] = Null
        BY <3>1, <4>1
      <4>5. op(t) \in Abstract!Operation
        BY <4>3 DEF Abstract!Operation
      <4>6. PICK operation \in Abstract!Operation : operation = op(t)
        BY <4>5
      <4>7. Abstract!Call(t, operation)
        BY <4>2, <4>4, <4>6 DEF Abstract!Call
      <4> QED BY <4>7 DEF Abstract!Next
    <3>4. CASE InsertSorted(t) \/ RemoveFromList(t)
      <4>1. pc[t] \in {"insert", "remove"} /\ pc'[t] = "unlock"
        BY <2>0, <3>4 DEF InsertSorted, RemoveFromList, Goto, TypeOK
      <4>2. Key(t) \in Keys
        BY <4>1, StopsAtKey
      <4>3. pending[t] = op(t) /\ pending' = [pending EXCEPT ![t] = Null]
        BY <3>1, <4>1
      <4>4. pending[t] \in Abstract!Operation
        BY <4>2, <4>3 DEF Abstract!Operation
      <4>5. InsertSorted(t) => phase = "add"
        BY <2>0 DEF InsertSorted, Goto, Phases
      <4>6. RemoveFromList(t) => phase = "remove" /\ ~ InsertSorted(t)
        BY <2>0 DEF InsertSorted, RemoveFromList, Goto, Phases
      <4>7. Entries' = IF pending[t][1] = "add" THEN Entries \union {pending[t][2]} ELSE Entries \ {pending[t][2]}
        BY <3>2, <3>4, <4>3, <4>5, <4>6
      <4>8. Abstract!Effect(t)
        BY <4>3, <4>4, <4>7 DEF Abstract!Effect
      <4> QED BY <4>8 DEF Abstract!Next
    <3>5. CASE Search(t)
      <4>1. pc[t] = "search" /\ pc'[t] \in {"insert", "remove"} /\ i' = i /\ Key(t)' = Key(t) /\ Entries' = Entries
        BY <2>0, <3>1, <3>5 DEF Search, Goto, TypeOK, Key, Work, Entries
      <4>2. pending' = pending
        BY <3>1, <4>1
      <4> QED BY <4>1, <4>2
    <3>6. CASE UnlockBucket(t) \/ LockTable(t) \/ ReadItems(t) \/ WriteItems(t) \/ UnlockTable(t)
      <4>1. /\ pc[t] \notin {"search", "insert", "remove"} /\ pc'[t] \notin {"search", "insert", "remove"}
            /\ Entries' = Entries
        BY <2>0, <3>6 DEF UnlockBucket, LockTable, ReadItems, WriteItems, UnlockTable, Goto, TypeOK, Entries
      <4>2. pending' = pending
        BY <3>1, <4>1
      <4> QED BY <4>1, <4>2
    <3> QED BY <2>3, <3>3, <3>4, <3>5, <3>6 DEF Run
  <2> QED BY <2>1, <2>2, <2>3 DEF Next
<1>3. Spec => []ContentsRight
  BY Contents
<1> QED BY <1>1, <1>2, <1>3, Invariance, PTL DEF Spec, ImplementsSet, Abstract!Spec
=============================================================================
