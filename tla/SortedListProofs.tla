--------------------------- MODULE SortedListProofs ---------------------------
(***************************************************************************)
(* Proofs about the sorted list of lab10, for any number of threads and of *)
(* insertions.                                                             *)
(***************************************************************************)
EXTENDS SortedList, FiniteSetTheorems, SequenceTheorems, WellFoundedInduction, TLAPS

-----------------------------------------------------------------------------
(* The invariant.                                                          *)

\* One unfolding of the recursive definition of From over links and a function f.
Unfold(links, f) == [n \in Pointers |-> IF n = Null THEN <<>> ELSE <<n>> \o f[links[n]]]

\* The list and its first m nodes: what has a next field, once m are allocated.
Allocated(m) == 1 .. m \union {TheList}

\* Following links from the list gives the owners path[0], path[1], ... path[m].
Linked(links, m, path) ==
  /\ path \in [0 .. m -> Allocated(m)] /\ path[0] = TheList
  /\ \A o \in Allocated(m) : \E k \in 0 .. m : path[k] = o
  /\ \A j, k \in 0 .. m : path[j] = path[k] => j = k
  /\ \A k \in 0 .. m : links[path[k]] = IF k = m THEN Null ELSE path[k + 1]
  /\ \A n \in Nodes : n > m => links[n] = Null

\* The list, then its nodes in their order.
Path == [k \in 0 .. made |-> IF k = 0 THEN TheList ELSE Chain[k]]

Later(path, m, n, o) == \E j, k \in 0 .. m : j < k /\ path[j] = o /\ path[k] = n

\* Node n comes behind o in the list.
Follows(n, o) == Later(Path, made, n, o)

\* A node is not smaller than the node before it.
Sorted == \A n \in 1 .. made : succ[n] # Null => val[n] <= val[succ[n]]

\* A pointer to an owner, as prv and tail hold it.
Pointer(o) == IF o = TheList THEN Null ELSE o

Settled(n) == \A t \in Threads : ~(pc[t] = "backlink" /\ nn[t] = n)

\* The back link to an owner, unless it is being set.
Mirrored ==
  \A o \in Allocated(made) : Settled(o) =>
    IF succ[o] = Null THEN tail = Pointer(o) ELSE prv[succ[o]] = Pointer(o)

\* The mutexes a thread owns, from its program counter.
Owned(t) ==
  CASE pc[t] \in {"lockList", "end"} -> {}
    [] pc[t] = "unlockPrev" -> {curlock[t], cur[t]}
    [] OTHER -> {curlock[t]}

\* A thread owns one mutex while it works behind an owner, two while it moves on.
LockCoupling == \A l \in Owners, t \in Everyone : lock[l] = t <=> l \in Owned(t)

\* Where a thread is in the list.
Place(t) ==
  /\ curlock[t] \in Allocated(made)
  /\ pc[t] \in {"walk", "unlockPrev"} => cur[t] = succ[curlock[t]]
  /\ pc[t] = "unlockPrev" => cur[t] # Null

\* The mutex an inserting thread holds is in front of its value; the node it linked
\* is right behind that mutex, and out of reach of the others.
Inserting(t) ==
  /\ pc[t] # "end"
  /\ pc[t] # "lockList" =>
       v[t] < NbToInsert /\ (curlock[t] # TheList => val[curlock[t]] <= v[t])
  /\ pc[t] = "unlockPrev" => val[cur[t]] <= v[t]
  /\ pc[t] = "backlink" =>
       /\ nn[t] \in 1 .. made /\ nn[t] # curlock[t]
       /\ succ[curlock[t]] = nn[t] /\ succ[nn[t]] = cur[t] /\ lock[nn[t]] = Free

\* A thread allocates one node for each value: node n was made by Made[n].
Inserted(t) == v[t] + (IF pc[t] \in {"backlink", "unlock"} THEN 1 ELSE 0)

Makers(m, maker) ==
  /\ maker \in [1 .. m -> Threads \X (0 .. NbToInsert - 1)]
  /\ \A j, k \in 1 .. m : maker[j] = maker[k] => j = k

Accounted ==
  \E maker : /\ Makers(made, maker)
             /\ \A n \in 1 .. made : maker[n][2] < Inserted(maker[n][1])

\* The owner up to which the printer wrote the list.
Reached == IF pc[Printer] = "unlockPrev" THEN cur[Printer] ELSE curlock[Printer]

Written == {printed[k] : k \in DOMAIN printed}

\* What the printer wrote: a part of the list without repetition, and behind the
\* owner it reached whatever of present it has not written.
Printing ==
  /\ Written \subseteq 1 .. made /\ present \subseteq 1 .. made
  /\ NonDecreasing(printed)
  /\ \A j, k \in DOMAIN printed : printed[j] = printed[k] => j = k
  /\ pc[Printer] = "lockList" => printed = <<>>
  /\ pc[Printer] \in {"walk", "unlockPrev"} =>
       /\ Reached = TheList => printed = <<>>
       /\ printed # <<>> => printed[Len(printed)] = Reached
       /\ \A n \in Written : ~Follows(n, Reached)
       /\ \A n \in present : n \in Written \/ Follows(n, Reached)
  /\ pc[Printer] = "end" => present \subseteq Written
  /\ pc[Printer] \in {"lockList", "walk", "unlockPrev", "end"}

ListInv ==
  /\ TypeOK /\ Linked(succ, made, Path) /\ Sorted /\ Mirrored /\ LockCoupling /\ Accounted
  /\ (\A t \in Everyone : Place(t)) /\ (\A t \in Threads : Inserting(t)) /\ Printing

-----------------------------------------------------------------------------
(* The chain of the forward links.                                         *)

Total == Cardinality(Threads) * NbToInsert

LEMMA Sizes ==
  /\ Total \in Nat /\ Nodes = 1 .. Total /\ Cardinality(Nodes) = Total
  /\ Null \notin Nodes /\ TheList \notin Nodes /\ Null \notin Nat /\ TheList \notin Nat /\ Null # TheList
<1>1. Total \in Nat
  BY ListAssumption, FS_CardinalityType DEF Total
<1>2. Nodes = 1 .. Total
  BY DEF Nodes, Total
<1>3. Cardinality(1 .. Total) = Total
  <2>1. Cardinality(1 .. Total) = IF 1 > Total THEN 0 ELSE Total - 1 + 1
    BY <1>1, FS_Interval
  <2> QED BY <1>1, <2>1
<1> QED BY <1>1, <1>2, <1>3, ListAssumption

(* When any function solves the recursive equation, From does. *)
LEMMA FromSolves ==
  /\ \A f : f = Unfold(succ, f) => From = Unfold(succ, From)
  /\ \A f : f = Unfold(succ', f) => From' = Unfold(succ', From')
  BY DEF From, Unfold

(* Along linked owners every solution gives the path. *)
LEMMA LinkedChain ==
  ASSUME NEW links, NEW m \in Nat, m <= Total, NEW path, Linked(links, m, path)
  PROVE  /\ \E f : f = Unfold(links, f)
         /\ \A f : f = Unfold(links, f) => f[links[TheList]] = [k \in 1 .. m |-> path[k]]
<1>0. /\ Total \in Nat /\ Nodes = 1 .. Total /\ 1 .. m \subseteq Nodes /\ Null \notin Nodes /\ TheList \notin Nodes
      /\ Null # TheList
  BY Sizes
<1>1. /\ path \in [0 .. m -> Allocated(m)] /\ path[0] = TheList
      /\ \A k \in 0 .. m : links[path[k]] = IF k = m THEN Null ELSE path[k + 1]
      /\ \A n \in Nodes : n > m => links[n] = Null
      /\ \A j, k \in 0 .. m : path[j] = path[k] => j = k
  BY DEF Linked
<1>2. \A k \in 1 .. m : path[k] \in 1 .. m
  BY <1>1 DEF Allocated
<1>3. \A n \in 1 .. m : \E k \in 1 .. m : path[k] = n
  <2> SUFFICES ASSUME NEW n \in 1 .. m PROVE \E k \in 1 .. m : path[k] = n
    OBVIOUS
  <2>1. PICK k \in 0 .. m : path[k] = n
    BY DEF Linked, Allocated
  <2>2. k # 0
    BY <1>0, <1>1, <2>1
  <2> QED BY <2>1, <2>2
<1> DEFINE Rest(k) == [j \in 1 .. m - k + 1 |-> path[k + j - 1]]
           Pos(n) == CHOOSE k \in 1 .. m : path[k] = n
           g == [n \in Pointers |-> IF n = Null THEN <<>> ELSE IF n \in 1 .. m THEN Rest(Pos(n)) ELSE <<n>>]
<1>4. \A k \in 1 .. m : Pos(path[k]) = k
  BY <1>1, <1>2
<1>5. /\ g[Null] = <<>> /\ \A k \in 1 .. m : g[path[k]] = Rest(k)
      /\ \A n \in Nodes : n > m => g[n] = <<n>>
  <2>1. g[Null] = <<>>
    BY DEF Pointers
  <2>2. ASSUME NEW k \in 1 .. m PROVE g[path[k]] = Rest(k)
    <3>1. path[k] \in 1 .. m /\ path[k] \in Pointers /\ path[k] # Null /\ Pos(path[k]) = k
      BY <1>0, <1>2, <1>4 DEF Pointers
    <3> HIDE DEF Pos, Rest
    <3>2. g[path[k]] = Rest(Pos(path[k]))
      BY <3>1
    <3> QED BY <3>1, <3>2
  <2>3. ASSUME NEW n \in Nodes, n > m PROVE g[n] = <<n>>
    BY <1>0, <2>3 DEF Pointers
  <2> QED BY <2>1, <2>2, <2>3
<1>6. g = [n \in Pointers |-> g[n]]
  OBVIOUS
<1>6a. \A k \in 1 .. m : Rest(k) \in Seq(Nodes) /\ Len(Rest(k)) = m - k + 1 /\ \A j \in 1 .. m - k + 1 : Rest(k)[j] = path[k + j - 1]
  <2> SUFFICES ASSUME NEW k \in 1 .. m
               PROVE Rest(k) \in Seq(Nodes) /\ Len(Rest(k)) = m - k + 1 /\ \A j \in 1 .. m - k + 1 : Rest(k)[j] = path[k + j - 1]
    OBVIOUS
  <2>1. Rest(k) \in [1 .. m - k + 1 -> Nodes] /\ m - k + 1 \in Nat
    BY <1>0, <1>2
  <2> QED BY <2>1
<1> HIDE DEF g, Rest, Pos
<1>7. \A k \in 1 .. m : Rest(k) = <<path[k]>> \o (IF k = m THEN <<>> ELSE Rest(k + 1))
  <2> SUFFICES ASSUME NEW k \in 1 .. m PROVE Rest(k) = <<path[k]>> \o (IF k = m THEN <<>> ELSE Rest(k + 1))
    OBVIOUS
  <2>0. path[k] \in Nodes
    BY <1>0, <1>2
  <2>1. CASE k = m
    <3>0. m - k + 1 = 1 /\ 1 \in 1 .. 1 /\ k + 1 - 1 = k
      BY <2>1
    <3>1. Rest(k) \in Seq(Nodes) /\ Len(Rest(k)) = 1 /\ Rest(k)[1] = path[k]
      BY <1>6a, <3>0
    <3>2. Rest(k) = <<path[k]>>
      <4>1. PICK s : s = Rest(k)
        OBVIOUS
      <4>2. s \in Seq(Nodes) /\ Len(s) = 1 /\ s[1] = path[k]
        BY <3>1, <4>1
      <4>3. <<path[k]>> \in Seq(Nodes) /\ Len(<<path[k]>>) = 1 /\ <<path[k]>>[1] = path[k]
        BY <2>0
      <4>4. s = <<path[k]>>
        BY <4>2, <4>3, SeqEqual
      <4> QED BY <4>1, <4>4
    <3>3. <<path[k]>> \o <<>> = <<path[k]>>
      BY <2>0
    <3> QED BY <2>1, <3>2, <3>3
  <2>2. CASE k # m
    <3>1. PICK s, r : s = Rest(k) /\ r = Rest(k + 1)
      OBVIOUS
    <3>2. k + 1 \in 1 .. m
      BY <2>2
    <3>3. /\ s \in Seq(Nodes) /\ Len(s) = m - k + 1 /\ \A j \in 1 .. m - k + 1 : s[j] = path[k + j - 1]
          /\ r \in Seq(Nodes) /\ Len(r) = m - k /\ \A j \in 1 .. m - k : r[j] = path[k + j]
      <4>1. m - (k + 1) + 1 = m - k /\ \A j \in Int : k + 1 + j - 1 = k + j
        OBVIOUS
      <4>2. /\ r \in Seq(Nodes) /\ Len(r) = m - (k + 1) + 1
            /\ \A j \in 1 .. m - (k + 1) + 1 : r[j] = path[k + 1 + j - 1]
        BY <1>6a, <3>1, <3>2
      <4>3. s \in Seq(Nodes) /\ Len(s) = m - k + 1 /\ \A j \in 1 .. m - k + 1 : s[j] = path[k + j - 1]
        BY <1>6a, <3>1
      <4> QED BY <4>1, <4>2, <4>3
    <3>4. <<path[k]>> \o r \in Seq(Nodes) /\ Len(<<path[k]>> \o r) = m - k + 1
      <4>1. <<path[k]>> \in Seq(Nodes) /\ Len(<<path[k]>>) = 1 /\ 1 + (m - k) = m - k + 1
        BY <2>0
      <4> QED BY <3>3, <4>1, ConcatProperties
    <3>5. \A j \in 1 .. m - k + 1 : (<<path[k]>> \o r)[j] = s[j]
      <4> SUFFICES ASSUME NEW j \in 1 .. m - k + 1 PROVE (<<path[k]>> \o r)[j] = s[j]
        OBVIOUS
      <4>1. (<<path[k]>> \o r)[j] = IF j = 1 THEN path[k] ELSE r[j - 1]
        BY <2>0, <3>3
      <4>2. j # 1 => j - 1 \in 1 .. m - k /\ k + (j - 1) = k + j - 1
        OBVIOUS
      <4>3. s[j] = path[k + j - 1]
        BY <3>3
      <4>4. CASE j = 1
        <5>1. k + j - 1 = k
          BY <4>4
        <5> QED BY <4>1, <4>3, <4>4, <5>1
      <4>5. CASE j # 1
        <5>1. r[j - 1] = path[k + (j - 1)]
          BY <3>3, <4>2, <4>5
        <5> QED BY <4>1, <4>2, <4>3, <4>5, <5>1
      <4> QED BY <4>4, <4>5
    <3> QED BY <2>2, <3>1, <3>3, <3>4, <3>5, SeqEqual
  <2> QED BY <2>1, <2>2
<1>8. \A k \in 1 .. m : g[links[path[k]]] = IF k = m THEN <<>> ELSE Rest(k + 1)
  BY <1>1, <1>5
<1>9. g = Unfold(links, g)
  <2>1. ASSUME NEW n \in Pointers PROVE g[n] = IF n = Null THEN <<>> ELSE <<n>> \o g[links[n]]
    <3>1. CASE n = Null
      BY <1>5, <3>1
    <3>2. CASE n \in 1 .. m
      <4>1. PICK k \in 1 .. m : path[k] = n
        BY <1>3, <3>2
      <4> QED BY <1>0, <1>5, <1>7, <1>8, <3>2, <4>1
    <3>3. CASE n \in Nodes /\ n > m
      <4>1. g[n] = <<n>> /\ g[links[n]] = <<>>
        BY <1>1, <1>5, <3>3
      <4>2. <<n>> \o <<>> = <<n>>
        BY <3>3
      <4> QED BY <1>0, <3>3, <4>1, <4>2
    <3> QED BY <1>0, <2>1, <3>1, <3>2, <3>3 DEF Pointers
  <2> QED BY <1>6, <2>1 DEF Unfold
<1>10. ASSUME NEW f, f = Unfold(links, f) PROVE f[links[TheList]] = [k \in 1 .. m |-> path[k]]
  <2>1. \A n \in Pointers : /\ f[n] = IF n = Null THEN <<>> ELSE <<n>> \o f[links[n]]
                            /\ g[n] = IF n = Null THEN <<>> ELSE <<n>> \o g[links[n]]
    BY <1>9, <1>10 DEF Unfold
  <2>2. f[Null] = g[Null]
    BY <2>1 DEF Pointers
  <2> DEFINE T == {d \in Nat : d < m /\ f[path[m - d]] # g[path[m - d]]}
  <2>3. T = {}
    <3> SUFFICES ASSUME T # {} PROVE FALSE
      OBVIOUS
    <3>1. PICK d \in T : \A e \in T : ~ (e < d)
      <4>1. T \subseteq Nat
        OBVIOUS
      <4>2. PICK d \in T : \A e \in T : ~ (<<e, d>> \in OpToRel(<, Nat))
        BY <4>1, NatLessThanWellFounded, WFMin, Zenon
      <4> QED BY <4>1, <4>2 DEF OpToRel
    <3> DEFINE k == m - d
    <3>2. k \in 1 .. m /\ (k # m => m - (k + 1) = d - 1 /\ d - 1 \in Nat /\ d - 1 < m /\ d - 1 < d /\ k + 1 \in 1 .. m /\ m - (d - 1) = k + 1)
      BY <3>1
    <3>3. k # m => f[path[k + 1]] = g[path[k + 1]]
      BY <3>1, <3>2
    <3>4. f[links[path[k]]] = g[links[path[k]]]
      BY <1>1, <2>2, <3>2, <3>3
    <3>5. path[k] \in Pointers /\ path[k] # Null
      BY <1>0, <1>2, <3>2 DEF Pointers
    <3>6. f[path[k]] = g[path[k]]
      BY <2>1, <3>4, <3>5
    <3> QED BY <3>1, <3>6
  <2>4. m # 0 => f[path[1]] = g[path[1]] /\ g[path[1]] = [k \in 1 .. m |-> path[k]]
    <3> SUFFICES ASSUME m # 0 PROVE f[path[1]] = g[path[1]] /\ g[path[1]] = [k \in 1 .. m |-> path[k]]
      OBVIOUS
    <3>1. m - 1 \in Nat /\ m - 1 < m /\ m - (m - 1) = 1 /\ 1 \in 1 .. m
      OBVIOUS
    <3>2. f[path[1]] = g[path[1]]
      <4>1. PICK d \in Nat : d = m - 1 /\ d < m /\ m - d = 1
        BY <3>1
      <4>2. d \notin T
        BY <2>3
      <4>3. f[path[m - d]] = g[path[m - d]]
        BY <4>1, <4>2
      <4> QED BY <4>1, <4>3
    <3>3. Rest(1) = [k \in 1 .. m |-> path[k]]
      <4>1. m - 1 + 1 = m /\ \A j \in 1 .. m : 1 + j - 1 = j
        OBVIOUS
      <4> QED BY <4>1 DEF Rest
    <3> QED BY <1>5, <3>1, <3>2, <3>3
  <2>5. m = 0 => links[TheList] = Null /\ f[Null] = [k \in 1 .. m |-> path[k]]
    <3> SUFFICES ASSUME m = 0 PROVE links[TheList] = Null /\ f[Null] = [k \in 1 .. m |-> path[k]]
      OBVIOUS
    <3>1. f[Null] = <<>>
      BY <2>1 DEF Pointers
    <3>2. [k \in 1 .. m |-> path[k]] = <<>>
      OBVIOUS
    <3> QED BY <1>1, <3>1, <3>2
  <2>6. m # 0 => links[TheList] = path[1]
    BY <1>1
  <2> QED BY <2>4, <2>5, <2>6
<1> QED BY <1>9, <1>10

(* The owners that linked pointers go through are the path, its nodes the  *)
(* chain.                                                                  *)
LEMMA PathIs ==
  /\ \A p : made \in 0 .. Total /\ Linked(succ, made, p) => Path = p /\ Chain = [k \in 1 .. made |-> p[k]]
  /\ \A p : made' \in 0 .. Total /\ Linked(succ', made', p) => Path' = p /\ Chain' = [k \in 1 .. made' |-> p[k]]
<1>0. Total \in Nat
  BY Sizes
<1>1. ASSUME NEW p, made \in 0 .. Total, Linked(succ, made, p)
      PROVE  Path = p /\ Chain = [k \in 1 .. made |-> p[k]]
  <2>1. made \in Nat /\ made <= Total
    BY <1>0, <1>1
  <2>2. From = Unfold(succ, From)
    BY <1>1, <2>1, LinkedChain, FromSolves
  <2>3. Chain = [k \in 1 .. made |-> p[k]]
    BY <1>1, <2>1, <2>2, LinkedChain DEF Chain
  <2>4. p = [k \in 0 .. made |-> p[k]] /\ p[0] = TheList
    BY <1>1 DEF Linked
  <2> QED BY <2>1, <2>3, <2>4 DEF Path
<1>2. ASSUME NEW p, made' \in 0 .. Total, Linked(succ', made', p)
      PROVE  Path' = p /\ Chain' = [k \in 1 .. made' |-> p[k]]
  <2>1. made' \in Nat /\ made' <= Total
    BY <1>0, <1>2
  <2>2. From' = Unfold(succ', From')
    BY <1>2, <2>1, LinkedChain, FromSolves
  <2>3. Chain' = [k \in 1 .. made' |-> p[k]]
    BY <1>2, <2>1, <2>2, LinkedChain DEF Chain
  <2>4. p = [k \in 0 .. made' |-> p[k]] /\ p[0] = TheList
    BY <1>2 DEF Linked
  <2> QED BY <2>1, <2>3, <2>4 DEF Path
<1> QED BY <1>1, <1>2

(* What the path says of the forward links. *)
LEMMA PathFacts ==
  ASSUME TypeOK, Linked(succ, made, Path)
  PROVE  /\ \A o \in Allocated(made) : succ[o] \in 1 .. made \union {Null}
         /\ \A o, q \in Allocated(made) : succ[o] = succ[q] => o = q
         /\ \A o \in Allocated(made) : succ[o] # Null =>
              /\ succ[o] # o
              /\ \A n : Follows(n, o) <=> n = succ[o] \/ Follows(n, succ[o])
         /\ \A o \in Allocated(made) : ~ Follows(o, o)
         /\ \A o \in Allocated(made) : succ[o] = Null => \A n : ~ Follows(n, o)
         /\ \A n \in 1 .. made : Follows(n, TheList)
<1> PICK m, c : m \in Nat /\ m = made /\ c = Path /\ m <= Total /\ Linked(succ, m, c)
  BY Sizes DEF TypeOK
<1>0. /\ c \in [0 .. m -> Allocated(m)] /\ c[0] = TheList
      /\ \A o \in Allocated(m) : \E k \in 0 .. m : c[k] = o
      /\ \A j, k \in 0 .. m : c[j] = c[k] => j = k
      /\ \A k \in 0 .. m : succ[c[k]] = IF k = m THEN Null ELSE c[k + 1]
      /\ Null \notin Allocated(m) /\ TheList \notin 1 .. m
      /\ Null \notin 1 .. m
  BY Sizes DEF Linked, Allocated
<1>1. \A k \in 1 .. m : c[k] \in 1 .. m
  BY <1>0 DEF Allocated
<1>2. \A n, o : Follows(n, o) <=> \E j, k \in 0 .. m : j < k /\ c[j] = o /\ c[k] = n
  BY DEF Follows, Later
<1>3. ASSUME NEW o \in Allocated(m) PROVE succ[o] \in 1 .. m \union {Null}
  <2>1. PICK k \in 0 .. m : c[k] = o
    BY <1>0
  <2> QED BY <1>0, <1>1, <2>1
<1>4. ASSUME NEW o \in Allocated(m), NEW q \in Allocated(m), succ[o] = succ[q] PROVE o = q
  <2>1. PICK j \in 0 .. m : c[j] = o
    BY <1>0
  <2>2. PICK k \in 0 .. m : c[k] = q
    BY <1>0
  <2>3. j = m <=> succ[c[j]] = Null
    BY <1>0, <1>1
  <2>4. k = m <=> succ[c[k]] = Null
    BY <1>0, <1>1
  <2>5. j # m /\ k # m => c[j + 1] = c[k + 1]
    BY <1>0, <1>4, <2>1, <2>2
  <2>6. j # m /\ k # m => j + 1 = k + 1
    BY <1>0, <2>5
  <2> QED BY <1>4, <2>1, <2>2, <2>3, <2>4, <2>6
<1>5. ASSUME NEW o \in Allocated(m) PROVE ~ Follows(o, o)
  BY <1>0, <1>2
<1>6. ASSUME NEW o \in Allocated(m), succ[o] = Null, NEW n PROVE ~ Follows(n, o)
  <2>1. PICK k \in 0 .. m : c[k] = o
    BY <1>0
  <2>2. k = m
    BY <1>0, <1>1, <1>6, <2>1
  <2> QED BY <1>0, <1>2, <2>1, <2>2
<1>7. ASSUME NEW n \in 1 .. m PROVE Follows(n, TheList)
  <2>1. PICK k \in 0 .. m : c[k] = n
    BY <1>0 DEF Allocated
  <2>2. k # 0
    BY <1>0, <2>1
  <2>3. 0 \in 0 .. m /\ 0 < k
    BY <2>2
  <2> QED BY <1>0, <1>2, <2>1, <2>3
<1>8. ASSUME NEW o \in Allocated(m), succ[o] # Null, NEW n
      PROVE  Follows(n, o) <=> n = succ[o] \/ Follows(n, succ[o])
  <2>1. PICK k \in 0 .. m : c[k] = o
    BY <1>0
  <2>2. k # m /\ succ[o] = c[k + 1] /\ k + 1 \in 0 .. m
    BY <1>0, <1>8, <2>1
  <2>3. Follows(n, o) <=> \E l \in 0 .. m : k < l /\ c[l] = n
    BY <1>0, <1>2, <2>1
  <2>4. Follows(n, succ[o]) <=> \E l \in 0 .. m : k + 1 < l /\ c[l] = n
    BY <1>0, <1>2, <2>2
  <2>5. \A l \in 0 .. m : k < l <=> k + 1 < l \/ l = k + 1
    OBVIOUS
  <2> QED BY <2>2, <2>3, <2>4, <2>5
<1>9. ASSUME NEW o \in Allocated(m), succ[o] # Null PROVE succ[o] # o
  BY <1>5, <1>8, <1>9
<1> QED BY <1>3, <1>4, <1>5, <1>6, <1>7, <1>8, <1>9

(* A new node is linked behind an owner: the others keep their order. *)
LEMMA LinkPath ==
  ASSUME TypeOK, Linked(succ, made, Path), made + 1 \in Nodes, NEW o \in Allocated(made), made' = made + 1,
         succ' = [succ EXCEPT ![made + 1] = succ[o], ![o] = made + 1]
  PROVE  /\ Linked(succ', made', Path')
         /\ \A n, q \in Allocated(made) : Follows(n, q)' <=> Follows(n, q)
<1> PICK m, c : m \in Nat /\ m = made /\ c = Path /\ m <= Total /\ Linked(succ, m, c)
  BY Sizes DEF TypeOK
<1>0. /\ c \in [0 .. m -> Allocated(m)] /\ c[0] = TheList
      /\ \A q \in Allocated(m) : \E k \in 0 .. m : c[k] = q
      /\ \A j, k \in 0 .. m : c[j] = c[k] => j = k
      /\ \A k \in 0 .. m : succ[c[k]] = IF k = m THEN Null ELSE c[k + 1]
      /\ \A n \in Nodes : n > m => succ[n] = Null
  BY DEF Linked
<1>0a. /\ Null \notin Allocated(m + 1) /\ TheList \notin 1 .. m + 1 /\ Nodes = 1 .. Total
       /\ Total \in Nat /\ m + 1 <= Total /\ m + 1 \notin Allocated(m) /\ Allocated(m + 1) = Allocated(m) \union {m + 1}
       /\ Allocated(m) \subseteq Owners /\ m + 1 \in Owners
       /\ \A k \in 1 .. m + 1 : k \in Nodes
  BY Sizes DEF Allocated, Owners
<1>1. PICK h \in 0 .. m : c[h] = o
  BY <1>0
<1>2. /\ succ'[m + 1] = succ[o] /\ succ'[o] = m + 1
      /\ \A q \in Owners : q # m + 1 /\ q # o => succ'[q] = succ[q]
  BY <1>0a DEF TypeOK
<1> DEFINE d == [k \in 0 .. m + 1 |-> IF k <= h THEN c[k] ELSE IF k = h + 1 THEN m + 1 ELSE c[k - 1]]
<1>3. /\ \A k \in 0 .. h : d[k] = c[k]
      /\ d[h + 1] = m + 1
      /\ \A k \in h + 1 .. m : d[k + 1] = c[k]
  OBVIOUS
<1>4. d \in [0 .. m + 1 -> Allocated(m + 1)]
  <2>1. ASSUME NEW k \in 0 .. m + 1
        PROVE  (IF k <= h THEN c[k] ELSE IF k = h + 1 THEN m + 1 ELSE c[k - 1]) \in Allocated(m + 1)
    BY <1>0, <1>0a
  <2> QED BY <2>1
<1> HIDE DEF d
<1>5. \A k \in 0 .. m + 1 : k \in 0 .. h \/ k = h + 1 \/ \E l \in h + 1 .. m : k = l + 1
  <2> SUFFICES ASSUME NEW k \in 0 .. m + 1, k \notin 0 .. h, k # h + 1 PROVE \E l \in h + 1 .. m : k = l + 1
    OBVIOUS
  <2>1. k - 1 \in h + 1 .. m /\ k = (k - 1) + 1
    OBVIOUS
  <2> QED BY <2>1
<1>6. ASSUME NEW j \in 0 .. m + 1, NEW k \in 0 .. m + 1, d[j] = d[k] PROVE j = k
  <2>1. \A l \in 0 .. m : c[l] # m + 1
    BY <1>0, <1>0a
  <2>2. CASE j = h + 1
    <3>1. d[k] = m + 1
      BY <1>3, <1>6, <2>2
    <3>2. k = h + 1
      BY <1>3, <1>5, <2>1, <3>1
    <3> QED BY <2>2, <3>2
  <2>3. CASE k = h + 1
    <3>1. d[j] = m + 1
      BY <1>3, <1>6, <2>3
    <3>2. j = h + 1
      BY <1>3, <1>5, <2>1, <3>1
    <3> QED BY <2>3, <3>2
  <2>4. CASE j # h + 1 /\ k # h + 1
    <3>1. PICK a \in 0 .. m : d[j] = c[a] /\ j = IF a <= h THEN a ELSE a + 1
      BY <1>3, <1>5, <2>4
    <3>2. PICK b \in 0 .. m : d[k] = c[b] /\ k = IF b <= h THEN b ELSE b + 1
      BY <1>3, <1>5, <2>4
    <3>3. a = b
      <4>1. c[a] = c[b]
        BY <1>6, <3>1, <3>2
      <4> QED BY <1>0, <4>1
    <3> QED BY <3>1, <3>2, <3>3
  <2> QED BY <2>2, <2>3, <2>4
<1>7. ASSUME NEW q \in Allocated(m + 1) PROVE \E k \in 0 .. m + 1 : d[k] = q
  <2>1. CASE q = m + 1
    BY <1>3, <2>1
  <2>2. CASE q # m + 1
    <3>1. PICK a \in 0 .. m : c[a] = q
      BY <1>0, <1>0a, <2>2
    <3>2. a \in 0 .. h \/ a \in h + 1 .. m
      OBVIOUS
    <3>3. a + 1 \in 0 .. m + 1 /\ a \in 0 .. m + 1
      OBVIOUS
    <3> QED BY <1>3, <3>1, <3>2, <3>3
  <2> QED BY <2>1, <2>2
<1>8. ASSUME NEW k \in 0 .. m + 1 PROVE succ'[d[k]] = IF k = m + 1 THEN Null ELSE d[k + 1]
  <2>1. CASE k \in 0 .. h /\ k # h
    <3>1. d[k] = c[k] /\ d[k + 1] = c[k + 1] /\ k # m + 1 /\ k \in 0 .. m /\ k # m
      BY <1>3, <2>1
    <3>2. c[k] # o /\ c[k] \in Allocated(m) /\ c[k] # m + 1
      BY <1>0, <1>0a, <1>1, <2>1, <3>1
    <3>3. succ'[c[k]] = succ[c[k]]
      BY <1>0a, <1>2, <3>2
    <3> QED BY <1>0, <3>1, <3>3
  <2>2. CASE k = h
    <3>1. h \in 0 .. h /\ h # m + 1
      OBVIOUS
    <3> QED BY <1>1, <1>2, <1>3, <2>2, <3>1
  <2>3. CASE k = h + 1
    <3>1. d[k] = m + 1 /\ succ'[d[k]] = succ[o] /\ succ[o] = IF h = m THEN Null ELSE c[h + 1]
      BY <1>0, <1>1, <1>2, <1>3, <2>3
    <3>2. h # m => h + 1 \in h + 1 .. m /\ k + 1 = h + 1 + 1
      BY <2>3
    <3>3. h # m => d[k + 1] = c[h + 1]
      BY <1>3, <3>2
    <3> QED BY <2>3, <3>1, <3>3
  <2>4. CASE \E l \in h + 1 .. m : k = l + 1
    <3>1. PICK l \in h + 1 .. m : k = l + 1
      BY <2>4
    <3>2. d[k] = c[l] /\ l \in 0 .. m /\ l # h /\ (l # m => l + 1 \in h + 1 .. m)
      BY <1>3, <3>1
    <3>3. l # m => d[k + 1] = c[l + 1]
      BY <1>3, <3>1, <3>2
    <3>4. c[l] # o /\ c[l] \in Allocated(m) /\ c[l] # m + 1
      BY <1>0, <1>0a, <1>1, <3>2
    <3>5. succ'[c[l]] = succ[c[l]]
      BY <1>0a, <1>2, <3>4
    <3> QED BY <1>0, <3>1, <3>2, <3>3, <3>5
  <2> QED BY <1>5, <2>1, <2>2, <2>3, <2>4
<1>9. ASSUME NEW n \in Nodes, n > m + 1 PROVE succ'[n] = Null
  <2>1. n # m + 1 /\ n \notin Allocated(m) /\ n > m /\ n \in Owners
    BY <1>0a, <1>9, Sizes DEF Allocated, Owners
  <2> QED BY <1>0, <1>2, <2>1
<1>10. Linked(succ', m + 1, d)
  <2>1. d[0] = TheList
    BY <1>0, <1>3
  <2> QED BY <1>4, <1>6, <1>7, <1>8, <1>9, <2>1 DEF Linked
<1>11. Path' = d
  <2>1. made' = m + 1 /\ made' \in 0 .. Total
    BY <1>0a
  <2> QED BY <1>10, <2>1, PathIs
<1>12. ASSUME NEW n \in Allocated(m), NEW q \in Allocated(m) PROVE Follows(n, q)' <=> Follows(n, q)
  <2>1. PICK a \in 0 .. m : c[a] = q
    BY <1>0
  <2>2. PICK b \in 0 .. m : c[b] = n
    BY <1>0
  <2>3. Follows(n, q) <=> a < b
    <3>1. Follows(n, q) <=> \E j, k \in 0 .. m : j < k /\ c[j] = q /\ c[k] = n
      BY DEF Follows, Later
    <3> QED BY <1>0, <2>1, <2>2, <3>1
  <2>4. PICK e \in 0 .. m + 1 : d[e] = q /\ e = IF a <= h THEN a ELSE a + 1
    BY <1>3, <2>1
  <2>5. PICK g \in 0 .. m + 1 : d[g] = n /\ g = IF b <= h THEN b ELSE b + 1
    BY <1>3, <2>2
  <2>6. Follows(n, q)' <=> e < g
    <3>1. Follows(n, q)' <=> \E j, k \in 0 .. m + 1 : j < k /\ d[j] = q /\ d[k] = n
      BY <1>11 DEF Follows, Later
    <3> QED BY <1>6, <2>4, <2>5, <3>1
  <2>7. a < b <=> e < g
    BY <2>4, <2>5
  <2> QED BY <2>3, <2>6, <2>7
<1> QED BY <1>10, <1>11, <1>12

-----------------------------------------------------------------------------
(* The nodes allocated.                                                    *)

(* Nodes that different insertions made are not more than the insertions.  *)
LEMMA MakersBound ==
  ASSUME NEW m \in Nat, NEW maker, Makers(m, maker) PROVE m <= Total
<1>1. IsFiniteSet(0 .. NbToInsert - 1) /\ Cardinality(0 .. NbToInsert - 1) = NbToInsert
  <2>1. NbToInsert \in Nat /\ NbToInsert - 1 \in Int
    BY ListAssumption
  <2>2. /\ IsFiniteSet(0 .. NbToInsert - 1)
        /\ Cardinality(0 .. NbToInsert - 1) = IF 0 > NbToInsert - 1 THEN 0 ELSE NbToInsert - 1 - 0 + 1
    BY <2>1, FS_Interval
  <2> QED BY <2>1, <2>2
<1>2. /\ IsFiniteSet(Threads \X (0 .. NbToInsert - 1))
      /\ Cardinality(Threads \X (0 .. NbToInsert - 1)) = Total
  BY <1>1, ListAssumption, FS_Product DEF Total
<1>3. IsFiniteSet(1 .. m) /\ Cardinality(1 .. m) = m
  <2>1. IsFiniteSet(1 .. m) /\ Cardinality(1 .. m) = IF 1 > m THEN 0 ELSE m - 1 + 1
    BY FS_Interval
  <2> QED BY <2>1
<1>4. maker \in [1 .. m -> Threads \X (0 .. NbToInsert - 1)] /\ \A j, k \in 1 .. m : maker[j] = maker[k] => j = k
  BY DEF Makers
<1>5. ~ (Total < m)
  <2> SUFFICES ASSUME Total < m PROVE FALSE
    OBVIOUS
  <2>1. Cardinality(Threads \X (0 .. NbToInsert - 1)) < Cardinality(1 .. m)
    BY <1>2, <1>3
  <2>2. \E j, k \in 1 .. m : j # k /\ maker[j] = maker[k]
    BY <1>2, <1>3, <1>4, <2>1, FS_PigeonHole
  <2> QED BY <1>4, <2>2
<1> QED BY <1>5, Sizes

(* There is room for the node of a thread that still has a value to        *)
(* insert, and the allocation is one more of its own.                      *)
LEMMA Room ==
  ASSUME TypeOK, NEW t \in Threads, pc[t] \notin {"backlink", "unlock"}, v[t] < NbToInsert,
         NEW maker, Makers(made, maker), \A n \in 1 .. made : maker[n][2] < Inserted(maker[n][1])
  PROVE  /\ made + 1 \in Nodes
         /\ Makers(made + 1, [n \in 1 .. made + 1 |-> IF n = made + 1 THEN <<t, v[t]>> ELSE maker[n]])
<1> DEFINE m == made + 1
           new == [n \in 1 .. m |-> IF n = m THEN <<t, v[t]>> ELSE maker[n]]
<1>1. made \in Nat /\ m \in Nat /\ (\A n \in 1 .. m : n = m \/ n \in 1 .. made) /\ m \notin 1 .. made
  BY Sizes DEF TypeOK
<1>2. v[t] \in 0 .. NbToInsert - 1 /\ Inserted(t) = v[t]
  BY ListAssumption DEF TypeOK, Inserted
<1>3. /\ maker \in [1 .. made -> Threads \X (0 .. NbToInsert - 1)]
      /\ \A j, k \in 1 .. made : maker[j] = maker[k] => j = k
  BY DEF Makers
<1>4. \A n \in 1 .. made : maker[n] # <<t, v[t]>>
  <2> SUFFICES ASSUME NEW n \in 1 .. made, maker[n] = <<t, v[t]>> PROVE FALSE
    OBVIOUS
  <2>1. maker[n][1] = t /\ maker[n][2] = v[t]
    OBVIOUS
  <2>2. v[t] < v[t] /\ v[t] \in Int
    BY <1>2, <2>1
  <2> QED BY <2>2
<1>5. new \in [1 .. m -> Threads \X (0 .. NbToInsert - 1)]
  BY <1>1, <1>2, <1>3
<1>6. \A j, k \in 1 .. m : new[j] = new[k] => j = k
  BY <1>1, <1>3, <1>4
<1>7. Makers(m, new)
  BY <1>5, <1>6 DEF Makers
<1>8. m <= Total
  <2> HIDE DEF new, m
  <2> QED BY <1>1, <1>7, MakersBound
<1> QED BY <1>1, <1>7, <1>8, Sizes

-----------------------------------------------------------------------------
(* One step of one thread.                                                 *)

Step(t) ==
  \/ LockList(t) \/ LockCur(t) \/ UnlockPrev(t)
  \/ t \in Threads /\ (Link(t) \/ BackLink(t) \/ UnlockLast(t))
  \/ t = Printer /\ PrintEnd

LEMMA StepOfOne == Next => \E t \in Everyone : Step(t)
  BY DEF Next, PrintStep, InsertStep, Everyone, Step

(* A step moves one thread; only Link changes the forward links.           *)
LEMMA OthersStay ==
  ASSUME TypeOK, NEW t \in Everyone, Step(t)
  PROVE  /\ \A u \in Everyone \ {t} : pc'[u] = pc[u] /\ curlock'[u] = curlock[u] /\ cur'[u] = cur[u]
         /\ \A u \in Threads \ {t} : v'[u] = v[u] /\ nn'[u] = nn[u]
         /\ t # Printer => printed' = printed /\ present' = present
         /\ ~ Link(t) => made' = made /\ val' = val /\ succ' = succ /\ nn' = nn
         /\ ~ UnlockLast(t) => v' = v
         /\ ~ Link(t) /\ ~ BackLink(t) => prv' = prv /\ tail' = tail
<1>1. /\ \E x : pc' = [pc EXCEPT ![t] = x]
      /\ curlock' = curlock \/ \E x : curlock' = [curlock EXCEPT ![t] = x]
      /\ cur' = cur \/ \E x : cur' = [cur EXCEPT ![t] = x]
      /\ v' = v \/ \E x : v' = [v EXCEPT ![t] = x]
      /\ nn' = nn \/ \E x : nn' = [nn EXCEPT ![t] = x]
  BY DEF Step, LockList, LockCur, UnlockPrev, Link, BackLink, UnlockLast, PrintEnd, Goto, locals
<1>2. t # Printer => printed' = printed /\ present' = present
  BY DEF Step, LockList, LockCur, UnlockPrev, Link, BackLink, UnlockLast, PrintEnd, printing
<1>3. ~ Link(t) => made' = made /\ val' = val /\ succ' = succ /\ nn' = nn
  BY DEF Step, LockList, LockCur, UnlockPrev, BackLink, UnlockLast, PrintEnd, list, locals
<1>4. ~ UnlockLast(t) => v' = v
  BY DEF Step, LockList, LockCur, UnlockPrev, Link, BackLink, PrintEnd, locals
<1>5. ~ Link(t) /\ ~ BackLink(t) => prv' = prv /\ tail' = tail
  BY DEF Step, LockList, LockCur, UnlockPrev, UnlockLast, PrintEnd, list
<1>6. ASSUME NEW u \in Everyone \ {t}
      PROVE  pc'[u] = pc[u] /\ curlock'[u] = curlock[u] /\ cur'[u] = cur[u]
  BY <1>1 DEF TypeOK
<1>7. ASSUME NEW u \in Threads \ {t} PROVE v'[u] = v[u] /\ nn'[u] = nn[u]
  BY <1>1 DEF TypeOK
<1> QED BY <1>2, <1>3, <1>4, <1>5, <1>6, <1>7

(* The owner whose mutex a thread holds is settled, and no other thread    *)
(* is there.                                                               *)
LEMMA Alone ==
  ASSUME ListInv, NEW t \in Everyone, pc[t] \notin {"lockList", "end"}
  PROVE  /\ curlock[t] \in Allocated(made) /\ lock[curlock[t]] = t /\ Settled(curlock[t])
         /\ pc[t] = "unlockPrev" => cur[t] \in 1 .. made /\ lock[cur[t]] = t
         /\ \A u \in Everyone \ {t} : pc[u] \notin {"lockList", "end"} => curlock[u] # curlock[t]
<1>0. TypeOK /\ LockCoupling /\ Free \notin Everyone /\ Threads \subseteq Everyone
      /\ \A u \in Everyone : Place(u)
  BY ListAssumption DEF ListInv, Everyone
<1>1. \A u \in Everyone : pc[u] \notin {"lockList", "end"} => lock[curlock[u]] = u
  <2>1. \A u \in Everyone : pc[u] \notin {"lockList", "end"} => curlock[u] \in Owned(u) /\ curlock[u] \in Owners
    BY <1>0 DEF Owned, TypeOK
  <2> QED BY <1>0, <2>1 DEF LockCoupling
<1>2. curlock[t] \in Allocated(made)
  BY <1>0 DEF Place
<1>3. Settled(curlock[t])
  BY <1>0, <1>1 DEF ListInv, Inserting, Settled
<1>4. pc[t] = "unlockPrev" => cur[t] \in 1 .. made /\ lock[cur[t]] = t
  <2> SUFFICES ASSUME pc[t] = "unlockPrev" PROVE cur[t] \in 1 .. made /\ lock[cur[t]] = t
    OBVIOUS
  <2>1. cur[t] = succ[curlock[t]] /\ cur[t] # Null
    BY <1>0 DEF Place
  <2>2. cur[t] \in 1 .. made
    BY <1>0, <1>2, <2>1, PathFacts DEF ListInv
  <2>3. cur[t] \in Owned(t) /\ cur[t] \in Owners
    BY <1>0, <2>1 DEF Owned, TypeOK, Pointers, Owners
  <2> QED BY <1>0, <2>2, <2>3 DEF LockCoupling
<1> QED BY <1>1, <1>2, <1>3, <1>4

(* Where an inserting thread stops, the code finds the owner of the mutex  *)
(* it holds.                                                               *)
LEMMA PrevFound ==
  ASSUME ListInv, NEW t \in Everyone, pc[t] = "walk"
  PROVE  /\ Prev(t) = Pointer(curlock[t]) /\ curlock[t] = IF Prev(t) = Null THEN TheList ELSE Prev(t)
         /\ cur[t] = succ[curlock[t]]
<1>1. curlock[t] \in Allocated(made) /\ Settled(curlock[t])
  BY Alone
<1>2. cur[t] = succ[curlock[t]]
  BY DEF ListInv, Place
<1>3. Prev(t) = Pointer(curlock[t])
  BY <1>1, <1>2 DEF ListInv, Mirrored, Prev
<1>4. curlock[t] # Null
  BY <1>1, Sizes DEF Allocated
<1> QED BY <1>2, <1>3, <1>4 DEF Pointer

(* What Link does.                                                         *)
LEMMA LinkStep ==
  ASSUME ListInv, NEW t \in Threads, Link(t)
  PROVE  /\ pc[t] = "walk" /\ pc'[t] = "backlink" /\ v[t] < NbToInsert
         /\ made + 1 \in Nodes /\ made + 1 \notin Allocated(made) /\ made' = made + 1
         /\ Allocated(made') = Allocated(made) \union {made + 1}
         /\ curlock[t] \in Allocated(made) /\ cur[t] = succ[curlock[t]]
         /\ curlock[t] # TheList => val[curlock[t]] <= v[t]
         /\ cur[t] # Null => val[cur[t]] > v[t]
         /\ \A o \in Owners : succ'[o] = IF o = made + 1 THEN cur[t] ELSE IF o = curlock[t] THEN made + 1 ELSE succ[o]
         /\ \A n \in Nodes : val'[n] = IF n = made + 1 THEN v[t] ELSE val[n]
         /\ \A n \in Nodes : prv'[n] = IF n = made + 1 THEN Pointer(curlock[t]) ELSE prv[n]
         /\ nn'[t] = made + 1 /\ tail' = tail /\ lock' = lock /\ curlock' = curlock /\ cur' = cur
         /\ Linked(succ', made', Path')
         /\ \A n, q \in Allocated(made) : Follows(n, q)' <=> Follows(n, q)
<1>0. TypeOK /\ t \in Everyone /\ pc[t] = "walk" /\ pc'[t] = "backlink" /\ ~ Passes(t)
  BY DEF ListInv, Link, Goto, TypeOK, Everyone
<1>1. /\ Prev(t) = Pointer(curlock[t]) /\ curlock[t] = IF Prev(t) = Null THEN TheList ELSE Prev(t)
      /\ cur[t] = succ[curlock[t]] /\ curlock[t] \in Allocated(made)
  BY <1>0, PrevFound, Alone
<1>2. v[t] < NbToInsert /\ (curlock[t] # TheList => val[curlock[t]] <= v[t])
  BY <1>0 DEF ListInv, Inserting
<1>3. cur[t] # Null => val[cur[t]] > v[t]
  <2> SUFFICES ASSUME cur[t] # Null PROVE val[cur[t]] > v[t]
    OBVIOUS
  <2>1. cur[t] \in Nodes /\ t \in Threads
    BY <1>0 DEF TypeOK, Pointers
  <2>2. val[cur[t]] \in Nat /\ v[t] \in Nat
    BY <2>1, ListAssumption, <1>0 DEF TypeOK
  <2> QED BY <1>0, <2>2 DEF Passes
<1>4. made + 1 \in Nodes
  BY <1>0, <1>2, Room DEF ListInv, Accounted
<1>5. made + 1 \notin Allocated(made) /\ made \in Nat /\ Allocated(made + 1) = Allocated(made) \union {made + 1}
      /\ Allocated(made) \subseteq Owners /\ made + 1 \in Owners
  BY <1>0, <1>4, Sizes DEF TypeOK, Allocated, Owners
<1>6. made' = made + 1 /\ succ' = [succ EXCEPT ![made + 1] = cur[t], ![curlock[t]] = made + 1]
  BY <1>1 DEF Link
<1>7. \A o \in Owners : succ'[o] = IF o = made + 1 THEN cur[t] ELSE IF o = curlock[t] THEN made + 1 ELSE succ[o]
  BY <1>0, <1>1, <1>5, <1>6 DEF TypeOK
<1>8. /\ \A n \in Nodes : val'[n] = IF n = made + 1 THEN v[t] ELSE val[n]
      /\ \A n \in Nodes : prv'[n] = IF n = made + 1 THEN Pointer(curlock[t]) ELSE prv[n]
  BY <1>0, <1>1, <1>4 DEF Link, TypeOK
<1>9. nn'[t] = made + 1 /\ tail' = tail /\ lock' = lock /\ curlock' = curlock /\ cur' = cur
  BY <1>0 DEF Link, TypeOK
<1>10. PICK o \in Allocated(made) : o = curlock[t]
  BY <1>1
<1>11. succ' = [succ EXCEPT ![made + 1] = succ[o], ![o] = made + 1]
  BY <1>1, <1>6, <1>10
<1>12. Linked(succ', made', Path') /\ \A n, q \in Allocated(made) : Follows(n, q)' <=> Follows(n, q)
  BY <1>0, <1>4, <1>6, <1>11, LinkPath DEF ListInv
<1> QED BY <1>0, <1>1, <1>2, <1>3, <1>4, <1>5, <1>6, <1>7, <1>8, <1>9, <1>12

-----------------------------------------------------------------------------
(* The invariant is kept.                                                  *)

(* Every step keeps the types. *)
LEMMA TypesKept ==
  ASSUME ListInv, NEW t \in Everyone, Step(t) PROVE TypeOK'
<1>0. /\ TypeOK /\ TheList \in Owners /\ Null \in Pointers /\ Nodes \subseteq Owners /\ Nodes \subseteq Pointers
      /\ Threads \subseteq Everyone
  BY DEF ListInv, Owners, Pointers, Everyone
<1>1. /\ curlock[t] \in Allocated(made) /\ (1 .. made \subseteq Nodes)
      /\ \A o \in Allocated(made) : succ[o] \in Pointers /\ Pointer(o) \in Pointers
  <2>1. 1 .. made \subseteq Nodes
    BY <1>0, Sizes DEF TypeOK
  <2>2. Allocated(made) \subseteq Owners
    BY <2>1 DEF Allocated, Owners
  <2> QED BY <1>0, <2>1, <2>2 DEF ListInv, Place, Pointer, Allocated, Pointers, TypeOK, Owners
<1>2. pc' \in [Everyone -> {"lockList", "walk", "unlockPrev", "backlink", "unlock", "end"}]
  BY <1>0 DEF Step, LockList, LockCur, UnlockPrev, Link, BackLink, UnlockLast, PrintEnd, Goto, TypeOK
<1>3. CASE LockList(t)
  BY <1>0, <1>1, <1>2, <1>3 DEF LockList, Lock, TypeOK, list
<1>4. CASE LockCur(t)
  <2>1. cur[t] \in Nodes
    BY <1>0, <1>4 DEF LockCur, TypeOK, Pointers
  <2>2. lock' \in [Owners -> Everyone \union {Free}]
    BY <1>0, <1>4, <2>1 DEF LockCur, Lock, TypeOK
  <2>3. printed' \in Seq(Nodes)
    BY <1>0, <1>4, <2>1 DEF LockCur, TypeOK
  <2> QED BY <1>0, <1>2, <1>4, <2>2, <2>3 DEF LockCur, TypeOK, list, locals
<1>5. CASE UnlockPrev(t)
  <2>1. cur[t] \in Nodes
    BY <1>0, <1>5 DEF UnlockPrev, Goto, ListInv, Place, TypeOK, Pointers
  <2>2. lock' \in [Owners -> Everyone \union {Free}] /\ curlock' \in [Everyone -> Owners] /\ cur' \in [Everyone -> Pointers]
    BY <1>0, <1>5, <2>1 DEF UnlockPrev, Unlock, TypeOK
  <2> QED BY <1>0, <1>2, <1>5, <2>2 DEF UnlockPrev, TypeOK, list, printing
<1>6. CASE t \in Threads /\ Link(t)
  <2>1. made + 1 \in Nodes /\ v[t] < NbToInsert /\ curlock[t] \in Owners
    BY <1>0, <1>6, LinkStep DEF TypeOK
  <2>2. made' \in 0 .. Cardinality(Nodes)
    BY <1>6, <2>1, Sizes DEF Link
  <2>3. nn' \in [Threads -> Pointers] /\ val' \in [Nodes -> 0 .. NbToInsert] /\ tail' = tail
    BY <1>0, <1>6, <2>1 DEF Link, TypeOK
  <2>4. succ' \in [Owners -> Pointers]
    BY <1>0, <1>6, <2>1 DEF Link, TypeOK
  <2>5. prv' \in [Nodes -> Pointers]
    <3>1. Prev(t) \in Pointers
      BY <1>0, <1>6, <1>1, LinkStep, PrevFound
    <3> QED BY <1>0, <1>6, <2>1, <3>1 DEF Link, TypeOK
  <2> QED BY <1>0, <1>2, <1>6, <2>2, <2>3, <2>4, <2>5 DEF Link, TypeOK, printing
<1>7. CASE t \in Threads /\ BackLink(t)
  <2>1. prv' \in [Nodes -> Pointers] /\ tail' \in Pointers
    BY <1>0, <1>7 DEF BackLink, TypeOK
  <2> QED BY <1>0, <1>2, <1>7, <2>1 DEF BackLink, TypeOK, locals, printing
<1>8. CASE t \in Threads /\ UnlockLast(t)
  <2>1. v[t] < NbToInsert
    BY <1>8 DEF UnlockLast, Goto, ListInv, Inserting
  <2>2. v' \in [Threads -> 0 .. NbToInsert]
    BY <1>0, <1>8, <2>1, ListAssumption DEF UnlockLast, TypeOK
  <2>3. lock' \in [Owners -> Everyone \union {Free}]
    BY <1>0, <1>8 DEF UnlockLast, Unlock, TypeOK
  <2> QED BY <1>0, <1>2, <1>8, <2>2, <2>3 DEF UnlockLast, TypeOK, list, printing
<1>9. CASE t = Printer /\ PrintEnd
  <2>1. lock' \in [Owners -> Everyone \union {Free}]
    BY <1>0, <1>9 DEF PrintEnd, Unlock, TypeOK
  <2> QED BY <1>0, <1>2, <1>9, <2>1 DEF PrintEnd, TypeOK, list, locals, printing
<1> QED BY <1>3, <1>4, <1>5, <1>6, <1>7, <1>8, <1>9 DEF Step

(* Every step keeps the path, and the order of what is on it. *)
LEMMA PathKept ==
  ASSUME ListInv, NEW t \in Everyone, Step(t)
  PROVE  /\ Linked(succ', made', Path') /\ made \in Nat /\ made' \in {made, made + 1}
         /\ Allocated(made) \subseteq Allocated(made')
         /\ \A n, q \in Allocated(made) : Follows(n, q)' <=> Follows(n, q)
         /\ \A n \in Nodes : n <= made => val'[n] = val[n]
<1>0. TypeOK /\ made \in Nat
  BY DEF ListInv, TypeOK
<1>1. CASE Link(t)
  <2>1. t \in Threads
    BY <1>1 DEF Link
  <2> QED BY <1>0, <1>1, <2>1, LinkStep
<1>2. CASE ~ Link(t)
  <2>1. made' = made /\ succ' = succ /\ val' = val
    BY <1>0, <1>2, OthersStay
  <2>2. From' = From
    BY <2>1 DEF From
  <2>3. Path' = Path
    BY <2>1, <2>2 DEF Path, Chain
  <2>4. Linked(succ', made', Path')
    BY <2>1, <2>3 DEF ListInv
  <2> QED BY <1>0, <2>1, <2>3, <2>4 DEF Follows
<1> QED BY <1>1, <1>2

(* Every step keeps the nodes in order of value. *)
LEMMA SortedKept ==
  ASSUME ListInv, NEW t \in Everyone, Step(t) PROVE Sorted'
<1>0. TypeOK /\ Sorted /\ made \in Nat /\ (1 .. made \subseteq Nodes)
  BY Sizes DEF ListInv, TypeOK
<1>1. CASE Link(t)
  <2>0. t \in Threads
    BY <1>1 DEF Link
  <2> PICK n \in Nodes, o \in Allocated(made) : n = made + 1 /\ o = curlock[t]
    BY <1>1, <2>0, LinkStep
  <2>1. /\ made' = n /\ n \notin Allocated(made) /\ Allocated(made') = Allocated(made) \union {n} /\ cur[t] = succ[o]
        /\ o # TheList => val[o] <= v[t]
        /\ cur[t] # Null => val[cur[t]] > v[t]
        /\ \A q \in Owners : succ'[q] = IF q = n THEN cur[t] ELSE IF q = o THEN n ELSE succ[q]
        /\ \A q \in Nodes : val'[q] = IF q = n THEN v[t] ELSE val[q]
    BY <1>1, <2>0, LinkStep
  <2>2. \A q \in Allocated(made) : succ[q] \in 1 .. made \union {Null}
    BY <1>0, PathFacts DEF ListInv
  <2>3. \A q \in 1 .. made : val[q] \in Nat
    BY <1>0, ListAssumption DEF TypeOK
  <2>4. v[t] \in Nat
    BY <1>0, <2>0, ListAssumption DEF TypeOK
  <2> SUFFICES ASSUME NEW q \in 1 .. made', succ'[q] # Null PROVE val'[q] <= val'[succ'[q]]
    BY DEF Sorted
  <2>5. q \in Nodes /\ q \in Owners /\ n \notin 1 .. made /\ (q = n \/ q \in 1 .. made) /\ q # TheList
    BY <1>0, <2>1, Sizes DEF Owners, Allocated
  <2>6. CASE q = n
    <3>1. succ'[q] = cur[t] /\ cur[t] \in 1 .. made /\ cur[t] # n
      BY <2>1, <2>2, <2>5, <2>6
    <3>2. val'[q] = v[t] /\ val'[cur[t]] = val[cur[t]]
      BY <1>0, <2>1, <2>6, <3>1
    <3> QED BY <2>1, <2>3, <2>4, <2>5, <2>6, <3>1, <3>2
  <2>7. CASE q = o /\ q # n
    <3>1. succ'[q] = n /\ val'[n] = v[t] /\ val'[q] = val[q]
      BY <2>1, <2>5, <2>7
    <3> QED BY <2>1, <2>5, <2>7, <3>1
  <2>8. CASE q # o /\ q # n
    <3>1. succ'[q] = succ[q] /\ succ[q] \in 1 .. made /\ q \in 1 .. made
      BY <2>1, <2>2, <2>5, <2>8 DEF Allocated
    <3>2. val'[q] = val[q] /\ val'[succ[q]] = val[succ[q]]
      BY <1>0, <2>1, <2>5, <3>1
    <3> QED BY <1>0, <3>1, <3>2, Sizes DEF Sorted
  <2> QED BY <2>6, <2>7, <2>8
<1>2. CASE ~ Link(t)
  <2>1. made' = made /\ succ' = succ /\ val' = val
    BY <1>0, <1>2, OthersStay
  <2> QED BY <1>0, <2>1 DEF Sorted
<1> QED BY <1>1, <1>2

(* Every step keeps the back links. *)
LEMMA MirroredKept ==
  ASSUME ListInv, NEW t \in Everyone, Step(t) PROVE Mirrored'
<1>0. /\ TypeOK /\ Mirrored /\ made \in Nat /\ (1 .. made \subseteq Nodes) /\ Allocated(made) \subseteq Owners
      /\ \A o \in Allocated(made) : succ[o] \in 1 .. made \union {Null}
      /\ \A o, q \in Allocated(made) : succ[o] = succ[q] => o = q
      /\ Null \notin Nodes
  <2>1. TypeOK /\ Mirrored /\ made \in Nat /\ (1 .. made \subseteq Nodes)
    BY Sizes DEF ListInv, TypeOK
  <2> QED BY <2>1, PathFacts, Sizes DEF ListInv, Allocated, Owners
<1>1. CASE Link(t)
  <2>0. t \in Threads
    BY <1>1 DEF Link
  <2> PICK n \in Nodes, o \in Allocated(made) : n = made + 1 /\ o = curlock[t]
    BY <1>1, <2>0, LinkStep
  <2>1. /\ pc[t] = "walk" /\ pc'[t] = "backlink" /\ nn'[t] = n
        /\ n \notin Allocated(made) /\ Allocated(made') = Allocated(made) \union {n} /\ tail' = tail
        /\ \A q \in Owners : succ'[q] = IF q = n THEN cur[t] ELSE IF q = o THEN n ELSE succ[q]
        /\ \A q \in Nodes : prv'[q] = IF q = n THEN Pointer(o) ELSE prv[q]
    BY <1>1, <2>0, LinkStep
  <2>2. \A u \in Threads \ {t} : pc'[u] = pc[u] /\ nn'[u] = nn[u]
    BY <1>0, OthersStay DEF Everyone
  <2> SUFFICES ASSUME NEW q \in Allocated(made'), Settled(q)'
               PROVE  IF succ'[q] = Null THEN tail' = Pointer(q) ELSE prv'[succ'[q]] = Pointer(q)
    BY DEF Mirrored
  <2>3. q # n /\ q \in Allocated(made)
    <3>1. ~ Settled(n)'
      BY <2>0, <2>1 DEF Settled
    <3> QED BY <2>1, <3>1
  <2>4. Settled(q)
    BY <2>1, <2>2, <2>3 DEF Settled
  <2>5. CASE q = o
    BY <1>0, <2>1, <2>3, <2>5
  <2>6. CASE q # o
    <3>1. succ'[q] = succ[q] /\ succ[q] # n
      BY <1>0, <2>1, <2>3, <2>6 DEF Allocated
    <3> QED BY <1>0, <2>1, <2>3, <2>4, <3>1 DEF Mirrored
  <2> QED BY <2>5, <2>6
<1>2. CASE t \in Threads /\ BackLink(t)
  <2>1. /\ pc[t] = "backlink" /\ nn' = nn /\ made' = made /\ succ' = succ
        /\ prv' = IF cur[t] # Null THEN [prv EXCEPT ![cur[t]] = nn[t]] ELSE prv
        /\ tail' = IF cur[t] = Null THEN nn[t] ELSE tail
    BY <1>2 DEF BackLink, Goto, locals
  <2>2. nn[t] \in 1 .. made /\ nn[t] \in Allocated(made) /\ succ[nn[t]] = cur[t] /\ Pointer(nn[t]) = nn[t]
    BY <1>0, <1>2, <2>1, Sizes DEF ListInv, Inserting, Allocated, Pointer
  <2>3. \A u \in Threads \ {t} : pc'[u] = pc[u]
    BY <1>0, OthersStay DEF Everyone
  <2>4. \A q \in Nodes : prv'[q] = IF q = cur[t] THEN nn[t] ELSE prv[q]
    BY <1>0, <2>1 DEF TypeOK, Pointers
  <2> SUFFICES ASSUME NEW q \in Allocated(made), Settled(q)'
               PROVE  IF succ[q] = Null THEN tail' = Pointer(q) ELSE prv'[succ[q]] = Pointer(q)
    BY <2>1 DEF Mirrored
  <2>5. CASE q = nn[t]
    BY <1>0, <2>1, <2>2, <2>4, <2>5
  <2>6. CASE q # nn[t]
    <3>1. Settled(q)
      BY <2>1, <2>3, <2>6 DEF Settled
    <3>2. succ[q] # cur[t]
      BY <1>0, <2>2, <2>6
    <3> QED BY <1>0, <2>1, <2>4, <3>1, <3>2 DEF Mirrored
  <2> QED BY <2>5, <2>6
<1>3. CASE ~ Link(t) /\ ~ BackLink(t)
  <2>1. made' = made /\ succ' = succ /\ nn' = nn /\ prv' = prv /\ tail' = tail
    BY <1>0, <1>3, OthersStay
  <2>2. \A u \in Threads : pc[u] = "backlink" <=> pc'[u] = "backlink"
    <3>1. \A u \in Threads \ {t} : pc'[u] = pc[u]
      BY <1>0, OthersStay DEF Everyone
    <3>2. pc[t] # "backlink" /\ pc'[t] # "backlink"
      BY <1>0, <1>3 DEF Step, LockList, LockCur, UnlockPrev, UnlockLast, PrintEnd, Goto, TypeOK
    <3> QED BY <3>1, <3>2
  <2>3. \A q : Settled(q)' <=> Settled(q)
    BY <2>1, <2>2 DEF Settled
  <2> QED BY <1>0, <2>1, <2>3 DEF Mirrored
<1>4. BackLink(t) => t \in Threads
  <2>1. BackLink(t) => pc[t] = "backlink"
    BY DEF BackLink, Goto
  <2>2. pc[Printer] # "backlink"
    BY DEF ListInv, Printing
  <2> QED BY <2>1, <2>2 DEF Everyone
<1> QED BY <1>1, <1>2, <1>3, <1>4

(* Every step keeps the mutexes with the threads that stand behind them. *)
LEMMA CouplingKept ==
  ASSUME ListInv, NEW t \in Everyone, Step(t) PROVE LockCoupling'
<1>0. TypeOK /\ LockCoupling /\ Free \notin Everyone /\ TheList \in Owners /\ Nodes \subseteq Owners
  BY ListAssumption DEF ListInv, Everyone, Owners
<1>1. \A u \in Everyone \ {t} : Owned(u)' = Owned(u)
  BY <1>0, OthersStay DEF Owned
<1>2. pc[t] \notin {"lockList", "end"} => lock[curlock[t]] = t /\ curlock[t] \in Owners
  BY <1>0, Alone DEF TypeOK
<1>3. CASE LockList(t)
  <2>1. /\ Owned(t) = {} /\ Owned(t)' = {TheList} /\ lock[TheList] = Free
        /\ \A l \in Owners : lock'[l] = IF l = TheList THEN t ELSE lock[l]
    BY <1>0, <1>3 DEF LockList, Goto, Lock, TypeOK, Owned
  <2> QED BY <1>0, <1>1, <2>1 DEF LockCoupling
<1>4. CASE LockCur(t)
  <2>1. pc[t] = "walk" /\ pc'[t] = "unlockPrev" /\ curlock' = curlock /\ cur' = cur
    BY <1>0, <1>4 DEF LockCur, Goto, TypeOK, locals
  <2>2. cur[t] \in Nodes
    BY <1>0, <1>4 DEF LockCur, TypeOK, Pointers
  <2>3. lock[cur[t]] = Free /\ \A l \in Owners : lock'[l] = IF l = cur[t] THEN t ELSE lock[l]
    BY <1>0, <1>4, <2>2 DEF LockCur, Lock, TypeOK
  <2>4. Owned(t) = {curlock[t]} /\ Owned(t)' = {curlock[t], cur[t]}
    BY <2>1 DEF Owned
  <2> QED BY <1>0, <1>1, <2>2, <2>3, <2>4 DEF LockCoupling
<1>5. CASE UnlockPrev(t)
  <2>1. /\ pc[t] = "unlockPrev" /\ pc'[t] = "walk" /\ curlock'[t] = cur[t]
        /\ \A l \in Owners : lock'[l] = IF l = curlock[t] THEN Free ELSE lock[l]
    BY <1>0, <1>5 DEF UnlockPrev, Goto, Unlock, TypeOK
  <2>2. Owned(t) = {curlock[t], cur[t]} /\ Owned(t)' = {cur[t]}
    BY <2>1 DEF Owned
  <2>3. cur[t] # curlock[t]
    BY <1>0, <2>1, PathFacts DEF ListInv, Place
  <2> QED BY <1>0, <1>1, <1>2, <2>1, <2>2, <2>3 DEF LockCoupling
<1>6. CASE t \in Threads /\ (Link(t) \/ BackLink(t))
  <2>1. /\ pc[t] \in {"walk", "backlink"} /\ pc'[t] \in {"backlink", "unlock"}
        /\ lock' = lock /\ curlock' = curlock
    BY <1>0, <1>6 DEF Link, BackLink, Goto, TypeOK, locals
  <2>2. Owned(t)' = Owned(t)
    BY <2>1 DEF Owned
  <2> QED BY <1>0, <1>1, <2>1, <2>2 DEF LockCoupling
<1>7. CASE (t \in Threads /\ UnlockLast(t)) \/ (t = Printer /\ PrintEnd)
  <2>1. /\ pc[t] \in {"walk", "unlock"} /\ pc'[t] \in {"lockList", "end"}
        /\ \A l \in Owners : lock'[l] = IF l = curlock[t] THEN Free ELSE lock[l]
    BY <1>0, <1>7 DEF UnlockLast, PrintEnd, Goto, Unlock, TypeOK
  <2>2. Owned(t) = {curlock[t]} /\ Owned(t)' = {}
    BY <2>1 DEF Owned
  <2> QED BY <1>0, <1>1, <1>2, <2>1, <2>2 DEF LockCoupling
<1> QED BY <1>3, <1>4, <1>5, <1>6, <1>7 DEF Step

(* Every step keeps one node for each insertion. *)
LEMMA AccountedKept ==
  ASSUME ListInv, NEW t \in Everyone, Step(t) PROVE Accounted'
<1>0. TypeOK /\ made \in Nat
  BY DEF ListInv, TypeOK
<1> PICK maker : Makers(made, maker) /\ \A n \in 1 .. made : maker[n][2] < Inserted(maker[n][1])
  BY DEF ListInv, Accounted
<1>1. \A n \in 1 .. made : maker[n][1] \in Threads /\ maker[n][2] \in Int
  BY DEF Makers
<1>2. \A u \in Threads \ {t} : Inserted(u)' = Inserted(u)
  BY <1>0, OthersStay DEF Inserted, Everyone
<1>3. CASE Link(t)
  <2>0. t \in Threads
    BY <1>3 DEF Link
  <2>1. /\ pc[t] = "walk" /\ pc'[t] = "backlink" /\ v[t] < NbToInsert /\ made' = made + 1 /\ v' = v
        /\ v[t] \in Nat
    <3>1. v' = v /\ v[t] \in Nat
      BY <1>0, <1>3, <2>0, ListAssumption DEF Link, TypeOK
    <3> QED BY <1>3, <2>0, <3>1, LinkStep
  <2> PICK new : new = [n \in 1 .. made + 1 |-> IF n = made + 1 THEN <<t, v[t]>> ELSE maker[n]]
    OBVIOUS
  <2>2. Makers(made + 1, new)
    BY <1>0, <2>0, <2>1, Room
  <2>3. Inserted(t)' = v[t] + 1 /\ Inserted(t) = v[t]
    BY <2>1 DEF Inserted
  <2>4. ASSUME NEW n \in 1 .. made + 1 PROVE new[n][2] < Inserted(new[n][1])'
    <3>1. CASE n = made + 1
      <4>1. new[n] = <<t, v[t]>>
        BY <3>1
      <4>2. new[n][1] = t /\ new[n][2] = v[t]
        BY <4>1
      <4> QED BY <2>1, <2>3, <4>2
    <3>2. CASE n # made + 1
      <4>1. n \in 1 .. made /\ new[n] = maker[n]
        BY <1>0, <3>2
      <4>2. PICK u \in Threads : u = maker[n][1]
        BY <1>1, <4>1
      <4>3. maker[n][2] < Inserted(u)
        BY <4>1, <4>2
      <4>4. maker[n][2] < Inserted(u)'
        BY <1>1, <1>2, <2>1, <2>3, <4>1, <4>3
      <4>5. new[n][1] = u /\ new[n][2] = maker[n][2]
        BY <4>1, <4>2
      <4> QED BY <4>4, <4>5
    <3> QED BY <3>1, <3>2
  <2>5. Makers(made', new) /\ \A n \in 1 .. made' : new[n][2] < Inserted(new[n][1])'
    BY <2>1, <2>2, <2>4
  <2> QED BY <2>5 DEF Accounted
<1>4. CASE ~ Link(t)
  <2>1. made' = made
    BY <1>0, <1>4, OthersStay
  <2>2. t \in Threads => Inserted(t)' = Inserted(t)
    <3> SUFFICES ASSUME t \in Threads PROVE Inserted(t)' = Inserted(t)
      OBVIOUS
    <3>1. t # Printer /\ v[t] \in Nat
      BY <1>0, ListAssumption DEF TypeOK
    <3>2. CASE UnlockLast(t)
      BY <1>0, <3>1, <3>2 DEF UnlockLast, Goto, TypeOK, Inserted
    <3>3. CASE ~ UnlockLast(t)
      <4>1. v' = v /\ (pc[t] \in {"backlink", "unlock"} <=> pc'[t] \in {"backlink", "unlock"})
        BY <1>0, <1>4, <3>1, <3>3 DEF Step, LockList, LockCur, UnlockPrev, BackLink, PrintEnd, Goto, TypeOK, locals
      <4> QED BY <4>1 DEF Inserted
    <3> QED BY <3>2, <3>3
  <2>3. \A u \in Threads : Inserted(u)' = Inserted(u)
    BY <1>2, <2>2
  <2>4. \A n \in 1 .. made : maker[n][2] < Inserted(maker[n][1])'
    <3> SUFFICES ASSUME NEW n \in 1 .. made PROVE maker[n][2] < Inserted(maker[n][1])'
      OBVIOUS
    <3>1. PICK u \in Threads : u = maker[n][1]
      BY <1>1
    <3>2. maker[n][2] < Inserted(u)'
      BY <2>3, <3>1
    <3> QED BY <3>1, <3>2
  <2> QED BY <2>1, <2>4 DEF Accounted
<1> QED BY <1>3, <1>4

(* Every step keeps every thread in place. *)
LEMMA PlaceKept ==
  ASSUME ListInv, NEW t \in Everyone, Step(t), NEW u \in Everyone PROVE Place(u)'
<1>0. /\ TypeOK /\ Place(u) /\ curlock[u] \in Allocated(made) /\ Allocated(made) \subseteq Allocated(made')
      /\ TheList \in Allocated(made) /\ Allocated(made) \subseteq Owners
  <2>1. Allocated(made) \subseteq Owners
    BY Sizes DEF ListInv, TypeOK, Allocated, Owners
  <2> QED BY <2>1, PathKept DEF ListInv, Place, Allocated
<1>1. CASE Link(t)
  <2>0. t \in Threads
    BY <1>1 DEF Link
  <2> PICK n \in Nodes : n = made + 1
    BY <1>1, <2>0, LinkStep
  <2>1. /\ pc[t] = "walk" /\ pc'[t] = "backlink" /\ curlock' = curlock /\ cur' = cur /\ n \notin Allocated(made)
        /\ \A q \in Owners : succ'[q] = IF q = n THEN cur[t] ELSE IF q = curlock[t] THEN n ELSE succ[q]
    BY <1>1, <2>0, LinkStep
  <2>2. CASE u = t
    BY <1>0, <2>1, <2>2 DEF Place
  <2>3. CASE u # t
    <3>1. pc'[u] = pc[u]
      BY <1>0, <2>3, OthersStay
    <3>2. pc[u] \in {"walk", "unlockPrev"} => curlock[u] # curlock[t]
      BY <2>1, <2>3, Alone
    <3>3. pc[u] \in {"walk", "unlockPrev"} => succ'[curlock[u]] = succ[curlock[u]]
      BY <1>0, <2>1, <3>2
    <3> QED BY <1>0, <2>1, <3>1, <3>3 DEF Place
  <2> QED BY <2>2, <2>3
<1>2. CASE ~ Link(t)
  <2>1. succ' = succ /\ made' = made
    BY <1>0, <1>2, OthersStay
  <2>2. CASE u # t
    BY <1>0, <2>1, <2>2, OthersStay DEF Place
  <2>3. CASE u = t /\ LockList(t)
    BY <1>0, <2>1, <2>3 DEF LockList, Goto, TypeOK, Place
  <2>4. CASE u = t /\ LockCur(t)
    BY <1>0, <2>1, <2>4 DEF LockCur, Goto, TypeOK, Place, locals
  <2>5. CASE u = t /\ UnlockPrev(t)
    <3>1. pc[t] = "unlockPrev" /\ pc'[t] = "walk" /\ curlock'[t] = cur[t] /\ cur'[t] = succ[cur[t]]
      BY <1>0, <2>5 DEF UnlockPrev, Goto, TypeOK
    <3>2. cur[t] \in Allocated(made)
      BY <3>1, Alone DEF Allocated
    <3> QED BY <2>1, <2>5, <3>1, <3>2 DEF Place
  <2>6. CASE u = t /\ (BackLink(t) \/ UnlockLast(t) \/ (t = Printer /\ PrintEnd))
    <3>1. curlock' = curlock /\ pc'[t] \in {"unlock", "lockList", "end"}
      BY <1>0, <2>6 DEF BackLink, UnlockLast, PrintEnd, Goto, TypeOK, locals
    <3> QED BY <1>0, <2>1, <2>6, <3>1 DEF Place
  <2> QED BY <1>2, <2>2, <2>3, <2>4, <2>5, <2>6 DEF Step
<1> QED BY <1>1, <1>2

(* Every step keeps the values in front of which threads insert. *)
LEMMA InsertingKept ==
  ASSUME ListInv, NEW t \in Everyone, Step(t), NEW u \in Threads PROVE Inserting(u)'
<1>0. /\ TypeOK /\ Inserting(u) /\ u \in Everyone /\ u # Printer /\ made \in Nat
      /\ curlock[u] \in Allocated(made) /\ curlock[t] \in Allocated(made)
      /\ Allocated(made) \subseteq Owners /\ Allocated(made) \subseteq Allocated(made')
      /\ (1 .. made \subseteq 1 .. made') /\ (1 .. made \subseteq Nodes)
      /\ \A n \in 1 .. made : val'[n] = val[n]
  <2>1. TypeOK /\ Inserting(u) /\ u \in Everyone /\ u # Printer /\ made \in Nat /\ (1 .. made \subseteq Nodes)
    BY Sizes, ListAssumption DEF ListInv, TypeOK, Everyone
  <2>2. curlock[u] \in Allocated(made) /\ curlock[t] \in Allocated(made)
    BY <2>1 DEF ListInv, Place
  <2>3. /\ (1 .. made \subseteq 1 .. made') /\ Allocated(made) \subseteq Allocated(made')
        /\ \A n \in 1 .. made : val'[n] = val[n]
    BY <2>1, PathKept
  <2> QED BY <2>1, <2>2, <2>3 DEF Allocated, Owners
<1>1. CASE u # t
  <2>1. /\ pc'[u] = pc[u] /\ curlock'[u] = curlock[u] /\ cur'[u] = cur[u] /\ v'[u] = v[u] /\ nn'[u] = nn[u]
    BY <1>0, <1>1, OthersStay
  <2>2. curlock[u] # TheList => val'[curlock[u]] = val[curlock[u]]
    BY <1>0 DEF Allocated
  <2>3. pc[u] = "unlockPrev" => val'[cur[u]] = val[cur[u]]
    BY <1>0, Alone
  <2>4. ASSUME pc[u] = "backlink"
        PROVE  succ'[curlock[u]] = nn[u] /\ succ'[nn[u]] = cur[u] /\ lock'[nn[u]] = Free
    <3>1. /\ nn[u] \in 1 .. made /\ nn[u] \in Allocated(made) /\ succ[curlock[u]] = nn[u] /\ succ[nn[u]] = cur[u]
          /\ lock[nn[u]] = Free
      BY <1>0, <2>4 DEF Inserting, Allocated
    <3>2. pc[t] \notin {"lockList", "end"} => curlock[t] # curlock[u] /\ nn[u] # curlock[t]
      BY <1>1, <2>4, <1>0, Alone DEF Settled
    <3>3. succ'[curlock[u]] = nn[u] /\ succ'[nn[u]] = cur[u]
      <4>1. CASE Link(t)
        <5>1. t \in Threads
          BY <4>1 DEF Link
        <5>2. /\ pc[t] = "walk" /\ made + 1 \notin Allocated(made)
              /\ \A q \in Owners : succ'[q] = IF q = made + 1 THEN cur[t] ELSE IF q = curlock[t] THEN made + 1 ELSE succ[q]
          BY <4>1, <5>1, LinkStep
        <5> QED BY <1>0, <3>1, <3>2, <5>2
      <4>2. CASE ~ Link(t)
        BY <1>0, <3>1, <4>2, OthersStay
      <4> QED BY <4>1, <4>2
    <3>4. lock'[nn[u]] = Free
      <4>1. CASE LockList(t)
        <5>1. nn[u] # TheList
          BY <3>1, Sizes DEF Allocated
        <5> QED BY <1>0, <3>1, <4>1, <5>1 DEF LockList, Lock, TypeOK
      <4>2. CASE LockCur(t)
        <5>1. pc[t] = "walk"
          BY <4>2 DEF LockCur, Goto
        <5>2. cur[t] = succ[curlock[t]]
          BY <5>1 DEF ListInv, Place
        <5>3. cur[t] # nn[u]
          BY <1>0, <3>1, <3>2, <5>1, <5>2, PathFacts DEF ListInv
        <5> QED BY <1>0, <3>1, <4>2, <5>3 DEF LockCur, Lock, TypeOK
      <4>3. CASE ~ LockList(t) /\ ~ LockCur(t)
        <5>1. lock' = lock \/ lock' = [lock EXCEPT ![curlock[t]] = Free]
          BY <4>3 DEF Step, UnlockPrev, Link, BackLink, UnlockLast, PrintEnd, Unlock
        <5> QED BY <1>0, <3>1, <5>1 DEF TypeOK
      <4> QED BY <4>1, <4>2, <4>3
    <3> QED BY <3>3, <3>4
  <2> QED BY <1>0, <2>1, <2>2, <2>3, <2>4 DEF Inserting
<1>2. CASE u = t /\ LockList(t)
  <2>1. pc'[t] = "walk" /\ curlock'[t] = TheList /\ v' = v /\ v[t] < NbToInsert
    <3>1. pc'[t] = "walk" /\ curlock'[t] = TheList /\ v' = v
      BY <1>0, <1>2 DEF LockList, Goto, TypeOK
    <3> QED BY <1>2, <3>1 DEF LockList, MoreToInsert
  <2> QED BY <1>2, <2>1 DEF Inserting
<1>3. CASE u = t /\ LockCur(t)
  <2>1. /\ pc[t] = "walk" /\ pc'[t] = "unlockPrev" /\ UNCHANGED <<curlock, cur, v, val>>
        /\ val[cur[t]] <= v[t]
    BY <1>0, <1>3 DEF LockCur, Goto, TypeOK, Passes, locals, list
  <2> QED BY <1>0, <1>3, <2>1 DEF Inserting
<1>4. CASE u = t /\ UnlockPrev(t)
  <2>1. pc[t] = "unlockPrev" /\ pc'[t] = "walk" /\ curlock'[t] = cur[t] /\ UNCHANGED <<v, val>>
    BY <1>0, <1>4 DEF UnlockPrev, Goto, TypeOK, list
  <2> QED BY <1>0, <1>4, <2>1 DEF Inserting
<1>5. CASE u = t /\ Link(t)
  <2> PICK n \in Nodes : n = made + 1
    BY <1>5, LinkStep
  <2>1. /\ pc[t] = "walk" /\ pc'[t] = "backlink" /\ v[t] < NbToInsert /\ n \notin Allocated(made) /\ made' = n
        /\ curlock[t] # TheList => val[curlock[t]] <= v[t]
        /\ \A q \in Owners : succ'[q] = IF q = n THEN cur[t] ELSE IF q = curlock[t] THEN n ELSE succ[q]
        /\ nn'[t] = n /\ lock' = lock /\ curlock' = curlock /\ cur' = cur
    BY <1>5, LinkStep
  <2>2. v' = v
    BY <1>5 DEF Link
  <2>3. n \in Owners /\ n \in 1 .. n /\ n # curlock[t]
    BY <1>0, <2>1, Sizes DEF Owners
  <2>4. lock[n] = Free
    <3>1. \A w \in Everyone : n \notin Owned(w)
      <4> SUFFICES ASSUME NEW w \in Everyone PROVE n \notin Owned(w)
        OBVIOUS
      <4>1. curlock[w] \in Allocated(made)
        BY DEF ListInv, Place
      <4>2. pc[w] = "unlockPrev" => cur[w] \in Allocated(made)
        BY Alone DEF Allocated
      <4> QED BY <2>1, <4>1, <4>2 DEF Owned
    <3>2. lock[n] \in Everyone \union {Free}
      BY <1>0, <2>3 DEF TypeOK
    <3> QED BY <2>3, <3>1, <3>2 DEF ListInv, LockCoupling
  <2>5. curlock[t] # TheList => val'[curlock[t]] = val[curlock[t]]
    BY <1>0 DEF Allocated
  <2>6. succ'[curlock[t]] = n /\ succ'[n] = cur[t]
    BY <1>0, <2>1, <2>3
  <2> QED BY <1>5, <2>1, <2>2, <2>3, <2>4, <2>5, <2>6 DEF Inserting
<1>6. CASE u = t /\ BackLink(t)
  <2>1. pc[t] = "backlink" /\ pc'[t] = "unlock" /\ UNCHANGED <<v, val, curlock>>
    BY <1>0, <1>6 DEF BackLink, Goto, TypeOK, locals
  <2> QED BY <1>0, <1>6, <2>1 DEF Inserting
<1>7. CASE u = t /\ UnlockLast(t)
  <2>1. pc'[t] = "lockList"
    BY <1>0, <1>7 DEF UnlockLast, Goto, TypeOK
  <2> QED BY <1>7, <2>1 DEF Inserting
<1> QED BY <1>0, <1>1, <1>2, <1>3, <1>4, <1>5, <1>6, <1>7 DEF Step

(* A step of another thread keeps what the printer knows. *)
LEMMA PrintingOfOthers ==
  ASSUME ListInv, NEW t \in Everyone, Step(t), t # Printer PROVE Printing'
<1>0. /\ TypeOK /\ Printing /\ made \in Nat /\ (1 .. made \subseteq Nodes) /\ Printer \in Everyone
      /\ (1 .. made \subseteq 1 .. made') /\ (1 .. made \subseteq Allocated(made))
      /\ \A n \in 1 .. made : val'[n] = val[n]
      /\ \A n, q \in Allocated(made) : Follows(n, q)' <=> Follows(n, q)
  <2>1. TypeOK /\ Printing /\ made \in Nat /\ (1 .. made \subseteq Nodes) /\ Printer \in Everyone
    BY Sizes DEF ListInv, TypeOK, Everyone
  <2>2. /\ (1 .. made \subseteq 1 .. made')
        /\ \A n \in 1 .. made : val'[n] = val[n]
        /\ \A n, q \in Allocated(made) : Follows(n, q)' <=> Follows(n, q)
    BY <2>1, PathKept
  <2> QED BY <2>1, <2>2 DEF Allocated
<1>1. /\ pc'[Printer] = pc[Printer] /\ printed' = printed /\ present' = present
      /\ curlock'[Printer] = curlock[Printer] /\ cur'[Printer] = cur[Printer]
  BY <1>0, OthersStay
<1>2. Reached' = Reached /\ Written' = Written
  BY <1>1 DEF Reached, Written
<1>3. pc[Printer] \in {"walk", "unlockPrev"} => Reached \in Allocated(made)
  BY <1>0, Alone DEF Reached
<1>4. NonDecreasing(printed)'
  <2>1. \A k \in 1 .. Len(printed) - 1 : printed[k] \in Written /\ printed[k + 1] \in Written
    BY <1>0 DEF TypeOK, Written
  <2>2. \A k \in 1 .. Len(printed) - 1 : val'[printed[k]] <= val'[printed[k + 1]]
    BY <1>0, <2>1 DEF Printing, NonDecreasing
  <2> QED BY <1>1, <2>2 DEF NonDecreasing
<1>5. pc[Printer] \in {"walk", "unlockPrev"} => \A n \in 1 .. made : Follows(n, Reached)' <=> Follows(n, Reached)
  <2>1. PICK q : q = Reached
    OBVIOUS
  <2> QED BY <1>0, <1>2, <1>3, <2>1
<1>6. pc[Printer] \in {"walk", "unlockPrev"} =>
        /\ \A n \in Written : ~Follows(n, Reached)'
        /\ \A n \in present : n \in Written \/ Follows(n, Reached)'
  BY <1>0, <1>5 DEF Printing
<1> QED BY <1>0, <1>1, <1>2, <1>4, <1>6 DEF Printing

(* The printer writes the next node. *)
LEMMA PrintingOfPrinter ==
  ASSUME ListInv, Step(Printer) PROVE Printing'
<1>0. /\ TypeOK /\ Printing /\ Printer \in Everyone /\ Printer \notin Threads /\ made \in Nat
      /\ (1 .. made \subseteq Nodes) /\ Place(Printer) /\ curlock[Printer] \in Allocated(made)
  BY ListAssumption, Sizes DEF ListInv, TypeOK, Everyone, Place
<1>1. made' = made /\ val' = val /\ succ' = succ
  BY <1>0, OthersStay DEF Link
<1>2. Path' = Path
  <2>1. From' = From
    BY <1>1 DEF From
  <2> QED BY <1>1, <2>1 DEF Path, Chain
<1>3. \A n, q : Follows(n, q)' <=> Follows(n, q)
  BY <1>1, <1>2 DEF Follows
<1>4. CASE LockList(Printer)
  <2>1. /\ pc[Printer] = "lockList" /\ pc'[Printer] = "walk" /\ printed' = printed /\ present' = 1 .. made
        /\ curlock'[Printer] = TheList
    BY <1>0, <1>4 DEF LockList, Goto, TypeOK
  <2>2. printed = <<>> /\ Written = {} /\ Reached' = TheList
    BY <1>0, <2>1 DEF Printing, Written, Reached
  <2>3. Written' = {} /\ NonDecreasing(printed)'
    BY <1>0, <1>1, <2>1, <2>2 DEF Printing, Written, NonDecreasing
  <2>4. \A n \in 1 .. made : Follows(n, TheList)
    BY <1>0, PathFacts DEF ListInv
  <2>5. \A n \in 1 .. made : Follows(n, Reached)'
    BY <1>3, <2>2, <2>4
  <2> QED BY <1>0, <1>1, <2>1, <2>2, <2>3, <2>5 DEF Printing
<1>5. CASE LockCur(Printer)
  <2> PICK q, n : q \in Allocated(made) /\ q = curlock[Printer] /\ n = cur[Printer]
    BY <1>0
  <2>1. /\ pc[Printer] = "walk" /\ pc'[Printer] = "unlockPrev" /\ printed' = Append(printed, n)
        /\ present' = present /\ cur'[Printer] = n /\ n # Null
    BY <1>0, <1>5 DEF LockCur, Goto, TypeOK, locals
  <2>2. n = succ[q] /\ n \in 1 .. made /\ n # TheList
    BY <1>0, <2>1, PathFacts, Sizes DEF ListInv, Place
  <2>3. /\ \A m : Follows(m, q) <=> m = n \/ Follows(m, n)
        /\ ~ Follows(n, n)
    BY <1>0, <2>1, <2>2, PathFacts DEF ListInv, Allocated
  <2>4. /\ Reached = q
        /\ q = TheList => printed = <<>>
        /\ printed # <<>> => printed[Len(printed)] = q
        /\ \A m \in Written : ~Follows(m, q)
        /\ \A m \in present : m \in Written \/ Follows(m, q)
    BY <1>0, <2>1 DEF Printing, Reached
  <2>5. Reached' = n
    BY <2>1 DEF Reached
  <2> PICK s \in Seq(Nodes) : s = printed
    BY <1>0 DEF TypeOK
  <2>6. /\ printed' \in Seq(Nodes) /\ Len(printed') = Len(s) + 1 /\ printed'[Len(s) + 1] = n
        /\ \A k \in 1 .. Len(s) : printed'[k] = s[k]
        /\ Len(s) \in Nat /\ DOMAIN s = 1 .. Len(s) /\ DOMAIN printed' = 1 .. Len(s) + 1
    BY <1>0, <2>1, <2>2
  <2>7. Written' = Written \union {n} /\ n \notin Written
    BY <2>3, <2>4, <2>6 DEF Written
  <2>8. \A j, k \in DOMAIN printed' : printed'[j] = printed'[k] => j = k
    <3>1. \A k \in 1 .. Len(s) : s[k] # n
      BY <2>6, <2>7 DEF Written
    <3>2. \A j, k \in 1 .. Len(s) : s[j] = s[k] => j = k
      BY <1>0, <2>6 DEF Printing
    <3>3. \A k \in 1 .. Len(s) + 1 : k \in 1 .. Len(s) \/ k = Len(s) + 1
      BY <2>6
    <3> QED BY <2>6, <3>1, <3>2, <3>3
  <2>9. NonDecreasing(printed)'
    <3> SUFFICES ASSUME NEW k \in 1 .. Len(s) PROVE val[printed'[k]] <= val[printed'[k + 1]]
      BY <1>1, <2>6 DEF NonDecreasing
    <3>1. CASE k = Len(s)
      <4>1. s # <<>> /\ s[Len(s)] = q
        BY <2>4, <2>6, <3>1
      <4>2. q # TheList
        BY <2>4, <4>1
      <4>3. q \in 1 .. made /\ succ[q] # Null
        BY <2>1, <2>2, <4>2 DEF Allocated
      <4>4. val[q] <= val[n]
        BY <2>2, <4>3 DEF ListInv, Sorted
      <4> QED BY <2>6, <3>1, <4>1, <4>4
    <3>2. CASE k # Len(s)
      <4>1. k \in 1 .. Len(s) - 1 /\ k + 1 \in 1 .. Len(s)
        <5>1. PICK l \in Nat : l = Len(s)
          BY <2>6
        <5>2. k \in 1 .. l /\ k # l
          BY <3>2, <5>1
        <5>3. k \in 1 .. l - 1 /\ k + 1 \in 1 .. l
          BY <5>2
        <5> QED BY <5>1, <5>3
      <4>2. val[s[k]] <= val[s[k + 1]]
        BY <1>0, <4>1 DEF Printing, NonDecreasing
      <4> QED BY <2>6, <4>1, <4>2
    <3> QED BY <3>1, <3>2
  <2>10. /\ \A m \in Written' : ~Follows(m, Reached)'
         /\ \A m \in present' : m \in Written' \/ Follows(m, Reached)'
    BY <1>3, <2>1, <2>3, <2>4, <2>5, <2>7
  <2>11. Written' \subseteq 1 .. made' /\ present' \subseteq 1 .. made'
    BY <1>0, <1>1, <2>1, <2>2, <2>7 DEF Printing
  <2>12. printed'[Len(printed')] = Reached'
    BY <2>5, <2>6
  <2> QED BY <2>1, <2>2, <2>5, <2>8, <2>9, <2>10, <2>11, <2>12 DEF Printing
<1>6. CASE UnlockPrev(Printer)
  <2>1. /\ pc[Printer] = "unlockPrev" /\ pc'[Printer] = "walk" /\ printed' = printed /\ present' = present
        /\ curlock'[Printer] = cur[Printer]
    BY <1>0, <1>6 DEF UnlockPrev, Goto, TypeOK, printing
  <2>2. Reached' = Reached /\ Written' = Written
    BY <2>1 DEF Reached, Written
  <2>3. NonDecreasing(printed)'
    BY <1>0, <1>1, <2>1 DEF Printing, NonDecreasing
  <2>4. \A n : Follows(n, Reached)' <=> Follows(n, Reached)
    BY <1>3, <2>2
  <2> QED BY <1>0, <1>1, <2>1, <2>2, <2>3, <2>4 DEF Printing
<1>7. CASE PrintEnd
  <2>1. /\ pc[Printer] = "walk" /\ pc'[Printer] = "end" /\ printed' = printed /\ present' = present
        /\ cur[Printer] = Null
    BY <1>0, <1>7 DEF PrintEnd, Goto, TypeOK, printing
  <2>2. Written' = Written /\ NonDecreasing(printed)'
    BY <1>0, <1>1, <2>1 DEF Written, Printing, NonDecreasing
  <2>3. succ[curlock[Printer]] = Null /\ Reached = curlock[Printer]
    BY <1>0, <2>1 DEF Place, Reached
  <2>4. \A n : ~ Follows(n, Reached)
    BY <1>0, <2>3, PathFacts DEF ListInv
  <2>5. present \subseteq Written
    BY <1>0, <2>1, <2>4 DEF Printing
  <2> QED BY <1>0, <1>1, <2>1, <2>2, <2>5 DEF Printing
<1> QED BY <1>0, <1>4, <1>5, <1>6, <1>7 DEF Step

(* The empty list satisfies the invariant. *)
LEMMA InitInv ==
  ASSUME Init PROVE ListInv
<1>0. Total \in Nat /\ Nodes = 1 .. Total /\ Cardinality(Nodes) = Total /\ made = 0 /\ TheList \notin Nodes
      /\ Null # TheList
  BY Sizes DEF Init
<1>1. TypeOK
  BY <1>0, ListAssumption DEF Init, TypeOK, Owners, Pointers, Everyone
<1>2. PICK p : p = [k \in 0 .. 0 |-> TheList]
  OBVIOUS
<1>3. Allocated(0) = {TheList} /\ 0 .. 0 = {0} /\ Allocated(made) = {TheList}
  BY <1>0 DEF Allocated
<1>4. p \in [0 .. 0 -> {TheList}] /\ p[0] = TheList
  BY <1>2, <1>3
<1>5. Linked(succ, made, p)
  <2>1. succ[TheList] = Null /\ \A n \in Nodes : succ[n] = Null
    BY <1>0 DEF Init, Owners
  <2> QED BY <1>0, <1>3, <1>4, <2>1 DEF Linked
<1>6. Linked(succ, made, Path)
  <2>1. made \in 0 .. Total
    BY <1>0
  <2>2. Path = p
    BY <1>5, <2>1, PathIs
  <2> QED BY <1>5, <2>2
<1>7. Sorted
  BY <1>0 DEF Sorted
<1>8. Mirrored
  BY <1>0, <1>3 DEF Mirrored, Init, Owners, Pointer
<1>9. LockCoupling
  BY ListAssumption DEF Init, LockCoupling, Owned, Everyone
<1>10. Accounted
  <2>1. Makers(0, <<>>)
    BY DEF Makers
  <2> QED BY <1>0, <2>1 DEF Accounted
<1>11. ASSUME NEW t \in Everyone PROVE Place(t)
  BY <1>3 DEF Init, Place
<1>12. ASSUME NEW t \in Threads PROVE Inserting(t)
  BY DEF Init, Inserting, Everyone
<1>13. Printing
  <2>1. printed = <<>> /\ present = {} /\ pc[Printer] = "lockList"
    BY DEF Init, Everyone
  <2>2. Written = {} /\ NonDecreasing(printed)
    BY <2>1 DEF Written, NonDecreasing
  <2> QED BY <2>1, <2>2 DEF Printing
<1> QED BY <1>1, <1>6, <1>7, <1>8, <1>9, <1>10, <1>11, <1>12, <1>13 DEF ListInv

(* Nothing changes. *)
LEMMA StutterKept ==
  ASSUME ListInv, UNCHANGED vars PROVE ListInv'
<1>1. /\ made' = made /\ val' = val /\ succ' = succ /\ prv' = prv /\ tail' = tail /\ lock' = lock
      /\ v' = v /\ curlock' = curlock /\ cur' = cur /\ nn' = nn /\ pc' = pc
      /\ printed' = printed /\ present' = present
  BY DEF vars, list, locals, printing
<1>2. From' = From
  BY <1>1 DEF From
<1>3. Path' = Path /\ \A n, q : Follows(n, q)' <=> Follows(n, q)
  <2>1. Path' = Path
    BY <1>1, <1>2 DEF Path, Chain
  <2> QED BY <1>1, <2>1 DEF Follows
<1>4. TypeOK' /\ Linked(succ, made, Path)' /\ Sorted' /\ LockCoupling'
  <2>1. TypeOK' /\ Sorted'
    BY <1>1 DEF ListInv, TypeOK, Sorted
  <2>2. Linked(succ, made, Path)'
    BY <1>1, <1>3 DEF ListInv
  <2>3. LockCoupling'
    BY <1>1 DEF ListInv, LockCoupling, Owned
  <2> QED BY <2>1, <2>2, <2>3
<1>5. Mirrored' /\ Accounted'
  BY <1>1 DEF ListInv, Mirrored, Settled, Accounted, Inserted
<1>6. /\ \A t \in Everyone : Place(t)'
      /\ \A t \in Threads : Inserting(t)'
  BY <1>1 DEF ListInv, Place, Inserting
<1>7. Printing'
  <2>1. Reached' = Reached /\ Written' = Written /\ NonDecreasing(printed)' = NonDecreasing(printed)
    BY <1>1 DEF Reached, Written, NonDecreasing
  <2>2. \A n : Follows(n, Reached)' <=> Follows(n, Reached)
    BY <1>3, <2>1
  <2>3. Printing
    BY DEF ListInv
  <2> QED BY <1>1, <2>1, <2>2, <2>3 DEF Printing
<1> QED BY <1>4, <1>5, <1>6, <1>7 DEF ListInv

-----------------------------------------------------------------------------
(* The theorems.                                                           *)

(* Next pointers give one path through all nodes in order of value, back   *)
(* links mirror it but where one is being set, each thread holds the mutex *)
(* of the owner behind which it works, and no insertion allocates more     *)
(* than one node (insertSortedList, printListForward).                     *)
THEOREM Invariance == Spec => []ListInv
<1>1. Init => ListInv
  BY InitInv
<1>2. ListInv /\ [Next]_vars => ListInv'
  <2> SUFFICES ASSUME ListInv, [Next]_vars PROVE ListInv'
    OBVIOUS
  <2>1. CASE UNCHANGED vars
    BY <2>1, StutterKept
  <2>2. CASE Next
    <3>1. PICK t \in Everyone : Step(t)
      BY <2>2, StepOfOne
    <3>2. TypeOK' /\ Sorted' /\ Mirrored' /\ LockCoupling' /\ Accounted' /\ Linked(succ, made, Path)'
      BY <3>1, TypesKept, SortedKept, MirroredKept, CouplingKept, AccountedKept, PathKept
    <3>3. (\A u \in Everyone : Place(u)') /\ (\A u \in Threads : Inserting(u)')
      BY <3>1, PlaceKept, InsertingKept
    <3>4. Printing'
      BY <3>1, PrintingOfOthers, PrintingOfPrinter
    <3> QED BY <3>2, <3>3, <3>4 DEF ListInv
  <2> QED BY <2>1, <2>2
<1> QED BY <1>1, <1>2, PTL DEF Spec

(* Forward links, back links and tail describe one sorted list of all the  *)
(* nodes, whatever insertions are in the middle of their two assignments   *)
(* (dllist.c:50-78).                                                       *)
THEOREM WellFormed == Spec => []ListWellFormed
<1>1. ListInv => ListWellFormed
  <2> SUFFICES ASSUME ListInv PROVE ListWellFormed
    OBVIOUS
  <2> PICK m \in Nat : m = made /\ m <= Total
    BY Sizes DEF ListInv, TypeOK
  <2>1. Chain = [k \in 1 .. m |-> Path[k]]
    <3>1. made \in 0 .. Total
      BY Sizes
    <3> QED BY <3>1, PathIs DEF ListInv
  <2>2. /\ \A k \in 1 .. m : Path[k] \in 1 .. m /\ Path[k] \in Allocated(m)
        /\ \A k \in 1 .. m : succ[Path[k]] = IF k = m THEN Null ELSE Path[k + 1]
        /\ \A n \in 1 .. m : \E k \in 1 .. m : Path[k] = n
    <3>1. Linked(succ, m, Path) /\ TheList \notin 1 .. m
      BY Sizes DEF ListInv
    <3>2. ASSUME NEW k \in 1 .. m PROVE Path[k] \in 1 .. m /\ Path[k] \in Allocated(m)
      <4>1. Path[k] \in Allocated(m) /\ Path[k] # TheList
        BY <3>1 DEF Linked
      <4> QED BY <4>1 DEF Allocated
    <3>3. ASSUME NEW n \in 1 .. m PROVE \E k \in 1 .. m : Path[k] = n
      <4>1. PICK k \in 0 .. m : Path[k] = n
        BY <3>1 DEF Linked, Allocated
      <4>2. k # 0
        BY <3>1, <4>1 DEF Linked
      <4> QED BY <4>1, <4>2
    <3>4. ASSUME NEW k \in 1 .. m PROVE succ[Path[k]] = IF k = m THEN Null ELSE Path[k + 1]
      <4>1. k \in 0 .. m
        OBVIOUS
      <4> QED BY <3>1, <4>1 DEF Linked
    <3> QED BY <3>2, <3>3, <3>4
  <2>2a. Null \notin 1 .. m /\ TheList \notin 1 .. m
    BY Sizes
  <2>3. DOMAIN Chain = 1 .. m /\ Len(Chain) = m /\ \A k \in 1 .. m : Chain[k] = Path[k]
    <3>1. Chain \in Seq(1 .. m)
      BY <2>1, <2>2
    <3> QED BY <2>1, <3>1
  <2>4. NonDecreasing(Chain)
    <3> SUFFICES ASSUME NEW k \in 1 .. m - 1 PROVE val[Chain[k]] <= val[Chain[k + 1]]
      BY <2>3 DEF NonDecreasing
    <3>1. k \in 1 .. m /\ k + 1 \in 1 .. m /\ k # m
      OBVIOUS
    <3>2. succ[Path[k]] = Path[k + 1] /\ Path[k + 1] # Null
      BY <2>2, <2>2a, <3>1
    <3> QED BY <2>2, <2>3, <3>1, <3>2 DEF ListInv, Sorted
  <2>5. ForwardSorted
    <3>1. {Chain[k] : k \in DOMAIN Chain} = 1 .. m
      BY <2>2, <2>3
    <3> QED BY <2>3, <2>4, <3>1 DEF ForwardSorted
  <2>6. ASSUME NEW k \in 1 .. m, Settled(Chain[k])
        PROVE  IF k = m THEN tail = Chain[k] ELSE prv[Chain[k + 1]] = Chain[k]
    <3>0. Chain[k] \in Allocated(m) /\ Chain[k] \in 1 .. m
      BY <2>2, <2>3
    <3>1. PICK o \in Allocated(made) : o = Chain[k] /\ o \in 1 .. m
      BY <3>0
    <3>2. o # TheList /\ Settled(o)
      BY <2>6, <2>2a, <3>1
    <3>3. IF succ[o] = Null THEN tail = o ELSE prv[succ[o]] = o
      BY <3>2 DEF ListInv, Mirrored, Pointer
    <3>4. k # m => k + 1 \in 1 .. m
      OBVIOUS
    <3>5. succ[o] = IF k = m THEN Null ELSE Path[k + 1]
      BY <2>2, <2>3, <3>1
    <3>6. k # m => Path[k + 1] # Null /\ Chain[k + 1] = Path[k + 1]
      BY <2>2, <2>3, <2>2a, <3>4
    <3> QED BY <3>1, <3>3, <3>5, <3>6
  <2>7. BackMirrorsForward
    BY <2>3, <2>6 DEF BackMirrorsForward, Settled
  <2> QED BY <2>5, <2>7 DEF ListInv, ListWellFormed
<1> QED BY <1>1, Invariance, PTL

(* The node that insertSortedList finds in front of the spot, through prv  *)
(* or tail, is the one whose mutex the thread holds.                       *)
THEOREM PrevLocked == Spec => []PrevIsLocked
<1>1. ListInv => PrevIsLocked
  <2> SUFFICES ASSUME ListInv, NEW t \in Threads, pc[t] = "walk"
               PROVE  curlock[t] = (IF Prev(t) = Null THEN TheList ELSE Prev(t)) /\ lock[curlock[t]] = t
    BY DEF PrevIsLocked
  <2>1. t \in Everyone
    BY DEF Everyone
  <2> QED BY <2>1, PrevFound, Alone
<1> QED BY <1>1, Invariance, PTL

(* What printListForward wrote is sorted, without repetition, and lists at *)
(* least the nodes that were there when it began.                          *)
THEOREM Snapshot == Spec => []PrintedSnapshot
<1>1. ListInv => PrintedSnapshot
  BY DEF ListInv, Printing, PrintedSnapshot, Written
<1> QED BY <1>1, Invariance, PTL
=============================================================================
