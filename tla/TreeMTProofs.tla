----------------------------- MODULE TreeMTProofs -----------------------------
(***************************************************************************)
(* Proofs about the concurrent search tree of ps8, for any number of       *)
(* threads and any array of integers.                                      *)
(***************************************************************************)
EXTENDS TreeMT, WellFoundedInduction, TLAPS

-----------------------------------------------------------------------------
(* The invariant.                                                          *)

\* One unfolding of the recursive definition of Below over links and a function f.
Unfold(links, f) ==
  [s \in Slots |-> IF links[s] = Null THEN {}
                   ELSE {links[s]} \union f[<<links[s], "left">>] \union f[<<links[s], "right">>]]

\* Slot s is top or in the subtree below it.
Under(s, top) == s = top \/ s[1] \in Below[top]

\* Comparisons on the way from the root send value to the slot s.
OnPath(s, value) ==
  \A n \in Vals : /\ Under(s, <<n, "left">>) => value < n
                  /\ Under(s, <<n, "right">>) => value > n

\* Every walk down the links ends.
Founded(links) ==
  \A S \in SUBSET Slots : S # {} =>
    \E s \in S : links[s] = Null \/ (<<links[s], "left">> \notin S /\ <<links[s], "right">> \notin S)

\* The slots form a tree in search order, and hold nothing outside it.
Shape ==
  /\ Below = Unfold(child, Below) /\ Founded(child)
  /\ \A s \in Slots : child[s] # Null => Under(s, RootSlot) /\ child[s] \in Contents
  /\ \A s, r \in Slots : child[s] # Null /\ child[s] = child[r] => s = r
  /\ SearchOrder

\* The mutex of a thread below the slot where it stands.
Guard(s) == IF s = RootSlot THEN TheTree ELSE child[s]

Inserting == {"lockTree", "root", "compare", "lockNext", "unlockCur", "attach", "unlock"}

\* Where a thread is in the tree, at each statement.
Place(t) ==
  /\ pc[t] \in Inserting => i[t] < SliceSize(t)
  /\ pc[t] = "exit" => i[t] >= SliceSize(t)
  /\ pc[t] = "root" => curlock[t] = TheTree /\ cursor[t] = RootSlot
  /\ pc[t] \in {"compare", "lockNext", "unlockCur"} =>
       child[cursor[t]] # Null /\ curlock[t] = Guard(cursor[t]) /\ OnPath(cursor[t], Val(t))
  /\ pc[t] \in {"lockNext", "unlockCur"} =>
       /\ next[t] = <<child[cursor[t]], Side(Val(t), child[cursor[t]])>>
       /\ child[next[t]] # Null /\ OnPath(next[t], Val(t))
  /\ pc[t] = "attach" =>
       /\ child[next[t]] = Null /\ Under(next[t], RootSlot) /\ OnPath(next[t], Val(t))
       /\ \/ next[t] = RootSlot /\ curlock[t] = TheTree
          \/ child[cursor[t]] # Null /\ next[t][1] = child[cursor[t]] /\ curlock[t] = Guard(cursor[t])
  /\ pc[t] = "unlock" => Val(t) \in Contents

\* The tree holds the values that were inserted, all of them from the array.
Holds ==
  /\ Contents \subseteq {numbers[k] : k \in 0 .. NNumbers - 1}
  /\ \A t \in Threads : \A j \in 0 .. i[t] - 1 : numbers[SliceStart(t) + j] \in Contents
  /\ joined => \A t \in Threads : pc[t] = "exit"

TreeInv ==
  TypeOK /\ Shape /\ LockCoupling /\ (\A t \in Threads : Place(t)) /\ Holds

-----------------------------------------------------------------------------
(* Lemmas about trees.                                                     *)

(* When any function solves the recursive equation, Below does. *)
LEMMA BelowSolves ==
  /\ \A f : f = Unfold(child, f) => Below = Unfold(child, Below)
  /\ \A f : f = Unfold(child', f) => Below' = Unfold(child', Below')
  BY DEF Below, Unfold

(* When walks end there is one solution. *)
LEMMA OneSolution ==
  ASSUME NEW links \in [Slots -> Vals \union {Null}], Founded(links), NEW f, f = Unfold(links, f), NEW g, g = Unfold(links, g)
  PROVE  f = g
<1>1. /\ \A s \in Slots : f[s] = IF links[s] = Null THEN {}
                                 ELSE {links[s]} \union f[<<links[s], "left">>] \union f[<<links[s], "right">>]
      /\ \A s \in Slots : g[s] = IF links[s] = Null THEN {}
                                 ELSE {links[s]} \union g[<<links[s], "left">>] \union g[<<links[s], "right">>]
  BY DEF Unfold
<1>2. f = [s \in Slots |-> f[s]] /\ g = [s \in Slots |-> g[s]]
  BY DEF Unfold
<1> DEFINE S == {s \in Slots : f[s] # g[s]}
<1>3. S = {}
  <2> SUFFICES ASSUME S # {} PROVE FALSE
    OBVIOUS
  <2>1. PICK s \in S : links[s] = Null \/ (<<links[s], "left">> \notin S /\ <<links[s], "right">> \notin S)
    BY DEF Founded
  <2>2. CASE links[s] = Null
    BY <1>1, <2>2
  <2>3. CASE links[s] # Null
    <3>1. <<links[s], "left">> \in Slots /\ <<links[s], "right">> \in Slots
      BY <2>3 DEF Slots
    <3>2. /\ f[<<links[s], "left">>] = g[<<links[s], "left">>]
          /\ f[<<links[s], "right">>] = g[<<links[s], "right">>]
      BY <2>1, <2>3, <3>1
    <3>3. /\ f[s] = {links[s]} \union f[<<links[s], "left">>] \union f[<<links[s], "right">>]
          /\ g[s] = {links[s]} \union g[<<links[s], "left">>] \union g[<<links[s], "right">>]
      BY <1>1, <2>3
    <3>4. f[s] = g[s]
      BY <3>2, <3>3, Zenon
    <3> QED BY <3>4
  <2> QED BY <2>2, <2>3
<1> QED BY <1>2, <1>3

(* What Below says of the slots of a node. *)
LEMMA Unfolded ==
  ASSUME TypeOK, Shape, NEW s \in Slots
  PROVE  /\ child[s] = Null => Below[s] = {}
         /\ child[s] # Null =>
              /\ child[s] \in Vals /\ <<child[s], "left">> \in Slots /\ <<child[s], "right">> \in Slots
              /\ Below[s] = {child[s]} \union Below[<<child[s], "left">>] \union Below[<<child[s], "right">>]
<1>1. child[s] # Null => child[s] \in Vals
  BY DEF TypeOK
<1>2. Below[s] = IF child[s] = Null THEN {}
                 ELSE {child[s]} \union Below[<<child[s], "left">>] \union Below[<<child[s], "right">>]
  <2>1. Below = Unfold(child, Below)
    BY DEF Shape
  <2>2. Unfold(child, Below)[s] = IF child[s] = Null THEN {}
                 ELSE {child[s]} \union Below[<<child[s], "left">>] \union Below[<<child[s], "right">>]
    BY DEF Unfold
  <2> QED BY <2>1, <2>2
<1> QED BY <1>1, <1>2 DEF Slots

(* A slot of the subtree of a node is a slot of the node, or under one. *)
LEMMA UnderSplit ==
  ASSUME TypeOK, Shape, NEW s \in Slots, child[s] # Null, NEW r \in Slots, r # s
  PROVE  Under(r, s) <=> Under(r, <<child[s], "left">>) \/ Under(r, <<child[s], "right">>)
<1>1. child[s] # TheTree
  BY TreeAssumption DEF TypeOK
<1>2. r[1] = child[s] <=> r = <<child[s], "left">> \/ r = <<child[s], "right">>
  BY <1>1 DEF Slots, RootSlot
<1>3. Below[s] = {child[s]} \union Below[<<child[s], "left">>] \union Below[<<child[s], "right">>]
  BY Unfolded
<1> QED BY <1>2, <1>3 DEF Under

(* The slot of a node is in every subtree that holds the node. *)
LEMMA ParentUnder ==
  ASSUME TypeOK, Shape, NEW s \in Slots, child[s] # Null, NEW r \in Slots, child[s] \in Below[r]
  PROVE  Under(s, r)
<1> DEFINE S == {x \in Slots : child[s] \in Below[x] /\ ~ Under(s, x)}
<1>1. S = {}
  <2> SUFFICES ASSUME S # {} PROVE FALSE
    OBVIOUS
  <2>1. PICK x \in S : child[x] = Null \/ (<<child[x], "left">> \notin S /\ <<child[x], "right">> \notin S)
    BY DEF Shape, Founded
  <2>2. child[x] # Null /\ x # s
    BY Unfolded DEF Under
  <2>3. child[s] # child[x]
    BY <2>2 DEF Shape
  <2>4. /\ <<child[x], "left">> \in Slots /\ <<child[x], "right">> \in Slots
        /\ child[s] \in Below[<<child[x], "left">>] \union Below[<<child[x], "right">>]
    BY <2>2, <2>3, Unfolded
  <2>5. Under(s, <<child[x], "left">>) \/ Under(s, <<child[x], "right">>)
    BY <2>1, <2>2, <2>4
  <2> QED BY <2>2, <2>5, UnderSplit
<1> QED BY <1>1

(* A value whose path ends at an empty slot is nowhere in the tree. *)
LEMMA Absent ==
  ASSUME TypeOK, Shape, NEW s \in Slots, child[s] = Null, Under(s, RootSlot),
         NEW value \in Vals, OnPath(s, value)
  PROVE  value \notin Contents
<1> DEFINE S == {x \in Slots : Under(s, x) /\ value \in Below[x]}
<1>0. RootSlot \in Slots
  BY DEF Slots
<1>1. S = {}
  <2> SUFFICES ASSUME S # {} PROVE FALSE
    OBVIOUS
  <2>1. PICK x \in S : child[x] = Null \/ (<<child[x], "left">> \notin S /\ <<child[x], "right">> \notin S)
    BY DEF Shape, Founded
  <2>2. child[x] # Null /\ x # s
    BY Unfolded
  <2> DEFINE n == child[x]
  <2>3. /\ n \in Vals /\ <<n, "left">> \in Slots /\ <<n, "right">> \in Slots
        /\ value = n \/ value \in Below[<<n, "left">>] \/ value \in Below[<<n, "right">>]
    BY <2>2, Unfolded
  <2>4. Under(s, <<n, "left">>) \/ Under(s, <<n, "right">>)
    BY <2>2, UnderSplit
  <2>5. /\ value \in Below[<<n, "left">>] => value < n
        /\ value \in Below[<<n, "right">>] => value > n
    BY <2>2 DEF Shape, SearchOrder
  <2>6. Vals \subseteq Int /\ (Under(s, <<n, "left">>) => value < n) /\ (Under(s, <<n, "right">>) => value > n)
    BY <2>3, TreeAssumption DEF OnPath
  <2>7. Under(s, <<n, "left">>) => value \notin Below[<<n, "left">>]
    BY <2>1, <2>2, <2>3
  <2>8. Under(s, <<n, "right">>) => value \notin Below[<<n, "right">>]
    BY <2>1, <2>2, <2>3
  <2> HIDE DEF n
  <2> QED BY <2>3, <2>4, <2>5, <2>6, <2>7, <2>8
<1> QED BY <1>0, <1>1 DEF Contents

-----------------------------------------------------------------------------
(* A node is attached.                                                     *)

(* Attaching a missing value at the end of its path adds it to the         *)
(* subtrees the slot is in, and to no other.                               *)
LEMMA AttachShape ==
  ASSUME TypeOK, Shape, NEW slot \in Slots, child[slot] = Null, Under(slot, RootSlot),
         NEW value \in Vals, OnPath(slot, value), child' = [child EXCEPT ![slot] = value]
  PROVE  /\ Shape'
         /\ \A s \in Slots : Below'[s] = IF Under(slot, s) THEN Below[s] \union {value} ELSE Below[s]
         /\ value \notin Contents
<1> DEFINE vl == <<value, "left">>
           vr == <<value, "right">>
           G == [s \in Slots |-> IF Under(slot, s) THEN Below[s] \union {value} ELSE Below[s]]
<1>0. /\ RootSlot \in Slots /\ vl \in Slots /\ vr \in Slots /\ vl # RootSlot /\ vr # RootSlot
      /\ value # Null /\ value # TheTree
      /\ child \in [Slots -> Vals \union {Null}] /\ child' \in [Slots -> Vals \union {Null}]
  BY TreeAssumption DEF TypeOK, Slots, RootSlot
<1>1. value \notin Contents
  BY Absent
<1>2. \A s \in Slots : s = slot \/ child'[s] = child[s]
  BY <1>0
<1>3. child'[slot] = value
  BY <1>0
<1>4. \A s \in Slots : child[s] # value
  BY <1>0, <1>1 DEF Shape
<1>5. ~ Under(vl, RootSlot) /\ ~ Under(vr, RootSlot)
  BY <1>0, <1>1 DEF Under, Contents
<1>6. child[vl] = Null /\ child[vr] = Null /\ slot # vl /\ slot # vr
  BY <1>0, <1>5 DEF Shape
<1>7. Founded(child')
  <2> SUFFICES ASSUME NEW S \in SUBSET Slots, S # {}
               PROVE  \E s \in S : child'[s] = Null \/ (<<child'[s], "left">> \notin S /\ <<child'[s], "right">> \notin S)
    BY DEF Founded
  <2>1. CASE vl \in S
    BY <1>2, <1>6, <2>1
  <2>2. CASE vr \in S
    BY <1>2, <1>6, <2>2
  <2>3. CASE vl \notin S /\ vr \notin S
    <3>1. PICK s \in S : child[s] = Null \/ (<<child[s], "left">> \notin S /\ <<child[s], "right">> \notin S)
      BY DEF Shape, Founded
    <3> QED BY <1>2, <1>3, <2>3, <3>1
  <2> QED BY <2>1, <2>2, <2>3
<1>8. Below[vl] = {} /\ Below[vr] = {} /\ Below[slot] = {}
  BY <1>0, <1>6, Unfolded
<1>9. \A s \in Slots : G[s] = IF child'[s] = Null THEN {}
                              ELSE {child'[s]} \union G[<<child'[s], "left">>] \union G[<<child'[s], "right">>]
  <2> SUFFICES ASSUME NEW s \in Slots
               PROVE  G[s] = IF child'[s] = Null THEN {}
                             ELSE {child'[s]} \union G[<<child'[s], "left">>] \union G[<<child'[s], "right">>]
    OBVIOUS
  <2>1. \A r \in Slots : G[r] = IF Under(slot, r) THEN Below[r] \union {value} ELSE Below[r]
    OBVIOUS
  <2> HIDE DEF G
  <2>2. CASE s = slot
    <3>1. ~ Under(slot, vl) /\ ~ Under(slot, vr)
      BY <1>6, <1>8 DEF Under
    <3>2. G[vl] = {} /\ G[vr] = {} /\ G[slot] = {value}
      BY <1>0, <1>8, <2>1, <3>1 DEF Under
    <3> QED BY <1>0, <1>3, <2>2, <3>2
  <2>3. CASE s # slot /\ child[s] = Null
    <3>1. Below[s] = {}
      BY <2>3, Unfolded
    <3> QED BY <1>2, <2>1, <2>3, <3>1 DEF Under
  <2>4. CASE s # slot /\ child[s] # Null
    <3>1. /\ <<child[s], "left">> \in Slots /\ <<child[s], "right">> \in Slots /\ child'[s] = child[s]
          /\ Below[s] = {child[s]} \union Below[<<child[s], "left">>] \union Below[<<child[s], "right">>]
      BY <1>2, <2>4, Unfolded
    <3>2. Under(slot, s) <=> Under(slot, <<child[s], "left">>) \/ Under(slot, <<child[s], "right">>)
      BY <2>4, UnderSplit
    <3>3. /\ G[<<child[s], "left">>] = IF Under(slot, <<child[s], "left">>)
                                       THEN Below[<<child[s], "left">>] \union {value}
                                       ELSE Below[<<child[s], "left">>]
          /\ G[<<child[s], "right">>] = IF Under(slot, <<child[s], "right">>)
                                        THEN Below[<<child[s], "right">>] \union {value}
                                        ELSE Below[<<child[s], "right">>]
          /\ G[s] = IF Under(slot, s) THEN Below[s] \union {value} ELSE Below[s]
      BY <2>1, <3>1
    <3>4. G[s] = {child[s]} \union G[<<child[s], "left">>] \union G[<<child[s], "right">>]
      BY <3>1, <3>2, <3>3
    <3> QED BY <2>4, <3>1, <3>4
  <2> QED BY <2>2, <2>3, <2>4
<1>10. G = Unfold(child', G)
  BY <1>9 DEF Unfold
<1>11. Below' = Unfold(child', Below')
  <2> HIDE DEF G
  <2> QED BY <1>10, BelowSolves
<1>12. Below' = G
  <2> HIDE DEF G
  <2> QED BY <1>0, <1>7, <1>10, <1>11, OneSolution
<1>13. \A s \in Slots : Below'[s] = IF Under(slot, s) THEN Below[s] \union {value} ELSE Below[s]
  BY <1>12
<1> HIDE DEF G
<1>14. Contents' = Contents \union {value}
  BY <1>0, <1>13 DEF Contents
<1>15. \A s \in Slots : child'[s] # Null => Under(s, RootSlot)' /\ child'[s] \in Contents'
  <2> SUFFICES ASSUME NEW s \in Slots, child'[s] # Null PROVE Under(s, RootSlot)' /\ child'[s] \in Contents'
    OBVIOUS
  <2>1. Under(s, RootSlot) /\ (s = slot \/ child[s] \in Contents)
    BY <1>2 DEF Shape
  <2>2. Under(s, RootSlot)'
    BY <1>14, <2>1 DEF Under, Contents
  <2> QED BY <1>2, <1>3, <1>14, <2>1, <2>2
<1>16. \A s, r \in Slots : child'[s] # Null /\ child'[s] = child'[r] => s = r
  BY <1>2, <1>3, <1>4 DEF Shape
<1>17. SearchOrder'
  <2> SUFFICES ASSUME NEW n \in Contents'
               PROVE  /\ \A v \in Below'[<<n, "left">>] : v < n
                      /\ \A v \in Below'[<<n, "right">>] : v > n
    BY DEF SearchOrder
  <2>1. CASE n = value
    <3>1. ~ Under(slot, vl) /\ ~ Under(slot, vr)
      BY <1>6, <1>8 DEF Under
    <3> QED BY <1>0, <1>8, <1>13, <2>1, <3>1
  <2>2. CASE n \in Contents
    <3>1. n \in Vals
      <4> DEFINE S == {s \in Slots : n \in Below[s]}
      <4>1. PICK x \in S : child[x] = Null \/ (<<child[x], "left">> \notin S /\ <<child[x], "right">> \notin S)
        BY <1>0, <2>2 DEF Shape, Founded, Contents
      <4>2. n = child[x] /\ child[x] # Null
        BY <4>1, Unfolded
      <4> QED BY <4>2, Unfolded
    <3>2. <<n, "left">> \in Slots /\ <<n, "right">> \in Slots
      BY <3>1 DEF Slots
    <3>3. /\ \A v \in Below[<<n, "left">>] : v < n
          /\ \A v \in Below[<<n, "right">>] : v > n
      BY <2>2 DEF Shape, SearchOrder
    <3>4. /\ Under(slot, <<n, "left">>) => value < n
          /\ Under(slot, <<n, "right">>) => value > n
      BY <3>1 DEF OnPath
    <3> QED BY <1>13, <3>2, <3>3, <3>4
  <2> QED BY <1>14, <2>1, <2>2
<1> QED BY <1>1, <1>7, <1>11, <1>13, <1>15, <1>16, <1>17 DEF Shape

(* A slot of the tree keeps its place when a value is attached elsewhere. *)
LEMMA PathStays ==
  ASSUME NEW s \in Slots, Under(s, RootSlot), NEW value \in Vals, OnPath(s, value),
         NEW slot, NEW new \in Vals, new \notin Contents,
         \A r \in Slots : Below'[r] = IF Under(slot, r) THEN Below[r] \union {new} ELSE Below[r]
  PROVE  OnPath(s, value)' /\ Under(s, RootSlot)'
<1>1. new # TheTree /\ RootSlot \in Slots /\ RootSlot[1] = TheTree
  BY TreeAssumption DEF Slots, RootSlot
<1>2. s[1] # new
  BY <1>1 DEF Under, Contents
<1>3. \A r \in Slots : Under(s, r)' <=> Under(s, r)
  BY <1>2 DEF Under
<1>4. \A n \in Vals : <<n, "left">> \in Slots /\ <<n, "right">> \in Slots
  BY DEF Slots
<1>5. OnPath(s, value)'
  BY <1>3, <1>4 DEF OnPath
<1> QED BY <1>1, <1>3, <1>5

(* One comparison moves down the path of the value. *)
LEMMA PathDown ==
  ASSUME TypeOK, Shape, NEW s \in Slots, child[s] # Null, NEW value \in Vals, value # child[s],
         OnPath(s, value)
  PROVE  LET slot == <<child[s], Side(value, child[s])>>
         IN  slot \in Slots /\ Under(slot, RootSlot) /\ OnPath(slot, value)
<1> DEFINE n == child[s]
           slot == <<n, Side(value, n)>>
<1>1. n \in Vals /\ Vals \subseteq Int /\ n # TheTree
  BY TreeAssumption DEF TypeOK
<1>2. slot \in Slots /\ slot[1] = n /\ slot # RootSlot
  BY <1>1 DEF Slots, RootSlot, Side
<1>3. Under(slot, RootSlot)
  BY <1>2 DEF Shape, Under, Contents
<1>4. ASSUME NEW m \in Vals, Under(slot, <<m, "left">>) PROVE value < m
  <2>1. CASE slot = <<m, "left">>
    BY <1>1, <2>1 DEF Side
  <2>2. CASE n \in Below[<<m, "left">>]
    <3>1. Under(s, <<m, "left">>)
      BY <2>2, ParentUnder DEF Slots
    <3> QED BY <3>1 DEF OnPath
  <2> QED BY <1>2, <1>4, <2>1, <2>2 DEF Under
<1>5. ASSUME NEW m \in Vals, Under(slot, <<m, "right">>) PROVE value > m
  <2>1. CASE slot = <<m, "right">>
    BY <1>1, <2>1 DEF Side
  <2>2. CASE n \in Below[<<m, "right">>]
    <3>1. Under(s, <<m, "right">>)
      BY <2>2, ParentUnder DEF Slots
    <3> QED BY <3>1 DEF OnPath
  <2> QED BY <1>2, <1>5, <2>1, <2>2 DEF Under
<1> QED BY <1>2, <1>3, <1>4, <1>5 DEF OnPath

-----------------------------------------------------------------------------
(* The division of the work.                                               *)

(* divideWork cuts the array into consecutive slices. *)
LEMMA SlicesCut ==
  /\ SliceStart(0) = 0 /\ SliceStart(NThreads) = NNumbers
  /\ \A t \in Threads : /\ SliceSize(t) \in Nat /\ SliceStart(t) \in Nat
                        /\ SliceStart(t + 1) = SliceStart(t) + SliceSize(t)
                        /\ SliceStart(t) + SliceSize(t) <= NNumbers
<1>1. PICK q \in Nat, r \in 0 .. NThreads - 1 :
        q = NNumbers \div NThreads /\ r = NNumbers % NThreads /\ NNumbers = NThreads * q + r
  <2>1. /\ NNumbers % NThreads \in 0 .. NThreads - 1 /\ NNumbers \div NThreads \in Nat
        /\ NNumbers = NThreads * (NNumbers \div NThreads) + (NNumbers % NThreads)
    BY TreeAssumption
  <2> QED BY <2>1
<1>2. \A t : /\ SliceSize(t) = q + (IF t < r THEN 1 ELSE 0)
             /\ SliceStart(t) = t * q + (IF t < r THEN t ELSE r)
  BY <1>1 DEF SliceSize, SliceStart
<1>3. NThreads \in Nat \ {0} /\ NNumbers \in Nat
  BY TreeAssumption
<1>4. SliceStart(0) = 0
  BY <1>1, <1>2
<1>5. SliceStart(NThreads) = NNumbers
  <2>1. ~ (NThreads < r)
    BY <1>1, <1>3
  <2>2. SliceStart(NThreads) = NThreads * q + r
    BY <1>2, <2>1
  <2> QED BY <1>1, <2>2
<1>6. ASSUME NEW t \in Threads
      PROVE  /\ SliceSize(t) \in Nat /\ SliceStart(t) \in Nat
             /\ SliceStart(t + 1) = SliceStart(t) + SliceSize(t)
             /\ SliceStart(t) + SliceSize(t) <= NNumbers
  <2>1. t \in Nat /\ t + 1 <= NThreads
    BY <1>3 DEF Threads
  <2>2. (t + 1) * q = t * q + q /\ t * q \in Nat
    BY <2>1
  <2>3. SliceSize(t) \in Nat /\ SliceStart(t) \in Nat
    BY <1>2, <2>1, <2>2
  <2>4. SliceStart(t + 1) = SliceStart(t) + SliceSize(t)
    BY <1>2, <2>1, <2>2
  <2>5. (t + 1) * q <= NThreads * q
    <3>1. PICK d \in Nat : NThreads = t + 1 + d
      <4>1. NThreads - (t + 1) \in Nat /\ NThreads = t + 1 + (NThreads - (t + 1))
        BY <1>3, <2>1
      <4> QED BY <4>1
    <3>2. NThreads * q = (t + 1) * q + d * q /\ d * q \in Nat /\ (t + 1) * q \in Nat
      BY <2>1, <3>1
    <3> QED BY <3>2
  <2>6. SliceStart(t + 1) <= NNumbers
    <3>1. SliceStart(t + 1) <= (t + 1) * q + r
      BY <1>2, <2>1, <2>2
    <3>2. (t + 1) * q \in Nat /\ NThreads * q \in Nat /\ r \in Nat /\ SliceStart(t + 1) \in Nat
      BY <1>3, <2>1, <2>3, <2>4
    <3>3. (t + 1) * q + r <= NThreads * q + r
      BY <2>5, <3>2
    <3> QED BY <1>1, <3>1, <3>2, <3>3
  <2> QED BY <2>3, <2>4, <2>6
<1> QED BY <1>4, <1>5, <1>6

(* Every number of the array is in the slice of some thread. *)
LEMMA SlicesCover ==
  ASSUME NEW k \in 0 .. NNumbers - 1
  PROVE  \E t \in Threads : \E j \in 0 .. SliceSize(t) - 1 : k = SliceStart(t) + j
<1>0. NThreads \in Nat \ {0} /\ NNumbers \in Nat
  BY TreeAssumption
<1> DEFINE T == {n \in Nat : n <= NThreads /\ k < SliceStart(n)}
<1>1. NThreads \in T
  BY <1>0, SlicesCut
<1>2. PICK n \in T : \A m \in T : ~ (m < n)
  <2>1. T \subseteq Nat /\ T # {}
    BY <1>1
  <2>2. PICK n \in T : \A m \in T : ~ (<<m, n>> \in OpToRel(<, Nat))
    BY <2>1, NatLessThanWellFounded, WFMin, Zenon
  <2>3. \A m \in T : ~ (m < n)
    BY <2>1, <2>2 DEF OpToRel
  <2> QED BY <2>3
<1>3. n # 0
  BY SlicesCut
<1>4. n - 1 \in Threads /\ ~ (k < SliceStart(n - 1))
  <2>1. n - 1 \in Nat /\ n - 1 <= NThreads /\ n - 1 < n
    BY <1>0, <1>3
  <2>2. n - 1 \notin T
    BY <1>2, <2>1
  <2> QED BY <1>0, <2>1, <2>2 DEF Threads
<1>5. PICK t \in Threads : t = n - 1
  BY <1>4
<1>6. SliceStart(t) \in Nat /\ SliceSize(t) \in Nat /\ SliceStart(n) = SliceStart(t) + SliceSize(t) /\ k < SliceStart(n)
  <2>1. t + 1 = n
    BY <1>5
  <2> QED BY <2>1, SlicesCut
<1>7. k - SliceStart(t) \in 0 .. SliceSize(t) - 1 /\ k = SliceStart(t) + (k - SliceStart(t))
  BY <1>4, <1>5, <1>6
<1> QED BY <1>7

(* The number a thread inserts is one of the array. *)
LEMMA ValTyped ==
  ASSUME TypeOK, NEW t \in Threads, i[t] < SliceSize(t)
  PROVE  SliceStart(t) + i[t] \in 0 .. NNumbers - 1 /\ Val(t) \in Vals
<1>1. /\ i[t] \in Nat /\ SliceStart(t) \in Nat /\ SliceSize(t) \in Nat /\ NNumbers \in Nat
      /\ SliceStart(t) + SliceSize(t) <= NNumbers
  BY SlicesCut, TreeAssumption DEF TypeOK
<1>2. SliceStart(t) + i[t] \in 0 .. NNumbers - 1
  BY <1>1
<1> QED BY <1>2 DEF Val, TypeOK

-----------------------------------------------------------------------------
(* The invariant is kept.                                                  *)

(* A step moves one thread. *)
LEMMA OthersStay ==
  ASSUME TypeOK, NEW t \in Threads, Run(t)
  PROVE  /\ numbers' = numbers /\ joined' = joined
         /\ \A u \in Threads \ {t} : /\ pc'[u] = pc[u] /\ i'[u] = i[u] /\ curlock'[u] = curlock[u]
                                     /\ cursor'[u] = cursor[u] /\ next'[u] = next[u] /\ Val(u)' = Val(u)
         /\ ~ Unlock(t) => i' = i /\ Val(t)' = Val(t)
         /\ ~ Attach(t) => child' = child
<1>1. /\ numbers' = numbers /\ joined' = joined
      /\ \E x : pc' = [pc EXCEPT ![t] = x]
      /\ i' = i \/ \E x : i' = [i EXCEPT ![t] = x]
      /\ curlock' = curlock \/ \E x : curlock' = [curlock EXCEPT ![t] = x]
      /\ cursor' = cursor \/ \E x : cursor' = [cursor EXCEPT ![t] = x]
      /\ next' = next \/ \E x : next' = [next EXCEPT ![t] = x]
  BY DEF Run, Call, LockTree, TestRoot, FindEqual, Compare, LockNext, UnlockCur, Attach, Unlock, Goto, locals
<1>2. ASSUME NEW u \in Threads \ {t}
      PROVE  /\ pc'[u] = pc[u] /\ i'[u] = i[u] /\ curlock'[u] = curlock[u]
             /\ cursor'[u] = cursor[u] /\ next'[u] = next[u] /\ Val(u)' = Val(u)
  <2>1. /\ pc'[u] = pc[u] /\ i'[u] = i[u] /\ curlock'[u] = curlock[u]
        /\ cursor'[u] = cursor[u] /\ next'[u] = next[u]
    BY <1>1 DEF TypeOK
  <2> QED BY <1>1, <2>1 DEF Val
<1>3. ~ Unlock(t) => i' = i
  BY DEF Run, Call, LockTree, TestRoot, FindEqual, Compare, LockNext, UnlockCur, Attach, locals
<1>4. ~ Attach(t) => child' = child
  BY DEF Run, Call, LockTree, TestRoot, FindEqual, Compare, LockNext, UnlockCur, Unlock, locals
<1> QED BY <1>1, <1>2, <1>3, <1>4 DEF Val

(* Every step keeps the types. *)
LEMMA TypesKept ==
  ASSUME TreeInv, [Next]_vars PROVE TypeOK'
<1>0. TypeOK /\ TheTree \in Locks /\ RootSlot \in Slots /\ Vals \subseteq Locks
  BY DEF TreeInv, Locks, Slots
<1>1. CASE UNCHANGED vars
  BY <1>0, <1>1 DEF vars, locals, TypeOK
<1>2. CASE Join
  BY <1>0, <1>2 DEF Join, locals, TypeOK
<1>3. ASSUME NEW t \in Threads, Run(t) PROVE TypeOK'
  <2>1. CASE Call(t)
    BY <1>0, <2>1 DEF Call, Goto, locals, TypeOK
  <2>2. CASE LockTree(t)
    BY <1>0, <2>2 DEF LockTree, Goto, TypeOK
  <2>3. CASE TestRoot(t)
    BY <1>0, <2>3 DEF TestRoot, Goto, TypeOK
  <2>4. CASE FindEqual(t)
    BY <1>0, <2>4 DEF FindEqual, Goto, locals, TypeOK
  <2>5. CASE Compare(t)
    <3>1. child[cursor[t]] \in Vals
      BY <1>0, <2>5 DEF Compare, Goto, TreeInv, Place, TypeOK
    <3>2. <<child[cursor[t]], Side(Val(t), child[cursor[t]])>> \in Slots
      BY <3>1 DEF Slots, Side
    <3>3. next' \in [Threads -> Slots]
      BY <1>0, <2>5, <3>2 DEF Compare, TypeOK
    <3>4. pc' \in [Threads -> {"loop", "lockTree", "root", "compare", "lockNext", "unlockCur",
                               "attach", "unlock", "exit"}]
      BY <1>0, <2>5 DEF Compare, Goto, TypeOK
    <3> QED BY <1>0, <2>5, <3>3, <3>4 DEF Compare, TypeOK
  <2>6. CASE LockNext(t)
    <3>1. lock' \in [Locks -> Threads \union {Free}]
      BY <1>0, <2>6 DEF LockNext, TypeOK
    <3>2. pc' \in [Threads -> {"loop", "lockTree", "root", "compare", "lockNext", "unlockCur",
                               "attach", "unlock", "exit"}]
      BY <1>0, <2>6 DEF LockNext, Goto, TypeOK
    <3> QED BY <1>0, <2>6, <3>1, <3>2 DEF LockNext, locals, TypeOK
  <2>7. CASE UnlockCur(t)
    <3>1. child[next[t]] \in Vals /\ next[t] \in Slots
      BY <1>0, <2>7 DEF UnlockCur, Goto, TreeInv, Place, TypeOK
    <3>2. curlock' \in [Threads -> Locks] /\ cursor' \in [Threads -> Slots]
      BY <1>0, <2>7, <3>1 DEF UnlockCur, TypeOK
    <3>3. lock' \in [Locks -> Threads \union {Free}]
      BY <1>0, <2>7 DEF UnlockCur, TypeOK
    <3>4. pc' \in [Threads -> {"loop", "lockTree", "root", "compare", "lockNext", "unlockCur",
                               "attach", "unlock", "exit"}]
      BY <1>0, <2>7 DEF UnlockCur, Goto, TypeOK
    <3> QED BY <1>0, <2>7, <3>2, <3>3, <3>4 DEF UnlockCur, TypeOK
  <2>8. CASE Attach(t)
    <3>1. Val(t) \in Vals
      BY <1>0, <2>8, ValTyped DEF Attach, Goto, TreeInv, Place, Inserting
    <3>2. child' \in [Slots -> Vals \union {Null}]
      BY <1>0, <2>8, <3>1 DEF Attach, TypeOK
    <3> QED BY <1>0, <2>8, <3>2 DEF Attach, Goto, locals, TypeOK
  <2>9. CASE Unlock(t)
    <3>1. i' \in [Threads -> Nat]
      BY <1>0, <2>9 DEF Unlock, TypeOK
    <3> QED BY <1>0, <2>9, <3>1 DEF Unlock, Goto, locals, TypeOK
  <2> QED BY <1>3, <2>1, <2>2, <2>3, <2>4, <2>5, <2>6, <2>7, <2>8, <2>9 DEF Run
<1> QED BY <1>1, <1>2, <1>3 DEF Next

(* The step that attaches a node does so at the end of the value's path. *)
LEMMA AttachStep ==
  ASSUME TreeInv, NEW t \in Threads, Attach(t)
  PROVE  /\ Val(t) \in Vals /\ Val(t) \notin Contents /\ next[t] \in Slots
         /\ child' = [child EXCEPT ![next[t]] = Val(t)] /\ child[next[t]] = Null
         /\ Shape' /\ Contents' = Contents \union {Val(t)}
         /\ \A s \in Slots : Below'[s] = IF Under(next[t], s) THEN Below[s] \union {Val(t)} ELSE Below[s]
<1>1. TypeOK /\ Shape /\ next[t] \in Slots /\ RootSlot \in Slots
  BY DEF TreeInv, TypeOK, Slots
<1>2. /\ child[next[t]] = Null /\ Under(next[t], RootSlot) /\ OnPath(next[t], Val(t))
      /\ child' = [child EXCEPT ![next[t]] = Val(t)] /\ i[t] < SliceSize(t)
  BY DEF Attach, Goto, TreeInv, Place, Inserting
<1>3. Val(t) \in Vals
  BY <1>1, <1>2, ValTyped
<1>4. /\ Shape' /\ Val(t) \notin Contents
      /\ \A s \in Slots : Below'[s] = IF Under(next[t], s) THEN Below[s] \union {Val(t)} ELSE Below[s]
  BY <1>1, <1>2, <1>3, AttachShape
<1> QED BY <1>1, <1>2, <1>3, <1>4 DEF Contents

(* Every step keeps the tree a search tree. *)
LEMMA ShapeKept ==
  ASSUME TreeInv, [Next]_vars PROVE Shape' /\ Contents \subseteq Contents'
<1>1. CASE child' = child
  <2>1. Below' = Below
    BY <1>1 DEF Below
  <2>2. Contents' = Contents
    BY <2>1 DEF Contents
  <2>3. Shape => Shape'
    <3>1. Unfold(child', Below') = Unfold(child, Below) /\ (Founded(child') <=> Founded(child))
      BY <1>1, <2>1
    <3>2. \A s, r : Under(s, r)' <=> Under(s, r)
      BY <2>1 DEF Under
    <3>3. SearchOrder' <=> SearchOrder
      BY <2>1, <2>2 DEF SearchOrder
    <3> QED BY <1>1, <2>1, <2>2, <3>1, <3>2, <3>3 DEF Shape
  <2> QED BY <2>2, <2>3 DEF TreeInv
<1>2. ASSUME NEW t \in Threads, Attach(t) PROVE Shape' /\ Contents \subseteq Contents'
  BY <1>2, AttachStep
<1>3. child' = child \/ \E t \in Threads : Attach(t)
  BY OthersStay DEF Next, Join, vars, TreeInv
<1> QED BY <1>1, <1>2, <1>3

(* Two threads never stand at the end of one path: the mutex above the     *)
(* slot is theirs.                                                         *)
LEMMA SlotsApart ==
  ASSUME TreeInv, NEW t \in Threads, NEW u \in Threads, t # u, pc[t] = "attach", pc[u] = "attach"
  PROVE  next[t] # next[u]
<1>1. curlock[t] # curlock[u]
  <2>1. curlock[t] \in Owned(t) /\ curlock[u] \in Owned(u)
    BY DEF Owned
  <2>2. curlock[t] \in Locks /\ curlock[u] \in Locks
    BY DEF TreeInv, TypeOK
  <2>3. lock[curlock[t]] = t /\ lock[curlock[u]] = u
    BY <2>1, <2>2 DEF TreeInv, LockCoupling
  <2> QED BY <2>3
<1> SUFFICES ASSUME next[t] = next[u] PROVE FALSE
  OBVIOUS
<1>2. cursor[t] \in Slots /\ cursor[u] \in Slots /\ \A s \in Slots : child[s] # Null => child[s] # TheTree
  BY TreeAssumption DEF TreeInv, TypeOK
<1>3. next[t] = RootSlot => curlock[t] = TheTree /\ curlock[u] = TheTree
  <2>1. next[t] = RootSlot => next[t][1] = TheTree /\ next[u][1] = TheTree
    BY DEF RootSlot
  <2> QED BY <1>2, <2>1 DEF TreeInv, Place
<1>4. next[t] # RootSlot => cursor[t] = cursor[u]
  BY <1>2 DEF TreeInv, Place, Shape
<1>5. next[t] # RootSlot => curlock[t] = Guard(cursor[t]) /\ curlock[u] = Guard(cursor[u])
  BY DEF TreeInv, Place
<1> QED BY <1>1, <1>3, <1>4, <1>5

(* The mutex of the node above and that of the next node are not the same. *)
LEMMA TwoLocks ==
  ASSUME TreeInv, NEW t \in Threads, pc[t] \in {"lockNext", "unlockCur"}
  PROVE  /\ child[cursor[t]] \in Vals /\ child[next[t]] \in Vals /\ next[t] \in Slots /\ next[t] # RootSlot
         /\ child[next[t]] # curlock[t]
<1>1. /\ TypeOK /\ Shape /\ cursor[t] \in Slots /\ next[t] \in Slots
      /\ child[cursor[t]] # Null /\ child[next[t]] # Null /\ curlock[t] = Guard(cursor[t])
      /\ next[t] = <<child[cursor[t]], Side(Val(t), child[cursor[t]])>>
  BY DEF TreeInv, TypeOK, Place
<1>2. child[cursor[t]] \in Vals /\ child[next[t]] \in Vals /\ TheTree \notin Vals
  BY <1>1, TreeAssumption DEF TypeOK
<1>3. next[t] # RootSlot
  BY <1>1, <1>2 DEF RootSlot
<1>4. ASSUME child[next[t]] = child[cursor[t]] PROVE FALSE
  <2>1. next[t] = cursor[t]
    BY <1>1, <1>4 DEF Shape
  <2>2. child[cursor[t]] \in Contents /\ child[cursor[t]] \in Below[next[t]]
    BY <1>1, <2>1, Unfolded DEF Shape
  <2>3. child[cursor[t]] < child[cursor[t]] \/ child[cursor[t]] > child[cursor[t]]
    BY <1>1, <2>2 DEF Shape, SearchOrder, Side
  <2>4. child[cursor[t]] \in Int
    BY <1>2, TreeAssumption
  <2>5. \A n \in Int : ~ (n < n) /\ ~ (n > n)
    OBVIOUS
  <2> QED BY <2>3, <2>4, <2>5
<1> QED BY <1>1, <1>2, <1>3, <1>4 DEF Guard

(* Every step keeps the mutexes with the threads that stand below them. *)
LEMMA CouplingKept ==
  ASSUME TreeInv, [Next]_vars PROVE LockCoupling'
<1>0. TypeOK /\ LockCoupling /\ TheTree \in Locks /\ Vals \subseteq Locks /\ (\A u \in Threads : u # Free)
  BY TreeAssumption DEF TreeInv, Locks
<1>1. CASE UNCHANGED vars
  BY <1>0, <1>1 DEF vars, locals, LockCoupling, Owned
<1>2. CASE Join
  BY <1>0, <1>2 DEF Join, locals, LockCoupling, Owned
<1>3. ASSUME NEW t \in Threads, Run(t) PROVE LockCoupling'
  <2>0. /\ \A u \in Threads \ {t} : pc'[u] = pc[u] /\ curlock'[u] = curlock[u] /\ next'[u] = next[u]
        /\ pc' \in [Threads -> {"loop", "lockTree", "root", "compare", "lockNext", "unlockCur",
                                "attach", "unlock", "exit"}]
    BY <1>0, <1>3, OthersStay, TypesKept DEF Next, TypeOK
  <2>1. ASSUME NEW u \in Threads \ {t} PROVE Owned(u)' = Owned(u)
    <3>1. pc[u] = "unlockCur" => child'[next[u]] = child[next[u]]
      <4>1. CASE Attach(t)
        BY <1>0, <4>1, AttachStep DEF TreeInv, Place, TypeOK
      <4>2. CASE ~ Attach(t)
        BY <1>0, <1>3, <4>2, OthersStay
      <4> QED BY <4>1, <4>2
    <3> QED BY <2>0, <3>1 DEF Owned
  <2>2. CASE Call(t)
    <3>1. Owned(t)' = Owned(t) /\ lock' = lock
      BY <1>0, <2>2 DEF Call, Goto, TypeOK, Owned
    <3> QED BY <1>0, <2>1, <3>1 DEF LockCoupling
  <2>3. CASE LockTree(t)
    <3>1. /\ Owned(t) = {} /\ Owned(t)' = {TheTree} /\ lock[TheTree] = Free
          /\ \A l \in Locks : lock'[l] = IF l = TheTree THEN t ELSE lock[l]
      BY <1>0, <2>3 DEF LockTree, Goto, TypeOK, Owned
    <3> QED BY <1>0, <2>1, <3>1 DEF LockCoupling
  <2>4. CASE TestRoot(t) \/ FindEqual(t) \/ Compare(t) \/ Attach(t)
    <3>1. pc[t] \in {"root", "compare", "attach"} /\ pc'[t] \in {"attach", "compare", "unlock", "lockNext"}
          /\ curlock' = curlock /\ lock' = lock
      BY <1>0, <2>4 DEF TestRoot, FindEqual, Compare, Attach, Goto, TypeOK, locals
    <3>2. Owned(t)' = Owned(t)
      BY <3>1 DEF Owned
    <3> QED BY <1>0, <2>1, <3>1, <3>2 DEF LockCoupling
  <2>5. CASE LockNext(t)
    <3>1. pc[t] = "lockNext" /\ pc'[t] = "unlockCur" /\ UNCHANGED <<child, curlock, next>>
      BY <1>0, <2>5 DEF LockNext, Goto, TypeOK, locals
    <3>2. child[next[t]] \in Vals
      BY <3>1, TwoLocks
    <3>3. /\ Owned(t) = {curlock[t]} /\ Owned(t)' = {curlock[t], child[next[t]]} /\ lock[child[next[t]]] = Free
          /\ \A l \in Locks : lock'[l] = IF l = child[next[t]] THEN t ELSE lock[l]
      BY <1>0, <2>5, <3>1, <3>2 DEF LockNext, TypeOK, Owned
    <3> QED BY <1>0, <2>1, <3>3 DEF LockCoupling
  <2>6. CASE UnlockCur(t)
    <3>1. pc[t] = "unlockCur" /\ pc'[t] = "compare" /\ UNCHANGED <<child, next>> /\ curlock'[t] = child[next[t]]
      BY <1>0, <2>6 DEF UnlockCur, Goto, TypeOK
    <3>2. child[next[t]] # curlock[t]
      BY <3>1, TwoLocks
    <3>3. /\ Owned(t) = {curlock[t], child[next[t]]} /\ Owned(t)' = {child[next[t]]}
          /\ \A l \in Locks : lock'[l] = IF l = curlock[t] THEN Free ELSE lock[l]
      BY <1>0, <2>6, <3>1 DEF UnlockCur, TypeOK, Owned
    <3>4. curlock[t] \in Locks /\ lock[curlock[t]] = t
      BY <1>0, <3>3 DEF LockCoupling, TypeOK
    <3> QED BY <1>0, <2>1, <3>2, <3>3, <3>4 DEF LockCoupling
  <2>7. CASE Unlock(t)
    <3>1. pc[t] = "unlock" /\ pc'[t] = "loop"
      BY <1>0, <2>7 DEF Unlock, Goto, TypeOK
    <3>2. /\ Owned(t) = {curlock[t]} /\ Owned(t)' = {}
          /\ \A l \in Locks : lock'[l] = IF l = curlock[t] THEN Free ELSE lock[l]
      BY <1>0, <2>7, <3>1 DEF Unlock, TypeOK, Owned
    <3>3. curlock[t] \in Locks /\ lock[curlock[t]] = t
      BY <1>0, <3>2 DEF LockCoupling, TypeOK
    <3> QED BY <1>0, <2>1, <3>2, <3>3 DEF LockCoupling
  <2> QED BY <1>3, <2>2, <2>3, <2>4, <2>5, <2>6, <2>7 DEF Run
<1> QED BY <1>1, <1>2, <1>3 DEF Next

(* A thread that does not step keeps its place, whatever is attached. *)
LEMMA PlaceOfOthers ==
  ASSUME TreeInv, NEW t \in Threads, Run(t), NEW u \in Threads \ {t} PROVE Place(u)'
<1>0. /\ numbers' = numbers /\ pc'[u] = pc[u] /\ i'[u] = i[u] /\ curlock'[u] = curlock[u]
      /\ cursor'[u] = cursor[u] /\ next'[u] = next[u] /\ Val(u)' = Val(u)
      /\ TypeOK /\ Shape /\ Place(u) /\ next[u] \in Slots /\ cursor[u] \in Slots
  BY OthersStay DEF TreeInv, TypeOK
<1>1. CASE child' = child
  <2>1. Below' = Below
    BY <1>1 DEF Below
  <2>2. \A s, v : (OnPath(s, v)' <=> OnPath(s, v)) /\ (Under(s, RootSlot)' <=> Under(s, RootSlot))
    BY <2>1 DEF OnPath, Under
  <2>3. Contents' = Contents /\ \A s : Guard(s)' = Guard(s)
    BY <1>1, <2>1 DEF Contents, Guard
  <2> QED BY <1>0, <1>1, <2>2, <2>3 DEF Place
<1>2. CASE Attach(t)
  <2>1. /\ Val(t) \in Vals /\ Val(t) \notin Contents /\ child' = [child EXCEPT ![next[t]] = Val(t)]
        /\ child[next[t]] = Null /\ Contents' = Contents \union {Val(t)}
        /\ \A s \in Slots : Below'[s] = IF Under(next[t], s) THEN Below[s] \union {Val(t)} ELSE Below[s]
    BY <1>2, AttachStep
  <2>2. \A s \in Slots : child[s] # Null => child'[s] = child[s]
    BY <1>0, <2>1 DEF TypeOK
  <2>3. pc[u] \in Inserting => Val(u) \in Vals
    BY <1>0, ValTyped DEF Place
  <2>4. ASSUME NEW s \in Slots, pc[u] \in Inserting, Under(s, RootSlot), OnPath(s, Val(u))
        PROVE  OnPath(s, Val(u)') /\ OnPath(s, Val(u))' /\ Under(s, RootSlot)'
    <3>1. PICK value \in Vals : value = Val(u)
      BY <2>3, <2>4
    <3>2. PICK new \in Vals : new = Val(t)
      BY <2>1
    <3>3. PICK slot : slot = next[t]
      OBVIOUS
    <3>4. \A r \in Slots : Below'[r] = IF Under(slot, r) THEN Below[r] \union {new} ELSE Below[r]
      BY <2>1, <3>2, <3>3
    <3>5. OnPath(s, value)' /\ Under(s, RootSlot)'
      BY <2>1, <2>4, <3>1, <3>2, <3>4, PathStays
    <3> QED BY <1>0, <2>4, <3>1, <3>5
  <2>5. child[cursor[u]] # Null => Guard(cursor[u])' = Guard(cursor[u]) /\ Under(cursor[u], RootSlot)
    BY <1>0, <2>2 DEF Guard, Shape
  <2>6. child[next[u]] # Null => Under(next[u], RootSlot)
    BY <1>0 DEF Shape
  <2>7. pc[u] = "attach" => child'[next[u]] = Null
    <3> SUFFICES ASSUME pc[u] = "attach" PROVE child'[next[u]] = Null
      OBVIOUS
    <3>1. pc[t] = "attach"
      BY <1>2 DEF Attach, Goto
    <3>2. next[t] # next[u]
      BY <3>1, SlotsApart
    <3> QED BY <1>0, <2>1, <3>2 DEF Place, TypeOK
  <2>8. pc[u] \in {"compare", "lockNext", "unlockCur"} => OnPath(cursor[u], Val(u))'
    BY <1>0, <2>4, <2>5 DEF Place, Inserting
  <2>9. pc[u] \in {"lockNext", "unlockCur"} => OnPath(next[u], Val(u))'
    BY <1>0, <2>4, <2>6 DEF Place, Inserting
  <2>10. pc[u] = "attach" => OnPath(next[u], Val(u))' /\ Under(next[u], RootSlot)'
    BY <1>0, <2>4 DEF Place, Inserting
  <2>11. /\ pc[u] \in Inserting => i[u] < SliceSize(u)
         /\ pc[u] = "exit" => i[u] >= SliceSize(u)
         /\ pc[u] = "root" => curlock[u] = TheTree /\ cursor[u] = RootSlot
         /\ pc[u] = "unlock" => Val(u)' \in Contents'
    BY <1>0, <2>1 DEF Place
  <2>12. pc[u] \in {"compare", "lockNext", "unlockCur"} =>
           child'[cursor[u]] # Null /\ child'[cursor[u]] = child[cursor[u]] /\ curlock[u] = Guard(cursor[u])'
    BY <1>0, <2>2, <2>5 DEF Place
  <2>13. pc[u] \in {"lockNext", "unlockCur"} =>
           /\ next[u] = <<child[cursor[u]], Side(Val(u), child[cursor[u]])>>
           /\ child'[next[u]] # Null
    BY <1>0, <2>2 DEF Place
  <2>14. pc[u] = "attach" =>
           \/ next[u] = RootSlot /\ curlock[u] = TheTree
           \/ /\ child'[cursor[u]] # Null /\ next[u][1] = child'[cursor[u]]
              /\ curlock[u] = Guard(cursor[u])'
    BY <1>0, <2>2, <2>5 DEF Place
  <2> QED BY <1>0, <2>7, <2>8, <2>9, <2>10, <2>11, <2>12, <2>13, <2>14 DEF Place
<1> QED BY <1>0, <1>1, <1>2, OthersStay

(* A thread that steps comes to its next place. *)
LEMMA PlaceOfMine ==
  ASSUME TreeInv, NEW t \in Threads, Run(t) PROVE Place(t)'
<1>0. /\ TypeOK /\ Shape /\ Place(t) /\ next[t] \in Slots /\ cursor[t] \in Slots
      /\ numbers' = numbers /\ i[t] \in Nat /\ SliceSize(t) \in Nat
      /\ RootSlot \in Slots
      /\ pc' \in [Threads -> {"loop", "lockTree", "root", "compare", "lockNext", "unlockCur",
                              "attach", "unlock", "exit"}]
  BY OthersStay, TypesKept, SlicesCut DEF TreeInv, TypeOK, Next, Slots
<1>1. pc[t] \in Inserting => Val(t) \in Vals /\ i[t] < SliceSize(t)
  BY <1>0, ValTyped DEF Place
<1>2. ~ Attach(t) =>
        /\ child' = child /\ Contents' = Contents
        /\ \A s, v : (OnPath(s, v)' <=> OnPath(s, v)) /\ (Under(s, RootSlot)' <=> Under(s, RootSlot))
        /\ \A s : Guard(s)' = Guard(s)
  <2> SUFFICES ASSUME child' = child
               PROVE  /\ Contents' = Contents
                      /\ \A s, v : (OnPath(s, v)' <=> OnPath(s, v)) /\ (Under(s, RootSlot)' <=> Under(s, RootSlot))
                      /\ \A s : Guard(s)' = Guard(s)
    BY <1>0, OthersStay
  <2>1. Below' = Below
    BY DEF Below
  <2> QED BY <2>1 DEF OnPath, Under, Contents, Guard
<1>3. ~ Unlock(t) => i' = i /\ Val(t)' = Val(t)
  BY <1>0, OthersStay
<1>4. \A v : OnPath(RootSlot, v) /\ Under(RootSlot, RootSlot)
  <2>1. \A n \in Vals : ~ Under(RootSlot, <<n, "left">>) /\ ~ Under(RootSlot, <<n, "right">>)
    <3> SUFFICES ASSUME NEW n \in Vals, NEW side \in {"left", "right"} PROVE ~ Under(RootSlot, <<n, side>>)
      OBVIOUS
    <3>1. TheTree \notin Vals /\ <<n, side>> \in Slots /\ RootSlot # <<n, side>>
      BY TreeAssumption DEF Slots, RootSlot
    <3>2. TheTree \notin Below[<<n, side>>]
      <4> DEFINE S == {s \in Slots : TheTree \in Below[s]}
      <4>1. S = {}
        <5> SUFFICES ASSUME S # {} PROVE FALSE
          OBVIOUS
        <5>1. PICK x \in S : child[x] = Null \/ (<<child[x], "left">> \notin S /\ <<child[x], "right">> \notin S)
          BY <1>0 DEF Shape, Founded
        <5> QED BY <1>0, <3>1, <5>1, Unfolded
      <4> QED BY <3>1, <4>1
    <3> QED BY <3>1, <3>2 DEF Under, RootSlot
  <2> QED BY <2>1 DEF OnPath, Under
<1>5. CASE Call(t)
  <2>1. i' = i /\ pc[t] = "loop" /\ pc'[t] = IF i[t] < SliceSize(t) THEN "lockTree" ELSE "exit"
    BY <1>0, <1>5 DEF Call, Goto, TypeOK
  <2> QED BY <1>0, <2>1 DEF Place, Inserting
<1>6. CASE LockTree(t)
  <2>1. i' = i /\ pc[t] = "lockTree" /\ pc'[t] = "root" /\ curlock'[t] = TheTree /\ cursor'[t] = RootSlot
    BY <1>0, <1>6 DEF LockTree, Goto, TypeOK
  <2> QED BY <1>0, <1>1, <2>1 DEF Place, Inserting
<1>7. CASE TestRoot(t)
  <2>1. /\ i' = i /\ pc[t] = "root" /\ pc'[t] = IF child[RootSlot] = Null THEN "attach" ELSE "compare"
        /\ next'[t] = RootSlot /\ UNCHANGED <<curlock, cursor>> /\ ~ Attach(t)
    BY <1>0, <1>7 DEF TestRoot, Attach, Goto, TypeOK
  <2>2. curlock[t] = TheTree /\ cursor[t] = RootSlot /\ Guard(RootSlot) = TheTree
    BY <1>0, <2>1 DEF Place, Guard
  <2> QED BY <1>0, <1>1, <1>2, <1>4, <2>1, <2>2 DEF Place, Inserting
<1>8. CASE FindEqual(t)
  <2>1. /\ i' = i /\ pc[t] = "compare" /\ pc'[t] = "unlock" /\ child[cursor[t]] = Val(t) /\ ~ Attach(t) /\ ~ Unlock(t)
    BY <1>0, <1>8 DEF FindEqual, Attach, Unlock, Goto, TypeOK
  <2>2. Val(t) \in Contents
    BY <1>0, <2>1 DEF Place, Shape
  <2> QED BY <1>0, <1>1, <1>2, <1>3, <2>1, <2>2 DEF Place, Inserting
<1>9. CASE Compare(t)
  <2> DEFINE slot == <<child[cursor[t]], Side(Val(t), child[cursor[t]])>>
  <2>1. /\ i' = i /\ pc[t] = "compare" /\ pc'[t] = IF child[slot] = Null THEN "attach" ELSE "lockNext"
        /\ next'[t] = slot /\ UNCHANGED <<curlock, cursor>> /\ child[cursor[t]] # Val(t)
        /\ ~ Attach(t) /\ ~ Unlock(t)
    BY <1>0, <1>9 DEF Compare, Attach, Unlock, Goto, TypeOK
  <2>2. /\ child[cursor[t]] # Null /\ curlock[t] = Guard(cursor[t]) /\ OnPath(cursor[t], Val(t))
        /\ Val(t) \in Vals /\ i[t] < SliceSize(t)
    BY <1>0, <1>1, <2>1 DEF Place, Inserting
  <2>3. slot \in Slots /\ Under(slot, RootSlot) /\ OnPath(slot, Val(t))
    BY <1>0, <2>1, <2>2, PathDown
  <2>4. slot[1] = child[cursor[t]]
    OBVIOUS
  <2>5. /\ OnPath(next[t], Val(t))' /\ OnPath(cursor[t], Val(t))' /\ Under(next[t], RootSlot)'
        /\ curlock'[t] = Guard(cursor[t])' /\ child' = child /\ Val(t)' = Val(t)
    <3>1. PICK s : s = slot
      OBVIOUS
    <3>2. PICK c : c = cursor[t]
      OBVIOUS
    <3>3. PICK v : v = Val(t)
      OBVIOUS
    <3>4. Val(t)' = v /\ cursor'[t] = c /\ next'[t] = s /\ child' = child
      BY <1>2, <1>3, <2>1, <3>1, <3>2, <3>3
    <3>5. OnPath(s, v)' /\ OnPath(c, v)' /\ Under(s, RootSlot)' /\ Guard(c)' = Guard(c)
      BY <1>2, <2>1, <2>2, <2>3, <3>1, <3>2, <3>3
    <3>6. curlock'[t] = Guard(c)
      BY <2>1, <2>2, <3>2
    <3> QED BY <3>3, <3>4, <3>5, <3>6
  <2>6. next'[t] = <<child'[cursor'[t]], Side(Val(t)', child'[cursor'[t]])>>
    BY <2>1, <2>5
  <2>7. next'[t][1] = child'[cursor'[t]] /\ child'[cursor'[t]] # Null /\ i'[t] < SliceSize(t)
    BY <2>1, <2>2, <2>5, <2>6
  <2>8. child'[next'[t]] = Null <=> pc'[t] = "attach"
    BY <1>0, <2>1, <2>5
  <2>9. pc'[t] \in {"attach", "lockNext"}
    BY <1>0, <2>1
  <2> HIDE DEF slot
  <2> QED BY <2>5, <2>6, <2>7, <2>8, <2>9 DEF Place, Inserting
<1>10. CASE LockNext(t)
  <2>1. /\ i' = i /\ pc[t] = "lockNext" /\ pc'[t] = "unlockCur" /\ UNCHANGED <<curlock, cursor, next>>
        /\ ~ Attach(t) /\ ~ Unlock(t)
    BY <1>0, <1>10 DEF LockNext, Attach, Unlock, Goto, TypeOK, locals
  <2> QED BY <1>0, <1>1, <1>2, <1>3, <2>1 DEF Place, Inserting
<1>11. CASE UnlockCur(t)
  <2>1. /\ i' = i /\ pc[t] = "unlockCur" /\ pc'[t] = "compare"
        /\ curlock'[t] = child[next[t]] /\ cursor'[t] = next[t]
        /\ ~ Attach(t) /\ ~ Unlock(t)
    BY <1>0, <1>11 DEF UnlockCur, Attach, Unlock, Goto, TypeOK
  <2>2. child[next[t]] # Null /\ OnPath(next[t], Val(t)) /\ Guard(next[t]) = child[next[t]]
    BY <1>0, <2>1, TwoLocks DEF Place, Guard
  <2> QED BY <1>0, <1>1, <1>2, <1>3, <2>1, <2>2 DEF Place, Inserting
<1>12. CASE Attach(t)
  <2>1. pc[t] = "attach" /\ pc'[t] = "unlock" /\ ~ Unlock(t)
    BY <1>0, <1>12 DEF Attach, Unlock, Goto, TypeOK
  <2>2. Contents' = Contents \union {Val(t)}
    BY <1>12, AttachStep
  <2> QED BY <1>0, <1>1, <1>3, <2>1, <2>2 DEF Place, Inserting
<1>13. CASE Unlock(t)
  <2>1. pc'[t] = "loop"
    BY <1>0, <1>13 DEF Unlock, Goto, TypeOK
  <2> QED BY <2>1 DEF Place, Inserting
<1> QED BY <1>5, <1>6, <1>7, <1>8, <1>9, <1>10, <1>11, <1>12, <1>13 DEF Run

(* Every step keeps every thread in place. *)
LEMMA PlaceKept ==
  ASSUME TreeInv, [Next]_vars PROVE \A u \in Threads : Place(u)'
<1>1. CASE child' = child /\ numbers' = numbers /\ pc' = pc /\ i' = i /\ locals' = locals
  <2>1. Below' = Below
    BY <1>1 DEF Below
  <2>2. \A s, v : (OnPath(s, v)' <=> OnPath(s, v)) /\ (Under(s, RootSlot)' <=> Under(s, RootSlot))
    BY <2>1 DEF OnPath, Under
  <2>3. Contents' = Contents /\ \A s : Guard(s)' = Guard(s)
    BY <1>1, <2>1 DEF Contents, Guard
  <2>4. \A u : Val(u)' = Val(u) /\ curlock' = curlock /\ cursor' = cursor /\ next' = next
    BY <1>1 DEF Val, locals
  <2>5. ASSUME NEW u \in Threads PROVE Place(u)'
    <3>1. Place(u)
      BY DEF TreeInv
    <3> QED BY <1>1, <2>2, <2>3, <2>4, <3>1 DEF Place
  <2> QED BY <2>5
<1>2. ASSUME NEW t \in Threads, Run(t) PROVE \A u \in Threads : Place(u)'
  BY <1>2, PlaceOfMine, PlaceOfOthers
<1>3. CASE UNCHANGED vars
  BY <1>1, <1>3 DEF vars
<1>4. CASE Join
  BY <1>1, <1>4 DEF Join
<1> QED BY <1>2, <1>3, <1>4 DEF Next

(* Every step keeps in the tree what was inserted, and nothing else. *)
LEMMA HoldsKept ==
  ASSUME TreeInv, [Next]_vars PROVE Holds'
<1>0. TypeOK /\ Holds /\ Contents \subseteq Contents' /\ (\A t \in Threads : Place(t))
  BY ShapeKept DEF TreeInv
<1>1. CASE UNCHANGED vars \/ Join
  <2>1. /\ child' = child /\ numbers' = numbers /\ pc' = pc /\ i' = i
        /\ joined' => joined \/ \A t \in Threads : pc[t] = "exit"
    BY <1>1 DEF vars, Join
  <2>2. Below' = Below
    BY <2>1 DEF Below
  <2> QED BY <1>0, <2>1, <2>2 DEF Holds, Contents
<1>2. ASSUME NEW t \in Threads, Run(t) PROVE Holds'
  <2>1. numbers' = numbers /\ joined' = joined /\ \A u \in Threads \ {t} : i'[u] = i[u] /\ pc'[u] = pc[u]
    BY <1>0, <1>2, OthersStay
  <2>2. Contents' \subseteq {numbers[k] : k \in 0 .. NNumbers - 1}
    <3>1. CASE Attach(t)
      <4>1. Contents' = Contents \union {Val(t)}
        BY <3>1, AttachStep
      <4>2. SliceStart(t) + i[t] \in 0 .. NNumbers - 1
        BY <1>0, <3>1, ValTyped DEF Attach, Goto, Place, Inserting
      <4> QED BY <1>0, <4>1, <4>2 DEF Holds, Val
    <3>2. CASE ~ Attach(t)
      <4>1. Below' = Below
        BY <1>0, <1>2, <3>2, OthersStay DEF Below
      <4> QED BY <1>0, <4>1 DEF Holds, Contents
    <3> QED BY <3>1, <3>2
  <2>3. ASSUME NEW u \in Threads, NEW j \in 0 .. i'[u] - 1 PROVE numbers[SliceStart(u) + j] \in Contents'
    <3>1. CASE i'[u] = i[u]
      BY <1>0, <2>3, <3>1 DEF Holds
    <3>2. CASE i'[u] # i[u]
      <4>1. u = t /\ Unlock(t)
        BY <1>0, <1>2, <2>1, <3>2, OthersStay
      <4>2. i'[t] = i[t] + 1 /\ i[t] \in Nat /\ Val(t) \in Contents
        BY <1>0, <4>1 DEF Unlock, Goto, Place, TypeOK
      <4>3. j \in 0 .. i[t] - 1 \/ j = i[t]
        BY <2>3, <4>1, <4>2
      <4> QED BY <1>0, <4>1, <4>2, <4>3 DEF Holds, Val
    <3> QED BY <3>1, <3>2
  <2>4. ~ joined
    BY <1>0, <1>2 DEF Holds, Run, Call, LockTree, TestRoot, FindEqual, Compare, LockNext, UnlockCur,
      Attach, Unlock, Goto
  <2> QED BY <2>1, <2>2, <2>3, <2>4 DEF Holds
<1> QED BY <1>1, <1>2 DEF Next

(* The empty tree has its shape. *)
LEMMA EmptyShape ==
  ASSUME child = [s \in Slots |-> Null] PROVE Shape /\ Contents = {}
<1> DEFINE f == [s \in Slots |-> {}]
<1>0. RootSlot \in Slots
  BY DEF Slots
<1>1. f = Unfold(child, f)
  BY DEF Unfold
<1> HIDE DEF f
<1>2. Below = Unfold(child, Below)
  BY <1>1, BelowSolves
<1>3. \A s \in Slots : Below[s] = {}
  BY <1>2 DEF Unfold
<1>4. Contents = {}
  BY <1>0, <1>3 DEF Contents
<1>5. Founded(child)
  BY DEF Founded
<1> QED BY <1>2, <1>4, <1>5 DEF Shape, SearchOrder

(* The initial states satisfy the invariant. *)
LEMMA InitInv ==
  ASSUME Init PROVE TreeInv
<1>1. TypeOK
  BY DEF Init, TypeOK, Slots, Locks
<1>2. Shape /\ Contents = {}
  BY EmptyShape DEF Init
<1>3. LockCoupling
  BY TreeAssumption DEF Init, LockCoupling, Owned
<1>4. ASSUME NEW t \in Threads PROVE Place(t)
  BY DEF Init, Place, Inserting
<1>5. Holds
  BY <1>2 DEF Init, Holds
<1> QED BY <1>1, <1>2, <1>3, <1>4, <1>5 DEF TreeInv

-----------------------------------------------------------------------------
(* The theorems.                                                           *)

(* The slots form a search tree, each thread holds the mutex above the     *)
(* slots it works on, and the value it inserts belongs below the slot      *)
(* where it stands (insertIntoTree).                                       *)
THEOREM Invariance == Spec => []TreeInv
<1>1. Init => TreeInv
  BY InitInv
<1>2. TreeInv /\ [Next]_vars => TreeInv'
  BY TypesKept, ShapeKept, CouplingKept, PlaceKept, HoldsKept DEF TreeInv
<1> QED BY <1>1, <1>2, PTL DEF Spec

(* The tree is a search tree at every moment, under locks held hand over   *)
(* hand, and complete when main prints it.                                 *)
THEOREM WellFormed == Spec => []TreeWellFormed
<1>1. TreeInv => TreeWellFormed
  <2> SUFFICES ASSUME TreeInv PROVE TreeWellFormed
    OBVIOUS
  <2>1. ASSUME joined, NEW k \in 0 .. NNumbers - 1 PROVE numbers[k] \in Contents
    <3>1. PICK t \in Threads : \E j \in 0 .. SliceSize(t) - 1 : k = SliceStart(t) + j
      BY SlicesCover
    <3>2. i[t] \in Nat /\ SliceSize(t) \in Nat /\ i[t] >= SliceSize(t)
      BY <2>1, SlicesCut DEF TreeInv, Holds, Place, TypeOK
    <3>3. PICK j \in 0 .. i[t] - 1 : k = SliceStart(t) + j
      BY <3>1, <3>2
    <3> QED BY <3>3 DEF TreeInv, Holds
  <2>2. AllInserted
    BY <2>1 DEF TreeInv, Holds, AllInserted
  <2> QED BY <2>2 DEF TreeInv, Shape, TreeWellFormed
<1> QED BY <1>1, Invariance, PTL

(* Two insertions never write the same slot: a link that was set stays, so *)
(* no subtree is ever lost.                                                *)
THEOREM LinksKept == Spec => LinksStay
<1>1. TreeInv /\ [Next]_vars => [\A s \in Slots : child[s] # Null => child'[s] = child[s]]_vars
  <2> SUFFICES ASSUME TreeInv, Next, NEW s \in Slots, child[s] # Null PROVE child'[s] = child[s]
    OBVIOUS
  <2>1. ASSUME NEW t \in Threads, Attach(t) PROVE child'[s] = child[s]
    BY <2>1, AttachStep DEF TreeInv, TypeOK
  <2>2. child' = child \/ \E t \in Threads : Attach(t)
    BY OthersStay DEF Next, Join, TreeInv
  <2> QED BY <2>1, <2>2
<1> QED BY <1>1, Invariance, PTL DEF Spec, LinksStay

(* The tree implements an atomic set: an insertion takes effect when the   *)
(* node is linked, or when an equal value is met.                          *)
THEOREM SetImplemented == Spec => ImplementsSet
<1> DEFINE op(t) == <<"add", Val(t)>>
           pending == [t \in Threads |-> IF pc[t] \in {"loop", "unlock", "exit"} THEN Null ELSE op(t)]
<1>1. Init => Abstract!Init
  BY EmptyShape DEF Init, Abstract!Init
<1>2. TreeInv /\ [Next]_vars => [Abstract!Next]_<<Contents, pending>>
  <2> SUFFICES ASSUME TreeInv, [Next]_vars PROVE [Abstract!Next]_<<Contents, pending>>
    OBVIOUS
  <2>0. TypeOK /\ Shape /\ \A t \in Threads : Place(t)
    BY DEF TreeInv
  <2>1. CASE UNCHANGED vars \/ Join
    <3>1. child' = child /\ pc' = pc /\ \A u : Val(u)' = Val(u)
      BY <2>1 DEF vars, Join, Val
    <3>2. Below' = Below
      BY <3>1 DEF Below
    <3> QED BY <3>1, <3>2 DEF Contents
  <2>2. ASSUME NEW t \in Threads, Run(t) PROVE [Abstract!Next]_<<Contents, pending>>
    <3>1. /\ \A u \in Threads \ {t} : pc'[u] = pc[u] /\ Val(u)' = Val(u)
          /\ ~ Unlock(t) => Val(t)' = Val(t)
      BY <2>0, <2>2, OthersStay
    <3>2. ~ Attach(t) => Contents' = Contents
      <4>1. ~ Attach(t) => Below' = Below
        BY <2>0, <2>2, OthersStay DEF Below
      <4> QED BY <4>1 DEF Contents
    <3>3. pc[t] \in Inserting => Val(t) \in Vals
      BY <2>0, ValTyped DEF Place
    <3>4. CASE Call(t) /\ pc'[t] = "lockTree"
      <4>1. pc[t] = "loop" /\ i[t] < SliceSize(t) /\ ~ Attach(t) /\ ~ Unlock(t)
        BY <2>0, <3>4 DEF Call, Attach, Unlock, Goto, TypeOK
      <4>2. pending' = [pending EXCEPT ![t] = op(t)] /\ pending[t] = Null
        BY <3>1, <3>4, <4>1
      <4>3. op(t) \in Abstract!Operation
        BY <2>0, <4>1, ValTyped DEF Abstract!Operation
      <4>4. PICK operation \in Abstract!Operation : operation = op(t)
        BY <4>3
      <4>5. Abstract!Call(t, operation)
        BY <3>2, <4>1, <4>2, <4>4 DEF Abstract!Call
      <4> QED BY <4>5 DEF Abstract!Next
    <3>5. CASE FindEqual(t) \/ Attach(t)
      <4>1. pc[t] \in {"compare", "attach"} /\ pc'[t] = "unlock"
        BY <2>0, <3>5 DEF FindEqual, Attach, Goto, TypeOK
      <4>2. pending[t] = op(t) /\ pending' = [pending EXCEPT ![t] = Null]
        BY <3>1, <4>1
      <4>3. op(t) \in Abstract!Operation
        BY <3>3, <4>1 DEF Abstract!Operation, Inserting
      <4>4. Contents' = Contents \union {Val(t)}
        <5>1. CASE Attach(t)
          BY <5>1, AttachStep
        <5>2. CASE ~ Attach(t)
          <6>1. pc[t] = "compare" /\ child[cursor[t]] = Val(t) /\ cursor[t] \in Slots
            BY <2>0, <3>5, <5>2 DEF FindEqual, Goto, TypeOK
          <6>2. Val(t) \in Contents
            BY <2>0, <6>1 DEF Place, Shape
          <6> QED BY <3>2, <5>2, <6>2
        <5> QED BY <5>1, <5>2
      <4>5. Contents' = IF pending[t][1] = "add" THEN Contents \union {pending[t][2]}
                        ELSE Contents \ {pending[t][2]}
        BY <4>2, <4>4
      <4>6. Abstract!Effect(t)
        BY <4>2, <4>3, <4>5 DEF Abstract!Effect
      <4> QED BY <4>6 DEF Abstract!Next
    <3>6. CASE \/ Call(t) /\ pc'[t] # "lockTree"
               \/ LockTree(t) \/ TestRoot(t) \/ Compare(t) \/ LockNext(t) \/ UnlockCur(t) \/ Unlock(t)
      <4>1. /\ ~ Attach(t) /\ (pc'[t] \in {"loop", "unlock", "exit"} <=> pc[t] \in {"loop", "unlock", "exit"})
            /\ (pc[t] \notin {"loop", "unlock", "exit"} => ~ Unlock(t))
        BY <2>0, <3>6 DEF Call, LockTree, TestRoot, Compare, LockNext, UnlockCur, Unlock, Attach, Goto, TypeOK
      <4>2. pending' = pending
        BY <3>1, <4>1
      <4> QED BY <3>2, <4>1, <4>2
    <3> QED BY <2>2, <3>4, <3>5, <3>6 DEF Run
  <2> QED BY <2>1, <2>2 DEF Next
<1> QED BY <1>1, <1>2, Invariance, PTL DEF Spec, ImplementsSet, Abstract!Spec
=============================================================================
