--------------------------- MODULE SqlServerProofs ---------------------------
(***************************************************************************)
(* Proofs about SqlServer, for any number of clients and servers, any      *)
(* sessions and any answers.                                               *)
(***************************************************************************)
EXTENDS SqlServer, SequenceTheorems, WellFoundedInduction, TLAPS

-----------------------------------------------------------------------------
(* The operators on sequences.                                             *)

\* A set of numbers that is not empty has a least element.
LEMMA Least ==
  ASSUME NEW T \in SUBSET Nat, T # {}
  PROVE  \E n \in T : \A m \in T : n <= m
<1>1. PICK n \in T : \A m \in T : ~ (<<m, n>> \in OpToRel(<, Nat))
  BY NatLessThanWellFounded, WFMin, Zenon
<1>2. \A m \in T : ~ (m < n)
  BY <1>1 DEF OpToRel
<1> QED BY <1>2

\* The recursive function inside FlattenSeq, on the first n sequences.
Joins(f, ss, n) == f = [k \in 1 .. n |-> IF k = 1 THEN ss[k] ELSE f[k - 1] \o ss[k]]

LEMMA JoinsExist ==
  ASSUME NEW S, NEW ss \in Seq(Seq(S)), NEW n \in 0 .. Len(ss)
  PROVE  \E f : Joins(f, ss, n) /\ \A k \in 1 .. n : f[k] \in Seq(S)
<1> DEFINE Has(m) == \E f : Joins(f, ss, m) /\ \A k \in 1 .. m : f[k] \in Seq(S)
           T == {m \in Nat : m <= Len(ss) /\ ~Has(m)}
<1>1. SUFFICES ASSUME T # {} PROVE FALSE
  <2>1. T = {} => Has(n)
    OBVIOUS
  <2> QED BY <2>1
<1>2. PICK m \in T : \A l \in T : m <= l
  <2>1. T \in SUBSET Nat
    OBVIOUS
  <2> HIDE DEF T
  <2> QED BY <1>1, <2>1, Least
<1>3. m \in Nat /\ m <= Len(ss) /\ ~Has(m)
  BY <1>2
<1>4. m # 0
  <2>1. Joins([k \in 1 .. 0 |-> <<>>], ss, 0)
    BY DEF Joins
  <2>2. Has(0)
    BY <2>1
  <2> QED BY <1>3, <2>2
<1>5. PICK l \in Nat : m = l + 1
  <2>1. m - 1 \in Nat /\ m = (m - 1) + 1
    BY <1>3, <1>4
  <2> QED BY <2>1
<1>6. Has(l)
  <2>1. l <= Len(ss) /\ ~ (m <= l)
    BY <1>3, <1>5
  <2>2. l \notin T
    BY <1>2, <2>1
  <2> HIDE DEF Has
  <2> QED BY <2>1, <2>2
<1>7. PICK f : Joins(f, ss, l) /\ \A k \in 1 .. l : f[k] \in Seq(S)
  BY <1>6
<1> DEFINE g == [k \in 1 .. m |-> IF k = m THEN (IF m = 1 THEN ss[m] ELSE f[l] \o ss[m]) ELSE f[k]]
<1>8. \A k \in 1 .. l : f[k] = IF k = 1 THEN ss[k] ELSE f[k - 1] \o ss[k]
  BY <1>7 DEF Joins
<1>9. \A k \in 1 .. m : g[k] = IF k = 1 THEN ss[k] ELSE g[k - 1] \o ss[k]
  <2> TAKE k \in 1 .. m
  <2>1. CASE k = m /\ m = 1
    BY <2>1
  <2>2. CASE k = m /\ m # 1
    <3>1. l \in 1 .. m /\ l # m /\ k - 1 = l
      BY <1>5, <2>2
    <3>2. g[l] = f[l]
      BY <3>1
    <3> QED BY <2>2, <3>1, <3>2
  <2>3. CASE k # m
    <3>1. k \in 1 .. l /\ (k # 1 => k - 1 \in 1 .. m /\ k - 1 # m)
      BY <1>3, <1>5, <2>3
    <3>2. g[k] = f[k] /\ (k # 1 => g[k - 1] = f[k - 1])
      BY <2>3, <3>1
    <3> QED BY <1>8, <3>1, <3>2
  <2> QED BY <2>1, <2>2, <2>3
<1>10. \A k \in 1 .. m : g[k] \in Seq(S)
  <2> TAKE k \in 1 .. m
  <2>1. ss[m] \in Seq(S)
    BY <1>3, <1>4
  <2>2. m # 1 => f[l] \in Seq(S)
    BY <1>3, <1>5, <1>7
  <2>3. m # 1 => f[l] \o ss[m] \in Seq(S)
    BY <2>1, <2>2, ConcatProperties
  <2>4. k # m => f[k] \in Seq(S)
    BY <1>3, <1>5, <1>7
  <2> QED BY <2>1, <2>3, <2>4
<1>11. Joins(g, ss, m)
  <2> HIDE DEF g
  <2>1. g = [k \in 1 .. m |-> g[k]]
    BY DEF g
  <2> QED BY <1>9, <2>1 DEF Joins
<1>12. Has(m)
  BY <1>10, <1>11
<1> QED BY <1>3, <1>12

LEMMA JoinsUnique ==
  ASSUME NEW ss, NEW n \in Nat, NEW f, NEW g, Joins(f, ss, n), Joins(g, ss, n)
  PROVE  \A k \in 1 .. n : f[k] = g[k]
<1> DEFINE T == {k \in 1 .. n : f[k] # g[k]}
<1>1. SUFFICES ASSUME T # {} PROVE FALSE
  OBVIOUS
<1>2. PICK k \in T : \A j \in T : k <= j
  <2>1. T \in SUBSET Nat
    OBVIOUS
  <2> HIDE DEF T
  <2> QED BY <1>1, <2>1, Least
<1>3. k \in 1 .. n /\ f[k] # g[k]
  BY <1>2
<1>4. /\ f[k] = IF k = 1 THEN ss[k] ELSE f[k - 1] \o ss[k]
      /\ g[k] = IF k = 1 THEN ss[k] ELSE g[k - 1] \o ss[k]
  BY <1>3 DEF Joins
<1>5. k # 1 => f[k - 1] = g[k - 1]
  BY <1>2, <1>3
<1> QED BY <1>3, <1>4, <1>5

LEMMA FlattenIs ==
  ASSUME NEW S, NEW ss \in Seq(Seq(S)), Len(ss) # 0, NEW f, Joins(f, ss, Len(ss))
  PROVE  FlattenSeq(ss) = f[Len(ss)] /\ f[Len(ss)] \in Seq(S)
<1> DEFINE n == Len(ss)
           g == CHOOSE h : h = [k \in 1 .. n |-> IF k = 1 THEN ss[k] ELSE h[k - 1] \o ss[k]]
<1>0. n \in Nat /\ n # 0 /\ n \in 1 .. n /\ n \in 0 .. n
  OBVIOUS
<1>1. FlattenSeq(ss) = g[n]
  BY DEF FlattenSeq
<1>2. PICK h : Joins(h, ss, n) /\ \A k \in 1 .. n : h[k] \in Seq(S)
  BY <1>0, JoinsExist
<1>3. Joins(g, ss, n)
  BY <1>2 DEF Joins
<1> HIDE DEF g
<1>4. g[n] = h[n] /\ f[n] = h[n]
  <2>1. Joins(f, ss, n)
    OBVIOUS
  <2> HIDE DEF n
  <2>2. \A k \in 1 .. n : g[k] = h[k]
    BY <1>0, <1>2, <1>3, JoinsUnique
  <2>3. \A k \in 1 .. n : f[k] = h[k]
    BY <1>0, <1>2, <2>1, JoinsUnique
  <2> QED BY <1>0, <2>2, <2>3
<1> QED BY <1>0, <1>1, <1>2, <1>4

LEMMA FlattenEmpty == FlattenSeq(<<>>) = <<>>
BY DEF FlattenSeq

LEMMA FlattenAppend ==
  ASSUME NEW S, NEW ss \in Seq(Seq(S)), NEW s \in Seq(S)
  PROVE  FlattenSeq(Append(ss, s)) = FlattenSeq(ss) \o s /\ FlattenSeq(ss) \in Seq(S)
<1> DEFINE n == Len(ss)
           tt == Append(ss, s)
<1>1. /\ tt \in Seq(Seq(S)) /\ Len(tt) = n + 1 /\ n \in Nat
      /\ \A k \in 1 .. n : tt[k] = ss[k] 
      /\ tt[n + 1] = s
  BY AppendProperties
<1>2. PICK g : Joins(g, tt, n + 1)
  <2>1. n + 1 \in 0 .. Len(tt)
    BY <1>1
  <2> HIDE DEF tt
  <2> QED BY <1>1, <2>1, JoinsExist
<1>3. FlattenSeq(tt) = g[n + 1]
  <2> HIDE DEF tt
  <2> QED BY <1>1, <1>2, FlattenIs
<1>4. g[n + 1] = IF n = 0 THEN s ELSE g[n] \o s
  <2>1. n + 1 \in 1 .. n + 1 /\ (n + 1) - 1 = n /\ (n + 1 = 1 <=> n = 0)
    BY <1>1
  <2>2. g[n + 1] = IF n + 1 = 1 THEN tt[n + 1] ELSE g[(n + 1) - 1] \o tt[n + 1]
    BY <1>2, <2>1 DEF Joins
  <2> QED BY <1>1, <2>1, <2>2
<1>5. CASE n = 0
  <2>1. ss = <<>>
    BY <1>5, EmptySeq
  <2>2. FlattenSeq(ss) = <<>>
    BY <2>1, FlattenEmpty
  <2>3. <<>> \o s = s
    BY ConcatEmptySeq
  <2> QED BY <1>3, <1>4, <1>5, <2>2, <2>3
<1>6. CASE n # 0
  <2>1. PICK f : Joins(f, ss, n)
    <3>1. n \in 0 .. Len(ss)
      BY <1>1
    <3> QED BY <3>1, JoinsExist
  <2>2. FlattenSeq(ss) = f[n] /\ f[n] \in Seq(S)
    BY <1>6, <2>1, FlattenIs
  <2> DEFINE h == [k \in 1 .. n |-> g[k]]
  <2>3. Joins(h, ss, n)
    <3>1. \A k \in 1 .. n : /\ k \in 1 .. n + 1 /\ (k # 1 => k - 1 \in 1 .. n)
                            /\ g[k] = IF k = 1 THEN tt[k] ELSE g[k - 1] \o tt[k]
      <4> TAKE k \in 1 .. n
      <4>1. k \in 1 .. n + 1 /\ (k # 1 => k - 1 \in 1 .. n)
        BY <1>1
      <4> HIDE DEF n, tt
      <4>2. g[k] = IF k = 1 THEN tt[k] ELSE g[k - 1] \o tt[k]
        BY <1>2, <4>1 DEF Joins
      <4> QED BY <4>1, <4>2
    <3>2. \A k \in 1 .. n : h[k] = IF k = 1 THEN ss[k] ELSE h[k - 1] \o ss[k]
      BY <1>1, <3>1
    <3>3. h = [k \in 1 .. n |-> h[k]]
      OBVIOUS
    <3> HIDE DEF h, n
    <3> QED BY <3>2, <3>3 DEF Joins
  <2>4. f[n] = g[n]
    <3>1. \A k \in 1 .. n : f[k] = h[k]
      <4> HIDE DEF h, n
      <4> QED BY <1>1, <2>1, <2>3, JoinsUnique
    <3> QED BY <1>1, <1>6, <3>1
  <2> QED BY <1>3, <1>4, <1>6, <2>2, <2>4
<1> QED BY <1>5, <1>6

\* Three sequences are joined in either order.
LEMMA Associative ==
  ASSUME NEW S, NEW s, NEW t, NEW u, s \in Seq(S) /\ t \in Seq(S) /\ u \in Seq(S)
  PROVE  (s \o t) \o u = s \o (t \o u)
<1>1. PICK a \in Seq(S), b \in Seq(S), c \in Seq(S) : a = s /\ b = t /\ c = u
  OBVIOUS
<1>2. (a \o b) \o c = a \o (b \o c)
  BY SMTT(40)
<1> QED BY <1>1, <1>2

LEMMA FlattenConcat ==
  ASSUME NEW S, NEW ss \in Seq(Seq(S)), NEW tt \in Seq(Seq(S))
  PROVE  FlattenSeq(ss \o tt) = FlattenSeq(ss) \o FlattenSeq(tt)
<1> DEFINE First(n) == SubSeq(tt, 1, n)
           Good(n) == FlattenSeq(ss \o First(n)) = FlattenSeq(ss) \o FlattenSeq(First(n))
           T == {n \in Nat : n <= Len(tt) /\ ~Good(n)}
<1>0. FlattenSeq(ss) \in Seq(S)
  <2>1. <<>> \in Seq(S)
    OBVIOUS
  <2> QED BY <2>1, FlattenAppend
<1>1. T = {}
  <2>1. SUFFICES ASSUME T # {} PROVE FALSE
    OBVIOUS
  <2>2. PICK n \in T : \A m \in T : n <= m
    <3>1. T \in SUBSET Nat
      OBVIOUS
    <3> HIDE DEF T
    <3> QED BY <2>1, <3>1, Least
  <2>3. n \in Nat /\ n <= Len(tt) /\ ~Good(n)
    BY <2>2
  <2>4. n # 0
    <3>1. First(0) = <<>>
      BY SubSeqEmpty
    <3>2. ss \o <<>> = ss /\ FlattenSeq(ss) \o <<>> = FlattenSeq(ss)
      BY <1>0, ConcatEmptySeq
    <3>3. Good(0)
      BY <3>1, <3>2, FlattenEmpty
    <3> QED BY <2>3, <3>3
  <2>5. PICK m \in Nat : n = m + 1
    <3>1. n - 1 \in Nat /\ n = (n - 1) + 1
      BY <2>3, <2>4
    <3> QED BY <3>1
  <2>6. Good(m)
    BY <2>2, <2>3, <2>5
  <2>7. tt[n] \in Seq(S) /\ First(m) \in Seq(Seq(S)) /\ First(n) = Append(First(m), tt[n])
    <3>1. n \in 1 .. Len(tt) /\ 1 \in 1 .. Len(tt) /\ n \in 1 .. Len(tt) /\ n - 1 = m
      BY <2>3, <2>4, <2>5
    <3>2. SubSeq(tt, 1, n) = SubSeq(tt, 1, n - 1) \o <<tt[n]>>
      BY <3>1, SubSeqRecursiveSecond
    <3>3. tt[n] \in Seq(S)
      BY <3>1
    <3>4. First(m) \in Seq(Seq(S))
      BY <3>1, <2>5, SubSeqProperties
    <3> QED BY <3>1, <3>2, <3>3, <3>4, AppendIsConcat
  <2> DEFINE a == First(m)
             x == tt[n]
  <2>8. ss \o Append(a, x) = Append(ss \o a, x) /\ ss \o a \in Seq(Seq(S))
    <3>1. a \in Seq(Seq(S)) /\ x \in Seq(S) /\ <<x>> \in Seq(Seq(S))
      BY <2>7
    <3>2. ss \o a \in Seq(Seq(S))
      BY <3>1, ConcatProperties
    <3> HIDE DEF a, x
    <3>3. Append(a, x) = a \o <<x>> /\ Append(ss \o a, x) = (ss \o a) \o <<x>>
      BY <3>1, <3>2, AppendIsConcat
    <3> QED BY <3>1, <3>2, <3>3, ConcatAssociative
  <2>9. a \in Seq(Seq(S)) /\ x \in Seq(S) /\ First(n) = Append(a, x) /\ FlattenSeq(ss \o a) = FlattenSeq(ss) \o FlattenSeq(a)
    BY <2>6, <2>7
  <2>10. Good(n)
    <3> HIDE DEF a, x
    <3>1. FlattenSeq(Append(ss \o a, x)) = FlattenSeq(ss \o a) \o x
      BY <2>8, <2>9, FlattenAppend
    <3>2. FlattenSeq(Append(a, x)) = FlattenSeq(a) \o x /\ FlattenSeq(a) \in Seq(S)
      BY <2>9, FlattenAppend
    <3>3. (FlattenSeq(ss) \o FlattenSeq(a)) \o x = FlattenSeq(ss) \o (FlattenSeq(a) \o x)
      <4>1. FlattenSeq(ss) \in Seq(S) /\ FlattenSeq(a) \in Seq(S) /\ x \in Seq(S)
        BY <1>0, <2>9, <3>2
      <4> QED BY <4>1, Associative, SMTT(40)
    <3> QED BY <2>8, <2>9, <3>1, <3>2, <3>3
  <2> QED BY <2>3, <2>10
<1>2. Good(Len(tt))
  <2>1. Len(tt) \in Nat /\ Len(tt) <= Len(tt)
    OBVIOUS
  <2> QED BY <1>1, <2>1
<1>3. First(Len(tt)) = tt
  BY SubSeqFull
<1> QED BY <1>2, <1>3

LEMMA AnswersAre ==
  ASSUME NEW a \in Seq(Lines), NEW b \in Seq(Lines), NEW l \in Lines
  PROVE  /\ Answers(<<>>) = <<>> /\ Answers(a) \in Seq(Lines) /\ Answer(l) \in Seq(Lines)
         /\ Answers(a \o b) = Answers(a) \o Answers(b)
         /\ Answers(Append(a, l)) = Answers(a) \o Answer(l)
<1> DEFINE Each(s) == [k \in DOMAIN s |-> Answer(s[k])]
<1>1. \A x \in Lines : Answer(x) \in Seq(Lines)
  <2> TAKE x \in Lines
  <2>1. Size[x] \in Nat
    BY SqlAssumption DEF Lines
  <2> QED BY <2>1, IsASeq DEF Answer
<1>2. \A s \in Seq(Lines) : Each(s) \in Seq(Seq(Lines)) /\ Len(Each(s)) = Len(s) /\ \A k \in 1 .. Len(s) : Each(s)[k] = Answer(s[k])
  <2> TAKE s \in Seq(Lines)
  <2>1. Len(s) \in Nat /\ DOMAIN s = 1 .. Len(s) /\ \A k \in 1 .. Len(s) : s[k] \in Lines
    OBVIOUS
  <2>2. Each(s) = [k \in 1 .. Len(s) |-> Answer(s[k])] /\ \A k \in 1 .. Len(s) : Answer(s[k]) \in Seq(Lines)
    BY <1>1, <2>1
  <2> HIDE DEF Each
  <2> QED BY <2>1, <2>2, IsASeq
<1>3. \A s \in Seq(Lines) : Answers(s) = FlattenSeq(Each(s))
  BY DEF Answers
<1>4. Answers(<<>>) = <<>>
  <2>1. Each(<<>>) = <<>>
    OBVIOUS
  <2>2. <<>> \in Seq(Lines)
    OBVIOUS
  <2> HIDE DEF Each
  <2> QED BY <1>3, <2>1, <2>2, FlattenEmpty
<1>5. Answers(a) \in Seq(Lines)
  <2>1. <<>> \in Seq(Lines)
    OBVIOUS
  <2> HIDE DEF Each
  <2> QED BY <1>2, <1>3, <2>1, FlattenAppend
<1>6. Each(a \o b) = Each(a) \o Each(b)
  <2>1. a \o b \in Seq(Lines) /\ Len(a \o b) = Len(a) + Len(b)
        /\ \A k \in 1 .. Len(a) + Len(b) : (a \o b)[k] = IF k <= Len(a) THEN a[k] ELSE b[k - Len(a)]
    BY ConcatProperties
  <2>2. /\ Each(a) \o Each(b) \in Seq(Seq(Lines)) /\ Len(Each(a) \o Each(b)) = Len(a) + Len(b)
        /\ \A k \in 1 .. Len(a) + Len(b) :
             (Each(a) \o Each(b))[k] = IF k <= Len(a) THEN Each(a)[k] ELSE Each(b)[k - Len(a)]
    <3>1. Each(a) \in Seq(Seq(Lines)) /\ Each(b) \in Seq(Seq(Lines)) /\ Len(Each(a)) = Len(a) /\ Len(Each(b)) = Len(b)
      BY <1>2
    <3> HIDE DEF Each
    <3>2. PICK x \in Seq(Seq(Lines)), y \in Seq(Seq(Lines)) : x = Each(a) /\ y = Each(b)
      BY <3>1
    <3>3. /\ x \o y \in Seq(Seq(Lines)) /\ Len(x \o y) = Len(x) + Len(y)
          /\ \A k \in 1 .. Len(x) + Len(y) : (x \o y)[k] = IF k <= Len(x) THEN x[k] ELSE y[k - Len(x)]
      BY ConcatProperties
    <3> QED BY <3>1, <3>2, <3>3
  <2>3. \A k \in 1 .. Len(a) + Len(b) : Each(a \o b)[k] = (Each(a) \o Each(b))[k]
    <3> TAKE k \in 1 .. Len(a) + Len(b)
    <3>0. Len(a) \in Nat /\ Len(b) \in Nat
      OBVIOUS
    <3> HIDE DEF Each
    <3>1. Each(a \o b)[k] = Answer((a \o b)[k])
      BY <1>2, <2>1
    <3>2. CASE k <= Len(a)
      <4>1. k \in 1 .. Len(a)
        BY <3>0, <3>2
      <4> QED BY <1>2, <2>1, <2>2, <3>1, <3>2, <4>1
    <3>3. CASE ~ (k <= Len(a))
      <4>1. k - Len(a) \in 1 .. Len(b)
        BY <3>0, <3>3
      <4> QED BY <1>2, <2>1, <2>2, <3>1, <3>3, <4>1
    <3> QED BY <3>2, <3>3
  <2>4. Each(a \o b) \in Seq(Seq(Lines)) /\ Len(Each(a \o b)) = Len(a) + Len(b)
    BY <1>2, <2>1
  <2> HIDE DEF Each
  <2> QED BY <2>2, <2>3, <2>4, SeqEqual
<1>7. \A s, t \in Seq(Lines) : Each(s \o t) = Each(s) \o Each(t) => Answers(s \o t) = Answers(s) \o Answers(t)
  <2> TAKE s, t \in Seq(Lines)
  <2>1. s \o t \in Seq(Lines)
    BY ConcatProperties
  <2>2. Each(s) \in Seq(Seq(Lines)) /\ Each(t) \in Seq(Seq(Lines))
    BY <1>2
  <2>3. Answers(s) = FlattenSeq(Each(s)) /\ Answers(t) = FlattenSeq(Each(t)) /\ Answers(s \o t) = FlattenSeq(Each(s \o t))
    BY <1>3, <2>1
  <2> HIDE DEF Each
  <2>4. FlattenSeq(Each(s) \o Each(t)) = FlattenSeq(Each(s)) \o FlattenSeq(Each(t))
    BY <2>2, FlattenConcat
  <2> QED BY <2>3, <2>4
<1>8. Each(Append(a, l)) = Append(Each(a), Answer(l))
  <2>1. /\ Append(a, l) \in Seq(Lines) /\ Len(Append(a, l)) = Len(a) + 1
        /\ \A k \in 1 .. Len(a) : Append(a, l)[k] = a[k]
        /\ Append(a, l)[Len(a) + 1] = l
    BY AppendProperties
  <2>2. Each(Append(a, l)) \in Seq(Seq(Lines)) /\ Len(Each(Append(a, l))) = Len(a) + 1
        /\ \A k \in 1 .. Len(a) + 1 : Each(Append(a, l))[k] = Answer(Append(a, l)[k])
    <3> HIDE DEF Each
    <3> QED BY <1>2, <2>1
  <2>3. /\ Append(Each(a), Answer(l)) \in Seq(Seq(Lines)) /\ Len(Append(Each(a), Answer(l))) = Len(a) + 1
        /\ \A k \in 1 .. Len(a) : Append(Each(a), Answer(l))[k] = Each(a)[k]
        /\ Append(Each(a), Answer(l))[Len(a) + 1] = Answer(l)
    <3>1. Each(a) \in Seq(Seq(Lines)) /\ Answer(l) \in Seq(Lines) /\ Len(Each(a)) = Len(a)
      BY <1>1, <1>2
    <3> HIDE DEF Each
    <3> QED BY <3>1, AppendProperties
  <2>4. \A k \in 1 .. Len(a) + 1 : Each(Append(a, l))[k] = Append(Each(a), Answer(l))[k]
    <3> TAKE k \in 1 .. Len(a) + 1
    <3>1. k \in 1 .. Len(a) \/ k = Len(a) + 1
      OBVIOUS
    <3>2. \A j \in 1 .. Len(a) : Each(a)[j] = Answer(a[j])
      BY <1>2
    <3> HIDE DEF Each
    <3> QED BY <2>1, <2>2, <2>3, <3>1, <3>2
  <2> HIDE DEF Each
  <2> QED BY <2>2, <2>3, <2>4, SeqEqual
<1>9. Answers(Append(a, l)) = Answers(a) \o Answer(l)
  <2>1. Append(a, l) \in Seq(Lines) /\ Each(a) \in Seq(Seq(Lines)) /\ Answer(l) \in Seq(Lines)
    BY <1>1, <1>2, AppendProperties
  <2> HIDE DEF Each
  <2> QED BY <1>3, <1>8, <2>1, FlattenAppend
<1> QED BY <1>1, <1>4, <1>5, <1>6, <1>7, <1>9

\* The first n lines are those before the first .exit.
Cut(lines, n) ==
  /\ n \in 0 .. Len(lines) /\ \A k \in 1 .. n : lines[k] # Quit
  /\ n < Len(lines) => lines[n + 1] = Quit

LEMMA UntilExitIs ==
  ASSUME NEW lines \in Seq(Lines), NEW n, Cut(lines, n)
  PROVE  UntilExit(lines) = SubSeq(lines, 1, n)
<1> DEFINE T == {k \in DOMAIN lines : lines[k] = Quit} \union {Len(lines) + 1}
<1>0. Len(lines) \in Nat /\ DOMAIN lines = 1 .. Len(lines) /\ n \in Nat /\ n <= Len(lines)
  BY DEF Cut
<1>1. n + 1 \in T
  BY <1>0 DEF Cut
<1>2. \A k \in T : k \in Nat /\ n + 1 <= k
  BY <1>0 DEF Cut
<1>3. Min(T) = n + 1
  <2> HIDE DEF T
  <2>1. \A x \in T : (\A y \in T : x <= y) <=> x = n + 1
    BY <1>0, <1>1, <1>2
  <2> QED BY <1>1, <2>1 DEF Min
<1>4. UntilExit(lines) = SubSeq(lines, 1, Min(T) - 1)
  BY DEF UntilExit
<1> HIDE DEF T
<1> QED BY <1>0, <1>3, <1>4

LEMMA CutExists ==
  ASSUME NEW lines \in Seq(Lines)
  PROVE  \E n : Cut(lines, n)
<1> DEFINE T == {k \in 1 .. Len(lines) : lines[k] = Quit} \union {Len(lines) + 1}
<1>0. Len(lines) \in Nat
  OBVIOUS
<1>1. PICK m \in T : \A k \in T : m <= k
  <2>1. T \in SUBSET Nat /\ T # {}
    BY <1>0
  <2> HIDE DEF T
  <2> QED BY <2>1, Least
<1>2. m - 1 \in 0 .. Len(lines) /\ (m - 1) + 1 = m
  BY <1>0, <1>1
<1>3. \A k \in 1 .. m - 1 : lines[k] # Quit
  BY <1>0, <1>1
<1>4. m - 1 < Len(lines) => lines[m] = Quit
  BY <1>0, <1>1
<1>5. Cut(lines, m - 1)
  BY <1>2, <1>3, <1>4 DEF Cut
<1> QED BY <1>5

\* What a sequence is after an item was appended, and what is left of it
\* when the first items are taken.
LEMMA Appended ==
  ASSUME NEW S, NEW s \in Seq(S), NEW l \in S, NEW n \in 0 .. Len(s)
  PROVE  /\ SubSeq(Append(s, l), 1, n) = SubSeq(s, 1, n)
         /\ SubSeq(Append(s, l), n + 1, Len(s) + 1) = Append(SubSeq(s, n + 1, Len(s)), l)
<1> DEFINE t == Append(s, l)
           m == Len(s)
<1>1. t \in Seq(S) /\ Len(t) = m + 1 /\ m \in Nat /\ n \in Nat /\ n <= m /\ (\A k \in 1 .. m : t[k] = s[k]) /\ t[m + 1] = l
  BY AppendProperties
<1>2. SubSeq(t, 1, n) = SubSeq(s, 1, n)
  <2> HIDE DEF t
  <2>1. \A k \in 1 .. n : t[k] \in S /\ s[k] \in S /\ t[k] = s[k]
    BY <1>1
  <2>2. /\ SubSeq(t, 1, n) \in Seq(S) /\ Len(SubSeq(t, 1, n)) = n /\ \A k \in 1 .. n : SubSeq(t, 1, n)[k] = t[k]
        /\ SubSeq(s, 1, n) \in Seq(S) /\ Len(SubSeq(s, 1, n)) = n /\ \A k \in 1 .. n : SubSeq(s, 1, n)[k] = s[k]
    BY <1>1, <2>1, SubSeqProperties
  <2> QED BY <2>1, <2>2, SeqEqual
<1>3. SubSeq(t, n + 1, m + 1) = Append(SubSeq(s, n + 1, m), l)
  <2> HIDE DEF t
  <2>1. \A k \in n + 1 .. m : t[k] = s[k] /\ s[k] \in S
    BY <1>1
  <2>2. /\ SubSeq(t, n + 1, m + 1) \in Seq(S) /\ Len(SubSeq(t, n + 1, m + 1)) = m - n + 1
        /\ \A k \in 1 .. m - n + 1 : SubSeq(t, n + 1, m + 1)[k] = t[n + k]
    <3>1. \A k \in n + 1 .. m + 1 : t[k] \in S
      BY <1>1
    <3> QED BY <1>1, <3>1, SubSeqProperties
  <2>3. /\ SubSeq(s, n + 1, m) \in Seq(S) /\ Len(SubSeq(s, n + 1, m)) = m - n
        /\ \A k \in 1 .. m - n : SubSeq(s, n + 1, m)[k] = s[n + k]
    BY <1>1, <2>1, SubSeqProperties
  <2> DEFINE u == Append(SubSeq(s, n + 1, m), l)
  <2>4. u \in Seq(S) /\ Len(u) = m - n + 1 /\ (\A k \in 1 .. m - n : u[k] = s[n + k]) /\ u[m - n + 1] = l
    BY <2>3, AppendProperties
  <2> HIDE DEF u
  <2>5. \A k \in 1 .. m - n + 1 : SubSeq(t, n + 1, m + 1)[k] = u[k]
    <3> TAKE k \in 1 .. m - n + 1
    <3>1. CASE k = m - n + 1
      BY <1>1, <2>2, <2>4, <3>1
    <3>2. CASE k # m - n + 1
      <4>1. k \in 1 .. m - n /\ n + k \in 1 .. m
        BY <1>1, <3>2
      <4> QED BY <1>1, <2>2, <2>4, <4>1
    <3> QED BY <3>1, <3>2
  <2>6. SubSeq(t, n + 1, m + 1) = u
    BY <2>2, <2>4, <2>5, SeqEqual
  <2> QED BY <2>6 DEF u
<1> QED BY <1>2, <1>3

LEMMA Split ==
  ASSUME NEW S, NEW s \in Seq(S), NEW n \in 0 .. Len(s)
  PROVE  /\ SubSeq(s, 1, n) \in Seq(S) /\ SubSeq(s, n + 1, Len(s)) \in Seq(S)
         /\ Len(SubSeq(s, 1, n)) = n /\ Len(SubSeq(s, n + 1, Len(s))) = Len(s) - n
         /\ s = SubSeq(s, 1, n) \o SubSeq(s, n + 1, Len(s))
<1> DEFINE a == SubSeq(s, 1, n)
           b == SubSeq(s, n + 1, Len(s))
<1>1. Len(s) \in Nat /\ n \in Nat /\ n <= Len(s) /\ \A k \in 1 .. Len(s) : s[k] \in S
  OBVIOUS
<1>2. a \in Seq(S) /\ Len(a) = n /\ \A k \in 1 .. n : a[k] = s[k]
  <2>1. \A k \in 1 .. n : s[k] \in S
    BY <1>1
  <2> QED BY <1>1, <2>1, SubSeqProperties
<1>3. b \in Seq(S) /\ Len(b) = Len(s) - n /\ \A k \in 1 .. Len(s) - n : b[k] = s[n + k]
  <2>1. \A k \in n + 1 .. Len(s) : s[k] \in S
    BY <1>1
  <2> QED BY <1>1, <2>1, SubSeqProperties
<1> HIDE DEF a, b
<1>4. a \o b \in Seq(S) /\ Len(a \o b) = Len(s) /\ \A k \in 1 .. Len(s) : (a \o b)[k] = s[k]
  <2>1. /\ a \o b \in Seq(S) /\ Len(a \o b) = Len(a) + Len(b)
        /\ \A k \in 1 .. Len(a) + Len(b) : (a \o b)[k] = IF k <= Len(a) THEN a[k] ELSE b[k - Len(a)]
    BY <1>2, <1>3, ConcatProperties
  <2>2. \A k \in 1 .. Len(s) : (a \o b)[k] = s[k]
    <3> TAKE k \in 1 .. Len(s)
    <3>1. CASE k <= n
      BY <1>1, <1>2, <1>3, <2>1, <3>1
    <3>2. CASE ~ (k <= n)
      <4>1. k - n \in 1 .. Len(s) - n /\ n + (k - n) = k
        BY <1>1, <3>2
      <4>2. (a \o b)[k] = b[k - n]
        BY <1>1, <1>2, <1>3, <2>1, <3>2
      <4> QED BY <1>3, <4>1, <4>2
    <3> QED BY <3>1, <3>2
  <2> QED BY <1>1, <1>2, <1>3, <2>1, <2>2
<1>5. a \o b = s
  BY <1>4, SeqEqual
<1> QED BY <1>2, <1>3, <1>5 DEF a, b

-----------------------------------------------------------------------------
(* The inductive invariant.                                                *)

\* Connections wait once, and before they are served.
Queued ==
  /\ \A j, k \in DOMAIN pending : pending[j] = pending[k] => j = k
  /\ \A k \in DOMAIN pending : client[pending[k]].pc # "none" /\ child[pending[k]].pc = "none"
  /\ \A c \in Clients : /\ client[c].pc = "none" => child[c].pc = "none"
                        /\ child[c].pc = "none" => server[c].pc = "none"

\* Where readString is.
InputPlace ==
  \A c \in Clients : /\ client[c].at <= Len(client[c].lines) + 1
                     /\ client[c].eof => client[c].pc # "line"

\* Without a fault every child becomes sqlite3, and Main is the only server.
NoFaultYet ==
  faults = 0 => \A c \in Clients : /\ child[c].pc \in {"none", "sqlite3", "zombie", "gone"}
                                   /\ server[c].pc = "none"

\* The lines a client has sent.
LinesSent(c) ==
  SubSeq(client[c].lines, 1, client[c].at - 1) \o (IF client[c].eof THEN <<Quit>> ELSE <<>>)

\* sqlite3 has answered the first n of them; the others are on their way, or
\* the next one made it end.
Accounted(c) ==
  \E n \in 0 .. Len(LinesSent(c)) :
    /\ \A k \in 1 .. n : LinesSent(c)[k] # Quit
    /\ client[c].shown \o down[c] = Answers(SubSeq(LinesSent(c), 1, n))
    /\ IF Ended(c) THEN n < Len(LinesSent(c)) /\ LinesSent(c)[n + 1] = Quit
       ELSE up[c] = SubSeq(LinesSent(c), n + 1, Len(LinesSent(c)))

Books == faults = 0 => \A c \in Clients : Over(c) \/ Accounted(c)

SqlInv == TypeOK /\ Queued /\ InputPlace /\ NoFaultYet /\ Books

-----------------------------------------------------------------------------
(* Types.                                                                  *)

ClientState ==
  [pc : {"none", "poll", "line", "recv", "over"}, lines : Seq(Lines), kind : {"file", "terminal", "pipe"},
   at : Nat \ {0}, eof : BOOLEAN, ready : BOOLEAN, shown : Seq(Lines)]

ServerState ==
  [pc : {"none", "reap", "poll", "accept", "answer", "hear", "over"}, asked : BOOLEAN, call : SUBSET Services]

ChildState ==
  [pc : {"none", "sqlite3", "server", "refused", "zombie", "gone"}, parent : Servers]

\* A step of a client changes its own state only.
LEMMA OneClient ==
  ASSUME TypeOK, NEW c \in Clients, NEW me \in ClientState, client' = [client EXCEPT ![c] = me]
  PROVE  /\ client' \in [Clients -> ClientState] /\ client'[c] = me
         /\ \A d \in Clients : d # c => client'[d] = client[d]
BY DEF TypeOK, ClientState

LEMMA WentIs ==
  ASSUME NEW me \in ClientState
  PROVE  /\ Went(me) \in ClientState /\ Went(me).pc \in {"poll", "recv"}
         /\ Went(me).lines = me.lines /\ Went(me).at = me.at /\ Went(me).eof = me.eof /\ Went(me).shown = me.shown
BY DEF Went, ClientState

LEMMA SentIs ==
  ASSUME NEW me \in ClientState
  PROVE  /\ Sent(me) \in ClientState /\ Sent(me).pc \in {"poll", "recv"}
         /\ Sent(me).lines = me.lines /\ Sent(me).at = me.at + 1 /\ Sent(me).eof = me.eof /\ Sent(me).shown = me.shown
<1> DEFINE it == [me EXCEPT !.at = @ + 1]
<1>1. it \in ClientState /\ it.lines = me.lines /\ it.at = me.at + 1 /\ it.eof = me.eof /\ it.shown = me.shown
  <2>1. me.at \in Nat /\ me.at + 1 \in Nat \ {0}
    BY DEF ClientState
  <2> QED BY <2>1 DEF ClientState
<1>2. Sent(me) = Went(it)
  BY DEF Sent
<1> HIDE DEF it
<1> QED BY <1>1, <1>2, WentIs

\* What the steps of a client make of its state.
LEMMA ConnectIs ==
  ASSUME TypeOK, NEW c \in Clients, Connect(c)
  PROVE  \E me \in ClientState :
           /\ client' = [client EXCEPT ![c] = me] /\ client[c].pc = "none" /\ me.pc \in {"poll", "over"}
           /\ me.lines = client[c].lines /\ me.at = client[c].at /\ me.eof = client[c].eof /\ me.shown = client[c].shown
<1> DEFINE me == [client[c] EXCEPT !.pc = IF Listening THEN "poll" ELSE "over"]
<1>1. client[c] \in ClientState
  BY DEF TypeOK, ClientState
<1>2. /\ me \in ClientState /\ me.pc \in {"poll", "over"}
      /\ me.lines = client[c].lines /\ me.at = client[c].at /\ me.eof = client[c].eof /\ me.shown = client[c].shown
  BY <1>1 DEF ClientState
<1>3. client' = [client EXCEPT ![c] = me] /\ client[c].pc = "none"
  BY DEF Connect
<1> QED BY <1>2, <1>3

LEMMA ClientPollIs ==
  ASSUME TypeOK, NEW c \in Clients, ClientPoll(c)
  PROVE  \E me \in ClientState :
           /\ client' = [client EXCEPT ![c] = me] /\ me.pc \in {"line", "recv"}
           /\ client[c].pc = "poll" /\ (client[c].eof => me.pc = "recv")
           /\ me.lines = client[c].lines /\ me.at = client[c].at /\ me.eof = client[c].eof /\ me.shown = client[c].shown
<1> DEFINE me == [client[c] EXCEPT !.pc = IF InputReady(c) THEN "line" ELSE "recv", !.ready = SocketReady(c)]
<1>1. client[c] \in ClientState
  BY DEF TypeOK, ClientState
<1>2. SocketReady(c) \in BOOLEAN
  BY DEF SocketReady
<1>3. /\ me \in ClientState /\ me.pc \in {"line", "recv"}
      /\ me.lines = client[c].lines /\ me.at = client[c].at /\ me.eof = client[c].eof /\ me.shown = client[c].shown
  BY <1>1, <1>2 DEF ClientState
<1>4. client' = [client EXCEPT ![c] = me] /\ client[c].pc = "poll"
  BY DEF ClientPoll
<1>5. client[c].eof => me.pc = "recv"
  BY <1>1 DEF InputReady, ClientState
<1> QED BY <1>3, <1>4, <1>5

LEMMA LineIs ==
  ASSUME TypeOK, NEW c \in Clients, Line(c)
  PROVE  \E me \in ClientState :
           /\ client' = [client EXCEPT ![c] = me] /\ client[c].pc = "line" /\ me.pc \in {"poll", "recv", "over"}
           /\ client[c].at \in DOMAIN client[c].lines
           /\ up' = [up EXCEPT ![c] = Append(@, client[c].lines[client[c].at])]
           /\ me.lines = client[c].lines /\ me.eof = client[c].eof /\ me.shown = client[c].shown
           /\ me.at = IF me.pc = "over" THEN client[c].at ELSE client[c].at + 1
<1>1. client[c] \in ClientState
  BY DEF TypeOK, ClientState
<1>2. client[c].pc = "line" /\ up' = [up EXCEPT ![c] = Append(@, client[c].lines[client[c].at])] /\ ~InputOver(client[c])
  BY DEF Line
<1>3. client[c].at \in DOMAIN client[c].lines
  <2>1. client[c].lines \in Seq(Lines) /\ client[c].at \in Nat /\ client[c].at # 0
    BY <1>1 DEF ClientState
  <2>2. client[c].at <= Len(client[c].lines)
    BY <1>2, <2>1 DEF InputOver
  <2> QED BY <2>1, <2>2
<1>4. CASE client' = [client EXCEPT ![c] = Sent(@)]
  <2>1. client' = [client EXCEPT ![c] = Sent(client[c])]
    BY <1>4
  <2> DEFINE me == Sent(client[c])
  <2>2. /\ me \in ClientState /\ me.pc \in {"poll", "recv"} /\ me.lines = client[c].lines /\ me.at = client[c].at + 1
        /\ me.eof = client[c].eof /\ me.shown = client[c].shown
    BY <1>1, SentIs
  <2> HIDE DEF me
  <2>3. me.pc # "over"
    BY <2>2
  <2> QED BY <1>2, <1>3, <2>1, <2>2, <2>3 DEF me
<1>5. CASE client' = [client EXCEPT ![c].pc = "over"]
  <2> DEFINE me == [client[c] EXCEPT !.pc = "over"]
  <2>1. me \in ClientState /\ me.pc = "over" /\ me.lines = client[c].lines /\ me.at = client[c].at /\ me.eof = client[c].eof /\ me.shown = client[c].shown
    BY <1>1 DEF ClientState
  <2>2. client' = [client EXCEPT ![c] = me]
    BY <1>5
  <2> HIDE DEF me
  <2> QED BY <1>2, <1>3, <2>1, <2>2
<1> QED BY <1>4, <1>5 DEF Line

LEMMA EndOfInputIs ==
  ASSUME TypeOK, NEW c \in Clients, EndOfInput(c)
  PROVE  \E me \in ClientState :
           /\ client' = [client EXCEPT ![c] = me] /\ client[c].pc = "line" /\ me.pc \in {"poll", "recv", "over"}
           /\ up' = [up EXCEPT ![c] = Append(@, Quit)]
           /\ me.lines = client[c].lines /\ me.at = client[c].at /\ me.eof /\ me.shown = client[c].shown
<1>1. client[c] \in ClientState
  BY DEF TypeOK, ClientState
<1>2. client[c].pc = "line" /\ up' = [up EXCEPT ![c] = Append(@, Quit)]
  BY DEF EndOfInput
<1>3. CASE client' = [client EXCEPT ![c] = [Went(@) EXCEPT !.eof = TRUE]]
  <2> DEFINE went == Went(client[c])
             me == [went EXCEPT !.eof = TRUE]
  <2>1. client' = [client EXCEPT ![c] = me]
    BY <1>3
  <2>2. /\ went \in ClientState /\ went.pc \in {"poll", "recv"}
        /\ went.lines = client[c].lines /\ went.at = client[c].at /\ went.shown = client[c].shown
    BY <1>1, WentIs
  <2> HIDE DEF went
  <2>3. /\ me \in ClientState /\ me.pc \in {"poll", "recv"} /\ me.eof
        /\ me.lines = client[c].lines /\ me.at = client[c].at /\ me.shown = client[c].shown
    BY <2>2 DEF ClientState
  <2> HIDE DEF me
  <2> QED BY <1>2, <2>1, <2>3
<1>4. CASE client' = [client EXCEPT ![c].pc = "over", ![c].eof = TRUE]
  <2> DEFINE me == [client[c] EXCEPT !.pc = "over", !.eof = TRUE]
  <2>1. client' = [client EXCEPT ![c] = me]
    BY <1>4
  <2>2. /\ me \in ClientState /\ me.pc = "over" /\ me.eof
        /\ me.lines = client[c].lines /\ me.at = client[c].at /\ me.shown = client[c].shown
    BY <1>1 DEF ClientState
  <2> HIDE DEF me
  <2> QED BY <1>2, <2>1, <2>2
<1> QED BY <1>3, <1>4 DEF EndOfInput

LEMMA RecvIs ==
  ASSUME TypeOK, NEW c \in Clients, Recv(c)
  PROVE  /\ \E me \in ClientState :
              /\ client' = [client EXCEPT ![c] = me] /\ client[c].pc = "recv" /\ me.pc \in {"poll", "recv", "over"}
              /\ me.lines = client[c].lines /\ me.at = client[c].at /\ me.eof = client[c].eof
              /\ me.shown \o down'[c] = client[c].shown \o down[c]
         /\ down' \in [Clients -> Seq(Lines)] /\ \A d \in Clients : d # c => down'[d] = down[d]
<1>1. client[c] \in ClientState /\ client[c].shown \in Seq(Lines)
  BY DEF TypeOK, ClientState
<1>2. down \in [Clients -> Seq(Lines)] /\ down[c] \in Seq(Lines) /\ client[c].pc = "recv"
  BY DEF TypeOK, Recv
<1>3. ASSUME NEW k \in 1 .. 2, k <= Len(down[c]),
             client' = [client EXCEPT ![c].shown = @ \o SubSeq(down[c], 1, k), ![c].pc = IF k = 2 THEN "recv" ELSE "poll"],
             down' = [down EXCEPT ![c] = SubSeq(@, k + 1, Len(@))]
      PROVE  /\ \E me \in ClientState :
                  /\ client' = [client EXCEPT ![c] = me] /\ client[c].pc = "recv" /\ me.pc \in {"poll", "recv", "over"}
                  /\ me.lines = client[c].lines /\ me.at = client[c].at /\ me.eof = client[c].eof
                  /\ me.shown \o down'[c] = client[c].shown \o down[c]
             /\ down' \in [Clients -> Seq(Lines)] /\ \A d \in Clients : d # c => down'[d] = down[d]
  <2> DEFINE s == client[c].shown
             t == SubSeq(down[c], 1, k)
             u == SubSeq(down[c], k + 1, Len(down[c]))
             me == [client[c] EXCEPT !.shown = s \o t, !.pc = IF k = 2 THEN "recv" ELSE "poll"]
  <2>1. t \in Seq(Lines) /\ u \in Seq(Lines) /\ down[c] = t \o u
    <3>1. k \in 0 .. Len(down[c])
      BY <1>2, <1>3
    <3> QED BY <1>2, <3>1, Split
  <2>2. down' \in [Clients -> Seq(Lines)] /\ down'[c] = u /\ \A d \in Clients : d # c => down'[d] = down[d]
    BY <1>2, <1>3, <2>1
  <2>3. s \o t \in Seq(Lines) /\ (s \o t) \o u = s \o (t \o u)
    <3>1. s \in Seq(Lines)
      BY <1>1
    <3> HIDE DEF s, t, u
    <3>2. s \in Seq(Lines) /\ t \in Seq(Lines) /\ u \in Seq(Lines)
      BY <2>1, <3>1
    <3>3. (s \o t) \o u = s \o (t \o u)
      BY <3>2, Associative
    <3> QED BY <3>2, <3>3, ConcatProperties
  <2>4. /\ me \in ClientState /\ me.pc \in {"poll", "recv"} /\ me.shown = s \o t
        /\ me.lines = client[c].lines /\ me.at = client[c].at /\ me.eof = client[c].eof
    <3> HIDE DEF s, t
    <3> QED BY <1>1, <2>3 DEF ClientState
  <2>5. client' = [client EXCEPT ![c] = me]
    BY <1>3
  <2>6. me.shown \o down'[c] = client[c].shown \o down[c]
    <3>1. client[c].shown = s
      OBVIOUS
    <3> HIDE DEF s, t, u, me
    <3> QED BY <2>1, <2>2, <2>3, <2>4, <3>1
  <2> HIDE DEF me
  <2> QED BY <1>2, <2>2, <2>4, <2>5, <2>6
<1>4. ASSUME client' = [client EXCEPT ![c].pc = "over"], down' = down
      PROVE  /\ \E me \in ClientState :
                  /\ client' = [client EXCEPT ![c] = me] /\ client[c].pc = "recv" /\ me.pc \in {"poll", "recv", "over"}
                  /\ me.lines = client[c].lines /\ me.at = client[c].at /\ me.eof = client[c].eof
                  /\ me.shown \o down'[c] = client[c].shown \o down[c]
             /\ down' \in [Clients -> Seq(Lines)] /\ \A d \in Clients : d # c => down'[d] = down[d]
  <2> DEFINE me == [client[c] EXCEPT !.pc = "over"]
  <2>1. /\ me \in ClientState /\ me.pc = "over" /\ me.shown = client[c].shown
        /\ me.lines = client[c].lines /\ me.at = client[c].at /\ me.eof = client[c].eof
    BY <1>1 DEF ClientState
  <2>2. client' = [client EXCEPT ![c] = me]
    BY <1>4
  <2> HIDE DEF me
  <2> QED BY <1>2, <1>4, <2>1, <2>2
<1>5. \/ \E k \in 1 .. 2 : /\ k <= Len(down[c])
                           /\ client' = [client EXCEPT ![c].shown = @ \o SubSeq(down[c], 1, k), ![c].pc = IF k = 2 THEN "recv" ELSE "poll"]
                           /\ down' = [down EXCEPT ![c] = SubSeq(@, k + 1, Len(@))]
      \/ client' = [client EXCEPT ![c].pc = "over"] /\ down' = down
  BY DEF Recv
<1> QED BY <1>3, <1>4, <1>5

LEMMA ResetIs ==
  ASSUME TypeOK, NEW c \in Clients, Reset(c)
  PROVE  \E me \in ClientState :
           /\ client' = [client EXCEPT ![c] = me] /\ client[c].pc # "none" /\ me.pc = "over"
           /\ me.lines = client[c].lines /\ me.at = client[c].at /\ me.eof = client[c].eof /\ me.shown = client[c].shown
<1> DEFINE me == [client[c] EXCEPT !.pc = "over"]
<1>1. client[c] \in ClientState
  BY DEF TypeOK, ClientState
<1>2. /\ me \in ClientState /\ me.pc = "over"
      /\ me.lines = client[c].lines /\ me.at = client[c].at /\ me.eof = client[c].eof /\ me.shown = client[c].shown
  BY <1>1 DEF ClientState
<1>3. client' = [client EXCEPT ![c] = me] /\ client[c].pc # "none"
  BY DEF Reset
<1> QED BY <1>2, <1>3

\* What the steps of sqlite3 and of the servers change.
LEMMA Sqlite3Is ==
  ASSUME TypeOK, NEW c \in Clients, Sqlite3(c)
  PROVE  /\ child[c].pc = "sqlite3" /\ child' \in [Clients -> ChildState] /\ \A d \in Clients : d # c => child'[d] = child[d]
         /\ up' \in [Clients -> Seq(Lines)] /\ \A d \in Clients : d # c => up'[d] = up[d]
         /\ down' \in [Clients -> Seq(Lines)] /\ \A d \in Clients : d # c => down'[d] = down[d]
         /\ client' = client
         /\ \/ Over(c) /\ child'[c].pc \in {"sqlite3", "zombie"}
            \/ /\ up[c] # <<>> /\ Head(up[c]) # Quit /\ up'[c] = Tail(up[c]) /\ child' = child
               /\ down'[c] = down[c] \o Answer(Head(up[c]))
            \/ up[c] # <<>> /\ Head(up[c]) = Quit /\ down'[c] = down[c] /\ child'[c].pc = "zombie"
<1>1. up \in [Clients -> Seq(Lines)] /\ down \in [Clients -> Seq(Lines)] /\ child \in [Clients -> ChildState]
  BY DEF TypeOK, ChildState
<1>2. child[c].pc = "sqlite3" /\ client' = client
  BY DEF Sqlite3
<1>3. CASE /\ up[c] # <<>> /\ Head(up[c]) # Quit /\ up' = [up EXCEPT ![c] = Tail(@)]
           /\ down' = (IF Over(c) THEN down ELSE [down EXCEPT ![c] = @ \o Answer(Head(up[c]))]) /\ child' = child
  <2>1. Head(up[c]) \in Lines /\ Tail(up[c]) \in Seq(Lines)
    BY <1>1, <1>3, HeadTailProperties
  <2>2. Answer(Head(up[c])) \in Seq(Lines)
    <3>1. <<>> \in Seq(Lines)
      OBVIOUS
    <3> QED BY <2>1, <3>1, AnswersAre
  <2>3. down[c] \o Answer(Head(up[c])) \in Seq(Lines)
    <3>1. down[c] \in Seq(Lines)
      BY <1>1
    <3> QED BY <2>2, <3>1, ConcatProperties
  <2>4. up' \in [Clients -> Seq(Lines)] /\ up'[c] = Tail(up[c]) /\ \A d \in Clients : d # c => up'[d] = up[d]
    BY <1>1, <1>3, <2>1
  <2>5. /\ down' \in [Clients -> Seq(Lines)] /\ \A d \in Clients : d # c => down'[d] = down[d]
        /\ ~Over(c) => down'[c] = down[c] \o Answer(Head(up[c]))
    <3>1. CASE Over(c)
      BY <1>1, <1>3, <3>1
    <3>2. CASE ~Over(c)
      BY <1>1, <1>3, <2>3, <3>2
    <3> QED BY <3>1, <3>2
  <2> QED BY <1>1, <1>2, <1>3, <2>4, <2>5
<1>4. ASSUME NEW rest \in Seq(Lines), up' = [up EXCEPT ![c] = rest], child' = [child EXCEPT ![c].pc = "zombie"], down' = down,
             Over(c) \/ (up[c] # <<>> /\ Head(up[c]) = Quit)
      PROVE  /\ child' \in [Clients -> ChildState] /\ \A d \in Clients : d # c => child'[d] = child[d]
             /\ up' \in [Clients -> Seq(Lines)] /\ \A d \in Clients : d # c => up'[d] = up[d]
             /\ down' \in [Clients -> Seq(Lines)] /\ \A d \in Clients : d # c => down'[d] = down[d]
             /\ child'[c].pc = "zombie" /\ down'[c] = down[c]
  <2>1. child' \in [Clients -> ChildState] /\ child'[c].pc = "zombie" /\ \A d \in Clients : d # c => child'[d] = child[d]
    BY <1>1, <1>4 DEF ChildState
  <2>2. up' \in [Clients -> Seq(Lines)] /\ \A d \in Clients : d # c => up'[d] = up[d]
    BY <1>1, <1>4
  <2> QED BY <1>1, <1>4, <2>1, <2>2
<1>5. CASE /\ up[c] # <<>> /\ up' = [up EXCEPT ![c] = Tail(@)]
           /\ Over(c) /\ child' = [child EXCEPT ![c].pc = "zombie"] /\ down' = down
  <2>1. Tail(up[c]) \in Seq(Lines) /\ up' = [up EXCEPT ![c] = Tail(up[c])]
    BY <1>1, <1>5, HeadTailProperties
  <2> QED BY <1>2, <1>4, <1>5, <2>1
<1>6. CASE /\ IF up[c] = <<>> THEN Over(c) ELSE Head(up[c]) = Quit
           /\ child' = [child EXCEPT ![c].pc = "zombie"]
           /\ up' = [up EXCEPT ![c] = SubSeq(@, 2, Len(@))] /\ down' = down
  <2>1. SubSeq(up[c], 2, Len(up[c])) \in Seq(Lines)
    <3>1. up[c] \in Seq(Lines)
      BY <1>1
    <3>2. \A k \in 2 .. Len(up[c]) : up[c][k] \in Lines
      BY <3>1
    <3> QED BY <3>1, <3>2, SubSeqProperties
  <2>2. up' = [up EXCEPT ![c] = SubSeq(up[c], 2, Len(up[c]))]
    BY <1>6
  <2> QED BY <1>2, <1>4, <1>6, <2>1, <2>2
<1> QED BY <1>3, <1>5, <1>6 DEF Sqlite3

LEMMA ReapedIs ==
  ASSUME TypeOK, NEW p \in Servers
  PROVE  /\ Reaped(p) \in [Clients -> ChildState]
         /\ \A c \in Clients : Reaped(p)[c] = child[c] \/ (child[c].pc = "zombie" /\ Reaped(p)[c].pc = "gone")
<1>1. child \in [Clients -> ChildState]
  BY DEF TypeOK, ChildState
<1>2. \A c \in Clients : [child[c] EXCEPT !.pc = "gone"] \in ChildState /\ [child[c] EXCEPT !.pc = "gone"].pc = "gone"
  BY <1>1 DEF ChildState
<1>3. \A c \in Clients : Reaped(p)[c] = IF child[c].pc = "zombie" /\ child[c].parent = p
                                      THEN [child[c] EXCEPT !.pc = "gone"] ELSE child[c]
  BY DEF Reaped
<1>4. Reaped(p) = [c \in Clients |-> Reaped(p)[c]]
  BY DEF Reaped
<1>5. \A c \in Clients : Reaped(p)[c] \in ChildState
  BY <1>1, <1>2, <1>3
<1> QED BY <1>2, <1>3, <1>4, <1>5

LEMMA AcceptIs ==
  ASSUME TypeOK, NEW p \in Servers, Accept(p)
  PROVE  /\ pending # <<>> /\ Head(pending) \in Clients /\ pending' = Tail(pending) /\ pending' \in Seq(Clients)
         /\ child' \in [Clients -> ChildState] /\ \A d \in Clients : d # Head(pending) => child'[d] = child[d]
         /\ server' \in [Servers -> ServerState]
         /\ \/ /\ child'[Head(pending)].pc = "sqlite3" /\ faults' = faults
               /\ \A q \in Servers : server[q].pc = "none" /\ q # p => server'[q].pc = "none"
            \/ /\ child'[Head(pending)].pc \in {"refused", "server"} /\ faults' \in 1 .. MaxFaults
               /\ \A q \in Servers : server[q].pc = "none" /\ q # p /\ q # Head(pending) => server'[q].pc = "none"
<1> DEFINE c == Head(pending)
           mine == [server EXCEPT ![p] = Accepted(@)]
           forked(pc) == [child EXCEPT ![c] = [pc |-> pc, parent |-> p]]
<1>1. pending # <<>> /\ c \in Clients /\ pending' = Tail(pending) /\ pending' \in Seq(Clients)
  <2>1. pending # <<>> /\ pending \in Seq(Clients) /\ pending' = Tail(pending)
    BY DEF Accept, TypeOK
  <2> QED BY <2>1, HeadTailProperties
<1>2. Accepted(server[p]) \in ServerState
  <2>1. server[p] \in ServerState
    BY DEF TypeOK, ServerState
  <2>2. [server[p] EXCEPT !.pc = "answer"] \in ServerState /\ [server[p] EXCEPT !.pc = "reap"] \in ServerState
    BY <2>1 DEF ServerState
  <2>3. Accepted(server[p]) \in {[server[p] EXCEPT !.pc = "answer"], [server[p] EXCEPT !.pc = "reap"]}
    BY DEF Accepted
  <2> QED BY <2>2, <2>3
<1>3. /\ mine \in [Servers -> ServerState]
      /\ \A q \in Servers : server[q].pc = "none" /\ q # p => mine[q].pc = "none"
  BY <1>2 DEF TypeOK, ServerState
<1>4. ASSUME NEW pc \in {"sqlite3", "refused", "server"}
      PROVE  forked(pc) \in [Clients -> ChildState] /\ forked(pc)[c].pc = pc /\ \A d \in Clients : d # c => forked(pc)[d] = child[d]
  <2>1. [pc |-> pc, parent |-> p] \in ChildState
    BY <1>4 DEF ChildState
  <2> QED BY <1>1, <2>1 DEF TypeOK, ChildState
<1>5. DEFINE theirs == [mine EXCEPT ![c] = Accepted(server[p])]
<1>6. /\ theirs \in [Servers -> ServerState]
      /\ \A q \in Servers : server[q].pc = "none" /\ q # p /\ q # c => theirs[q].pc = "none"
  <2> HIDE DEF mine
  <2> QED BY <1>1, <1>2, <1>3 DEF Servers
<1>7. \/ child' = forked("sqlite3") /\ server' = mine /\ faults' = faults
      \/ /\ faults < MaxFaults /\ faults' = faults + 1
         /\ \/ child' = forked("refused") /\ server' = mine
            \/ child' = forked("server") /\ server' = theirs
  BY DEF Accept
<1>8. faults < MaxFaults /\ faults' = faults + 1 => faults' \in 1 .. MaxFaults
  BY SqlAssumption DEF TypeOK
<1> HIDE DEF c, mine, forked, theirs
<1>9. CASE child' = forked("sqlite3") /\ server' = mine /\ faults' = faults
  BY <1>1, <1>3, <1>4, <1>9 DEF c
<1>10. CASE faults' \in 1 .. MaxFaults /\ child' = forked("refused") /\ server' = mine
  BY <1>1, <1>3, <1>4, <1>10 DEF c
<1>11. CASE faults' \in 1 .. MaxFaults /\ child' = forked("server") /\ server' = theirs
  BY <1>1, <1>4, <1>6, <1>11 DEF c
<1> QED BY <1>7, <1>8, <1>9, <1>10, <1>11

LEMMA HearIs ==
  ASSUME TypeOK, NEW p \in Servers, Hear(p)
  PROVE  /\ server[p].pc = "hear" /\ server' \in [Servers -> ServerState] /\ child' \in [Clients -> ChildState]
         /\ \A q \in Servers : server[q].pc = "none" => server'[q].pc = "none"
         /\ \A c \in Clients : \/ c = p /\ child'[c].pc = "zombie"
                               \/ child'[c] = child[c]
                               \/ child[c].pc = "zombie" /\ child'[c].pc = "gone"
         /\ faults' = faults \/ faults' \in 1 .. MaxFaults
<1>1. server[p].pc = "hear"
  BY DEF Hear
<1>2. server \in [Servers -> ServerState] /\ child \in [Clients -> ChildState]
  BY DEF TypeOK, ServerState, ChildState
<1>3. CASE /\ server' = [server EXCEPT ![p] = Told(@)]
           /\ child' = [c \in Clients |-> IF c = p THEN [child[c] EXCEPT !.pc = "zombie"] ELSE Reaped(p)[c]]
           /\ faults' = faults
  <2>1. Told(server[p]) \in ServerState
    BY <1>2 DEF Told, ServerState
  <2>2. server' \in [Servers -> ServerState] /\ \A q \in Servers : server[q].pc = "none" => server'[q].pc = "none"
    BY <1>1, <1>2, <1>3, <2>1
  <2>3. /\ Reaped(p) \in [Clients -> ChildState]
        /\ \A c \in Clients : Reaped(p)[c] = child[c] \/ (child[c].pc = "zombie" /\ Reaped(p)[c].pc = "gone")
    BY ReapedIs
  <2>4. \A c \in Clients : [child[c] EXCEPT !.pc = "zombie"] \in ChildState /\ [child[c] EXCEPT !.pc = "zombie"].pc = "zombie"
    BY <1>2 DEF ChildState
  <2> QED BY <1>1, <1>3, <2>2, <2>3, <2>4
<1>4. CASE /\ faults < MaxFaults /\ faults' = faults + 1
           /\ server' = [server EXCEPT ![p].pc = "reap", ![p].call = {}]
           /\ child' = child
  <2>1. faults' \in 1 .. MaxFaults
    BY <1>4, SqlAssumption DEF TypeOK
  <2>2. server' \in [Servers -> ServerState] /\ \A q \in Servers : server[q].pc = "none" => server'[q].pc = "none"
    BY <1>1, <1>2, <1>4 DEF ServerState
  <2> QED BY <1>1, <1>2, <1>4, <2>1, <2>2
<1> QED BY <1>3, <1>4 DEF Hear

\* The disjuncts of the next-state relation.
LEMMA Steps ==
  ASSUME [Next]_vars
  PROVE  \/ \E c \in Clients : \/ Connect(c) \/ ClientPoll(c) \/ Line(c) \/ EndOfInput(c) \/ Recv(c) \/ Reset(c)
                               \/ Sqlite3(c)
         \/ \E s \in Services : ServiceConnect(s) \/ ServiceSend(s)
         \/ \E p \in Servers : ReapChildren(p) \/ Poll(p) \/ Accept(p) \/ Call(p) \/ Hear(p)
         \/ UNCHANGED vars
BY DEF Next, ClientStep, ServerStep

LEMMA TypeInit == Init => TypeOK
<1> SUFFICES ASSUME Init PROVE TypeOK
  OBVIOUS
<1>1. <<>> \in Seq(Lines) /\ <<>> \in Seq(Clients) /\ <<>> \in Seq(Services)
  OBVIOUS
<1>2. PICK s \in Sessions :
        client = [c \in Clients |-> [pc |-> "none", lines |-> s[c].lines, kind |-> s[c].kind,
                                     at |-> 1, eof |-> FALSE, ready |-> FALSE, shown |-> <<>>]]
  BY DEF Init
<1>3. client \in [Clients -> ClientState]
  <2>1. \A c \in Clients : s[c].kind \in {"file", "terminal", "pipe"} /\ s[c].lines \in Seq(Lines)
    BY SqlAssumption DEF Lines
  <2> QED BY <1>1, <1>2, <2>1 DEF ClientState
<1>4. server \in [Servers -> ServerState]
  <2>1. NotThere \in ServerState /\ [NotThere EXCEPT !.pc = "reap"] \in ServerState
    BY DEF NotThere, ServerState
  <2>2. server = [p \in Servers |-> IF p = Main THEN [NotThere EXCEPT !.pc = "reap"] ELSE NotThere]
    BY DEF Init
  <2> QED BY <2>1, <2>2
<1>5. child \in [Clients -> ChildState]
  BY DEF Init, ChildState, Servers
<1>6. /\ service \in [Services -> {"none", "connected", "sent"}] /\ up \in [Clients -> Seq(Lines)] /\ down \in [Clients -> Seq(Lines)]
      /\ pending \in Seq(Clients) /\ calls \in Seq(Services) /\ faults \in 0 .. MaxFaults
  BY <1>1, SqlAssumption DEF Init
<1> QED BY <1>3, <1>4, <1>5, <1>6 DEF TypeOK, ClientState, ServerState, ChildState

LEMMA TypeStep == TypeOK /\ [Next]_vars => TypeOK'
<1> SUFFICES ASSUME TypeOK, [Next]_vars PROVE TypeOK'
  OBVIOUS
<1> DEFINE Rest == /\ service' \in [Services -> {"none", "connected", "sent"}]
                   /\ up' \in [Clients -> Seq(Lines)] /\ down' \in [Clients -> Seq(Lines)]
                   /\ pending' \in Seq(Clients) /\ calls' \in Seq(Services) /\ faults' \in 0 .. MaxFaults
<1>0. /\ client \in [Clients -> ClientState] /\ server \in [Servers -> ServerState] /\ child \in [Clients -> ChildState]
      /\ service \in [Services -> {"none", "connected", "sent"}]
      /\ up \in [Clients -> Seq(Lines)] /\ down \in [Clients -> Seq(Lines)]
      /\ pending \in Seq(Clients) /\ calls \in Seq(Services) /\ faults \in 0 .. MaxFaults
  BY DEF TypeOK, ClientState, ServerState, ChildState
<1> SUFFICES /\ client' \in [Clients -> ClientState] /\ server' \in [Servers -> ServerState]
             /\ child' \in [Clients -> ChildState] /\ Rest
  BY DEF TypeOK, ClientState, ServerState, ChildState
<1>1. ASSUME NEW c \in Clients, Connect(c) PROVE client' \in [Clients -> ClientState] /\ server' = server /\ child' = child /\ Rest
  <2>1. client' \in [Clients -> ClientState]
    BY <1>1, ConnectIs, OneClient
  <2>2. pending' \in Seq(Clients)
    BY <1>0, <1>1 DEF Connect
  <2> QED BY <1>0, <1>1, <2>1, <2>2 DEF Connect, streams
<1>2. ASSUME NEW c \in Clients, ClientPoll(c) PROVE client' \in [Clients -> ClientState] /\ server' = server /\ child' = child /\ Rest
  <2>1. client' \in [Clients -> ClientState]
    BY <1>2, ClientPollIs, OneClient
  <2> QED BY <1>0, <1>2, <2>1 DEF ClientPoll, streams, queues
<1>3. ASSUME NEW c \in Clients, Line(c) PROVE client' \in [Clients -> ClientState] /\ server' = server /\ child' = child /\ Rest
  <2>1. client' \in [Clients -> ClientState]
    BY <1>3, LineIs, OneClient
  <2>2. up' \in [Clients -> Seq(Lines)]
    <3>1. client[c].lines \in Seq(Lines)
      BY <1>0 DEF ClientState
    <3>2. client[c].at \in DOMAIN client[c].lines /\ up' = [up EXCEPT ![c] = Append(@, client[c].lines[client[c].at])]
      BY <1>3, LineIs
    <3>3. client[c].lines[client[c].at] \in Lines
      BY <3>1, <3>2
    <3>4. Append(up[c], client[c].lines[client[c].at]) \in Seq(Lines)
      BY <1>0, <3>3, AppendProperties
    <3> QED BY <1>0, <3>2, <3>4
  <2> QED BY <1>0, <1>3, <2>1, <2>2 DEF Line, queues
<1>4. ASSUME NEW c \in Clients, EndOfInput(c) PROVE client' \in [Clients -> ClientState] /\ server' = server /\ child' = child /\ Rest
  <2>1. client' \in [Clients -> ClientState] /\ up' = [up EXCEPT ![c] = Append(@, Quit)]
    BY <1>4, EndOfInputIs, OneClient
  <2>2. Append(up[c], Quit) \in Seq(Lines)
    BY <1>0, SqlAssumption, AppendProperties DEF Lines
  <2> QED BY <1>0, <1>4, <2>1, <2>2 DEF EndOfInput, queues
<1>5. ASSUME NEW c \in Clients, Recv(c) PROVE client' \in [Clients -> ClientState] /\ server' = server /\ child' = child /\ Rest
  <2>1. client' \in [Clients -> ClientState] /\ down' \in [Clients -> Seq(Lines)]
    BY <1>5, RecvIs, OneClient
  <2> QED BY <1>0, <1>5, <2>1 DEF Recv, queues
<1>6. ASSUME NEW c \in Clients, Reset(c) PROVE client' \in [Clients -> ClientState] /\ server' = server /\ child' = child /\ Rest
  <2>1. client' \in [Clients -> ClientState]
    BY <1>6, ResetIs, OneClient
  <2> QED BY <1>0, <1>6, <2>1 DEF Reset, streams, queues
<1>7. ASSUME NEW c \in Clients, Sqlite3(c) PROVE client' = client /\ server' = server /\ child' \in [Clients -> ChildState] /\ Rest
  <2>1. up' \in [Clients -> Seq(Lines)] /\ down' \in [Clients -> Seq(Lines)] /\ child' \in [Clients -> ChildState]
    BY <1>7, Sqlite3Is
  <2> QED BY <1>0, <1>7, <2>1 DEF Sqlite3, queues
<1>8. ASSUME NEW s \in Services, ServiceConnect(s) PROVE client' = client /\ server' = server /\ child' = child /\ Rest
  BY <1>0, <1>8 DEF ServiceConnect, streams
<1>9. ASSUME NEW s \in Services, ServiceSend(s) PROVE client' = client /\ server' = server /\ child' = child /\ Rest
  BY <1>0, <1>9 DEF ServiceSend, streams, queues
<1>10. ASSUME NEW p \in Servers, ReapChildren(p) PROVE client' = client /\ server' \in [Servers -> ServerState] /\ child' \in [Clients -> ChildState] /\ Rest
  <2>1. child' \in [Clients -> ChildState]
    BY <1>10, ReapedIs DEF ReapChildren
  <2>2. server' \in [Servers -> ServerState]
    BY <1>0, <1>10 DEF ReapChildren, ServerState
  <2> QED BY <1>0, <1>10, <2>1, <2>2 DEF ReapChildren, streams, queues
<1>11. ASSUME NEW p \in Servers, Poll(p) PROVE client' = client /\ server' \in [Servers -> ServerState] /\ child' = child /\ Rest
  <2>1. PICK asked \in BOOLEAN, pc \in {"accept", "answer", "reap"} :
          server' = [server EXCEPT ![p].asked = asked, ![p].pc = pc]
    <3>1. (calls # <<>>) \in BOOLEAN
      OBVIOUS
    <3>2. (IF pending # <<>> THEN "accept" ELSE IF calls # <<>> THEN "answer" ELSE "reap") \in {"accept", "answer", "reap"}
      OBVIOUS
    <3>3. server' = [server EXCEPT ![p].asked = (calls # <<>>),
                       ![p].pc = IF pending # <<>> THEN "accept" ELSE IF calls # <<>> THEN "answer" ELSE "reap"]
      BY <1>11 DEF Poll
    <3> QED BY <3>1, <3>2, <3>3
  <2>2. server' \in [Servers -> ServerState]
    <3>1. server[p] \in ServerState
      BY <1>0
    <3>2. [server[p] EXCEPT !.asked = asked, !.pc = pc] \in ServerState
      BY <3>1 DEF ServerState
    <3>3. server' = [server EXCEPT ![p] = [server[p] EXCEPT !.asked = asked, !.pc = pc]]
      BY <2>1
    <3> QED BY <1>0, <3>2, <3>3
  <2> QED BY <1>0, <1>11, <2>2 DEF Poll, streams, queues
<1>12. ASSUME NEW p \in Servers, Accept(p) PROVE client' = client /\ server' \in [Servers -> ServerState] /\ child' \in [Clients -> ChildState] /\ Rest
  <2>1. /\ pending' \in Seq(Clients) /\ child' \in [Clients -> ChildState] /\ server' \in [Servers -> ServerState]
        /\ faults' = faults \/ faults' \in 1 .. MaxFaults
    BY <1>12, AcceptIs
  <2>2. faults' \in 0 .. MaxFaults
    BY <1>0, <2>1
  <2> QED BY <1>0, <1>12, <2>1, <2>2 DEF Accept, streams
<1>13. ASSUME NEW p \in Servers, Call(p) PROVE client' = client /\ server' \in [Servers -> ServerState] /\ child' = child /\ Rest
  <2>1. calls # <<>> /\ calls' = Tail(calls) /\ server' = [server EXCEPT ![p].pc = "hear", ![p].call = {Head(calls)}]
    BY <1>13 DEF Call
  <2>2. Head(calls) \in Services /\ calls' \in Seq(Services)
    BY <1>0, <2>1, HeadTailProperties
  <2> DEFINE me == [server[p] EXCEPT !.pc = "hear", !.call = {Head(calls)}]
  <2>3. me \in ServerState
    <3>1. server[p] \in ServerState /\ {Head(calls)} \in SUBSET Services
      BY <1>0, <2>2
    <3> QED BY <3>1 DEF ServerState
  <2>4. server' = [server EXCEPT ![p] = me]
    BY <2>1
  <2> HIDE DEF me
  <2>5. server' \in [Servers -> ServerState]
    BY <1>0, <2>3, <2>4
  <2> QED BY <1>0, <1>13, <2>2, <2>5 DEF Call, streams
<1>14. ASSUME NEW p \in Servers, Hear(p) PROVE client' = client /\ server' \in [Servers -> ServerState] /\ child' \in [Clients -> ChildState] /\ Rest
  <2>1. /\ child' \in [Clients -> ChildState] /\ server' \in [Servers -> ServerState]
        /\ faults' = faults \/ faults' \in 1 .. MaxFaults
    BY <1>14, HearIs
  <2>2. faults' \in 0 .. MaxFaults
    BY <1>0, <2>1
  <2> QED BY <1>0, <1>14, <2>1, <2>2 DEF Hear, streams, queues
<1>15. CASE UNCHANGED vars
  BY <1>0, <1>15 DEF vars, streams, queues
<1> HIDE DEF Rest
<1> QED BY <1>0, <1>1, <1>2, <1>3, <1>4, <1>5, <1>6, <1>7, <1>8, <1>9, <1>10, <1>11, <1>12, <1>13, <1>14, <1>15, Steps

-----------------------------------------------------------------------------
(* The queue of connections, the input, and faults.                        *)

\* The steps that leave the queue alone.
LEMMA QueueKept ==
  ASSUME Queued, pending' = pending,
         \A c \in Clients : /\ client'[c].pc = "none" <=> client[c].pc = "none"
                            /\ child'[c].pc = "none" <=> child[c].pc = "none"
                            /\ server[c].pc = "none" => server'[c].pc = "none",
         pending \in Seq(Clients)
  PROVE  Queued'
<1>1. \A k \in DOMAIN pending : pending[k] \in Clients
  OBVIOUS
<1> QED BY <1>1 DEF Queued

LEMMA QueuedStep ==
  ASSUME TypeOK, Queued, [Next]_vars
  PROVE  Queued'
<1>0. pending \in Seq(Clients) /\ Clients \subseteq Servers
  BY DEF TypeOK, Servers
<1>1. ASSUME NEW c \in Clients, Connect(c) PROVE Queued'
  <2>1. /\ client[c].pc = "none" /\ client'[c].pc # "none" /\ \A d \in Clients : d # c => client'[d] = client[d]
    BY <1>1, ConnectIs, OneClient
  <2>2. child' = child /\ server' = server /\ (pending' = pending \/ pending' = Append(pending, c))
    BY <1>1 DEF Connect
  <2>3. child[c].pc = "none" /\ \A k \in DOMAIN pending : pending[k] \in Clients /\ pending[k] # c
    BY <1>0, <2>1 DEF Queued
  <2>4. CASE pending' = pending
    BY <2>1, <2>2, <2>3, <2>4 DEF Queued
  <2>5. CASE pending' = Append(pending, c)
    <3>1. /\ pending' \in Seq(Clients) /\ Len(pending') = Len(pending) + 1 /\ \A k \in 1 .. Len(pending) : pending'[k] = pending[k]
          /\ pending'[Len(pending) + 1] = c
      BY <1>0, <2>5, AppendProperties
    <3>2. \A k \in DOMAIN pending' : (k \in DOMAIN pending /\ pending'[k] = pending[k]) \/ (k = Len(pending) + 1 /\ pending'[k] = c)
      BY <1>0, <3>1
    <3>3. \A j, k \in DOMAIN pending' : pending'[j] = pending'[k] => j = k
      BY <2>3, <3>2 DEF Queued
    <3>4. \A k \in DOMAIN pending' : client'[pending'[k]].pc # "none" /\ child'[pending'[k]].pc = "none"
      BY <2>1, <2>2, <2>3, <3>2 DEF Queued
    <3> QED BY <2>1, <2>2, <3>3, <3>4 DEF Queued
  <2> QED BY <2>2, <2>4, <2>5
<1>2. ASSUME NEW c \in Clients, ClientPoll(c) \/ Line(c) \/ EndOfInput(c) \/ Recv(c) \/ Reset(c) PROVE Queued'
  <2>1. PICK me \in ClientState : client' = [client EXCEPT ![c] = me] /\ client[c].pc # "none" /\ me.pc # "none"
    <3>1. ASSUME ClientPoll(c) PROVE \E me \in ClientState : client' = [client EXCEPT ![c] = me] /\ client[c].pc # "none" /\ me.pc # "none"
      BY <3>1, ClientPollIs
    <3>2. ASSUME Line(c) PROVE \E me \in ClientState : client' = [client EXCEPT ![c] = me] /\ client[c].pc # "none" /\ me.pc # "none"
      BY <3>2, LineIs
    <3>3. ASSUME EndOfInput(c) PROVE \E me \in ClientState : client' = [client EXCEPT ![c] = me] /\ client[c].pc # "none" /\ me.pc # "none"
      BY <3>3, EndOfInputIs
    <3>4. ASSUME Recv(c) PROVE \E me \in ClientState : client' = [client EXCEPT ![c] = me] /\ client[c].pc # "none" /\ me.pc # "none"
      BY <3>4, RecvIs
    <3>5. ASSUME Reset(c) PROVE \E me \in ClientState : client' = [client EXCEPT ![c] = me] /\ client[c].pc # "none" /\ me.pc # "none"
      BY <3>5, ResetIs
    <3> QED BY <1>2, <3>1, <3>2, <3>3, <3>4, <3>5
  <2>2. client'[c] = me /\ \A d \in Clients : d # c => client'[d] = client[d]
    BY <2>1, OneClient
  <2>3. child' = child /\ server' = server /\ pending' = pending
    BY <1>2 DEF ClientPoll, Line, EndOfInput, Recv, Reset, queues
  <2> QED BY <1>0, <2>1, <2>2, <2>3, QueueKept
<1>3. ASSUME NEW c \in Clients, Sqlite3(c) PROVE Queued'
  <2>1. /\ child[c].pc = "sqlite3" /\ child'[c].pc # "none" /\ (\A d \in Clients : d # c => child'[d] = child[d]) /\ client' = client
    BY <1>3, Sqlite3Is
  <2>2. server' = server /\ pending' = pending
    BY <1>3 DEF Sqlite3, queues
  <2> QED BY <1>0, <2>1, <2>2, QueueKept
<1>4. CASE (\E s \in Services : ServiceConnect(s) \/ ServiceSend(s)) \/ UNCHANGED vars
  <2>1. client' = client /\ child' = child /\ server' = server /\ pending' = pending
    BY <1>4 DEF ServiceConnect, ServiceSend, vars, queues
  <2> QED BY <1>0, <2>1, QueueKept
<1>5. ASSUME NEW p \in Servers, ReapChildren(p) \/ Poll(p) \/ Call(p) PROVE Queued'
  <2>1. client' = client /\ pending' = pending
    BY <1>5 DEF ReapChildren, Poll, Call, queues
  <2>2. \A c \in Clients : child'[c].pc = "none" <=> child[c].pc = "none"
    BY <1>5, ReapedIs DEF ReapChildren, Poll, Call
  <2>3. \A c \in Clients : server[c].pc = "none" => server'[c].pc = "none"
    <3>1. server \in [Servers -> ServerState] /\ server[p].pc # "none"
      BY <1>5 DEF TypeOK, ServerState, ReapChildren, Poll, Call
    <3>2. \A q \in Servers : q # p => server'[q] = server[q]
      BY <1>5, <3>1 DEF ReapChildren, Poll, Call
    <3> QED BY <1>0, <3>1, <3>2
  <2> QED BY <1>0, <2>1, <2>2, <2>3, QueueKept
<1>6. ASSUME NEW p \in Servers, Accept(p) PROVE Queued'
  <2> DEFINE c == Head(pending)
  <2>1. /\ pending # <<>> /\ c \in Clients /\ pending' = Tail(pending) /\ pending' \in Seq(Clients)
        /\ child'[c].pc # "none" /\ (\A d \in Clients : d # c => child'[d] = child[d])
        /\ \A q \in Servers : server[q].pc = "none" /\ q # p /\ q # c => server'[q].pc = "none"
    BY <1>6, AcceptIs
  <2>2. client' = client /\ server[p].pc = "accept"
    BY <1>6 DEF Accept
  <2>3. \A k \in DOMAIN pending' : k + 1 \in DOMAIN pending /\ pending'[k] = pending[k + 1] /\ pending[k + 1] # c
    <3>1. Len(pending') = Len(pending) - 1 /\ \A k \in 1 .. Len(pending') : pending'[k] = pending[k + 1]
      BY <1>0, <2>1, HeadTailProperties
    <3>2. c = pending[1] /\ Len(pending) \in Nat \ {0} /\ DOMAIN pending = 1 .. Len(pending) /\ DOMAIN pending' = 1 .. Len(pending')
      BY <1>0, <2>1
    <3>3. \A k \in DOMAIN pending' : k + 1 \in DOMAIN pending /\ k + 1 # 1 /\ 1 \in DOMAIN pending
      BY <3>1, <3>2
    <3> HIDE DEF c
    <3> QED BY <3>1, <3>2, <3>3 DEF Queued
  <2>4. client[c].pc # "none"
    <3>1. 1 \in DOMAIN pending /\ c = pending[1]
      BY <1>0, <2>1
    <3> QED BY <3>1 DEF Queued
  <2> HIDE DEF c
  <2>5. \A j, k \in DOMAIN pending' : pending'[j] = pending'[k] => j = k
    <3> TAKE j, k \in DOMAIN pending'
    <3>1. pending'[j] = pending'[k] => j + 1 = k + 1
      BY <2>3 DEF Queued
    <3>2. j \in Nat /\ k \in Nat
      BY <2>1
    <3> QED BY <3>1, <3>2
  <2>6. \A k \in DOMAIN pending' : client'[pending'[k]].pc # "none" /\ child'[pending'[k]].pc = "none"
    <3> TAKE k \in DOMAIN pending'
    <3>1. pending'[k] \in Clients
      BY <2>1
    <3> QED BY <2>1, <2>2, <2>3, <3>1 DEF Queued
  <2>7. \A d \in Clients : (client'[d].pc = "none" => child'[d].pc = "none") /\ (child'[d].pc = "none" => server'[d].pc = "none")
    <3> TAKE d \in Clients
    <3>1. CASE d = c
      BY <2>1, <2>2, <2>4, <3>1
    <3>2. CASE d # c
      <4>1. child'[d] = child[d] /\ client' = client
        BY <2>1, <2>2, <3>2
      <4>2. child[d].pc = "none" => server[d].pc = "none" /\ d # p
        BY <2>2 DEF Queued
      <4> QED BY <1>0, <2>1, <3>2, <4>1, <4>2 DEF Queued
    <3> QED BY <3>1, <3>2
  <2> QED BY <2>5, <2>6, <2>7 DEF Queued
<1>7. ASSUME NEW p \in Servers, Hear(p) PROVE Queued'
  <2>1. client' = client /\ pending' = pending
    BY <1>7 DEF Hear, queues
  <2>2. \A c \in Clients : server[c].pc = "none" => server'[c].pc = "none"
    BY <1>0, <1>7, HearIs
  <2>3. \A c \in Clients : child'[c].pc = "none" <=> child[c].pc = "none"
    <3>1. \A c \in Clients : c = p => child[c].pc # "none"
      BY <1>7, HearIs DEF Queued
    <3> QED BY <1>7, <3>1, HearIs
  <2> QED BY <1>0, <2>1, <2>2, <2>3, QueueKept
<1> QED BY <1>1, <1>2, <1>3, <1>4, <1>5, <1>6, <1>7, Steps

LEMMA PlaceStep ==
  ASSUME TypeOK, InputPlace, [Next]_vars
  PROVE  InputPlace'
<1> DEFINE Good(me) == me.at <= Len(me.lines) + 1 /\ (me.eof => me.pc # "line")
<1>1. ASSUME NEW c \in Clients, Connect(c) \/ ClientPoll(c) \/ Line(c) \/ EndOfInput(c) \/ Recv(c) \/ Reset(c) PROVE InputPlace'
  <2>0. Good(client[c]) /\ client[c] \in ClientState
    BY DEF InputPlace, TypeOK, ClientState
  <2>1. PICK me \in ClientState : client' = [client EXCEPT ![c] = me] /\ Good(me)
    <3>1. ASSUME Connect(c) PROVE \E me \in ClientState : client' = [client EXCEPT ![c] = me] /\ Good(me)
      BY <2>0, <3>1, ConnectIs
    <3>2. ASSUME ClientPoll(c) PROVE \E me \in ClientState : client' = [client EXCEPT ![c] = me] /\ Good(me)
      BY <2>0, <3>2, ClientPollIs
    <3>3. ASSUME Line(c) PROVE \E me \in ClientState : client' = [client EXCEPT ![c] = me] /\ Good(me)
      <4>1. PICK me \in ClientState :
              /\ client' = [client EXCEPT ![c] = me] /\ me.pc \in {"poll", "recv", "over"}
              /\ client[c].at \in DOMAIN client[c].lines /\ me.lines = client[c].lines
              /\ me.at = IF me.pc = "over" THEN client[c].at ELSE client[c].at + 1
        BY <3>3, LineIs
      <4>2. client[c].lines \in Seq(Lines) /\ client[c].at \in Nat
        BY <2>0 DEF ClientState
      <4>3. client[c].at <= Len(client[c].lines)
        BY <4>1, <4>2
      <4>4. me.at <= Len(me.lines) + 1
        BY <4>1, <4>2, <4>3
      <4> QED BY <4>1, <4>4
    <3>4. ASSUME EndOfInput(c) PROVE \E me \in ClientState : client' = [client EXCEPT ![c] = me] /\ Good(me)
      BY <2>0, <3>4, EndOfInputIs
    <3>5. ASSUME Recv(c) PROVE \E me \in ClientState : client' = [client EXCEPT ![c] = me] /\ Good(me)
      BY <2>0, <3>5, RecvIs
    <3>6. ASSUME Reset(c) PROVE \E me \in ClientState : client' = [client EXCEPT ![c] = me] /\ Good(me)
      BY <2>0, <3>6, ResetIs
    <3> QED BY <1>1, <3>1, <3>2, <3>3, <3>4, <3>5, <3>6
  <2>2. client'[c] = me /\ \A d \in Clients : d # c => client'[d] = client[d]
    BY <2>1, OneClient
  <2> QED BY <2>1, <2>2 DEF InputPlace
<1>2. ASSUME client' = client PROVE InputPlace'
  BY <1>2 DEF InputPlace
<1>3. ASSUME NEW c \in Clients, Sqlite3(c) PROVE client' = client
  BY <1>3 DEF Sqlite3
<1>4. ASSUME NEW s \in Services, ServiceConnect(s) \/ ServiceSend(s) PROVE client' = client
  BY <1>4 DEF ServiceConnect, ServiceSend
<1>5. ASSUME NEW p \in Servers, ReapChildren(p) \/ Poll(p) \/ Accept(p) \/ Call(p) \/ Hear(p) PROVE client' = client
  BY <1>5 DEF ReapChildren, Poll, Accept, Call, Hear
<1>6. UNCHANGED vars => client' = client
  BY DEF vars
<1> QED BY <1>1, <1>2, <1>3, <1>4, <1>5, <1>6, Steps

LEMMA FaultStep ==
  ASSUME TypeOK, Queued, NoFaultYet, [Next]_vars
  PROVE  NoFaultYet'
<1> DEFINE Fine == \A c \in Clients : child[c].pc \in {"none", "sqlite3", "zombie", "gone"} /\ server[c].pc = "none"
<1>0. faults = 0 => Fine
  BY DEF NoFaultYet
<1>1. SUFFICES ASSUME faults' = 0 PROVE Fine'
  BY DEF NoFaultYet
<1>2. ASSUME NEW c \in Clients, Connect(c) \/ ClientPoll(c) \/ Line(c) \/ EndOfInput(c) \/ Recv(c) \/ Reset(c) PROVE Fine'
  BY <1>0, <1>1, <1>2 DEF Connect, ClientPoll, Line, EndOfInput, Recv, Reset
<1>3. ASSUME NEW c \in Clients, Sqlite3(c) PROVE Fine'
  <2>1. faults' = faults /\ server' = server
    BY <1>3 DEF Sqlite3
  <2>2. child'[c].pc \in {"sqlite3", "zombie"} /\ \A d \in Clients : d # c => child'[d] = child[d]
    BY <1>3, Sqlite3Is
  <2> QED BY <1>0, <1>1, <2>1, <2>2
<1>4. CASE (\E s \in Services : ServiceConnect(s) \/ ServiceSend(s)) \/ UNCHANGED vars
  BY <1>0, <1>1, <1>4 DEF ServiceConnect, ServiceSend, vars
<1>5. Clients \subseteq Servers /\ server \in [Servers -> ServerState] /\ Main \notin Clients
  BY SqlAssumption DEF TypeOK, Servers, ServerState
<1>6. ASSUME NEW p \in Servers, ReapChildren(p) \/ Poll(p) \/ Call(p) PROVE Fine'
  <2>1. faults' = faults /\ server[p].pc # "none" /\ \A q \in Servers : q # p => server'[q] = server[q]
    BY <1>5, <1>6 DEF ReapChildren, Poll, Call
  <2>2. \A c \in Clients : child'[c] = child[c] \/ child'[c].pc = "gone"
    BY <1>6, ReapedIs DEF ReapChildren, Poll, Call
  <2>3. Fine
    BY <1>0, <1>1, <2>1
  <2>4. \A c \in Clients : server'[c].pc = "none"
    BY <1>5, <2>1, <2>3
  <2> QED BY <2>2, <2>3, <2>4
<1>7. ASSUME NEW p \in Servers, Accept(p) PROVE Fine'
  <2>1. /\ Head(pending) \in Clients /\ child'[Head(pending)].pc = "sqlite3" /\ faults' = faults
        /\ (\A d \in Clients : d # Head(pending) => child'[d] = child[d])
        /\ \A q \in Servers : server[q].pc = "none" /\ q # p => server'[q].pc = "none"
    <3>1. faults' \notin 1 .. MaxFaults
      BY <1>1
    <3> QED BY <1>7, <3>1, AcceptIs
  <2>2. server[p].pc = "accept"
    BY <1>7 DEF Accept
  <2>3. Fine
    BY <1>0, <1>1, <2>1
  <2> QED BY <1>5, <2>1, <2>2, <2>3
<1>8. ASSUME NEW p \in Servers, Hear(p) PROVE Fine'
  <2>1. /\ server[p].pc = "hear" /\ faults' = faults
        /\ \A q \in Servers : server[q].pc = "none" => server'[q].pc = "none"
        /\ \A c \in Clients : c = p \/ child'[c] = child[c] \/ child'[c].pc = "gone"
    <3>1. faults' \notin 1 .. MaxFaults
      BY <1>1
    <3> QED BY <1>8, <3>1, HearIs
  <2>2. Fine
    BY <1>0, <1>1, <2>1
  <2>3. p \notin Clients
    BY <2>1, <2>2
  <2> QED BY <1>5, <2>1, <2>2, <2>3
<1> QED BY <1>2, <1>3, <1>4, <1>6, <1>7, <1>8, Steps

-----------------------------------------------------------------------------
(* The books of a connection.                                              *)

LEMMA SentType ==
  ASSUME TypeOK, InputPlace, NEW c \in Clients
  PROVE  /\ LinesSent(c) \in Seq(Lines) /\ SubSeq(client[c].lines, 1, client[c].at - 1) \in Seq(Lines)
         /\ Len(SubSeq(client[c].lines, 1, client[c].at - 1)) = client[c].at - 1
         /\ client[c].at - 1 \in 0 .. Len(client[c].lines)
<1> DEFINE lines == client[c].lines
           n == client[c].at - 1
           more == IF client[c].eof THEN <<Quit>> ELSE <<>>
<1>1. lines \in Seq(Lines) /\ n \in 0 .. Len(lines)
  <2>1. client[c] \in ClientState
    BY DEF TypeOK, ClientState
  <2>2. lines \in Seq(Lines) /\ client[c].at \in Nat /\ client[c].at # 0
    BY <2>1 DEF ClientState
  <2>3. client[c].at <= Len(lines) + 1
    BY DEF InputPlace
  <2> QED BY <2>2, <2>3
<1>2. SubSeq(lines, 1, n) \in Seq(Lines) /\ Len(SubSeq(lines, 1, n)) = n
  <2> HIDE DEF lines, n
  <2> QED BY <1>1, Split
<1>3. more \in Seq(Lines)
  <2>1. Quit \in Lines
    BY SqlAssumption DEF Lines
  <2>2. <<Quit>> \in Seq(Lines) /\ <<>> \in Seq(Lines)
    BY <2>1
  <2> QED BY <2>2
<1>4. LinesSent(c) = SubSeq(lines, 1, n) \o more
  BY DEF LinesSent
<1>5. LinesSent(c) \in Seq(Lines)
  <2> HIDE DEF lines, n, more
  <2> QED BY <1>2, <1>3, <1>4, ConcatProperties
<1> QED BY <1>1, <1>2, <1>5

\* Nothing happens on the connection, but for items that are received.
LEMMA AccountKept ==
  ASSUME NEW c \in Clients, Accounted(c),
         client'[c].lines = client[c].lines, client'[c].at = client[c].at, client'[c].eof = client[c].eof,
         client'[c].shown \o down'[c] = client[c].shown \o down[c], up'[c] = up[c], Ended(c)' <=> Ended(c)
  PROVE  Accounted(c)'
<1>1. LinesSent(c)' = LinesSent(c)
  BY DEF LinesSent
<1> QED BY <1>1 DEF Accounted

\* A line is sent.
LEMMA AccountSent ==
  ASSUME NEW c \in Clients, Accounted(c), NEW l \in Lines, LinesSent(c) \in Seq(Lines),
         LinesSent(c)' = Append(LinesSent(c), l), up'[c] = Append(up[c], l),
         client'[c].shown = client[c].shown, down'[c] = down[c], Ended(c)' <=> Ended(c)
  PROVE  Accounted(c)'
<1> DEFINE s == LinesSent(c)
           t == LinesSent(c)'
<1>1. PICK n \in 0 .. Len(s) :
        /\ \A k \in 1 .. n : s[k] # Quit
        /\ client[c].shown \o down[c] = Answers(SubSeq(s, 1, n))
        /\ IF Ended(c) THEN n < Len(s) /\ s[n + 1] = Quit ELSE up[c] = SubSeq(s, n + 1, Len(s))
  BY DEF Accounted
<1>2. /\ t = Append(s, l) /\ s \in Seq(Lines) /\ t \in Seq(Lines) /\ Len(t) = Len(s) + 1 /\ Len(s) \in Nat
      /\ \A k \in 1 .. Len(s) : t[k] = s[k]
  BY AppendProperties
<1> HIDE DEF s, t
<1>3. /\ SubSeq(t, 1, n) = SubSeq(s, 1, n)
      /\ SubSeq(t, n + 1, Len(t)) = Append(SubSeq(s, n + 1, Len(s)), l)
  BY <1>2, Appended
<1>4. n \in 0 .. Len(t) /\ \A k \in 1 .. n : t[k] # Quit
  BY <1>1, <1>2
<1>5. IF Ended(c)' THEN n < Len(t) /\ t[n + 1] = Quit ELSE up'[c] = SubSeq(t, n + 1, Len(t))
  <2>1. CASE Ended(c)
    <3>1. n < Len(s) /\ s[n + 1] = Quit
      BY <1>1, <2>1
    <3>2. n < Len(t) /\ n + 1 \in 1 .. Len(s)
      BY <1>2, <3>1
    <3> QED BY <1>2, <2>1, <3>1, <3>2
  <2>2. CASE ~Ended(c)
    BY <1>1, <1>3, <2>2
  <2> QED BY <2>1, <2>2
<1>6. (client'[c].shown \o down'[c]) = Answers(SubSeq(t, 1, n))
  BY <1>1, <1>3
<1> QED BY <1>4, <1>5, <1>6 DEF Accounted, t

\* sqlite3 answers a line.
LEMMA AccountAnswered ==
  ASSUME NEW c \in Clients, Accounted(c), LinesSent(c) \in Seq(Lines), LinesSent(c)' = LinesSent(c),
         client[c].shown \in Seq(Lines), down[c] \in Seq(Lines), client'[c].shown = client[c].shown,
         up[c] # <<>>, Head(up[c]) # Quit, up'[c] = Tail(up[c]), down'[c] = down[c] \o Answer(Head(up[c])),
         ~Ended(c), ~Ended(c)'
  PROVE  Accounted(c)'
<1> DEFINE s == LinesSent(c)
<1>1. PICK n \in 0 .. Len(s) :
        /\ \A k \in 1 .. n : s[k] # Quit
        /\ client[c].shown \o down[c] = Answers(SubSeq(s, 1, n))
        /\ up[c] = SubSeq(s, n + 1, Len(s))
  BY DEF Accounted
<1>2. s \in Seq(Lines) /\ Len(s) \in Nat
  OBVIOUS
<1> HIDE DEF s
<1>3. n + 1 \in 1 .. Len(s) /\ n \in Nat
  <2>1. ~ (Len(s) < n + 1)
    BY <1>1, <1>2, SubSeqEmpty
  <2> QED BY <1>2, <2>1
<1>4. Head(up[c]) = s[n + 1] /\ Tail(up[c]) = SubSeq(s, (n + 1) + 1, Len(s))
  <2>1. Len(s) \in n + 1 .. Len(s)
    BY <1>2, <1>3
  <2> QED BY <1>1, <1>2, <1>3, <2>1, HeadTailOfSubSeq
<1>5. s[n + 1] \in Lines /\ s[n + 1] # Quit /\ SubSeq(s, 1, n) \in Seq(Lines)
  BY <1>2, <1>3, <1>4, Split
<1>6. SubSeq(s, 1, n + 1) = Append(SubSeq(s, 1, n), s[n + 1])
  <2>1. 1 \in 1 .. Len(s) /\ n + 1 \in 1 .. Len(s) /\ (n + 1) - 1 = n
    BY <1>2, <1>3
  <2>2. SubSeq(s, 1, n + 1) = SubSeq(s, 1, (n + 1) - 1) \o <<s[n + 1]>>
    BY <1>2, <2>1, SubSeqRecursiveSecond
  <2>3. Append(SubSeq(s, 1, n), s[n + 1]) = SubSeq(s, 1, n) \o <<s[n + 1]>>
    BY <1>5, AppendIsConcat
  <2> QED BY <2>1, <2>2, <2>3
<1>7. Answers(SubSeq(s, 1, n + 1)) = Answers(SubSeq(s, 1, n)) \o Answer(s[n + 1]) /\ Answer(s[n + 1]) \in Seq(Lines)
  <2>1. PICK a \in Seq(Lines), l \in Lines : a = SubSeq(s, 1, n) /\ l = s[n + 1]
    BY <1>5
  <2>2. Answers(Append(a, l)) = Answers(a) \o Answer(l) /\ Answer(l) \in Seq(Lines)
    BY AnswersAre
  <2> QED BY <1>6, <2>1, <2>2
<1>8. client[c].shown \o (down[c] \o Answer(s[n + 1])) = (client[c].shown \o down[c]) \o Answer(s[n + 1])
  <2>1. PICK a \in Seq(Lines), b \in Seq(Lines), x \in Seq(Lines) :
          a = client[c].shown /\ b = down[c] /\ x = Answer(s[n + 1])
    BY <1>7
  <2>2. (a \o b) \o x = a \o (b \o x)
    BY SMTT(40)
  <2> QED BY <2>1, <2>2
<1>9. client'[c].shown \o down'[c] = Answers(SubSeq(s, 1, n + 1))
  BY <1>1, <1>4, <1>7, <1>8
<1>10. n + 1 \in 0 .. Len(s) /\ \A k \in 1 .. n + 1 : s[k] # Quit
  BY <1>1, <1>2, <1>3, <1>5
<1>11. up'[c] = SubSeq(s, (n + 1) + 1, Len(s))
  BY <1>4
<1>12. LinesSent(c)' = s
  BY DEF s
<1> QED BY <1>9, <1>10, <1>11, <1>12 DEF Accounted

\* sqlite3 reads .exit.
LEMMA AccountExit ==
  ASSUME NEW c \in Clients, Accounted(c), LinesSent(c) \in Seq(Lines), LinesSent(c)' = LinesSent(c),
         client'[c].shown = client[c].shown, down'[c] = down[c],
         up[c] # <<>>, Head(up[c]) = Quit, ~Ended(c), Ended(c)'
  PROVE  Accounted(c)'
<1> DEFINE s == LinesSent(c)
<1>1. PICK n \in 0 .. Len(s) :
        /\ \A k \in 1 .. n : s[k] # Quit
        /\ client[c].shown \o down[c] = Answers(SubSeq(s, 1, n))
        /\ up[c] = SubSeq(s, n + 1, Len(s))
  BY DEF Accounted
<1>2. s \in Seq(Lines) /\ Len(s) \in Nat
  OBVIOUS
<1>12. LinesSent(c)' = s
  OBVIOUS
<1> HIDE DEF s
<1>3. n + 1 \in 1 .. Len(s) /\ n \in Nat
  <2>1. ~ (Len(s) < n + 1)
    BY <1>1, <1>2, SubSeqEmpty
  <2> QED BY <1>2, <2>1
<1>4. Head(up[c]) = s[n + 1]
  <2>1. Len(s) \in n + 1 .. Len(s)
    BY <1>2, <1>3
  <2> QED BY <1>1, <1>2, <1>3, <2>1, HeadTailOfSubSeq
<1>5. n < Len(s) /\ s[n + 1] = Quit
  BY <1>2, <1>3, <1>4
<1> QED BY <1>1, <1>5, <1>12 DEF Accounted

LEMMA BooksClient ==
  ASSUME SqlInv, NEW c \in Clients, Accounted(c),
         Connect(c) \/ ClientPoll(c) \/ Line(c) \/ EndOfInput(c) \/ Recv(c) \/ Reset(c)
  PROVE  Over(c)' \/ Accounted(c)'
<1>0. TypeOK /\ InputPlace
  BY DEF SqlInv
<1>1. LinesSent(c) \in Seq(Lines)
  BY <1>0, SentType
<1>2. ASSUME NEW me \in ClientState, client' = [client EXCEPT ![c] = me],
             me.lines = client[c].lines, me.at = client[c].at, me.eof = client[c].eof,
             me.shown \o down'[c] = client[c].shown \o down[c], up' = up, child' = child
      PROVE  Accounted(c)'
  <2>1. client'[c] = me
    BY <1>0, <1>2, OneClient
  <2>2. Ended(c)' <=> Ended(c)
    BY <1>2 DEF Ended
  <2> QED BY <1>2, <2>1, <2>2, AccountKept
<1>3. CASE Connect(c)
  <2>1. up' = up /\ down' = down /\ child' = child
    BY <1>3 DEF Connect, streams
  <2> QED BY <1>0, <1>2, <1>3, <2>1, ConnectIs
<1>4. CASE ClientPoll(c)
  <2>1. up' = up /\ down' = down /\ child' = child
    BY <1>4 DEF ClientPoll, streams
  <2> QED BY <1>0, <1>2, <1>4, <2>1, ClientPollIs
<1>5. CASE Reset(c)
  <2>1. up' = up /\ down' = down /\ child' = child
    BY <1>5 DEF Reset, streams
  <2> QED BY <1>0, <1>2, <1>5, <2>1, ResetIs
<1>6. CASE Recv(c)
  <2>1. up' = up /\ child' = child
    BY <1>6 DEF Recv
  <2> QED BY <1>0, <1>2, <1>6, <2>1, RecvIs
<1>7. CASE Line(c)
  <2>1. PICK me \in ClientState :
           /\ client' = [client EXCEPT ![c] = me] /\ client[c].pc = "line"
           /\ client[c].at \in DOMAIN client[c].lines
           /\ up' = [up EXCEPT ![c] = Append(@, client[c].lines[client[c].at])]
           /\ me.lines = client[c].lines /\ me.eof = client[c].eof /\ me.shown = client[c].shown
           /\ me.at = IF me.pc = "over" THEN client[c].at ELSE client[c].at + 1
    BY <1>0, <1>7, LineIs
  <2>2. client'[c] = me /\ down' = down /\ child' = child
    BY <1>0, <1>7, <2>1, OneClient DEF Line
  <2>3. CASE me.pc = "over"
    BY <2>2, <2>3 DEF Over
  <2>4. CASE me.pc # "over"
    <3> DEFINE lines == client[c].lines
               at == client[c].at
    <3>1. ~client[c].eof
      BY <1>0, <2>1 DEF InputPlace
    <3>2. lines \in Seq(Lines) /\ at \in Nat \ {0} /\ at \in 1 .. Len(lines) /\ lines[at] \in Lines
      <4>1. client[c] \in ClientState
        BY <1>0 DEF TypeOK, ClientState
      <4>2. lines \in Seq(Lines) /\ at \in Nat \ {0} /\ at \in DOMAIN lines
        BY <2>1, <4>1 DEF ClientState
      <4> QED BY <4>2
    <3>3. LinesSent(c) = SubSeq(lines, 1, at - 1) \o <<>> /\ LinesSent(c)' = SubSeq(lines, 1, at) \o <<>>
      <4>1. client'[c].lines = lines /\ client'[c].at = at + 1 /\ ~client'[c].eof /\ (at + 1) - 1 = at
        BY <2>1, <2>2, <2>4, <3>1, <3>2
      <4> QED BY <3>1, <4>1 DEF LinesSent
    <3>4. LinesSent(c)' = Append(LinesSent(c), lines[at])
      <4> HIDE DEF lines, at
      <4>1. SubSeq(lines, 1, at) = SubSeq(lines, 1, at - 1) \o <<lines[at]>>
        <5>1. 1 \in 1 .. Len(lines)
          BY <3>2
        <5> QED BY <3>2, <5>1, SubSeqRecursiveSecond
      <4>2. SubSeq(lines, 1, at - 1) \in Seq(Lines) /\ SubSeq(lines, 1, at) \in Seq(Lines)
        <5>1. at - 1 \in 0 .. Len(lines) /\ at \in 0 .. Len(lines)
          BY <3>2
        <5> QED BY <3>2, <5>1, Split
      <4>3. LinesSent(c) = SubSeq(lines, 1, at - 1) /\ LinesSent(c)' = SubSeq(lines, 1, at)
        BY <3>3, <4>2, ConcatEmptySeq
      <4>4. Append(SubSeq(lines, 1, at - 1), lines[at]) = SubSeq(lines, 1, at - 1) \o <<lines[at]>>
        BY <3>2, <4>2, AppendIsConcat
      <4> QED BY <4>1, <4>3, <4>4
    <3>5. up'[c] = Append(up[c], lines[at])
      <4>1. up \in [Clients -> Seq(Lines)]
        BY <1>0 DEF TypeOK
      <4> QED BY <2>1, <4>1
    <3>6. (Ended(c)' <=> Ended(c)) /\ client'[c].shown = client[c].shown /\ down'[c] = down[c]
      BY <2>1, <2>2 DEF Ended
    <3> HIDE DEF lines, at
    <3> QED BY <1>1, <3>2, <3>4, <3>5, <3>6, AccountSent
  <2> QED BY <2>3, <2>4
<1>8. CASE EndOfInput(c)
  <2>1. PICK me \in ClientState :
           /\ client' = [client EXCEPT ![c] = me] /\ client[c].pc = "line"
           /\ up' = [up EXCEPT ![c] = Append(@, Quit)]
           /\ me.lines = client[c].lines /\ me.at = client[c].at /\ me.eof /\ me.shown = client[c].shown
    BY <1>0, <1>8, EndOfInputIs
  <2>2. client'[c] = me /\ down' = down /\ child' = child
    BY <1>0, <1>8, <2>1, OneClient DEF EndOfInput
  <2>3. ~client[c].eof
    BY <1>0, <2>1 DEF InputPlace
  <2> DEFINE read == SubSeq(client[c].lines, 1, client[c].at - 1)
  <2>4. LinesSent(c) = read \o <<>> /\ LinesSent(c)' = read \o <<Quit>>
    BY <2>1, <2>2, <2>3 DEF LinesSent
  <2>5. read \in Seq(Lines) /\ Quit \in Lines
    BY <1>0, SentType, SqlAssumption DEF Lines
  <2> HIDE DEF read
  <2>6. LinesSent(c)' = Append(LinesSent(c), Quit)
    BY <2>4, <2>5, ConcatEmptySeq, AppendIsConcat
  <2>7. up'[c] = Append(up[c], Quit)
    <3>1. up \in [Clients -> Seq(Lines)]
      BY <1>0 DEF TypeOK
    <3> QED BY <2>1, <3>1
  <2>8. (Ended(c)' <=> Ended(c)) /\ client'[c].shown = client[c].shown /\ down'[c] = down[c]
    BY <2>1, <2>2 DEF Ended
  <2> QED BY <1>1, <2>5, <2>6, <2>7, <2>8, AccountSent
<1> QED BY <1>3, <1>4, <1>5, <1>6, <1>7, <1>8

LEMMA BooksSqlite3 ==
  ASSUME SqlInv, NEW c \in Clients, Accounted(c), Sqlite3(c)
  PROVE  Over(c)' \/ Accounted(c)'
<1>0. TypeOK /\ InputPlace
  BY DEF SqlInv
<1>1. LinesSent(c) \in Seq(Lines)
  BY <1>0, SentType
<1>2. client' = client /\ child[c].pc = "sqlite3" /\ ~Ended(c) /\ LinesSent(c)' = LinesSent(c)
  BY <1>0, Sqlite3Is DEF Ended, LinesSent
<1>3. client[c].shown \in Seq(Lines) /\ down[c] \in Seq(Lines)
  <2>1. client[c] \in ClientState /\ down \in [Clients -> Seq(Lines)]
    BY <1>0 DEF TypeOK, ClientState
  <2> QED BY <2>1 DEF ClientState
<1>4. CASE Over(c)
  BY <1>2, <1>4 DEF Over
<1>5. CASE /\ up[c] # <<>> /\ Head(up[c]) # Quit /\ up'[c] = Tail(up[c]) /\ child' = child
           /\ down'[c] = down[c] \o Answer(Head(up[c]))
  <2>1. ~Ended(c)' /\ client'[c].shown = client[c].shown
    BY <1>2, <1>5 DEF Ended
  <2> QED BY <1>1, <1>2, <1>3, <1>5, <2>1, AccountAnswered
<1>6. CASE up[c] # <<>> /\ Head(up[c]) = Quit /\ down'[c] = down[c] /\ child'[c].pc = "zombie"
  <2>1. Ended(c)' /\ client'[c].shown = client[c].shown
    BY <1>2, <1>6 DEF Ended
  <2> QED BY <1>1, <1>2, <1>6, <2>1, AccountExit
<1> QED BY <1>0, <1>4, <1>5, <1>6, Sqlite3Is

LEMMA BooksStep == SqlInv /\ [Next]_vars => Books'
<1>1. SUFFICES ASSUME SqlInv, [Next]_vars, faults' = 0, NEW d \in Clients PROVE Over(d)' \/ Accounted(d)'
  BY DEF Books
<1>2. TypeOK /\ InputPlace /\ Queued /\ NoFaultYet
  BY <1>1 DEF SqlInv
<1>3. faults = 0 => Over(d) \/ Accounted(d)
  BY <1>1 DEF SqlInv, Books
<1>4. ASSUME client'[d] = client[d], up'[d] = up[d], down'[d] = down[d], Ended(d)' <=> Ended(d), faults = 0
      PROVE  Over(d)' \/ Accounted(d)'
  <2>1. CASE Over(d)
    BY <1>4, <2>1 DEF Over
  <2>2. CASE Accounted(d)
    BY <1>4, <2>2, AccountKept
  <2> QED BY <1>3, <1>4, <2>1, <2>2
<1>5. ASSUME NEW c \in Clients, Connect(c) \/ ClientPoll(c) \/ Line(c) \/ EndOfInput(c) \/ Recv(c) \/ Reset(c)
      PROVE  Over(d)' \/ Accounted(d)'
  <2>1. faults' = faults /\ child' = child
    BY <1>5 DEF Connect, ClientPoll, Line, EndOfInput, Recv, Reset
  <2>0. \E me \in ClientState : client' = [client EXCEPT ![c] = me] /\ (client[c].pc = "over" => me.pc = "over")
    <3>1. CASE Connect(c)
      BY <1>2, <3>1, ConnectIs
    <3>2. CASE ClientPoll(c)
      BY <1>2, <3>2, ClientPollIs
    <3>3. CASE Line(c)
      BY <1>2, <3>3, LineIs
    <3>4. CASE EndOfInput(c)
      BY <1>2, <3>4, EndOfInputIs
    <3>5. CASE Recv(c)
      BY <1>2, <3>5, RecvIs
    <3>6. CASE Reset(c)
      BY <1>2, <3>6, ResetIs
    <3> QED BY <1>5, <3>1, <3>2, <3>3, <3>4, <3>5, <3>6
  <2>2. CASE d # c
    <3>1. client'[d] = client[d]
      BY <1>2, <2>0, <2>2, OneClient
    <3>2. down'[d] = down[d]
      BY <1>2, <1>5, <2>2, RecvIs DEF Connect, ClientPoll, Line, EndOfInput, Reset, streams
    <3>3. up'[d] = up[d]
      <4>1. up \in [Clients -> Seq(Lines)]
        BY <1>2 DEF TypeOK
      <4> QED BY <1>5, <2>2, <4>1 DEF Connect, ClientPoll, Line, EndOfInput, Recv, Reset, streams
    <3>4. Ended(d)' <=> Ended(d)
      BY <2>1 DEF Ended
    <3> QED BY <1>1, <1>4, <2>1, <3>1, <3>2, <3>3, <3>4
  <2>3. CASE d = c /\ Accounted(c)
    BY <1>1, <1>5, <2>3, BooksClient
  <2>4. CASE d = c /\ Over(c)
    <3>1. PICK me \in ClientState : client' = [client EXCEPT ![c] = me] /\ me.pc = "over"
      BY <2>0, <2>4 DEF Over
    <3>2. client'[c] = me
      BY <1>2, <3>1, OneClient
    <3> QED BY <2>4, <3>1, <3>2 DEF Over
  <2> QED BY <1>1, <1>3, <2>1, <2>2, <2>3, <2>4
<1>6. ASSUME NEW c \in Clients, Sqlite3(c) PROVE Over(d)' \/ Accounted(d)'
  <2>1. faults' = faults
    BY <1>6 DEF Sqlite3
  <2>2. CASE d # c
    <3>1. client' = client /\ up'[d] = up[d] /\ down'[d] = down[d] /\ child'[d] = child[d]
      BY <1>2, <1>6, <2>2, Sqlite3Is
    <3> QED BY <1>1, <1>4, <2>1, <3>1 DEF Ended
  <2>3. CASE d = c /\ Accounted(c)
    BY <1>1, <1>6, <2>3, BooksSqlite3
  <2>4. CASE d = c /\ Over(c)
    <3>1. client' = client
      BY <1>2, <1>6, Sqlite3Is
    <3> QED BY <2>4, <3>1 DEF Over
  <2> QED BY <1>1, <1>3, <2>1, <2>2, <2>3, <2>4
<1>7. ASSUME client' = client, up' = up, down' = down, Ended(d)' <=> Ended(d), faults = 0 PROVE Over(d)' \/ Accounted(d)'
  BY <1>4, <1>7
<1>8. CASE (\E s \in Services : ServiceConnect(s) \/ ServiceSend(s)) \/ UNCHANGED vars
  BY <1>1, <1>7, <1>8 DEF ServiceConnect, ServiceSend, vars, streams, Ended
<1>9. ASSUME NEW p \in Servers, ReapChildren(p) \/ Poll(p) \/ Call(p) PROVE Over(d)' \/ Accounted(d)'
  <2>1. faults' = faults /\ client' = client /\ up' = up /\ down' = down
    BY <1>9 DEF ReapChildren, Poll, Call, streams
  <2>2. Ended(d)' <=> Ended(d)
    <3>1. child'[d] = child[d] \/ (child[d].pc = "zombie" /\ child'[d].pc = "gone")
      BY <1>2, <1>9, ReapedIs DEF ReapChildren, Poll, Call
    <3> QED BY <3>1 DEF Ended
  <2> QED BY <1>1, <1>7, <2>1, <2>2
<1>10. ASSUME NEW p \in Servers, Accept(p) PROVE Over(d)' \/ Accounted(d)'
  <2>1. client' = client /\ up' = up /\ down' = down
    BY <1>10 DEF Accept, streams
  <2>2. /\ pending # <<>> /\ Head(pending) \in Clients /\ child'[Head(pending)].pc = "sqlite3" /\ faults' = faults
        /\ \A e \in Clients : e # Head(pending) => child'[e] = child[e]
    <3>1. faults' \notin 1 .. MaxFaults
      BY <1>1
    <3> QED BY <1>2, <1>10, <3>1, AcceptIs
  <2>3. child[Head(pending)].pc = "none"
    <3>1. pending \in Seq(Clients)
      BY <1>2 DEF TypeOK
    <3>2. 1 \in DOMAIN pending /\ Head(pending) = pending[1]
      BY <2>2, <3>1
    <3> QED BY <1>2, <3>2 DEF Queued
  <2>4. Ended(d)' <=> Ended(d)
    BY <2>2, <2>3 DEF Ended
  <2> QED BY <1>1, <1>7, <2>1, <2>2, <2>4
<1>11. ASSUME NEW p \in Servers, Hear(p) PROVE Over(d)' \/ Accounted(d)'
  <2>1. client' = client /\ up' = up /\ down' = down
    BY <1>11 DEF Hear, streams
  <2>2. /\ server[p].pc = "hear" /\ faults' = faults
        /\ d = p \/ child'[d] = child[d] \/ (child[d].pc = "zombie" /\ child'[d].pc = "gone")
    <3>1. faults' \notin 1 .. MaxFaults
      BY <1>1
    <3> QED BY <1>2, <1>11, <3>1, HearIs
  <2>3. d # p
    BY <1>1, <1>2, <2>2 DEF NoFaultYet
  <2>4. Ended(d)' <=> Ended(d)
    BY <2>2, <2>3 DEF Ended
  <2> QED BY <1>1, <1>7, <2>1, <2>2, <2>4
<1> QED BY <1>1, <1>5, <1>6, <1>8, <1>9, <1>10, <1>11, Steps

LEMMA InvInit == Init => SqlInv
<1> SUFFICES ASSUME Init PROVE SqlInv
  OBVIOUS
<1>1. TypeOK
  BY TypeInit
<1>2. /\ \A c \in Clients : client[c].pc = "none" /\ client[c].at = 1 /\ client[c].eof = FALSE /\ client[c].shown = <<>>
      /\ \A c \in Clients : child[c].pc = "none" /\ server[c].pc = "none" /\ up[c] = <<>> /\ down[c] = <<>>
      /\ pending = <<>>
  BY SqlAssumption DEF Init, Servers, NotThere
<1>3. Queued
  BY <1>2 DEF Queued
<1>4. InputPlace
  <2> SUFFICES ASSUME NEW c \in Clients PROVE client[c].at <= Len(client[c].lines) + 1 /\ (client[c].eof => client[c].pc # "line")
    BY DEF InputPlace
  <2>1. client[c] \in ClientState
    BY <1>1 DEF TypeOK, ClientState
  <2>2. client[c].lines \in Seq(Lines)
    BY <2>1 DEF ClientState
  <2>3. Len(client[c].lines) \in Nat
    BY <2>2
  <2> QED BY <1>2, <2>3
<1>5. NoFaultYet
  BY <1>2 DEF NoFaultYet
<1>6. ASSUME NEW c \in Clients PROVE Accounted(c)
  <2>1. LinesSent(c) = SubSeq(client[c].lines, 1, 0) \o <<>>
    BY <1>2 DEF LinesSent
  <2>2. LinesSent(c) = <<>>
    <3>1. SubSeq(client[c].lines, 1, 0) = <<>>
      BY SubSeqEmpty
    <3>2. <<>> \o <<>> = <<>>
      BY ConcatEmptySeq
    <3> QED BY <2>1, <3>1, <3>2
  <2>3. SubSeq(<<>>, 1, 0) = <<>> /\ Len(<<>>) = 0
    BY SubSeqEmpty
  <2>4. Answers(<<>>) = <<>>
    <3>1. PICK a \in Seq(Lines), l \in Lines : TRUE
      BY SqlAssumption, EmptySeq DEF Lines
    <3> QED BY <3>1, AnswersAre
  <2>5. <<>> \o <<>> = <<>>
    BY ConcatEmptySeq
  <2>6. ~Ended(c)
    BY <1>2 DEF Ended
  <2>7. /\ 0 \in 0 .. Len(LinesSent(c)) /\ (\A k \in 1 .. 0 : LinesSent(c)[k] # Quit)
        /\ client[c].shown \o down[c] = Answers(SubSeq(LinesSent(c), 1, 0))
        /\ up[c] = SubSeq(LinesSent(c), 0 + 1, Len(LinesSent(c)))
    <3>1. client[c].shown \o down[c] = <<>>
      BY <1>2, <2>5
    <3>2. Answers(SubSeq(LinesSent(c), 1, 0)) = <<>>
      BY <2>2, <2>3, <2>4
    <3>3. Len(LinesSent(c)) = 0
      BY <2>2, <2>3
    <3>4. SubSeq(LinesSent(c), 0 + 1, Len(LinesSent(c))) = <<>>
      BY <2>2, <2>3, <3>3
    <3>5. 0 \in 0 .. Len(LinesSent(c)) /\ \A k \in 1 .. 0 : LinesSent(c)[k] # Quit
      BY <3>3
    <3>6. up[c] = <<>>
      BY <1>2
    <3> QED BY <3>1, <3>2, <3>4, <3>5, <3>6
  <2> QED BY <2>6, <2>7 DEF Accounted
<1>7. Books
  BY <1>6 DEF Books
<1> QED BY <1>1, <1>3, <1>4, <1>5, <1>7 DEF SqlInv

-----------------------------------------------------------------------------
(* What the books say of the answers.                                      *)

\* The lines up to the first .exit, of a sequence that goes on after its
\* first n lines.
LEMMA UntilExitOf ==
  ASSUME NEW s \in Seq(Lines), NEW n \in 0 .. Len(s), \A k \in 1 .. n : s[k] # Quit
  PROVE  /\ UntilExit(s) = SubSeq(s, 1, n) \o UntilExit(SubSeq(s, n + 1, Len(s)))
         /\ UntilExit(SubSeq(s, n + 1, Len(s))) \in Seq(Lines)
         /\ n < Len(s) /\ s[n + 1] = Quit => UntilExit(s) = SubSeq(s, 1, n)
<1> DEFINE rest == SubSeq(s, n + 1, Len(s))
<1>0. Len(s) \in Nat /\ n \in Nat /\ n <= Len(s)
  OBVIOUS
<1>1. rest \in Seq(Lines) /\ Len(rest) = Len(s) - n /\ \A k \in 1 .. Len(s) - n : rest[k] = s[n + k]
  <2>1. \A k \in n + 1 .. Len(s) : s[k] \in Lines
    OBVIOUS
  <2> QED BY <1>0, <2>1, SubSeqProperties
<1> HIDE DEF rest
<1>2. PICK m : Cut(rest, m)
  BY <1>1, CutExists
<1>3. m \in 0 .. Len(rest) /\ (\A k \in 1 .. m : rest[k] # Quit) /\ (m < Len(rest) => rest[m + 1] = Quit)
  BY <1>2 DEF Cut
<1>4. UntilExit(rest) = SubSeq(rest, 1, m)
  BY <1>1, <1>2, UntilExitIs
<1>5. Cut(s, n + m)
  <2>1. n + m \in 0 .. Len(s)
    BY <1>0, <1>1, <1>3
  <2>2. \A k \in 1 .. n + m : s[k] # Quit
    <3> TAKE k \in 1 .. n + m
    <3>1. CASE k <= n
      BY <1>0, <3>1
    <3>2. CASE ~ (k <= n)
      <4>1. k - n \in 1 .. m /\ k - n \in 1 .. Len(s) - n /\ n + (k - n) = k
        BY <1>0, <1>1, <1>3, <3>2
      <4>2. rest[k - n] # Quit /\ rest[k - n] = s[n + (k - n)]
        BY <1>1, <1>3, <4>1
      <4> QED BY <4>1, <4>2
    <3> QED BY <3>1, <3>2
  <2>3. n + m < Len(s) => s[(n + m) + 1] = Quit
    <3>1. SUFFICES ASSUME n + m < Len(s) PROVE s[(n + m) + 1] = Quit
      OBVIOUS
    <3>2. m < Len(rest) /\ m + 1 \in 1 .. Len(s) - n /\ n + (m + 1) = (n + m) + 1
      BY <1>0, <1>1, <1>3, <3>1
    <3> QED BY <1>1, <1>3, <3>2
  <2> QED BY <2>1, <2>2, <2>3 DEF Cut
<1>6. UntilExit(s) = SubSeq(s, 1, n + m)
  BY <1>5, UntilExitIs
<1>7. SubSeq(s, 1, n + m) = SubSeq(s, 1, n) \o SubSeq(rest, 1, m)
  <2> DEFINE a == SubSeq(s, 1, n)
             b == SubSeq(rest, 1, m)
             u == SubSeq(s, 1, n + m)
  <2>1. a \in Seq(Lines) /\ Len(a) = n /\ \A k \in 1 .. n : a[k] = s[k]
    <3>1. \A k \in 1 .. n : s[k] \in Lines
      BY <1>0
    <3> QED BY <1>0, <3>1, SubSeqProperties
  <2>2. b \in Seq(Lines) /\ Len(b) = m /\ \A k \in 1 .. m : b[k] = rest[k]
    <3>1. \A k \in 1 .. m : rest[k] \in Lines
      BY <1>1, <1>3
    <3> QED BY <1>1, <1>3, <3>1, SubSeqProperties
  <2>3. u \in Seq(Lines) /\ Len(u) = n + m /\ \A k \in 1 .. n + m : u[k] = s[k]
    <3>1. \A k \in 1 .. n + m : s[k] \in Lines
      BY <1>0, <1>1, <1>3
    <3> QED BY <1>0, <1>1, <1>3, <3>1, SubSeqProperties
  <2> HIDE DEF a, b, u
  <2>4. a \o b \in Seq(Lines) /\ Len(a \o b) = n + m
        /\ \A k \in 1 .. n + m : (a \o b)[k] = IF k <= n THEN a[k] ELSE b[k - n]
    <3>1. Len(a \o b) = Len(a) + Len(b) /\ a \o b \in Seq(Lines)
          /\ \A k \in 1 .. Len(a) + Len(b) : (a \o b)[k] = IF k <= Len(a) THEN a[k] ELSE b[k - Len(a)]
      BY <2>1, <2>2, ConcatProperties
    <3> QED BY <2>1, <2>2, <3>1
  <2>5. \A k \in 1 .. n + m : (a \o b)[k] = u[k]
    <3> TAKE k \in 1 .. n + m
    <3>1. CASE k <= n
      <4>1. k \in 1 .. n /\ k \in 1 .. n + m
        BY <1>0, <3>1
      <4> QED BY <2>1, <2>3, <2>4, <3>1, <4>1
    <3>2. CASE ~ (k <= n)
      <4>1. k - n \in 1 .. m /\ k - n \in 1 .. Len(s) - n /\ n + (k - n) = k
        BY <1>0, <1>1, <1>3, <3>2
      <4>2. (a \o b)[k] = b[k - n] /\ b[k - n] = rest[k - n] /\ rest[k - n] = s[n + (k - n)]
        BY <1>1, <2>2, <2>4, <3>2, <4>1
      <4> QED BY <2>3, <4>1, <4>2
    <3> QED BY <3>1, <3>2
  <2>6. a \o b = u
    BY <2>3, <2>4, <2>5, SeqEqual
  <2> QED BY <2>6 DEF a, b, u
<1>8. UntilExit(rest) \in Seq(Lines)
  BY <1>1, <1>3, <1>4, Split
<1>9. n < Len(s) /\ s[n + 1] = Quit => UntilExit(s) = SubSeq(s, 1, n)
  <2>1. SUFFICES ASSUME n < Len(s), s[n + 1] = Quit PROVE UntilExit(s) = SubSeq(s, 1, n)
    OBVIOUS
  <2>2. Cut(s, n)
    BY <2>1 DEF Cut
  <2> QED BY <2>2, UntilExitIs
<1> QED BY <1>4, <1>6, <1>7, <1>8, <1>9 DEF rest

\* The .exit that the end of the input adds changes nothing.
LEMMA QuitAtTheEnd ==
  ASSUME NEW s \in Seq(Lines)
  PROVE  UntilExit(s \o <<Quit>>) = UntilExit(s)
<1>1. PICK m : Cut(s, m)
  BY CutExists
<1> DEFINE t == Append(s, Quit)
<1>2. Quit \in Lines /\ Len(s) \in Nat /\ m \in 0 .. Len(s)
  BY <1>1, SqlAssumption DEF Lines, Cut
<1>3. /\ t \in Seq(Lines) /\ Len(t) = Len(s) + 1 /\ t[Len(s) + 1] = Quit
      /\ \A k \in 1 .. Len(s) : t[k] = s[k]
  BY <1>2, AppendProperties
<1>4. SubSeq(t, 1, m) = SubSeq(s, 1, m)
  BY <1>2, Appended
<1>5. t = s \o <<Quit>>
  BY <1>2, AppendIsConcat
<1> HIDE DEF t
<1>6. Cut(t, m)
  <2>1. m \in 0 .. Len(t) /\ \A k \in 1 .. m : t[k] # Quit
    BY <1>1, <1>2, <1>3 DEF Cut
  <2>2. CASE m = Len(s)
    BY <1>3, <2>1, <2>2 DEF Cut
  <2>3. CASE m # Len(s)
    <3>1. m < Len(s) /\ m + 1 \in 1 .. Len(s)
      BY <1>2, <2>3
    <3> QED BY <1>1, <1>3, <2>1, <3>1 DEF Cut
  <2> QED BY <2>2, <2>3
<1> QED BY <1>1, <1>3, <1>4, <1>5, <1>6, UntilExitIs

LEMMA BooksAnswer == SqlInv => NothingLost
<1>1. SUFFICES ASSUME SqlInv, faults = 0, NEW c \in Clients, ~Over(c)
               PROVE  client[c].shown \o down[c] \o Answers(UntilExit(Unread(c)))
                        = Answers(UntilExit(SubSeq(client[c].lines, 1, client[c].at - 1)))
  BY DEF NothingLost
<1> DEFINE s == LinesSent(c)
           read == SubSeq(client[c].lines, 1, client[c].at - 1)
<1>2. TypeOK /\ InputPlace /\ Accounted(c)
  BY <1>1 DEF SqlInv, Books
<1>3. s \in Seq(Lines) /\ read \in Seq(Lines) /\ Len(s) \in Nat
  <2>1. s \in Seq(Lines) /\ read \in Seq(Lines)
    BY <1>2, SentType
  <2> HIDE DEF s
  <2> QED BY <2>1
<1>4. UntilExit(s) = UntilExit(read)
  <2>1. s = read \o (IF client[c].eof THEN <<Quit>> ELSE <<>>)
    BY DEF LinesSent
  <2> HIDE DEF s, read
  <2>2. CASE client[c].eof
    BY <1>3, <2>1, <2>2, QuitAtTheEnd
  <2>3. CASE ~client[c].eof
    BY <1>3, <2>1, <2>3, ConcatEmptySeq
  <2> QED BY <2>2, <2>3
<1>5. PICK n \in 0 .. Len(s) :
        /\ \A k \in 1 .. n : s[k] # Quit
        /\ client[c].shown \o down[c] = Answers(SubSeq(s, 1, n))
        /\ IF Ended(c) THEN n < Len(s) /\ s[n + 1] = Quit ELSE up[c] = SubSeq(s, n + 1, Len(s))
  BY <1>2 DEF Accounted
<1> HIDE DEF s, read
<1> DEFINE rest == SubSeq(s, n + 1, Len(s))
<1>6. /\ UntilExit(s) = SubSeq(s, 1, n) \o UntilExit(rest) /\ UntilExit(rest) \in Seq(Lines)
      /\ n < Len(s) /\ s[n + 1] = Quit => UntilExit(s) = SubSeq(s, 1, n)
  BY <1>3, <1>5, UntilExitOf
<1>7. PICK a \in Seq(Lines), b \in Seq(Lines) : a = SubSeq(s, 1, n) /\ b = UntilExit(rest)
  BY <1>3, <1>6, Split
<1>8. Answers(a) \in Seq(Lines) /\ Answers(a \o b) = Answers(a) \o Answers(b) /\ Answers(<<>>) = <<>>
  <2>1. Quit \in Lines
    BY SqlAssumption DEF Lines
  <2> QED BY <2>1, AnswersAre
<1>9. CASE Ended(c)
  <2>1. Unread(c) = <<>>
    BY <1>9 DEF Unread
  <2>2. UntilExit(<<>>) = <<>>
    <3>1. <<>> \in Seq(Lines) /\ Len(<<>>) = 0
      OBVIOUS
    <3>2. Cut(<<>>, 0)
      BY <3>1 DEF Cut
    <3>3. UntilExit(<<>>) = SubSeq(<<>>, 1, 0)
      BY <3>1, <3>2, UntilExitIs
    <3> QED BY <3>3, SubSeqEmpty
  <2>3. UntilExit(read) = a
    BY <1>4, <1>5, <1>6, <1>7, <1>9
  <2>4. Answers(a) \o <<>> = Answers(a)
    BY <1>8, ConcatEmptySeq
  <2>5. Answers(UntilExit(Unread(c))) = <<>>
    BY <1>8, <2>1, <2>2
  <2>6. client[c].shown \o down[c] = Answers(a)
    BY <1>5, <1>7
  <2> QED BY <2>3, <2>4, <2>5, <2>6 DEF read
<1>10. CASE ~Ended(c)
  <2>1. Unread(c) = rest
    BY <1>5, <1>10 DEF Unread
  <2>2. UntilExit(read) = a \o b
    BY <1>4, <1>6, <1>7
  <2>3. client[c].shown \o down[c] = Answers(a)
    BY <1>5, <1>7
  <2> HIDE DEF rest
  <2> QED BY <1>7, <1>8, <2>1, <2>2, <2>3 DEF read
<1> QED BY <1>9, <1>10

-----------------------------------------------------------------------------
(* Theorems.                                                               *)

\* The invariant holds of every reachable state: it is what makes the two
\* theorems below inductive.
THEOREM Invariance == Spec => []SqlInv
<1>1. Init => SqlInv
  BY InvInit
<1>2. SqlInv /\ [Next]_vars => SqlInv'
  <2> SUFFICES ASSUME SqlInv, [Next]_vars PROVE SqlInv'
    OBVIOUS
  <2>1. TypeOK /\ Queued /\ InputPlace /\ NoFaultYet
    BY DEF SqlInv
  <2>2. TypeOK' /\ Queued' /\ InputPlace' /\ NoFaultYet'
    BY <2>1, TypeStep, QueuedStep, PlaceStep, FaultStep
  <2>3. Books'
    BY BooksStep
  <2> QED BY <2>2, <2>3 DEF SqlInv
<1> QED BY <1>1, <1>2, PTL DEF Spec

\* The variables hold values of their types, however often the clients type
\* and whatever sqlite3 answers (Q2client.c, Q2server.c).
THEOREM TypeCorrect == Spec => []TypeOK
<1>1. SqlInv => TypeOK
  BY DEF SqlInv
<1> QED BY <1>1, Invariance, PTL

\* While no call fails, every line a client has read is with sqlite3 or was
\* answered once and in order, in every interleaving of the clients, sqlite3
\* and the server (Q2client.c:92-141).
THEOREM AnsweredOnce == Spec => []NothingLost
<1> QED BY Invariance, BooksAnswer, PTL

=============================================================================
