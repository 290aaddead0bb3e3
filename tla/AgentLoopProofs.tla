-------------------------- MODULE AgentLoopProofs --------------------------
(***************************************************************************)
(* Theorems about AgentLoop, for any number of calls, steps and turns: the *)
(* patch of dangling calls and the compaction keep a history in order,     *)
(* whatever the loop has appended to it before.                            *)
(***************************************************************************)
EXTENDS AgentLoop, SequenceTheorems, FiniteSetTheorems, WellFoundedInduction, TLAPS

-----------------------------------------------------------------------------
(* Selections of a sequence.                                                 *)

LEMMA UpToIsFinite ==
  ASSUME NEW n \in Nat
  PROVE  IsFiniteSet(1..n) /\ Cardinality(1..n) = n
BY FS_Interval

(* The indices of a finite set are numbered from 1 on.                       *)
LEMMA RankNumbers ==
  ASSUME NEW I \in SUBSET Nat, IsFiniteSet(I)
  PROVE  /\ Cardinality(I) \in Nat
         /\ \A i \in I : Rank(I, i) \in 1..Cardinality(I)
         /\ \A i, j \in I : Rank(I, i) = Rank(I, j) => i = j
         /\ \A k \in 1..Cardinality(I) : \E i \in I : Rank(I, i) = k
<1> DEFINE Upto(i) == {j \in I : j <= i}
<1>1. \A i : /\ IsFiniteSet(Upto(i)) /\ Cardinality(Upto(i)) \in Nat
             /\ Cardinality(Upto(i)) <= Cardinality(I)
  <2> TAKE i
  <2>1. Upto(i) \in SUBSET I
    OBVIOUS
  <2> QED
    BY <2>1, FS_Subset, FS_CardinalityType
<1>2. Cardinality(I) \in Nat /\ IsFiniteSet(1..Cardinality(I)) /\ Cardinality(1..Cardinality(I)) = Cardinality(I)
  BY FS_CardinalityType, UpToIsFinite
<1>3. \A i \in I : Cardinality(Upto(i)) \in 1..Cardinality(I)
  <2> TAKE i \in I
  <2>1. Cardinality(Upto(i)) # 0
    <3>1. i \in Upto(i)
      OBVIOUS
    <3> QED
      BY <1>1, <3>1, FS_EmptySet
  <2>2. PICK x : x = Cardinality(Upto(i))
    OBVIOUS
  <2>3. PICK y : y = Cardinality(I)
    OBVIOUS
  <2>4. x \in Nat /\ y \in Nat /\ x <= y /\ x # 0
    BY <1>1, <1>2, <2>1, <2>2, <2>3
  <2>5. x \in 1..y
    BY <2>4
  <2> QED
    BY <2>2, <2>3, <2>5
<1>4. ASSUME NEW i \in I, NEW j \in I, i < j PROVE Cardinality(Upto(i)) < Cardinality(Upto(j))
  <2>1. Upto(i) \in SUBSET Upto(j) /\ j \in Upto(j) /\ j \notin Upto(i)
    <3>1. i \in Nat /\ j \in Nat /\ \A m \in I : m \in Nat
      OBVIOUS
    <3>2. \A m \in I : m <= i => m <= j
      BY <1>4, <3>1
    <3>3. j \in Upto(j) /\ j \notin Upto(i)
      BY <1>4, <3>1
    <3> QED
      BY <3>2, <3>3
  <2>2. Cardinality(Upto(i)) <= Cardinality(Upto(j)) /\ Cardinality(Upto(i)) # Cardinality(Upto(j))
    BY <1>1, <2>1, FS_Subset
  <2> QED
    BY <1>1, <2>2
<1>5. \A i, j \in I : Cardinality(Upto(i)) = Cardinality(Upto(j)) => i = j
  BY <1>1, <1>4
<1> DEFINE f == [i \in I |-> Cardinality(Upto(i))]
<1>6. f \in Injection(I, 1..Cardinality(I))
  BY <1>3, <1>5 DEF Injection, IsInjective
<1>7. f \in Surjection(I, 1..Cardinality(I))
  BY <1>2, <1>6, FS_Injection
<1>8. \A k \in 1..Cardinality(I) : \E i \in I : f[i] = k
  BY <1>7 DEF Surjection
<1> QED
  BY <1>2, <1>3, <1>5, <1>8 DEF Rank

(* A set of numbers that is not empty has a least element.                   *)
LEMMA LeastExists ==
  ASSUME NEW T \in SUBSET Nat, T # {}
  PROVE  \E x \in T : \A y \in T : x <= y
<1>1. PICK x \in T : \A y \in T : ~(<<y, x>> \in OpToRel(<, Nat))
  BY NatLessThanWellFounded, WFMin
<1>2. \A y \in T : ~(y < x)
  BY <1>1 DEF OpToRel
<1> QED
  BY <1>2

(* A list t takes its elements from the places I of s, each place once.      *)
Takes(f, t, s, I) ==
  /\ f \in [1..Len(t) -> I] /\ \A k, l \in 1..Len(t) : f[k] = f[l] => k = l
  /\ \A k \in 1..Len(t) : t[k] = s[f[k]]

LEMMA SelectionTakes ==
  ASSUME NEW S, NEW s \in Seq(S), NEW I \in SUBSET (1..Len(s))
  PROVE  /\ Selection(s, I) \in Seq(S) /\ Len(Selection(s, I)) <= Len(s)
         /\ \E f : Takes(f, Selection(s, I), s, I) /\ \A i \in I : \E k \in 1..Len(Selection(s, I)) : f[k] = i
<1> DEFINE at(k) == CHOOSE i \in I : Rank(I, i) = k
           n == Cardinality(I)
           f == [k \in 1..n |-> at(k)]
<1>1. Len(s) \in Nat /\ IsFiniteSet(I) /\ I \in SUBSET Nat /\ n <= Len(s)
  <2>1. Len(s) \in Nat
    BY LenProperties
  <2>2. IsFiniteSet(1..Len(s)) /\ Cardinality(1..Len(s)) = Len(s)
    BY <2>1, UpToIsFinite
  <2>3. IsFiniteSet(I) /\ Cardinality(I) <= Cardinality(1..Len(s)) /\ Cardinality(I) \in Nat
    BY <2>2, FS_Subset, FS_CardinalityType
  <2> QED
    BY <2>1, <2>2, <2>3
<1>2. n \in Nat /\ \A k \in 1..n : at(k) \in I /\ Rank(I, at(k)) = k
  BY <1>1, RankNumbers
<1>3. \A i \in I : Rank(I, i) \in 1..n /\ at(Rank(I, i)) = i
  BY <1>1, <1>2, RankNumbers
<1>4. \A i \in I : s[i] \in S
  BY ElementOfSeq
<1>5. Selection(s, I) = [k \in 1..n |-> s[at(k)]]
  BY DEF Selection
<1> HIDE DEF at, n
<1>6. Selection(s, I) \in [1..n -> S]
  BY <1>2, <1>4, <1>5
<1>7. Selection(s, I) \in Seq(S)
  BY <1>2, <1>6, SeqDef
<1>8. Len(Selection(s, I)) = n
  BY <1>2, <1>6, <1>7, LenProperties
<1>9. f \in [1..n -> I] /\ \A k \in 1..n : f[k] = at(k)
  BY <1>2
<1> HIDE DEF f
<1>10. \A k, l \in 1..n : f[k] = f[l] => k = l
  BY <1>2, <1>9
<1>11. \A i \in I : \E k \in 1..n : f[k] = i
  BY <1>3, <1>9
<1>12. \A k \in 1..n : Selection(s, I)[k] = s[f[k]]
  BY <1>5, <1>9
<1>13. Takes(f, Selection(s, I), s, I)
  BY <1>8, <1>9, <1>10, <1>12 DEF Takes
<1> QED
  BY <1>1, <1>7, <1>8, <1>11, <1>13

-----------------------------------------------------------------------------
(* Sequences of sequences made flat.                                         *)

(* The first n blocks of b lie in s one after the other, block i behind the  *)
(* place st[i].                                                              *)
Placed(st, n, b, s) ==
  /\ st \in [1..n -> Nat]
  /\ \A i \in 1..n : /\ st[i] + Len(b[i]) <= Len(s)
                     /\ \A j \in 1..Len(b[i]) : st[i] + j \in 1..Len(s) /\ s[st[i] + j] = b[i][j]
  /\ \A p \in 1..Len(s) : \E i \in 1..n : \E j \in 1..Len(b[i]) : p = st[i] + j
  /\ \A i, k \in 1..n : i < k => st[i] + Len(b[i]) <= st[k]

LEMMA OnePlaced ==
  ASSUME NEW S, NEW b \in Seq(Seq(S)), Len(b) > 0
  PROVE  \E st : Placed(st, 1, b, b[1])
<1> DEFINE st == [i \in 1..1 |-> 0]
<1>1. Len(b) \in Nat /\ b[1] \in Seq(S) /\ Len(b[1]) \in Nat
  BY LenProperties, ElementOfSeq
<1>2. st \in [1..1 -> Nat] /\ st[1] = 0 /\ \A i \in 1..1 : i = 1
  OBVIOUS
<1> HIDE DEF st
<1>3. Placed(st, 1, b, b[1])
  BY <1>1, <1>2 DEF Placed
<1> QED
  BY <1>3

LEMMA NextPlaced ==
  ASSUME NEW S, NEW b \in Seq(Seq(S)), NEW n \in Nat \ {0}, n < Len(b), NEW s \in Seq(S),
         \E st : Placed(st, n, b, s)
  PROVE  s \o b[n + 1] \in Seq(S) /\ \E st : Placed(st, n + 1, b, s \o b[n + 1])
<1>1. PICK st : Placed(st, n, b, s)
  OBVIOUS
<1>2. /\ Len(b) \in Nat /\ \A i \in 1..(n + 1) : b[i] \in Seq(S) /\ Len(b[i]) \in Nat
      /\ Len(s) \in Nat
  BY LenProperties, ElementOfSeq
<1>3. PICK t : t = s \o b[n + 1]
  OBVIOUS
<1>4. /\ t \in Seq(S) /\ Len(t) = Len(s) + Len(b[n + 1])
      /\ \A p \in 1..Len(s) : t[p] = s[p]
      /\ \A j \in 1..Len(b[n + 1]) : t[Len(s) + j] = b[n + 1][j]
  <2>1. b[n + 1] \in Seq(S)
    BY <1>2
  <2> QED
    BY <1>2, <1>3, <2>1, ConcatProperties
<1> DEFINE st1 == [i \in 1..(n + 1) |-> IF i = n + 1 THEN Len(s) ELSE st[i]]
<1>5. /\ st1 \in [1..(n + 1) -> Nat] /\ st1[n + 1] = Len(s)
      /\ \A i \in 1..n : st1[i] = st[i] /\ st[i] \in Nat
  BY <1>1, <1>2 DEF Placed
<1> HIDE DEF st1
<1>6. ASSUME NEW i \in 1..(n + 1)
      PROVE  /\ st1[i] + Len(b[i]) <= Len(t)
             /\ \A j \in 1..Len(b[i]) : st1[i] + j \in 1..Len(t) /\ t[st1[i] + j] = b[i][j]
  <2>1. CASE i = n + 1
    <3>1. Len(b[n + 1]) \in Nat /\ n + 1 \in 1..(n + 1)
      BY <1>2
    <3>2. /\ Len(s) + Len(b[n + 1]) <= Len(t)
          /\ \A j \in 1..Len(b[n + 1]) : Len(s) + j \in 1..Len(t)
      BY <1>2, <1>4, <3>1
    <3>3. st1[i] = Len(s) /\ b[i] = b[n + 1]
      BY <1>5, <2>1
    <3> QED
      BY <1>4, <3>2, <3>3
  <2>2. CASE i # n + 1
    <3>1. i \in 1..n
      BY <2>2
    <3>2. /\ st[i] + Len(b[i]) <= Len(s)
          /\ \A j \in 1..Len(b[i]) : st[i] + j \in 1..Len(s) /\ s[st[i] + j] = b[i][j]
      BY <1>1, <3>1 DEF Placed
    <3>3. Len(b[i]) \in Nat /\ Len(b[n + 1]) \in Nat /\ st1[i] = st[i] /\ st[i] \in Nat
      <4>1. n + 1 \in 1..(n + 1)
        OBVIOUS
      <4>2. Len(b[i]) \in Nat /\ Len(b[n + 1]) \in Nat
        BY <1>2, <4>1
      <4> QED
        BY <1>5, <3>1, <4>2
    <3>4. Len(s) <= Len(t) /\ Len(t) \in Nat /\ \A p \in 1..Len(s) : p \in 1..Len(t)
      <4>1. Len(s) \in Nat /\ Len(b[n + 1]) \in Nat /\ Len(t) = Len(s) + Len(b[n + 1])
        BY <1>2, <1>4, <3>3
      <4> QED
        BY <4>1
    <3>5. ASSUME NEW j \in 1..Len(b[i])
          PROVE  st1[i] + j \in 1..Len(t) /\ t[st1[i] + j] = b[i][j]
      <4>1. st[i] + j \in 1..Len(s) /\ s[st[i] + j] = b[i][j]
        BY <3>2
      <4> QED
        BY <1>4, <3>3, <3>4, <4>1
    <3>6. st1[i] + Len(b[i]) <= Len(t)
      <4>1. PICK x : x = Len(b[i])
        OBVIOUS
      <4>2. st[i] + x <= Len(s) /\ x \in Nat
        BY <3>2, <3>3, <4>1
      <4>3. st[i] + x <= Len(t)
        BY <1>2, <3>3, <3>4, <4>2
      <4> QED
        BY <3>3, <4>1, <4>3
    <3> QED
      BY <3>5, <3>6
  <2> QED
    BY <2>1, <2>2
<1>7. ASSUME NEW p \in 1..Len(t)
      PROVE  \E i \in 1..(n + 1) : \E j \in 1..Len(b[i]) : p = st1[i] + j
  <2>1. CASE p <= Len(s)
    <3>1. p \in 1..Len(s)
      BY <1>2, <2>1
    <3>2. PICK i \in 1..n : \E j \in 1..Len(b[i]) : p = st[i] + j
      BY <1>1, <3>1 DEF Placed
    <3>3. PICK j \in 1..Len(b[i]) : p = st[i] + j
      BY <3>2
    <3>4. p = st1[i] + j /\ i \in 1..(n + 1)
      BY <1>5, <3>3
    <3> QED
      BY <3>4
  <2>2. CASE p > Len(s)
    <3>1. p - Len(s) \in 1..Len(b[n + 1]) /\ p = Len(s) + (p - Len(s))
      <4>1. Len(b[n + 1]) \in Nat
        BY <1>2
      <4> QED
        BY <1>2, <1>4, <2>2, <4>1
    <3>2. n + 1 \in 1..(n + 1)
      OBVIOUS
    <3> QED
      BY <1>5, <3>1, <3>2
  <2> QED
    BY <1>2, <2>1, <2>2
<1>8. ASSUME NEW i \in 1..(n + 1), NEW k \in 1..(n + 1), i < k
      PROVE  st1[i] + Len(b[i]) <= st1[k]
  <2>1. i \in 1..n
    BY <1>8
  <2>2. CASE k = n + 1
    <3>1. st[i] + Len(b[i]) <= Len(s)
      BY <1>1, <2>1 DEF Placed
    <3> QED
      BY <1>5, <2>1, <2>2, <3>1
  <2>3. CASE k # n + 1
    <3>1. k \in 1..n
      BY <2>3
    <3>2. st[i] + Len(b[i]) <= st[k]
      BY <1>1, <1>8, <2>1, <3>1 DEF Placed
    <3> QED
      BY <1>5, <2>1, <3>1, <3>2
  <2> QED
    BY <2>2, <2>3
<1>9. Placed(st1, n + 1, b, t)
  BY <1>5, <1>6, <1>7, <1>8 DEF Placed
<1> QED
  BY <1>3, <1>4, <1>9

(* The recursion of FlattenSeq.                                              *)
Runs(h, n, b) == h = [i \in 1..n |-> IF i = 1 THEN b[i] ELSE h[i - 1] \o b[i]]

LEMMA RunsExist ==
  ASSUME NEW b, NEW N \in Nat
  PROVE  \E h : Runs(h, N, b)
<1> DEFINE T == {n \in Nat : ~\E h : Runs(h, n, b)}
<1>1. SUFFICES ASSUME T # {} PROVE FALSE
  OBVIOUS
<1>2. T \in SUBSET Nat
  OBVIOUS
<1>3. PICK n \in T : \A m \in T : n <= m
  <2> HIDE DEF T
  <2> QED
    BY <1>1, <1>2, LeastExists
<1>4. n \in Nat /\ ~\E h : Runs(h, n, b)
  BY <1>3
<1>5. CASE n = 0
  <2> DEFINE h == [i \in 1..0 |-> 0]
  <2>1. h = [i \in 1..0 |-> IF i = 1 THEN b[i] ELSE h[i - 1] \o b[i]]
    OBVIOUS
  <2> HIDE DEF h
  <2> QED
    BY <1>4, <1>5, <2>1 DEF Runs
<1>6. CASE n # 0
  <2>1. n - 1 \in Nat /\ n - 1 \notin T
    BY <1>3, <1>4, <1>6
  <2>2. PICK h : Runs(h, n - 1, b)
    BY <2>1
  <2> DEFINE g == [i \in 1..n |-> IF i = n THEN IF n = 1 THEN b[n] ELSE h[n - 1] \o b[n] ELSE h[i]]
  <2>3. \A i \in 1..(n - 1) : h[i] = IF i = 1 THEN b[i] ELSE h[i - 1] \o b[i]
    BY <2>2 DEF Runs
  <2>4. \A i \in 1..n : g[i] = IF i = 1 THEN b[i] ELSE g[i - 1] \o b[i]
    <3> TAKE i \in 1..n
    <3>1. CASE i = 1
      <4>1. CASE n = 1
        BY <3>1, <4>1
      <4>2. CASE n # 1
        <5>1. 1 \in 1..(n - 1)
          BY <1>4, <1>6, <4>2
        <5> QED
          BY <2>3, <3>1, <4>2, <5>1
      <4> QED
        BY <4>1, <4>2
    <3>2. CASE i # 1 /\ i = n
      <4>1. n - 1 \in 1..n /\ n - 1 # n
        BY <1>4, <3>2
      <4>2. g[n - 1] = h[n - 1] /\ g[n] = h[n - 1] \o b[n]
        BY <3>2, <4>1
      <4> QED
        BY <3>2, <4>2
    <3>3. CASE i # 1 /\ i # n
      <4>1. i - 1 \in 1..n /\ i - 1 # n /\ i \in 1..(n - 1)
        BY <1>4, <3>3
      <4>2. g[i - 1] = h[i - 1] /\ g[i] = h[i]
        BY <3>3, <4>1
      <4> QED
        BY <2>3, <3>3, <4>1, <4>2
    <3> QED
      BY <3>1, <3>2, <3>3
  <2>5. g = [i \in 1..n |-> g[i]]
    OBVIOUS
  <2> HIDE DEF g
  <2>6. g = [i \in 1..n |-> IF i = 1 THEN b[i] ELSE g[i - 1] \o b[i]]
    BY <2>4, <2>5
  <2> QED
    BY <1>4, <2>6 DEF Runs
<1> QED
  BY <1>5, <1>6

(* The blocks lie in the flat sequence one after the other.                  *)
LEMMA FlatIsPlaced ==
  ASSUME NEW S, NEW b \in Seq(Seq(S))
  PROVE  FlattenSeq(b) \in Seq(S) /\ \E st : Placed(st, Len(b), b, FlattenSeq(b))
<1> DEFINE N == Len(b)
           h == CHOOSE g : Runs(g, N, b)
<1>1. N \in Nat
  BY LenProperties
<1>2. CASE N = 0
  <2>1. FlattenSeq(b) = b /\ b = <<>>
    BY <1>2, EmptySeq DEF FlattenSeq
  <2>2. b \in Seq(S) /\ Len(<<>>) = 0
    BY <2>1, EmptySeq
  <2> DEFINE st == [i \in 1..0 |-> 0]
  <2>3. Placed(st, 0, b, <<>>)
    BY <2>2 DEF Placed
  <2> HIDE DEF st
  <2> QED
    BY <1>2, <2>1, <2>2, <2>3
<1>3. CASE N # 0
  <2>1. FlattenSeq(b) = h[N]
    BY <1>3 DEF FlattenSeq, Runs
  <2>2. Runs(h, N, b)
    <3> HIDE DEF N
    <3> QED
      BY <1>1, RunsExist
  <2>3. \A i \in 1..N : h[i] = IF i = 1 THEN b[i] ELSE h[i - 1] \o b[i]
    BY <2>2 DEF Runs
  <2> HIDE DEF h
  <2> DEFINE T == {n \in 1..N : ~(h[n] \in Seq(S) /\ \E st : Placed(st, n, b, h[n]))}
  <2>4. T = {}
    <3>1. SUFFICES ASSUME T # {} PROVE FALSE
      OBVIOUS
    <3>2. T \in SUBSET Nat
      BY <1>1
    <3>3. PICK n \in T : \A m \in T : n <= m
      <4> HIDE DEF T
      <4> QED
        BY <3>1, <3>2, LeastExists
    <3>4. CASE n = 1
      <4>1. h[1] = b[1] /\ b[1] \in Seq(S)
        BY <1>1, <1>3, <2>3, ElementOfSeq
      <4>2. \E st : Placed(st, 1, b, b[1])
        <5>1. Len(b) > 0
          BY <1>1, <1>3
        <5> QED
          BY <5>1, OnePlaced
      <4> QED
        BY <3>3, <3>4, <4>1, <4>2
    <3>5. CASE n # 1
      <4>1. n - 1 \in 1..N /\ n - 1 \notin T /\ n \in 1..N /\ n - 1 \in Nat \ {0} /\ n - 1 < Len(b)
        <5>1. n \in 1..N
          BY <3>3
        <5>2. n - 1 \in 1..N /\ n - 1 < n
          BY <1>1, <3>5, <5>1
        <5>3. n - 1 \notin T
          <6> HIDE DEF T
          <6> QED
            BY <1>1, <3>3, <5>1, <5>2
        <5> QED
          BY <1>1, <5>1, <5>2, <5>3
      <4>2. h[n - 1] \in Seq(S) /\ \E st : Placed(st, n - 1, b, h[n - 1])
        BY <4>1
      <4>3. h[n] = h[n - 1] \o b[n]
        BY <2>3, <3>5, <4>1
      <4>4. PICK k : k = n - 1
        OBVIOUS
      <4>5. k \in Nat \ {0} /\ k < Len(b) /\ k + 1 = n
        BY <4>1, <4>4
      <4>6. h[k] \in Seq(S) /\ \E st : Placed(st, k, b, h[k])
        BY <4>2, <4>4
      <4>7. h[k] \o b[k + 1] \in Seq(S) /\ \E st : Placed(st, k + 1, b, h[k] \o b[k + 1])
        <5> HIDE DEF T, N
        <5> QED
          BY <4>5, <4>6, NextPlaced
      <4> QED
        BY <3>3, <4>3, <4>4, <4>5, <4>7
    <3> QED
      BY <3>4, <3>5
  <2>5. N \in 1..N
    BY <1>1, <1>3
  <2>6. h[N] \in Seq(S) /\ \E st : Placed(st, N, b, h[N])
    BY <2>4, <2>5
  <2> QED
    BY <2>1, <2>6
<1> QED
  BY <1>2, <1>3


-----------------------------------------------------------------------------
(* Histories in order.                                                       *)

(* What a message asks, answers or reminds of.                               *)
KeysOf(m) ==
  ({"call"} \X ToSet(m.calls))
    \union (IF m.role = "tool" THEN {<<"result", m.id>>} ELSE {})
    \union (IF IsReminder(m) THEN {<<"reminder", 0>>} ELSE {})

AllKeys(ms) == UNION {KeysOf(ms[i]) : i \in 1..Len(ms)}

(* Nothing is asked twice, answered twice or reminded of twice.              *)
Apart(ms) == \A i, k \in 1..Len(ms) : i # k => KeysOf(ms[i]) \cap KeysOf(ms[k]) = {}

(* A message of a history in which the ids in used have been asked, those in *)
(* told have had a result, and n messages were appended.                     *)
Proper(m, used, told, n) ==
  /\ m \in Message
  /\ m.role = "tool" => m.calls = <<>> /\ m.id # 0
  /\ m.role # "tool" => m.id = 0
  /\ m.role = "user" => m.calls = <<>>
  /\ IsReminder(m) => m.role = "user"
  /\ \A i, j \in 1..Len(m.calls) : m.calls[i] = m.calls[j] => i = j
  /\ ToSet(m.calls) \subseteq used /\ m.id \in used \union {0} /\ m.n \in 0..n
  /\ m.text = "interrupted" => m.role = "tool" /\ m.id \notin told

(* A call that has had a result has it behind it.                            *)
ResultsFollow(ms, told) ==
  \A i \in 1..Len(ms) : \A c \in ToSet(ms[i].calls) \cap told :
    \E k \in 1..Len(ms) : i < k /\ ms[k].role = "tool" /\ ms[k].id = c

Reminded(ms) == \E i \in 1..Len(ms) : IsReminder(ms[i])

InOrder(ms, used, told, n) ==
  /\ used \subseteq Ids /\ n \in Nat
  /\ ms \in Seq(Message) /\ \A i \in 1..Len(ms) : Proper(ms[i], used, told, n)
  /\ Apart(ms) /\ ResultsFollow(ms, told) /\ Reminded(ms)

LEMMA SeqFacts ==
  ASSUME NEW S, NEW s \in Seq(S)
  PROVE  /\ Len(s) \in Nat /\ DOMAIN s = 1..Len(s) /\ ToSet(s) = {s[i] : i \in 1..Len(s)}
         /\ \A i \in 1..Len(s) : s[i] \in S /\ i \in Nat
         /\ ToSet(s) \subseteq S
BY LenProperties, ElementOfSeq DEF ToSet

LEMMA FlatApart ==
  ASSUME NEW b \in Seq(Seq(Message)), \A i \in 1..Len(b) : Apart(b[i]),
         \A i, k \in 1..Len(b) : i # k => AllKeys(b[i]) \cap AllKeys(b[k]) = {}
  PROVE  /\ Apart(FlattenSeq(b))
         /\ \A x \in AllKeys(FlattenSeq(b)) : \E i \in 1..Len(b) : x \in AllKeys(b[i])
<1>1. PICK st : Placed(st, Len(b), b, FlattenSeq(b))
  BY FlatIsPlaced
<1>2. PICK s : s = FlattenSeq(b)
  OBVIOUS
<1>3. /\ \A i \in 1..Len(b) : \A j \in 1..Len(b[i]) : s[st[i] + j] = b[i][j]
      /\ \A p \in 1..Len(s) : \E i \in 1..Len(b) : \E j \in 1..Len(b[i]) : p = st[i] + j
  BY <1>1, <1>2 DEF Placed
<1>4. ASSUME NEW p \in 1..Len(s), NEW q \in 1..Len(s), p # q
      PROVE  KeysOf(s[p]) \cap KeysOf(s[q]) = {}
  <2>1. PICK i \in 1..Len(b) : \E j \in 1..Len(b[i]) : p = st[i] + j
    BY <1>3
  <2>2. PICK j \in 1..Len(b[i]) : p = st[i] + j
    BY <2>1
  <2>3. PICK k \in 1..Len(b) : \E l \in 1..Len(b[k]) : q = st[k] + l
    BY <1>3
  <2>4. PICK l \in 1..Len(b[k]) : q = st[k] + l
    BY <2>3
  <2>5. s[p] = b[i][j] /\ s[q] = b[k][l]
    BY <1>3, <2>2, <2>4
  <2>6. CASE i = k
    <3>1. j # l
      BY <1>4, <2>2, <2>4, <2>6
    <3> QED
      BY <2>5, <2>6, <3>1 DEF Apart
  <2>7. CASE i # k
    <3>1. KeysOf(b[i][j]) \subseteq AllKeys(b[i]) /\ KeysOf(b[k][l]) \subseteq AllKeys(b[k])
      BY DEF AllKeys
    <3> QED
      BY <2>5, <2>7, <3>1
  <2> QED
    BY <2>6, <2>7
<1>5. \A x \in AllKeys(s) : \E i \in 1..Len(b) : x \in AllKeys(b[i])
  <2> SUFFICES ASSUME NEW x \in AllKeys(s)
               PROVE  \E i \in 1..Len(b) : x \in AllKeys(b[i])
    OBVIOUS
  <2>1. PICK p \in 1..Len(s) : x \in KeysOf(s[p])
    BY DEF AllKeys
  <2>2. PICK i \in 1..Len(b) : \E j \in 1..Len(b[i]) : p = st[i] + j
    BY <1>3
  <2>3. PICK j \in 1..Len(b[i]) : p = st[i] + j
    BY <2>2
  <2>4. x \in KeysOf(b[i][j])
    BY <1>3, <2>1, <2>3
  <2>5. x \in AllKeys(b[i])
    BY <2>4 DEF AllKeys
  <2> QED
    BY <2>5
<1> QED
  BY <1>2, <1>4, <1>5 DEF Apart

LEMMA ConcatApart ==
  ASSUME NEW s \in Seq(Message), NEW t \in Seq(Message), Apart(s), Apart(t),
         AllKeys(s) \cap AllKeys(t) = {}
  PROVE  Apart(s \o t) /\ AllKeys(s \o t) = AllKeys(s) \union AllKeys(t)
<1>1. PICK u : u = s \o t
  OBVIOUS
<1>2. /\ Len(s) \in Nat /\ Len(t) \in Nat /\ Len(u) = Len(s) + Len(t)
      /\ \A p \in 1..Len(s) : u[p] = s[p]
      /\ \A p \in 1..Len(t) : u[Len(s) + p] = t[p]
  BY <1>1, ConcatProperties, LenProperties
<1>3. ASSUME NEW p \in 1..Len(u)
      PROVE  \/ p \in 1..Len(s) /\ u[p] = s[p]
             \/ p - Len(s) \in 1..Len(t) /\ u[p] = t[p - Len(s)] /\ p > Len(s)
  <2>1. CASE p <= Len(s)
    BY <1>2, <2>1
  <2>2. CASE p > Len(s)
    <3>1. p - Len(s) \in 1..Len(t) /\ Len(s) + (p - Len(s)) = p
      BY <1>2, <2>2
    <3> QED
      BY <1>2, <2>2, <3>1
  <2> QED
    BY <1>2, <2>1, <2>2
<1>4. /\ \A i \in 1..Len(s) : KeysOf(s[i]) \subseteq AllKeys(s)
      /\ \A i \in 1..Len(t) : KeysOf(t[i]) \subseteq AllKeys(t)
  BY DEF AllKeys
<1>5. ASSUME NEW p \in 1..Len(u), NEW q \in 1..Len(u), p # q
      PROVE  KeysOf(u[p]) \cap KeysOf(u[q]) = {}
  <2>1. CASE p \in 1..Len(s) /\ q \in 1..Len(s)
    BY <1>2, <1>5, <2>1 DEF Apart
  <2>2. CASE p > Len(s) /\ q > Len(s)
    <3>1. /\ p - Len(s) \in 1..Len(t) /\ u[p] = t[p - Len(s)]
          /\ q - Len(s) \in 1..Len(t) /\ u[q] = t[q - Len(s)]
      <4>1. p \notin 1..Len(s) /\ q \notin 1..Len(s)
        BY <1>2, <2>2
      <4> QED
        BY <1>3, <4>1
    <3>2. p - Len(s) # q - Len(s)
      BY <1>2, <1>5
    <3> QED
      BY <3>1, <3>2 DEF Apart
  <2>3. CASE p \in 1..Len(s) /\ q > Len(s)
    <3>1. u[p] = s[p] /\ q - Len(s) \in 1..Len(t) /\ u[q] = t[q - Len(s)]
      BY <1>2, <1>3, <2>3
    <3> QED
      BY <1>4, <2>3, <3>1
  <2>4. CASE p > Len(s) /\ q \in 1..Len(s)
    <3>1. u[q] = s[q] /\ p - Len(s) \in 1..Len(t) /\ u[p] = t[p - Len(s)]
      BY <1>2, <1>3, <2>4
    <3> QED
      BY <1>4, <2>4, <3>1
  <2> QED
    BY <1>2, <2>1, <2>2, <2>3, <2>4
<1>6. AllKeys(u) \subseteq AllKeys(s) \union AllKeys(t)
  <2> SUFFICES ASSUME NEW p \in 1..Len(u) PROVE KeysOf(u[p]) \subseteq AllKeys(s) \union AllKeys(t)
    BY DEF AllKeys
  <2> QED
    BY <1>3, <1>4
<1>7. AllKeys(s) \subseteq AllKeys(u) /\ AllKeys(t) \subseteq AllKeys(u)
  <2>1. ASSUME NEW p \in 1..Len(s) PROVE KeysOf(s[p]) \subseteq AllKeys(u)
    <3>1. p \in 1..Len(u) /\ u[p] = s[p]
      BY <1>2
    <3> QED
      BY <3>1 DEF AllKeys
  <2>2. ASSUME NEW p \in 1..Len(t) PROVE KeysOf(t[p]) \subseteq AllKeys(u)
    <3>1. Len(s) + p \in 1..Len(u) /\ u[Len(s) + p] = t[p]
      BY <1>2
    <3> QED
      BY <3>1 DEF AllKeys
  <2>3. ASSUME NEW x \in AllKeys(s) PROVE x \in AllKeys(u)
    <3>1. PICK p \in 1..Len(s) : x \in KeysOf(s[p])
      BY <2>3 DEF AllKeys
    <3> QED
      BY <2>1, <3>1
  <2>4. ASSUME NEW x \in AllKeys(t) PROVE x \in AllKeys(u)
    <3>1. PICK p \in 1..Len(t) : x \in KeysOf(t[p])
      BY <2>4 DEF AllKeys
    <3> QED
      BY <2>2, <3>1
  <2> QED
    BY <2>3, <2>4
<1> QED
  BY <1>1, <1>5, <1>6, <1>7 DEF Apart

LEMMA SelectionApart ==
  ASSUME NEW s \in Seq(Message), NEW I \in SUBSET (1..Len(s)), Apart(s)
  PROVE  Apart(Selection(s, I)) /\ AllKeys(Selection(s, I)) \subseteq AllKeys(s)
<1>1. PICK f : Takes(f, Selection(s, I), s, I)
  BY SelectionTakes
<1>2. PICK t : t = Selection(s, I)
  OBVIOUS
<1>3. /\ \A k \in 1..Len(t) : f[k] \in I /\ f[k] \in 1..Len(s) /\ t[k] = s[f[k]]
      /\ \A k, l \in 1..Len(t) : f[k] = f[l] => k = l
  BY <1>1, <1>2 DEF Takes
<1>4. Apart(t)
  <2> SUFFICES ASSUME NEW k \in 1..Len(t), NEW l \in 1..Len(t), k # l
               PROVE  KeysOf(t[k]) \cap KeysOf(t[l]) = {}
    BY DEF Apart
  <2>1. f[k] \in 1..Len(s) /\ f[l] \in 1..Len(s) /\ f[k] # f[l]
    BY <1>3
  <2>2. KeysOf(s[f[k]]) \cap KeysOf(s[f[l]]) = {}
    BY <2>1 DEF Apart
  <2> QED
    BY <1>3, <2>2
<1>5. ASSUME NEW x \in AllKeys(t) PROVE x \in AllKeys(s)
  <2>1. PICK k \in 1..Len(t) : x \in KeysOf(t[k])
    BY <1>5 DEF AllKeys
  <2>2. f[k] \in 1..Len(s) /\ x \in KeysOf(s[f[k]])
    BY <1>3, <2>1
  <2> QED
    BY <2>2 DEF AllKeys
<1> QED
  BY <1>2, <1>4, <1>5

-----------------------------------------------------------------------------
(* PatchDangling.                                                            *)

LEMMA KeysKnown ==
  ASSUME NEW used, NEW told, NEW n, NEW m, Proper(m, used, told, n)
  PROVE  /\ \A c : <<"call", c>> \in KeysOf(m) <=> c \in ToSet(m.calls)
         /\ \A c : <<"result", c>> \in KeysOf(m) <=> m.role = "tool" /\ m.id = c
         /\ <<"reminder", 0>> \in KeysOf(m) <=> IsReminder(m)
         /\ \A x \in KeysOf(m) : x = <<x[1], x[2]>>
         /\ m.role = "tool" => ToSet(m.calls) = {}
         /\ m.role = "user" => ToSet(m.calls) = {}
<1>1. ASSUME m.calls = <<>> PROVE ToSet(m.calls) = {}
  BY <1>1 DEF ToSet
<1> QED
  BY <1>1 DEF Proper, KeysOf

(* No message asks or answers what another asks or answers.                  *)
LEMMA OneOfEach ==
  ASSUME NEW used, NEW told, NEW n, NEW ms, InOrder(ms, used, told, n),
         NEW i \in 1..Len(ms), NEW k \in 1..Len(ms)
  PROVE  /\ \A c \in ToSet(ms[i].calls) : c \in ToSet(ms[k].calls) => i = k
         /\ ms[i].role = "tool" /\ ms[k].role = "tool" /\ ms[i].id = ms[k].id => i = k
         /\ IsReminder(ms[i]) /\ IsReminder(ms[k]) => i = k
<1>1. Proper(ms[i], used, told, n) /\ Proper(ms[k], used, told, n)
  BY DEF InOrder
<1>2. i # k => KeysOf(ms[i]) \cap KeysOf(ms[k]) = {}
  BY DEF InOrder, Apart
<1>3. ASSUME NEW c \in ToSet(ms[i].calls), c \in ToSet(ms[k].calls) PROVE i = k
  <2>1. <<"call", c>> \in KeysOf(ms[i]) /\ <<"call", c>> \in KeysOf(ms[k])
    BY <1>1, <1>3, KeysKnown
  <2> QED
    BY <1>2, <2>1
<1>4. ASSUME ms[i].role = "tool", ms[k].role = "tool", ms[i].id = ms[k].id PROVE i = k
  <2>1. <<"result", ms[i].id>> \in KeysOf(ms[i]) /\ <<"result", ms[i].id>> \in KeysOf(ms[k])
    BY <1>1, <1>4, KeysKnown
  <2> QED
    BY <1>2, <2>1
<1>5. ASSUME IsReminder(ms[i]), IsReminder(ms[k]) PROVE i = k
  <2>1. <<"reminder", 0>> \in KeysOf(ms[i]) /\ <<"reminder", 0>> \in KeysOf(ms[k])
    BY <1>1, <1>5, KeysKnown
  <2> QED
    BY <1>2, <2>1
<1> QED
  BY <1>3, <1>4, <1>5

LEMMA CalledBy ==
  ASSUME NEW ms \in Seq(Message), NEW c
  PROVE  c \in Called(ms) <=> \E i \in 1..Len(ms) : c \in ToSet(ms[i].calls)
BY SeqFacts DEF Called

Answering(r, c) ==
  r.role = "tool" /\ r.id = c /\ ~IsReminder(r) /\ KeysOf(r) = {<<"result", c>>}

(* The result of a call is the one the history has, or a made-up one.        *)
LEMMA ResultFacts ==
  ASSUME NEW used, NEW told, NEW n, NEW ms, InOrder(ms, used, told, n),
         NEW c \in Called(ms)
  PROVE  /\ Proper(ResultOf(ms, c), used, told, n)
         /\ Answering(ResultOf(ms, c), c)
         /\ \A k \in 1..Len(ms) : ms[k].role = "tool" /\ ms[k].id = c => ResultOf(ms, c) = ms[k]
<1> DEFINE results == {k \in DOMAIN ms : ms[k].role = "tool" /\ ms[k].id = c}
           r == ResultOf(ms, c)
<1>1. ms \in Seq(Message) /\ Len(ms) \in Nat /\ DOMAIN ms = 1..Len(ms)
  BY SeqFacts DEF InOrder
<1>2. r = IF results = {} THEN Tool("interrupted", c, 0) ELSE ms[Min(results)]
  BY DEF ResultOf
<1>3. PICK i \in 1..Len(ms) : c \in ToSet(ms[i].calls)
  BY <1>1, CalledBy
<1>4. c \in used /\ c \in Ids /\ c # 0 /\ n \in Nat
  <2>1. Proper(ms[i], used, told, n)
    BY DEF InOrder
  <2>2. c \in used
    BY <1>3, <2>1 DEF Proper
  <2> QED
    BY <2>2 DEF Ids, InOrder
<1> HIDE DEF r
<1>5. CASE results = {}
  <2>1. c \notin told
    <3>1. SUFFICES ASSUME c \in told PROVE FALSE
      OBVIOUS
    <3>2. \E k \in 1..Len(ms) : ms[k].role = "tool" /\ ms[k].id = c
      BY <1>3, <3>1 DEF InOrder, ResultsFollow
    <3> QED
      BY <1>1, <1>5, <3>2
  <2>2. r = Tool("interrupted", c, 0)
    BY <1>2, <1>5
  <2>3. /\ r \in Message /\ r.role = "tool" /\ r.id = c /\ r.calls = <<>> /\ r.n = 0
        /\ r.text = "interrupted"
    BY <1>4, <2>2 DEF Tool, Message
  <2>4. ToSet(r.calls) = {} /\ Len(r.calls) = 0
    BY <2>3 DEF ToSet
  <2>5. ~IsReminder(r)
    BY <2>3 DEF IsReminder
  <2>6. Proper(r, used, told, n)
    BY <1>4, <2>1, <2>3, <2>4, <2>5 DEF Proper
  <2>7. KeysOf(r) = {<<"result", c>>}
    BY <2>3, <2>4, <2>5 DEF KeysOf
  <2>8. \A k \in 1..Len(ms) : ~(ms[k].role = "tool" /\ ms[k].id = c)
    BY <1>1, <1>5
  <2> QED
    BY <2>3, <2>5, <2>6, <2>7, <2>8 DEF r, Answering
<1>6. CASE results # {}
  <2>1. Min(results) \in results
    <3>1. results \in SUBSET Nat
      BY <1>1
    <3>2. \E x \in results : \A y \in results : x <= y
      <4> HIDE DEF results
      <4> QED
        BY <1>6, <3>1, LeastExists
    <3> HIDE DEF results
    <3> QED
      BY <3>2 DEF Min
  <2>2. PICK k \in 1..Len(ms) : ms[k].role = "tool" /\ ms[k].id = c /\ r = ms[k]
    BY <1>1, <1>2, <1>6, <2>1
  <2>3. Proper(r, used, told, n)
    BY <2>2 DEF InOrder
  <2>4. ~IsReminder(r)
    BY <2>2, <2>3 DEF Proper
  <2>5. KeysOf(r) = {<<"result", c>>}
    <3>1. ToSet(r.calls) = {}
      BY <2>2, <2>3, KeysKnown
    <3> QED
      BY <2>2, <2>4, <3>1 DEF KeysOf
  <2>6. ASSUME NEW l \in 1..Len(ms), ms[l].role = "tool", ms[l].id = c PROVE r = ms[l]
    BY <2>2, <2>6, OneOfEach
  <2> QED
    BY <2>2, <2>3, <2>4, <2>5, <2>6 DEF r, Answering
<1> QED
  BY <1>5, <1>6

Replayable(ms, i) == ~(ms[i].role = "tool" /\ ms[i].id \in Called(ms))

(* Every call is followed by its result, in the order of the calls.          *)
Answers(ms) ==
  \A i \in 1..Len(ms) : \A j \in 1..Len(ms[i].calls) :
    i + j \in 1..Len(ms) /\ ms[i + j].role = "tool" /\ ms[i + j].id = ms[i].calls[j]

LEMMA CallsOf ==
  ASSUME NEW m \in Message
  PROVE  /\ m.calls \in Seq(Ids) /\ Len(m.calls) \in Nat /\ DOMAIN m.calls = 1..Len(m.calls)
         /\ \A j \in 1..Len(m.calls) : m.calls[j] \in ToSet(m.calls)
         /\ \A c \in ToSet(m.calls) : \E j \in 1..Len(m.calls) : m.calls[j] = c
<1>1. m.calls \in Seq(Ids)
  BY DEF Message
<1>2. /\ Len(m.calls) \in Nat /\ DOMAIN m.calls = 1..Len(m.calls)
      /\ ToSet(m.calls) = {m.calls[i] : i \in 1..Len(m.calls)}
  BY <1>1, SeqFacts
<1> QED
  BY <1>1, <1>2

(* A message that asks is followed by its results.                           *)
Block(b, ms, i) ==
  /\ b \in Seq(Message)
  /\ ~Replayable(ms, i) => Len(b) = 0
  /\ Replayable(ms, i) =>
       /\ Len(b) = 1 + Len(ms[i].calls) /\ b[1] = ms[i]
       /\ \A j \in 1..Len(ms[i].calls) : b[1 + j] = ResultOf(ms, ms[i].calls[j])

LEMMA BlockShape ==
  ASSUME NEW used, NEW told, NEW n, NEW ms, InOrder(ms, used, told, n),
         NEW i \in 1..Len(ms)
  PROVE  Block(Replayed(ms, ms[i]), ms, i)
<1>1. ms \in Seq(Message) /\ Proper(ms[i], used, told, n) /\ ms[i] \in Message
  BY DEF InOrder, Proper
<1>2. PICK m : m = ms[i]
  OBVIOUS
<1>3. CASE ~Replayable(ms, i)
  <2>1. Replayed(ms, m) = <<>>
    BY <1>2, <1>3 DEF Replayable, Replayed
  <2>2. <<>> \in Seq(Message) /\ Len(<<>>) = 0
    BY EmptySeq
  <2> QED
    BY <1>2, <1>3, <2>1, <2>2 DEF Block
<1>4. CASE Replayable(ms, i)
  <2> DEFINE R == [j \in DOMAIN m.calls |-> ResultOf(ms, m.calls[j])]
             N == Len(m.calls)
  <2>1. Replayed(ms, m) = <<m>> \o R
    BY <1>2, <1>4 DEF Replayable, Replayed
  <2>2. N \in Nat /\ DOMAIN m.calls = 1..N /\ \A j \in 1..N : m.calls[j] \in ToSet(m.calls)
    BY <1>1, <1>2, CallsOf
  <2>3. \A j \in 1..N : ResultOf(ms, m.calls[j]) \in Message
    <3> TAKE j \in 1..N
    <3>1. m.calls[j] \in Called(ms)
      BY <1>1, <1>2, <2>2, CalledBy
    <3>2. Proper(ResultOf(ms, m.calls[j]), used, told, n)
      BY <3>1, ResultFacts
    <3> QED
      BY <3>2 DEF Proper
  <2>4. R \in Seq(Message) /\ Len(R) = N /\ \A j \in 1..N : R[j] = ResultOf(ms, m.calls[j])
    <3>1. R = [j \in 1..N |-> ResultOf(ms, m.calls[j])]
      BY <2>2
    <3> HIDE DEF R, N
    <3>2. R \in [1..N -> Message]
      BY <2>3, <3>1
    <3>3. R \in Seq(Message)
      BY <2>2, <3>2, SeqDef
    <3> QED
      BY <2>2, <3>1, <3>2, <3>3, LenProperties
  <2> HIDE DEF R, N
  <2>5. <<m>> \in Seq(Message) /\ Len(<<m>>) = 1 /\ <<m>>[1] = m
    BY <1>1, <1>2
  <2>6. PICK s : s = <<m>>
    OBVIOUS
  <2>7. PICK t : t = s \o R
    OBVIOUS
  <2>8. /\ t \in Seq(Message) /\ Len(t) = 1 + N /\ t[1] = s[1]
        /\ \A j \in 1..N : t[1 + j] = R[j]
    BY <2>2, <2>4, <2>5, <2>6, <2>7, ConcatProperties
  <2>9. Replayed(ms, m) = t
    BY <2>1, <2>6, <2>7
  <2> QED
    BY <1>2, <1>4, <2>4, <2>5, <2>6, <2>8, <2>9 DEF N, Block
<1> QED
  BY <1>3, <1>4

(* What stands at place p of a block.                                        *)
Standing(m, ms, i, p) ==
  /\ p = 1 => m = ms[i]
  /\ p # 1 => /\ p - 1 \in 1..Len(ms[i].calls)
              /\ ms[i].calls[p - 1] \in ToSet(ms[i].calls)
              /\ Answering(m, ms[i].calls[p - 1])

LEMMA BlockInOrder ==
  ASSUME NEW used, NEW told, NEW n, NEW ms, InOrder(ms, used, told, n),
         NEW i \in 1..Len(ms), NEW b, b = Replayed(ms, ms[i]), NEW p \in 1..Len(b)
  PROVE  Replayable(ms, i) /\ Proper(b[p], used, told, n) /\ Standing(b[p], ms, i, p)
<1>1. ms \in Seq(Message) /\ Proper(ms[i], used, told, n) /\ ms[i] \in Message
  BY DEF InOrder, Proper
<1>2. Block(b, ms, i)
  BY BlockShape
<1>3. Len(ms[i].calls) \in Nat
  BY <1>1, CallsOf
<1>4. /\ Replayable(ms, i) /\ Len(b) = 1 + Len(ms[i].calls) /\ b[1] = ms[i]
      /\ \A j \in 1..Len(ms[i].calls) : b[1 + j] = ResultOf(ms, ms[i].calls[j])
  BY <1>2 DEF Block
<1>5. CASE p = 1
  BY <1>1, <1>4, <1>5 DEF Standing
<1>6. CASE p # 1
  <2>1. p - 1 \in 1..Len(ms[i].calls) /\ p = 1 + (p - 1)
    BY <1>3, <1>4, <1>6
  <2>2. PICK c : c = ms[i].calls[p - 1]
    OBVIOUS
  <2>3. b[p] = ResultOf(ms, c)
    BY <1>4, <2>1, <2>2
  <2>4. c \in ToSet(ms[i].calls)
    BY <1>1, <2>1, <2>2, CallsOf
  <2>5. c \in Called(ms)
    BY <1>1, <2>4, CalledBy
  <2>6. Proper(ResultOf(ms, c), used, told, n) /\ Answering(ResultOf(ms, c), c)
    BY <2>5, ResultFacts
  <2> QED
    BY <1>4, <1>6, <2>1, <2>2, <2>3, <2>4, <2>6 DEF Standing
<1> QED
  BY <1>5, <1>6

LEMMA BlockKeys ==
  ASSUME NEW used, NEW told, NEW n, NEW ms, InOrder(ms, used, told, n),
         NEW i \in 1..Len(ms), NEW x \in AllKeys(Replayed(ms, ms[i]))
  PROVE  /\ Replayable(ms, i)
         /\ x \in KeysOf(ms[i]) \/ \E c \in ToSet(ms[i].calls) : x = <<"result", c>>
<1>1. PICK p \in 1..Len(Replayed(ms, ms[i])) : x \in KeysOf(Replayed(ms, ms[i])[p])
  BY DEF AllKeys
<1>2. PICK b : b = Replayed(ms, ms[i])
  OBVIOUS
<1>3. p \in 1..Len(b) /\ Replayable(ms, i) /\ Standing(b[p], ms, i, p) /\ x \in KeysOf(b[p])
  BY <1>1, <1>2, BlockInOrder
<1> QED
  BY <1>3 DEF Standing, Answering

LEMMA BlocksApart ==
  ASSUME NEW used, NEW told, NEW n, NEW ms, InOrder(ms, used, told, n),
         NEW i \in 1..Len(ms)
  PROVE  /\ Apart(Replayed(ms, ms[i]))
         /\ \A k \in 1..Len(ms) : i # k =>
              AllKeys(Replayed(ms, ms[i])) \cap AllKeys(Replayed(ms, ms[k])) = {}
<1>1. /\ ms \in Seq(Message)
      /\ \A k \in 1..Len(ms) : Proper(ms[k], used, told, n) /\ ms[k] \in Message
  BY DEF InOrder, Proper
<1>2. PICK b : b = Replayed(ms, ms[i])
  OBVIOUS
<1>3. ASSUME NEW c, NEW k \in 1..Len(ms), Replayable(ms, k), c \in Called(ms)
      PROVE  <<"result", c>> \notin KeysOf(ms[k])
  BY <1>1, <1>3, KeysKnown DEF Replayable
<1>4. ASSUME NEW p \in 1..Len(b), NEW q \in 1..Len(b), p < q
      PROVE  KeysOf(b[p]) \cap KeysOf(b[q]) = {}
  <2>1. PICK c : c = ms[i].calls[q - 1]
    OBVIOUS
  <2>2. /\ Replayable(ms, i) /\ q - 1 \in 1..Len(ms[i].calls)
        /\ KeysOf(b[q]) = {<<"result", c>>} /\ c \in ToSet(ms[i].calls)
    <3>1. q # 1
      BY <1>4
    <3>2. Replayable(ms, i) /\ Standing(b[q], ms, i, q)
      BY <1>2, BlockInOrder
    <3> QED
      BY <2>1, <3>1, <3>2 DEF Standing, Answering
  <2>3. CASE p = 1
    <3>1. b[p] = ms[i]
      <4>1. Standing(b[p], ms, i, p)
        BY <1>2, BlockInOrder
      <4> QED
        BY <2>3, <4>1 DEF Standing
    <3>2. c \in Called(ms)
      BY <1>1, <2>2, CalledBy
    <3> QED
      BY <1>3, <2>2, <3>1, <3>2
  <2>4. CASE p # 1
    <3>1. PICK d : d = ms[i].calls[p - 1]
      OBVIOUS
    <3>2. p - 1 \in 1..Len(ms[i].calls) /\ KeysOf(b[p]) = {<<"result", d>>}
      <4>1. Standing(b[p], ms, i, p)
        BY <1>2, BlockInOrder
      <4> QED
        BY <2>4, <3>1, <4>1 DEF Standing, Answering
    <3>3. p - 1 # q - 1
      BY <1>4
    <3>4. c # d
      BY <1>1, <2>1, <2>2, <3>1, <3>2, <3>3 DEF Proper
    <3> QED
      BY <2>2, <3>2, <3>4
  <2> QED
    BY <2>3, <2>4
<1>5. Apart(b)
  <2> SUFFICES ASSUME NEW p \in 1..Len(b), NEW q \in 1..Len(b), p # q
               PROVE  KeysOf(b[p]) \cap KeysOf(b[q]) = {}
    BY DEF Apart
  <2>1. p < q \/ q < p
    OBVIOUS
  <2> QED
    BY <1>4, <2>1
<1>6. ASSUME NEW k \in 1..Len(ms), i # k, NEW x \in AllKeys(b), x \in AllKeys(Replayed(ms, ms[k]))
      PROVE  FALSE
  <2>1. /\ Replayable(ms, i)
        /\ x \in KeysOf(ms[i]) \/ \E c \in ToSet(ms[i].calls) : x = <<"result", c>>
    BY <1>2, BlockKeys
  <2>2. /\ Replayable(ms, k)
        /\ x \in KeysOf(ms[k]) \/ \E c \in ToSet(ms[k].calls) : x = <<"result", c>>
    BY <1>6, BlockKeys
  <2>3. ~(x \in KeysOf(ms[i]) /\ x \in KeysOf(ms[k]))
    BY <1>6 DEF InOrder, Apart
  <2>4. CASE \E c \in ToSet(ms[i].calls) : x = <<"result", c>>
    <3>1. PICK c \in ToSet(ms[i].calls) : x = <<"result", c>>
      BY <2>4
    <3>2. c \in Called(ms) /\ x \notin KeysOf(ms[k])
      BY <1>1, <1>3, <2>2, <3>1, CalledBy
    <3>3. PICK d \in ToSet(ms[k].calls) : x = <<"result", d>>
      BY <2>2, <3>2
    <3>4. c = d
      BY <3>1, <3>3
    <3> QED
      BY <1>6, <3>4, OneOfEach
  <2>5. CASE \E c \in ToSet(ms[k].calls) : x = <<"result", c>>
    <3>1. PICK c \in ToSet(ms[k].calls) : x = <<"result", c>>
      BY <2>5
    <3>2. c \in Called(ms) /\ x \notin KeysOf(ms[i])
      BY <1>1, <1>3, <2>1, <3>1, CalledBy
    <3> QED
      BY <2>1, <2>4, <3>2
  <2> QED
    BY <2>1, <2>2, <2>3, <2>4, <2>5
<1> QED
  BY <1>2, <1>5, <1>6

LEMMA AnswersFollow ==
  ASSUME NEW ms \in Seq(Message), Answers(ms), NEW told
  PROVE  ResultsFollow(ms, told)
<1> SUFFICES ASSUME NEW i \in 1..Len(ms), NEW c \in ToSet(ms[i].calls)
             PROVE  \E k \in 1..Len(ms) : i < k /\ ms[k].role = "tool" /\ ms[k].id = c
  BY DEF ResultsFollow
<1>1. PICK j \in 1..Len(ms[i].calls) : ms[i].calls[j] = c
  BY SeqFacts, CallsOf
<1>2. i + j \in 1..Len(ms) /\ ms[i + j].role = "tool" /\ ms[i + j].id = c
  BY <1>1 DEF Answers
<1>3. i < i + j
  <2>1. Len(ms[i].calls) \in Nat /\ Len(ms) \in Nat
    BY SeqFacts, CallsOf
  <2> QED
    BY <2>1
<1> QED
  BY <1>2, <1>3

LEMMA NumbersAre ==
  ASSUME NEW ms \in Seq(Message)
  PROVE  \A k : k \in Numbers(ms) <=> k # 0 /\ \E i \in 1..Len(ms) : k = ms[i].n
BY SeqFacts DEF Numbers

(* The patch keeps a history in order and all that was appended to it, and   *)
(* has every call answered.                                                  *)
LEMMA PatchKeeps ==
  ASSUME NEW used, NEW told, NEW n, NEW ms, InOrder(ms, used, told, n)
  PROVE  /\ InOrder(Patched(ms), used, told, n) /\ Answers(Patched(ms))
         /\ Numbers(ms) \subseteq Numbers(Patched(ms))
<1> DEFINE b == [i \in DOMAIN ms |-> Replayed(ms, ms[i])]
<1>1. /\ ms \in Seq(Message) /\ Len(ms) \in Nat /\ DOMAIN ms = 1..Len(ms)
      /\ \A i \in 1..Len(ms) : Proper(ms[i], used, told, n) /\ ms[i] \in Message
  BY SeqFacts DEF InOrder, Proper
<1>2. PICK s : s = Patched(ms)
  OBVIOUS
<1>3. s = FlattenSeq(b)
  BY <1>2 DEF Patched
<1>4. b = [i \in 1..Len(ms) |-> Replayed(ms, ms[i])]
  BY <1>1
<1> HIDE DEF b
<1>5. \A i \in 1..Len(ms) : b[i] = Replayed(ms, ms[i]) /\ Block(b[i], ms, i)
  BY <1>4, BlockShape
<1>6. b \in Seq(Seq(Message)) /\ Len(b) = Len(ms)
  <2>1. b \in [1..Len(ms) -> Seq(Message)]
    BY <1>4, <1>5 DEF Block
  <2> QED
    BY <1>1, <2>1, SeqDef, LenProperties
<1>7. s \in Seq(Message)
  BY <1>3, <1>6, FlatIsPlaced
<1>b. PICK st : Placed(st, Len(b), b, s)
  BY <1>3, <1>6, FlatIsPlaced
<1>a. ASSUME NEW i \in 1..Len(b), NEW j \in 1..Len(b[i])
      PROVE  \E p \in 1..Len(s) : s[p] = b[i][j]
  <2>1. st[i] + j \in 1..Len(s) /\ s[st[i] + j] = b[i][j]
    BY <1>b DEF Placed
  <2> QED
    BY <2>1
<1>c. ASSUME NEW p \in 1..Len(s)
      PROVE  \E i \in 1..Len(b) : \E j \in 1..Len(b[i]) : s[p] = b[i][j]
  <2>1. PICK i \in 1..Len(b) : \E j \in 1..Len(b[i]) : p = st[i] + j
    BY <1>b DEF Placed
  <2>2. PICK j \in 1..Len(b[i]) : p = st[i] + j
    BY <2>1
  <2>3. s[st[i] + j] = b[i][j]
    BY <1>b DEF Placed
  <2> QED
    BY <2>2, <2>3
<1>8. ASSUME NEW i \in 1..Len(ms), NEW q \in 1..Len(b[i])
      PROVE  Replayable(ms, i) /\ Proper(b[i][q], used, told, n) /\ Standing(b[i][q], ms, i, q)
  BY <1>5, BlockInOrder
<1>9. ASSUME NEW p \in 1..Len(s) PROVE Proper(s[p], used, told, n)
  BY <1>6, <1>8, <1>c
<1>10. Apart(s)
  <2>1. ASSUME NEW i \in 1..Len(ms)
        PROVE  /\ Apart(Replayed(ms, ms[i]))
               /\ \A k \in 1..Len(ms) : i # k =>
                    AllKeys(Replayed(ms, ms[i])) \cap AllKeys(Replayed(ms, ms[k])) = {}
    BY BlocksApart
  <2>2. \A i \in 1..Len(b) : Apart(b[i])
    BY <1>5, <1>6, <2>1
  <2>3. \A i, k \in 1..Len(b) : i # k => AllKeys(b[i]) \cap AllKeys(b[k]) = {}
    BY <1>5, <1>6, <2>1
  <2> QED
    BY <1>3, <1>6, <2>2, <2>3, FlatApart
<1>11. Answers(s)
  <2> SUFFICES ASSUME NEW p \in 1..Len(s), NEW j \in 1..Len(s[p].calls)
               PROVE  p + j \in 1..Len(s) /\ s[p + j].role = "tool" /\ s[p + j].id = s[p].calls[j]
    BY DEF Answers
  <2>1. Placed(st, Len(b), b, s)
    BY <1>b
  <2>2. PICK i \in 1..Len(ms) : \E q \in 1..Len(b[i]) : p = st[i] + q
    <3>1. \E i \in 1..Len(b) : \E q \in 1..Len(b[i]) : p = st[i] + q
      BY <2>1 DEF Placed
    <3> QED
      BY <1>6, <3>1
  <2>3. PICK q \in 1..Len(b[i]) : p = st[i] + q
    BY <2>2
  <2>4. s[p] = b[i][q] /\ st[i] \in Nat
    BY <1>6, <2>1, <2>3 DEF Placed
  <2>5. Replayable(ms, i) /\ Proper(b[i][q], used, told, n) /\ Standing(b[i][q], ms, i, q)
    BY <1>8
  <2>6. q = 1 /\ s[p] = ms[i]
    <3>1. CASE q # 1
      <4>1. s[p].role = "tool"
        BY <2>4, <2>5, <3>1 DEF Standing, Answering
      <4>2. s[p].calls = <<>>
        BY <2>4, <2>5, <4>1 DEF Proper
      <4> QED
        BY <4>2
    <3> QED
      BY <2>4, <2>5, <3>1 DEF Standing
  <2>7. Len(ms[i].calls) \in Nat /\ j \in 1..Len(ms[i].calls)
    BY <1>1, <2>6, CallsOf
  <2>8. Len(b[i]) = 1 + Len(ms[i].calls)
    BY <1>5, <2>5 DEF Block
  <2>9. PICK r : r = 1 + j
    OBVIOUS
  <2>10. r \in 1..Len(b[i]) /\ r # 1 /\ r - 1 = j /\ p + j = st[i] + r
    <3>1. j \in Nat /\ j >= 1 /\ j <= Len(ms[i].calls) /\ p = st[i] + 1
      BY <2>3, <2>6, <2>7
    <3>2. r \in Nat /\ r >= 2 /\ r <= Len(b[i]) /\ Len(b[i]) \in Nat
      BY <2>7, <2>8, <2>9, <3>1
    <3>3. r - 1 = j
      BY <2>9, <3>1
    <3>4. p + j = st[i] + r
      <4>1. st[i] \in Nat
        BY <2>4
      <4>2. PICK x : x = st[i]
        OBVIOUS
      <4>3. x \in Nat /\ p = x + 1
        BY <3>1, <4>1, <4>2
      <4> QED
        <5>1. x + (1 + j) = (x + 1) + j
          BY <3>1, <4>3
        <5> QED
          BY <2>9, <4>2, <4>3, <5>1
    <3> QED
      BY <3>2, <3>3, <3>4
  <2>11. Standing(b[i][r], ms, i, r)
    BY <1>8, <2>10
  <2>12. b[i][r].role = "tool" /\ b[i][r].id = ms[i].calls[j]
    BY <2>10, <2>11 DEF Standing, Answering
  <2>13. st[i] + r \in 1..Len(s) /\ s[st[i] + r] = b[i][r]
    BY <1>6, <2>1, <2>10 DEF Placed
  <2> QED
    BY <2>6, <2>10, <2>12, <2>13
<1>12. ResultsFollow(s, told)
  BY <1>7, <1>11, AnswersFollow
<1>13. ASSUME NEW i \in 1..Len(ms), Replayable(ms, i)
       PROVE  \E p \in 1..Len(s) : s[p] = ms[i]
  <2>1. Len(b[i]) = 1 + Len(ms[i].calls) /\ b[i][1] = ms[i] /\ Len(ms[i].calls) \in Nat
    BY <1>1, <1>5, <1>13, CallsOf DEF Block
  <2>2. 1 \in 1..Len(b[i])
    BY <2>1
  <2>3. \E p \in 1..Len(s) : s[p] = b[i][1]
    BY <1>6, <1>a, <2>2
  <2> QED
    BY <2>1, <2>3
<1>14. Reminded(s)
  <2>1. PICK i \in 1..Len(ms) : IsReminder(ms[i])
    BY DEF InOrder, Reminded
  <2>2. Replayable(ms, i)
    BY <1>1, <2>1 DEF Replayable, Proper
  <2> QED
    BY <1>13, <2>1, <2>2 DEF Reminded
<1>15. ASSUME NEW i \in 1..Len(ms) PROVE \E p \in 1..Len(s) : s[p] = ms[i]
  <2>1. CASE ~Replayable(ms, i)
    <3>1. PICK c : c = ms[i].id
      OBVIOUS
    <3>2. ms[i].role = "tool" /\ c \in Called(ms)
      BY <2>1, <3>1 DEF Replayable
    <3>3. PICK k \in 1..Len(ms) : c \in ToSet(ms[k].calls)
      BY <1>1, <3>2, CalledBy
    <3>4. PICK j \in 1..Len(ms[k].calls) : ms[k].calls[j] = c
      BY <1>1, <3>3, CallsOf
    <3>5. ms[k].role # "tool"
      BY <1>1, <3>3, KeysKnown
    <3>6. /\ Len(b[k]) = 1 + Len(ms[k].calls) /\ Len(ms[k].calls) \in Nat
          /\ b[k][1 + j] = ResultOf(ms, c)
      BY <1>1, <1>5, <3>4, <3>5, CallsOf DEF Block, Replayable
    <3>7. 1 + j \in 1..Len(b[k])
      BY <3>6
    <3>8. ResultOf(ms, c) = ms[i]
      BY <3>1, <3>2, ResultFacts
    <3>9. \E p \in 1..Len(s) : s[p] = b[k][1 + j]
      BY <1>6, <1>a, <3>7
    <3> QED
      BY <3>6, <3>8, <3>9
  <2> QED
    BY <1>13, <2>1
<1>16. Numbers(ms) \subseteq Numbers(s)
  BY <1>1, <1>7, <1>15, NumbersAre
<1> QED
  BY <1>2, <1>7, <1>9, <1>10, <1>11, <1>12, <1>14, <1>16 DEF InOrder

-----------------------------------------------------------------------------
(* Compaction.                                                               *)

(* What a compaction makes of a message: it, some of its calls, or nothing.  *)
PartOf(t, m, used, told, n) ==
  /\ t \in Seq(Message) /\ Len(t) \in {0, 1}
  /\ \A i \in 1..Len(t) :
       Proper(t[i], used, told, n) /\ KeysOf(t[i]) \subseteq KeysOf(m) /\ t[i].n = m.n

LEMMA OnlyTakes ==
  ASSUME NEW calls \in Seq(Ids), \A i, j \in 1..Len(calls) : calls[i] = calls[j] => i = j, NEW X
  PROVE  /\ Only(calls, X) \in Seq(Ids) /\ ToSet(Only(calls, X)) \subseteq ToSet(calls) \cap X
         /\ \A i, j \in 1..Len(Only(calls, X)) : Only(calls, X)[i] = Only(calls, X)[j] => i = j
<1>1. PICK I : I = {j \in DOMAIN calls : calls[j] \in X}
  OBVIOUS
<1>2. PICK t : t = Only(calls, X)
  OBVIOUS
<1>3. DOMAIN calls = 1..Len(calls) /\ ToSet(calls) = {calls[i] : i \in 1..Len(calls)}
  BY SeqFacts
<1>4. I \in SUBSET (1..Len(calls)) /\ t = Selection(calls, I) /\ \A i \in I : calls[i] \in ToSet(calls) \cap X
  BY <1>1, <1>2, <1>3 DEF Only
<1>5. t \in Seq(Ids) /\ \E f : Takes(f, t, calls, I)
  BY <1>4, SelectionTakes
<1>6. PICK f : Takes(f, t, calls, I)
  BY <1>5
<1>7. \A k \in 1..Len(t) : f[k] \in I /\ t[k] = calls[f[k]]
  BY <1>6 DEF Takes
<1>8. \A i, j \in 1..Len(t) : t[i] = t[j] => i = j
  <2> SUFFICES ASSUME NEW i \in 1..Len(t), NEW j \in 1..Len(t), t[i] = t[j] PROVE i = j
    OBVIOUS
  <2>1. f[i] \in 1..Len(calls) /\ f[j] \in 1..Len(calls) /\ calls[f[i]] = calls[f[j]]
    BY <1>4, <1>7
  <2>2. f[i] = f[j]
    BY <2>1
  <2> QED
    BY <1>6, <2>2 DEF Takes
<1>9. ToSet(t) \subseteq ToSet(calls) \cap X
  <2>1. ToSet(t) = {t[k] : k \in 1..Len(t)}
    BY <1>5, SeqFacts
  <2>2. \A k \in 1..Len(t) : t[k] \in ToSet(calls) \cap X
    BY <1>4, <1>7
  <2> QED
    BY <2>1, <2>2
<1> QED
  BY <1>2, <1>5, <1>8, <1>9

(* A message with only the calls of it in X.                                 *)
Lesser(t, m, X) ==
  /\ t \in Message /\ t.role = m.role /\ t.id = m.id /\ t.n = m.n /\ t.text \in {"", m.text}
  /\ t.calls = Only(m.calls, X)

LEMMA LesserExists ==
  ASSUME NEW used, NEW told, NEW n, NEW m, Proper(m, used, told, n), NEW X
  PROVE  /\ Lesser([m EXCEPT !.calls = Only(m.calls, X)], m, X)
         /\ Lesser([m EXCEPT !.text = "", !.calls = Only(m.calls, X)], m, X)
<1>1. m \in Message /\ m.calls \in Seq(Ids)
  BY CallsOf DEF Proper
<1>2. PICK calls : calls = Only(m.calls, X)
  OBVIOUS
<1>3. calls \in Seq(Ids)
  BY <1>1, <1>2, OnlyTakes DEF Proper
<1>4. Lesser([m EXCEPT !.calls = calls], m, X)
  BY <1>1, <1>2, <1>3 DEF Message, Lesser
<1>5. Lesser([m EXCEPT !.text = "", !.calls = calls], m, X)
  BY <1>1, <1>2, <1>3 DEF Message, Lesser
<1> QED
  BY <1>2, <1>4, <1>5

LEMMA LessIsProper ==
  ASSUME NEW used, NEW told, NEW n, NEW m, Proper(m, used, told, n), ToSet(m.calls) # {},
         NEW X, NEW t, Lesser(t, m, X)
  PROVE  /\ Proper(t, used, told, n) /\ KeysOf(t) \subseteq KeysOf(m) /\ t.n = m.n
         /\ ToSet(t.calls) \subseteq ToSet(m.calls) \cap X /\ ~IsReminder(t) /\ ~IsReminder(m)
<1>1. m \in Message /\ m.calls \in Seq(Ids)
  BY CallsOf DEF Proper
<1>2. /\ t.calls \in Seq(Ids) /\ ToSet(t.calls) \subseteq ToSet(m.calls) \cap X
      /\ \A i, j \in 1..Len(t.calls) : t.calls[i] = t.calls[j] => i = j
  <2>1. PICK calls : calls = Only(m.calls, X)
    OBVIOUS
  <2>2. /\ calls \in Seq(Ids) /\ ToSet(calls) \subseteq ToSet(m.calls) \cap X
        /\ \A i, j \in 1..Len(calls) : calls[i] = calls[j] => i = j
    BY <1>1, <2>1, OnlyTakes DEF Proper
  <2>3. t.calls = calls
    BY <2>1 DEF Lesser
  <2> QED
    BY <2>2, <2>3
<1>3. m.role # "tool" /\ m.role # "user"
  BY KeysKnown
<1>4. t \in Message /\ t.role = m.role /\ t.id = m.id /\ t.n = m.n /\ t.text \in {"", m.text}
  BY DEF Lesser
<1>5. ~IsReminder(m) /\ ~IsReminder(t) /\ m.text # "interrupted" /\ t.text # "interrupted"
  BY <1>3, <1>4 DEF Proper, IsReminder
<1>6. Proper(t, used, told, n)
  <2>1. ToSet(t.calls) \subseteq used
    BY <1>2 DEF Proper
  <2>2. t.role # "tool" /\ t.role # "user" /\ t.id = 0 /\ t.n \in 0..n
    BY <1>3, <1>4 DEF Proper
  <2> QED
    BY <1>2, <1>4, <1>5, <2>1, <2>2 DEF Proper
<1>7. KeysOf(t) \subseteq KeysOf(m)
  BY <1>2, <1>3, <1>4, <1>5 DEF KeysOf
<1> QED
  BY <1>2, <1>4, <1>5, <1>6, <1>7

LEMMA OneMessage ==
  ASSUME NEW m \in Message
  PROVE  <<m>> \in Seq(Message) /\ Len(<<m>>) = 1 /\ <<m>>[1] = m
OBVIOUS

LEMMA NoMessage == <<>> \in Seq(Message) /\ Len(<<>>) = 0
BY EmptySeq

(* What is rescued calls only what is rescued and reminds of nothing, and    *)
(* the results of what is rescued are rescued.                               *)
LEMMA RescuedIsPart ==
  ASSUME NEW used, NEW told, NEW n, NEW m, Proper(m, used, told, n), NEW ids, 0 \notin ids
  PROVE  /\ PartOf(RescuedPart(m, ids), m, used, told, n)
         /\ \A i \in 1..Len(RescuedPart(m, ids)) :
              /\ ToSet(RescuedPart(m, ids)[i].calls) \subseteq ToSet(m.calls) \cap ids
              /\ ~IsReminder(RescuedPart(m, ids)[i])
         /\ m.role = "tool" /\ m.id \in ids => RescuedPart(m, ids) = <<m>>
<1>1. PICK t : t = RescuedPart(m, ids)
  OBVIOUS
<1>2. m \in Message
  BY DEF Proper
<1>3. CASE ToSet(m.calls) \cap ids # {}
  <2>1. PICK r : r = [m EXCEPT !.text = "", !.calls = Only(m.calls, ids)]
    OBVIOUS
  <2>2. t = <<r>>
    BY <1>1, <1>3, <2>1 DEF RescuedPart
  <2>3. Lesser(r, m, ids) /\ ToSet(m.calls) # {}
    BY <1>3, <2>1, LesserExists
  <2>4. /\ Proper(r, used, told, n) /\ KeysOf(r) \subseteq KeysOf(m) /\ r.n = m.n
        /\ ToSet(r.calls) \subseteq ToSet(m.calls) \cap ids /\ ~IsReminder(r)
    BY <2>3, LessIsProper
  <2>5. t \in Seq(Message) /\ Len(t) = 1 /\ \A i \in 1..1 : t[i] = r
    <3>1. r \in Message
      BY <2>3 DEF Lesser
    <3> QED
      BY <2>2, <3>1, OneMessage
  <2>6. m.role # "tool"
    BY <1>3, KeysKnown
  <2> QED
    BY <1>1, <2>4, <2>5, <2>6 DEF PartOf
<1>4. CASE ToSet(m.calls) \cap ids = {} /\ m.id \in ids
  <2>1. t = <<m>>
    BY <1>1, <1>4 DEF RescuedPart
  <2>2. t \in Seq(Message) /\ Len(t) = 1 /\ \A i \in 1..1 : t[i] = m
    BY <1>2, <2>1, OneMessage
  <2>3. m.role = "tool" /\ ToSet(m.calls) = {} /\ ~IsReminder(m)
    BY <1>4, KeysKnown DEF Proper
  <2> QED
    BY <1>1, <2>1, <2>2, <2>3 DEF PartOf
<1>5. CASE ToSet(m.calls) \cap ids = {} /\ m.id \notin ids
  <2>1. t = <<>>
    BY <1>1, <1>5 DEF RescuedPart
  <2> QED
    BY <1>1, <1>5, <2>1, NoMessage DEF PartOf
<1> QED
  BY <1>3, <1>4, <1>5

(* What remains is all of a message of which nothing is rescued.             *)
LEMMA RemainingIsPart ==
  ASSUME NEW used, NEW told, NEW n, NEW m, Proper(m, used, told, n), NEW ids, 0 \notin ids
  PROVE  /\ PartOf(RemainingPart(m, ids), m, used, told, n)
         /\ IsReminder(m) \/ Len(RescuedPart(m, ids)) = 0 => RemainingPart(m, ids) = <<m>>
<1>1. PICK t : t = RemainingPart(m, ids)
  OBVIOUS
<1>2. m \in Message
  BY DEF Proper
<1>3. CASE ToSet(m.calls) \cap ids # {}
  <2>1. PICK X : X = ToSet(m.calls) \ ids
    OBVIOUS
  <2>2. PICK r : r = [m EXCEPT !.calls = Only(m.calls, X)]
    OBVIOUS
  <2>3. t = <<>> \/ t = <<r>>
    BY <1>1, <1>3, <2>1, <2>2 DEF RemainingPart
  <2>4. Lesser(r, m, X) /\ ToSet(m.calls) # {}
    BY <1>3, <2>2, LesserExists
  <2>5. Proper(r, used, told, n) /\ KeysOf(r) \subseteq KeysOf(m) /\ r.n = m.n /\ ~IsReminder(m)
    BY <2>4, LessIsProper
  <2>6. PartOf(t, m, used, told, n)
    <3>1. CASE t = <<>>
      BY <3>1, NoMessage DEF PartOf
    <3>2. CASE t = <<r>>
      <4>1. r \in Message
        BY <2>4 DEF Lesser
      <4>2. t \in Seq(Message) /\ Len(t) = 1 /\ \A i \in 1..1 : t[i] = r
        BY <3>2, <4>1, OneMessage
      <4> QED
        BY <2>5, <4>2 DEF PartOf
    <3> QED
      BY <2>3, <3>1, <3>2
  <2>7. Len(RescuedPart(m, ids)) = 1
    BY <1>3 DEF RescuedPart
  <2> QED
    BY <1>1, <2>5, <2>6, <2>7
<1>4. CASE ToSet(m.calls) \cap ids = {} /\ m.id \in ids
  <2>1. t = <<>> /\ RescuedPart(m, ids) = <<m>>
    BY <1>1, <1>4 DEF RemainingPart, RescuedPart
  <2>2. Len(<<m>>) = 1 /\ ~IsReminder(m)
    BY <1>2, <1>4 DEF Proper
  <2> QED
    BY <1>1, <2>1, <2>2, NoMessage DEF PartOf
<1>5. CASE ToSet(m.calls) \cap ids = {} /\ m.id \notin ids
  <2>1. t = <<m>>
    BY <1>1, <1>5 DEF RemainingPart
  <2>2. t \in Seq(Message) /\ Len(t) = 1 /\ \A i \in 1..1 : t[i] = m
    BY <1>2, <2>1, OneMessage
  <2> QED
    BY <1>1, <2>1, <2>2 DEF PartOf
<1> QED
  BY <1>3, <1>4, <1>5

(* Messages of a history, nothing asked or answered twice.                   *)
Sound(ms, used, told, n) ==
  /\ ms \in Seq(Message) /\ Apart(ms)
  /\ \A i \in 1..Len(ms) : Proper(ms[i], used, told, n)

LEMMA PartsAreSound ==
  ASSUME NEW used, NEW told, NEW n, NEW old, Sound(old, used, told, n),
         NEW b, b \in Seq(Seq(Message)), Len(b) = Len(old),
         \A i \in 1..Len(old) : PartOf(b[i], old[i], used, told, n)
  PROVE  Sound(FlattenSeq(b), used, told, n) /\ AllKeys(FlattenSeq(b)) \subseteq AllKeys(old)
<1>1. PICK s : s = FlattenSeq(b)
  OBVIOUS
<1>2. s \in Seq(Message)
  BY <1>1, FlatIsPlaced
<1>3. ASSUME NEW p \in 1..Len(s)
      PROVE  \E i \in 1..Len(b) : \E j \in 1..Len(b[i]) : s[p] = b[i][j]
  <2>1. PICK st : Placed(st, Len(b), b, s)
    BY <1>1, FlatIsPlaced
  <2>2. PICK i \in 1..Len(b) : \E j \in 1..Len(b[i]) : p = st[i] + j
    BY <2>1 DEF Placed
  <2>3. PICK j \in 1..Len(b[i]) : p = st[i] + j
    BY <2>2
  <2>4. s[st[i] + j] = b[i][j]
    BY <2>1 DEF Placed
  <2> QED
    BY <2>3, <2>4
<1>4. ASSUME NEW p \in 1..Len(s) PROVE Proper(s[p], used, told, n)
  <2>1. PICK i \in 1..Len(b) : \E j \in 1..Len(b[i]) : s[p] = b[i][j]
    BY <1>3
  <2>2. PICK j \in 1..Len(b[i]) : s[p] = b[i][j]
    BY <2>1
  <2>3. PartOf(b[i], old[i], used, told, n)
    OBVIOUS
  <2>4. Proper(b[i][j], used, told, n)
    BY <2>3 DEF PartOf
  <2> QED
    BY <2>2, <2>4
<1>5. ASSUME NEW i \in 1..Len(b) PROVE Apart(b[i])
  <2>1. Len(b[i]) \in {0, 1}
    BY DEF PartOf
  <2> QED
    BY <2>1 DEF Apart
<1>6. ASSUME NEW i \in 1..Len(b), NEW x \in AllKeys(b[i]) PROVE x \in KeysOf(old[i])
  <2>1. PICK j \in 1..Len(b[i]) : x \in KeysOf(b[i][j])
    BY <1>6 DEF AllKeys
  <2> QED
    BY <2>1 DEF PartOf
<1>7. \A i, k \in 1..Len(b) : i # k => AllKeys(b[i]) \cap AllKeys(b[k]) = {}
  BY <1>6 DEF Sound, Apart
<1>8. /\ Apart(s)
      /\ \A x \in AllKeys(s) : \E i \in 1..Len(b) : x \in AllKeys(b[i])
  BY <1>1, <1>5, <1>7, FlatApart
<1>9. ASSUME NEW x \in AllKeys(s) PROVE x \in AllKeys(old)
  <2>1. PICK i \in 1..Len(b) : x \in AllKeys(b[i])
    BY <1>8
  <2>2. x \in KeysOf(old[i])
    BY <1>6, <2>1
  <2> QED
    BY <2>2 DEF AllKeys
<1> QED
  BY <1>1, <1>2, <1>4, <1>8, <1>9 DEF Sound

RescuedOf(old, ids) == FlattenSeq([i \in DOMAIN old |-> RescuedPart(old[i], ids)])

RemainingOf(old, ids) == FlattenSeq([i \in DOMAIN old |-> RemainingPart(old[i], ids)])

(* What is rescued of old: no reminder, and behind every call its result.    *)
Rescued(r, old, ids) ==
  /\ AllKeys(r) \subseteq AllKeys(old)
  /\ \A p \in 1..Len(r) : ~IsReminder(r[p])
  /\ \A i \in 1..Len(old) :
       Len(RescuedPart(old[i], ids)) # 0 => \E p \in 1..Len(r) : r[p].n = old[i].n
  /\ \A p \in 1..Len(r) : \A c \in ToSet(r[p].calls) :
       \E i \in 1..Len(old) :
         /\ c \in ToSet(old[i].calls)
         /\ \A k \in 1..Len(old) : i < k /\ old[k].role = "tool" /\ old[k].id = c
              => \E q \in 1..Len(r) : p < q /\ r[q] = old[k]

LEMMA RescuedFacts ==
  ASSUME NEW used, NEW told, NEW n, NEW old, Sound(old, used, told, n), NEW ids, 0 \notin ids
  PROVE  /\ Sound(RescuedOf(old, ids), used, told, n)
         /\ Rescued(RescuedOf(old, ids), old, ids)
<1>0. PICK r : r = RescuedOf(old, ids)
  OBVIOUS
<1> DEFINE b == [i \in DOMAIN old |-> RescuedPart(old[i], ids)]
<1>1. /\ Len(old) \in Nat /\ DOMAIN old = 1..Len(old)
      /\ \A i \in 1..Len(old) : Proper(old[i], used, told, n)
  BY SeqFacts DEF Sound
<1>2. b = [i \in 1..Len(old) |-> RescuedPart(old[i], ids)] /\ r = FlattenSeq(b)
  BY <1>0, <1>1 DEF RescuedOf
<1> HIDE DEF b
<1>3. ASSUME NEW i \in 1..Len(old)
      PROVE  /\ b[i] = RescuedPart(old[i], ids) /\ PartOf(b[i], old[i], used, told, n)
             /\ \A j \in 1..Len(b[i]) :
                  ToSet(b[i][j].calls) \subseteq ToSet(old[i].calls) \cap ids /\ ~IsReminder(b[i][j])
             /\ old[i].role = "tool" /\ old[i].id \in ids => b[i] = <<old[i]>>
  <2>1. b[i] = RescuedPart(old[i], ids)
    BY <1>2
  <2>2. PICK m : m = old[i]
    OBVIOUS
  <2>3. Proper(m, used, told, n)
    BY <1>1, <2>2
  <2>4. /\ PartOf(RescuedPart(m, ids), m, used, told, n)
        /\ \A j \in 1..Len(RescuedPart(m, ids)) :
             /\ ToSet(RescuedPart(m, ids)[j].calls) \subseteq ToSet(m.calls) \cap ids
             /\ ~IsReminder(RescuedPart(m, ids)[j])
        /\ m.role = "tool" /\ m.id \in ids => RescuedPart(m, ids) = <<m>>
    BY <2>3, RescuedIsPart
  <2> QED
    BY <2>1, <2>2, <2>4
<1>4. b \in Seq(Seq(Message)) /\ Len(b) = Len(old)
  <2>1. b \in [1..Len(old) -> Seq(Message)]
    BY <1>2, <1>3 DEF PartOf
  <2> QED
    BY <1>1, <2>1, SeqDef, LenProperties
<1>5. Sound(r, used, told, n) /\ AllKeys(r) \subseteq AllKeys(old)
  <2>1. PICK f : f = b
    OBVIOUS
  <2>2. f \in Seq(Seq(Message)) /\ Len(f) = Len(old)
    BY <1>4, <2>1
  <2>3. \A i \in 1..Len(old) : PartOf(f[i], old[i], used, told, n)
    BY <1>3, <2>1
  <2>4. /\ Sound(FlattenSeq(f), used, told, n)
        /\ AllKeys(FlattenSeq(f)) \subseteq AllKeys(old)
    BY <2>2, <2>3, PartsAreSound
  <2> QED
    BY <1>2, <2>1, <2>4
<1>6. PICK st : Placed(st, Len(b), b, r)
  BY <1>2, <1>4, FlatIsPlaced
<1>7. /\ \A i \in 1..Len(old) : st[i] \in Nat /\ \A j \in 1..Len(b[i]) :
           st[i] + j \in 1..Len(r) /\ r[st[i] + j] = b[i][j]
      /\ \A p \in 1..Len(r) : \E i \in 1..Len(old) : \E j \in 1..Len(b[i]) : p = st[i] + j
      /\ \A i, k \in 1..Len(old) : i < k => st[i] + Len(b[i]) <= st[k]
  <2>1. PICK k : k = Len(b)
    OBVIOUS
  <2>2. PICK f : f = b
    OBVIOUS
  <2>3. Placed(st, k, f, r) /\ k = Len(old)
    BY <1>4, <1>6, <2>1, <2>2
  <2>4. Placed(st, Len(old), f, r)
    BY <2>3
  <2>5. /\ \A i \in 1..Len(old) : st[i] \in Nat /\ \A j \in 1..Len(f[i]) :
             st[i] + j \in 1..Len(r) /\ r[st[i] + j] = f[i][j]
        /\ \A p \in 1..Len(r) : \E i \in 1..Len(old) : \E j \in 1..Len(f[i]) : p = st[i] + j
        /\ \A i, k1 \in 1..Len(old) : i < k1 => st[i] + Len(f[i]) <= st[k1]
    BY <2>4 DEF Placed
  <2> QED
    BY <2>2, <2>5
<1>8. \A p \in 1..Len(r) : ~IsReminder(r[p])
  BY <1>3, <1>7
<1>9. ASSUME NEW i \in 1..Len(old), Len(RescuedPart(old[i], ids)) # 0
      PROVE  \E p \in 1..Len(r) : r[p].n = old[i].n
  <2>1. 1 \in 1..Len(b[i]) /\ b[i][1].n = old[i].n
    BY <1>3, <1>9 DEF PartOf
  <2>2. PICK p \in 1..Len(r) : r[p] = b[i][1]
    BY <1>7, <2>1
  <2> QED
    BY <2>1, <2>2
<1>10. ASSUME NEW p \in 1..Len(r), NEW c \in ToSet(r[p].calls)
       PROVE  \E i \in 1..Len(old) :
                /\ c \in ToSet(old[i].calls)
                /\ \A k \in 1..Len(old) : i < k /\ old[k].role = "tool" /\ old[k].id = c
                     => \E q \in 1..Len(r) : p < q /\ r[q] = old[k]
  <2>1. PICK i \in 1..Len(old) : \E j \in 1..Len(b[i]) : p = st[i] + j
    BY <1>7
  <2>2. PICK j \in 1..Len(b[i]) : p = st[i] + j
    BY <2>1
  <2>3. c \in ToSet(old[i].calls) /\ c \in ids
    <3>1. r[p] = b[i][j]
      BY <1>7, <2>2
    <3> QED
      BY <1>3, <3>1
  <2>4. ASSUME NEW k \in 1..Len(old), i < k, old[k].role = "tool", old[k].id = c
        PROVE  \E q \in 1..Len(r) : p < q /\ r[q] = old[k]
    <3>1. b[k] = <<old[k]>>
      BY <1>3, <2>3, <2>4
    <3>2. old[k] \in Message
      BY <1>1 DEF Proper
    <3>3. Len(b[k]) = 1 /\ b[k][1] = old[k]
      BY <3>1, <3>2, OneMessage
    <3>4. 1 \in 1..Len(b[k])
      BY <3>3
    <3>5. st[k] + 1 \in 1..Len(r) /\ r[st[k] + 1] = b[k][1]
      BY <1>7, <3>4
    <3>6. st[i] + Len(b[i]) <= st[k] /\ st[i] \in Nat /\ st[k] \in Nat
      BY <1>7, <2>4
    <3>7. Len(b[i]) \in {0, 1}
      BY <1>3 DEF PartOf
    <3>8. p < st[k] + 1
      <4>1. PICK x : x = st[i]
        OBVIOUS
      <4>2. PICK y : y = st[k]
        OBVIOUS
      <4>3. PICK l : l = Len(b[i])
        OBVIOUS
      <4>4. x \in Nat /\ y \in Nat /\ l \in Nat /\ x + l <= y /\ j <= l /\ j \in Nat /\ p = x + j
        BY <2>2, <3>6, <3>7, <4>1, <4>2, <4>3
      <4>5. p < y + 1
        BY <4>4
      <4> QED
        BY <4>2, <4>5
    <3> QED
      BY <3>3, <3>5, <3>8
  <2> QED
    BY <2>3, <2>4
<1> QED
  BY <1>0, <1>5, <1>8, <1>9, <1>10 DEF Rescued

(* What remains of old: the reminders and what nothing is rescued of.        *)
Remaining(q, old, ids) ==
  /\ AllKeys(q) \subseteq AllKeys(old)
  /\ \A i \in 1..Len(old) : IsReminder(old[i]) \/ Len(RescuedPart(old[i], ids)) = 0
       => \E p \in 1..Len(q) : q[p] = old[i]

LEMMA RemainingFacts ==
  ASSUME NEW used, NEW told, NEW n, NEW old, Sound(old, used, told, n), NEW ids, 0 \notin ids
  PROVE  /\ Sound(RemainingOf(old, ids), used, told, n)
         /\ Remaining(RemainingOf(old, ids), old, ids)
<1>0. PICK q : q = RemainingOf(old, ids)
  OBVIOUS
<1> DEFINE b == [i \in DOMAIN old |-> RemainingPart(old[i], ids)]
<1>1. /\ Len(old) \in Nat /\ DOMAIN old = 1..Len(old)
      /\ \A i \in 1..Len(old) : Proper(old[i], used, told, n)
  BY SeqFacts DEF Sound
<1>2. b = [i \in 1..Len(old) |-> RemainingPart(old[i], ids)] /\ q = FlattenSeq(b)
  BY <1>0, <1>1 DEF RemainingOf
<1> HIDE DEF b
<1>3. ASSUME NEW i \in 1..Len(old)
      PROVE  /\ PartOf(b[i], old[i], used, told, n)
             /\ IsReminder(old[i]) \/ Len(RescuedPart(old[i], ids)) = 0 => b[i] = <<old[i]>>
  <2>1. b[i] = RemainingPart(old[i], ids) /\ Proper(old[i], used, told, n)
    BY <1>1, <1>2
  <2> QED
    BY <2>1, RemainingIsPart
<1>4. b \in Seq(Seq(Message)) /\ Len(b) = Len(old)
  <2>1. b \in [1..Len(old) -> Seq(Message)]
    BY <1>2, <1>3 DEF PartOf
  <2> QED
    BY <1>1, <2>1, SeqDef, LenProperties
<1>5. Sound(q, used, told, n) /\ AllKeys(q) \subseteq AllKeys(old)
  <2>1. \A i \in 1..Len(old) : PartOf(b[i], old[i], used, told, n)
    BY <1>3
  <2>2. Sound(FlattenSeq(b), used, told, n) /\ AllKeys(FlattenSeq(b)) \subseteq AllKeys(old)
    BY <1>4, <2>1, PartsAreSound
  <2> QED
    BY <1>2, <2>2
<1>6. \A i \in 1..Len(b) : \A j \in 1..Len(b[i]) : \E p \in 1..Len(q) : q[p] = b[i][j]
  <2>1. PICK st : Placed(st, Len(b), b, q)
    BY <1>2, <1>4, FlatIsPlaced
  <2> QED
    BY <2>1 DEF Placed
<1>7. ASSUME NEW i \in 1..Len(old), IsReminder(old[i]) \/ Len(RescuedPart(old[i], ids)) = 0
      PROVE  \E p \in 1..Len(q) : q[p] = old[i]
  <2>1. b[i] = <<old[i]>> /\ old[i] \in Message
    BY <1>1, <1>3, <1>7 DEF Proper
  <2>2. Len(b[i]) = 1 /\ b[i][1] = old[i]
    BY <2>1, OneMessage
  <2>3. 1 \in 1..Len(b[i])
    BY <2>2
  <2> QED
    BY <1>4, <1>6, <2>2, <2>3
<1> QED
  BY <1>0, <1>5, <1>7 DEF Remaining

(* Where the messages of s and t stand in u.                                 *)
Joins(u, s, t) ==
  /\ Len(u) = Len(s) + Len(t)
  /\ \A p \in 1..Len(s) : p \in 1..Len(u) /\ u[p] = s[p]
  /\ \A q \in 1..Len(t) : Len(s) + q \in 1..Len(u) /\ u[Len(s) + q] = t[q]
  /\ \A p \in 1..Len(u) : \/ p \in 1..Len(s) /\ u[p] = s[p]
                          \/ \E q \in 1..Len(t) : p = Len(s) + q /\ u[p] = t[q]

LEMMA ConcatPlaces ==
  ASSUME NEW s \in Seq(Message), NEW t \in Seq(Message)
  PROVE  s \o t \in Seq(Message) /\ Joins(s \o t, s, t)
<1>0. PICK u : u = s \o t
  OBVIOUS
<1>1. /\ u \in Seq(Message) /\ Len(s) \in Nat /\ Len(t) \in Nat /\ Len(u) = Len(s) + Len(t)
      /\ \A p \in 1..Len(s) : u[p] = s[p]
      /\ \A q \in 1..Len(t) : u[Len(s) + q] = t[q]
  BY <1>0, ConcatProperties, LenProperties
<1>2. ASSUME NEW p \in 1..Len(u), p \notin 1..Len(s)
      PROVE  \E q \in 1..Len(t) : p = Len(s) + q /\ u[p] = t[q]
  <2>1. p - Len(s) \in 1..Len(t) /\ Len(s) + (p - Len(s)) = p
    BY <1>1, <1>2
  <2> QED
    BY <1>1, <2>1
<1>3. \A p \in 1..Len(s) : p \in 1..Len(u)
  BY <1>1
<1>4. \A q \in 1..Len(t) : Len(s) + q \in 1..Len(u)
  BY <1>1
<1> QED
  BY <1>0, <1>1, <1>2, <1>3, <1>4 DEF Joins

LEMMA JoinedIsSound ==
  ASSUME NEW used, NEW told, NEW n, NEW s, Sound(s, used, told, n), NEW t, Sound(t, used, told, n),
         AllKeys(s) \cap AllKeys(t) = {}
  PROVE  Sound(s \o t, used, told, n) /\ AllKeys(s \o t) = AllKeys(s) \union AllKeys(t)
<1>0. PICK u : u = s \o t
  OBVIOUS
<1>1. s \in Seq(Message) /\ t \in Seq(Message) /\ Apart(s) /\ Apart(t)
  BY DEF Sound
<1>2. Apart(u) /\ AllKeys(u) = AllKeys(s) \union AllKeys(t)
  BY <1>0, <1>1, ConcatApart
<1>3. u \in Seq(Message) /\ \A p \in 1..Len(u) :
        (p \in 1..Len(s) /\ u[p] = s[p]) \/ \E q \in 1..Len(t) : p = Len(s) + q /\ u[p] = t[q]
  BY <1>0, <1>1, ConcatPlaces DEF Joins
<1>4. \A p \in 1..Len(u) : Proper(u[p], used, told, n)
  BY <1>3 DEF Sound
<1> QED
  BY <1>0, <1>2, <1>3, <1>4 DEF Sound

LEMMA JoinedIsApart ==
  ASSUME NEW used, NEW told, NEW n, NEW s, s \in Seq(Message), NEW t, t \in Seq(Message),
         Sound(s \o t, used, told, n)
  PROVE  Sound(s, used, told, n) /\ Sound(t, used, told, n) /\ AllKeys(s) \cap AllKeys(t) = {}
<1>0. PICK u : u = s \o t
  OBVIOUS
<1>1. /\ Len(s) \in Nat /\ Len(t) \in Nat
      /\ \A p \in 1..Len(s) : p \in 1..Len(u) /\ u[p] = s[p]
      /\ \A q \in 1..Len(t) : Len(s) + q \in 1..Len(u) /\ u[Len(s) + q] = t[q]
  <2>1. Len(s) \in Nat /\ Len(t) \in Nat
    BY LenProperties
  <2> QED
    BY <1>0, <2>1, ConcatPlaces DEF Joins
<1>2. /\ \A p, q \in 1..Len(u) : p # q => KeysOf(u[p]) \cap KeysOf(u[q]) = {}
      /\ \A p \in 1..Len(u) : Proper(u[p], used, told, n)
  BY <1>0 DEF Sound, Apart
<1>3. Apart(s) /\ \A p \in 1..Len(s) : Proper(s[p], used, told, n)
  <2>1. ASSUME NEW p \in 1..Len(s), NEW q \in 1..Len(s), p # q PROVE KeysOf(s[p]) \cap KeysOf(s[q]) = {}
    <3>1. KeysOf(u[p]) \cap KeysOf(u[q]) = {} /\ u[p] = s[p] /\ u[q] = s[q]
      BY <1>1, <1>2, <2>1
    <3> QED
      BY <3>1
  <2>2. \A p \in 1..Len(s) : Proper(s[p], used, told, n)
    BY <1>1, <1>2
  <2> QED
    BY <2>1, <2>2 DEF Apart
<1>4. Apart(t) /\ \A p \in 1..Len(t) : Proper(t[p], used, told, n)
  <2>1. ASSUME NEW p \in 1..Len(t), NEW q \in 1..Len(t), p # q PROVE KeysOf(t[p]) \cap KeysOf(t[q]) = {}
    <3>1. Len(s) + p # Len(s) + q
      BY <1>1, <2>1
    <3>2. u[Len(s) + p] = t[p] /\ u[Len(s) + q] = t[q]
      BY <1>1
    <3>3. KeysOf(u[Len(s) + p]) \cap KeysOf(u[Len(s) + q]) = {}
      BY <1>1, <1>2, <3>1
    <3> QED
      BY <3>2, <3>3
  <2>2. \A p \in 1..Len(t) : Proper(t[p], used, told, n)
    <3> TAKE p \in 1..Len(t)
    <3>1. Proper(u[Len(s) + p], used, told, n) /\ u[Len(s) + p] = t[p]
      BY <1>1, <1>2
    <3> QED
      BY <3>1
  <2> QED
    BY <2>1, <2>2 DEF Apart
<1>5. ASSUME NEW x, x \in AllKeys(s), x \in AllKeys(t) PROVE FALSE
  <2>1. PICK p \in 1..Len(s) : x \in KeysOf(s[p])
    BY <1>5 DEF AllKeys
  <2>2. PICK q \in 1..Len(t) : x \in KeysOf(t[q])
    BY <1>5 DEF AllKeys
  <2>3. p # Len(s) + q
    BY <1>1
  <2>4. u[p] = s[p] /\ u[Len(s) + q] = t[q] /\ KeysOf(u[p]) \cap KeysOf(u[Len(s) + q]) = {}
    BY <1>1, <1>2, <2>3
  <2> QED
    BY <2>1, <2>2, <2>4
<1> QED
  BY <1>3, <1>4, <1>5 DEF Sound

(* The messages of t are those of s at I.                                    *)
Selects(t, s, I) ==
  /\ \A k \in 1..Len(t) : \E i \in I : t[k] = s[i]
  /\ \A i \in I : \E k \in 1..Len(t) : t[k] = s[i]

LEMMA SelectionIsSound ==
  ASSUME NEW used, NEW told, NEW n, NEW s, Sound(s, used, told, n), NEW I, I \in SUBSET (1..Len(s))
  PROVE  /\ Sound(Selection(s, I), used, told, n) /\ AllKeys(Selection(s, I)) \subseteq AllKeys(s)
         /\ Selects(Selection(s, I), s, I)
<1>0. PICK t : t = Selection(s, I)
  OBVIOUS
<1>1. s \in Seq(Message) /\ Apart(s)
  BY DEF Sound
<1>2. Apart(t) /\ AllKeys(t) \subseteq AllKeys(s)
  BY <1>0, <1>1, SelectionApart
<1>3. /\ t \in Seq(Message)
      /\ \E f : Takes(f, t, s, I) /\ \A i \in I : \E k \in 1..Len(t) : f[k] = i
  BY <1>0, <1>1, SelectionTakes
<1>4. PICK f : Takes(f, t, s, I) /\ \A i \in I : \E k \in 1..Len(t) : f[k] = i
  BY <1>3
<1>5. \A k \in 1..Len(t) : f[k] \in I /\ t[k] = s[f[k]]
  BY <1>4 DEF Takes
<1>6. \A k \in 1..Len(t) : \E i \in I : t[k] = s[i]
  BY <1>5
<1>7. \A i \in I : \E k \in 1..Len(t) : t[k] = s[i]
  BY <1>4, <1>5
<1>8. \A k \in 1..Len(t) : Proper(t[k], used, told, n)
  BY <1>6 DEF Sound
<1> QED
  BY <1>0, <1>2, <1>3, <1>6, <1>7, <1>8 DEF Sound, Selects

LEMMA ReminderKeys ==
  ASSUME NEW used, NEW told, NEW n, NEW m, Proper(m, used, told, n), IsReminder(m)
  PROVE  KeysOf(m) = {<<"reminder", 0>>} /\ ToSet(m.calls) = {}
<1>1. m.role = "user"
  BY DEF Proper
<1>2. ToSet(m.calls) = {}
  BY <1>1, KeysKnown
<1> QED
  BY <1>1, <1>2 DEF KeysOf

(* A message that asks, answers and reminds of nothing.                      *)
Plain(m, k) ==
  /\ m \in Message /\ KeysOf(m) = {} /\ m.role = "user" /\ m.calls = <<>> /\ m.n = k
  /\ ~IsReminder(m)

LEMMA UserMessage ==
  ASSUME NEW used, NEW told, NEW n, n \in Nat, NEW text, text \in {"summary", "warning", "input"},
         NEW k, k \in 0..n
  PROVE  Proper(User(text, k), used, told, n) /\ Plain(User(text, k), k)
<1>1. PICK m : m = User(text, k)
  OBVIOUS
<1>2. m.role = "user" /\ m.text = text /\ m.calls = <<>> /\ m.id = 0 /\ m.n = k /\ m \in Message
  <2>1. <<>> \in Seq(Ids) /\ k \in Nat
    BY EmptySeq
  <2> QED
    BY <1>1, <2>1 DEF User, Message
<1>3. ToSet(m.calls) = {} /\ Len(m.calls) = 0
  BY <1>2 DEF ToSet
<1>4. ~IsReminder(m) /\ m.text # "interrupted"
  BY <1>2 DEF IsReminder
<1>5. Proper(m, used, told, n)
  BY <1>2, <1>3, <1>4 DEF Proper
<1>6. KeysOf(m) = {}
  BY <1>2, <1>3, <1>4 DEF KeysOf
<1> QED
  BY <1>1, <1>2, <1>4, <1>5, <1>6 DEF Plain

(* What the history begins with after a compaction: the summary, and the     *)
(* reminder if it was old.                                                   *)
HeadOf(q) == <<User("summary", 0)>> \o Selection(q, {i \in DOMAIN q : IsReminder(q[i])})

Heads(h, q) ==
  /\ AllKeys(h) \subseteq AllKeys(q)
  /\ \A x \in AllKeys(h) : x = <<"reminder", 0>>
  /\ \A p \in 1..Len(h) : ToSet(h[p].calls) = {}
  /\ \A i \in 1..Len(q) : IsReminder(q[i]) => \E p \in 1..Len(h) : h[p] = q[i]

LEMMA HeadFacts ==
  ASSUME NEW used, NEW told, NEW n, n \in Nat, NEW q, Sound(q, used, told, n)
  PROVE  Sound(HeadOf(q), used, told, n) /\ Heads(HeadOf(q), q)
<1>0. PICK h : h = HeadOf(q)
  OBVIOUS
<1>1. PICK I : I = {i \in DOMAIN q : IsReminder(q[i])}
  OBVIOUS
<1>2. PICK R : R = Selection(q, I)
  OBVIOUS
<1>3. PICK u : u = <<User("summary", 0)>>
  OBVIOUS
<1>4. h = u \o R
  BY <1>0, <1>1, <1>2, <1>3 DEF HeadOf
<1>5. I \in SUBSET (1..Len(q)) /\ \A i \in 1..Len(q) : i \in I <=> IsReminder(q[i])
  <2>1. DOMAIN q = 1..Len(q)
    BY SeqFacts DEF Sound
  <2> QED
    BY <1>1, <2>1
<1>6. Sound(R, used, told, n) /\ AllKeys(R) \subseteq AllKeys(q) /\ Selects(R, q, I)
  BY <1>2, <1>5, SelectionIsSound
<1>7. \A k \in 1..Len(R) : IsReminder(R[k]) /\ Proper(R[k], used, told, n)
  BY <1>5, <1>6 DEF Sound, Selects
<1>8. \A k \in 1..Len(R) : KeysOf(R[k]) = {<<"reminder", 0>>} /\ ToSet(R[k].calls) = {}
  BY <1>7, ReminderKeys
<1>9. /\ u \in Seq(Message) /\ Len(u) = 1 /\ Proper(u[1], used, told, n)
      /\ KeysOf(u[1]) = {} /\ u[1].calls = <<>>
  <2>1. PICK m : m = User("summary", 0)
    OBVIOUS
  <2>2. Proper(m, used, told, n) /\ Plain(m, 0)
    BY <2>1, UserMessage
  <2>3. u = <<m>>
    BY <1>3, <2>1
  <2> QED
    BY <2>2, <2>3, OneMessage DEF Plain
<1>10. Sound(u, used, told, n) /\ AllKeys(u) = {}
  <2>1. Apart(u)
    BY <1>9 DEF Apart
  <2>2. AllKeys(u) = {}
    BY <1>9 DEF AllKeys
  <2> QED
    BY <1>9, <2>1, <2>2 DEF Sound
<1>11. Sound(h, used, told, n) /\ AllKeys(h) = AllKeys(u) \union AllKeys(R)
  <2>1. AllKeys(u) \cap AllKeys(R) = {}
    BY <1>10
  <2>2. Sound(u, used, told, n) /\ Sound(R, used, told, n)
    BY <1>6, <1>10
  <2>3. Sound(u \o R, used, told, n) /\ AllKeys(u \o R) = AllKeys(u) \union AllKeys(R)
    BY <2>1, <2>2, JoinedIsSound
  <2> QED
    BY <1>4, <2>3
<1>12. Joins(h, u, R)
  <2>1. R \in Seq(Message)
    BY <1>6 DEF Sound
  <2> QED
    BY <1>4, <1>9, <2>1, ConcatPlaces
<1>13. \A p \in 1..Len(h) : ToSet(h[p].calls) = {}
  <2>1. ToSet(u[1].calls) = {}
    BY <1>9 DEF ToSet
  <2> QED
    <3> TAKE p \in 1..Len(h)
    <3>1. CASE p \in 1..Len(u) /\ h[p] = u[p]
      <4>1. p = 1
        BY <1>9, <3>1
      <4> QED
        BY <2>1, <3>1, <4>1
    <3>2. CASE \E k \in 1..Len(R) : p = Len(u) + k /\ h[p] = R[k]
      BY <1>8, <3>2
    <3> QED
      BY <1>12, <3>1, <3>2 DEF Joins
<1>14. \A x \in AllKeys(h) : x = <<"reminder", 0>>
  <2>1. ASSUME NEW x \in AllKeys(R) PROVE x = <<"reminder", 0>>
    <3>1. PICK k \in 1..Len(R) : x \in KeysOf(R[k])
      BY <2>1 DEF AllKeys
    <3> QED
      BY <1>8, <3>1
  <2> QED
    BY <1>10, <1>11, <2>1
<1>15. ASSUME NEW i \in 1..Len(q), IsReminder(q[i]) PROVE \E p \in 1..Len(h) : h[p] = q[i]
  <2>1. PICK k \in 1..Len(R) : R[k] = q[i]
    BY <1>5, <1>6, <1>15 DEF Selects
  <2>2. Len(u) + k \in 1..Len(h) /\ h[Len(u) + k] = R[k]
    BY <1>12 DEF Joins
  <2> QED
    BY <2>1, <2>2
<1> QED
  BY <1>0, <1>6, <1>10, <1>11, <1>13, <1>14, <1>15 DEF Heads

(* A compaction keeps a history in order; each message of it is in the new   *)
(* history or among those that are summarised.                               *)
Compacts(c, ms, used, told, n) ==
  /\ InOrder(c.history, used, told, n) /\ Numbers(c.summarised) \subseteq 1..n
  /\ \A k \in Numbers(ms) : k \in Numbers(c.summarised) \/ k \in Numbers(c.history)

LEMMA CompactionKeeps ==
  ASSUME NEW used, NEW told, NEW n, NEW old, old \in Seq(Message), NEW kept, kept \in Seq(Message),
         InOrder(old \o kept, used, told, n), NEW ids, 0 \notin ids
  PROVE  Compacts(Compaction(old, ids, kept), old \o kept, used, told, n)
<1>0. PICK ms : ms = old \o kept
  OBVIOUS
<1>c. PICK c : c = Compaction(old, ids, kept)
  OBVIOUS
<1>1. PICK r : r = RescuedOf(old, ids)
  OBVIOUS
<1>2. PICK q : q = RemainingOf(old, ids)
  OBVIOUS
<1>3. PICK h : h = HeadOf(q)
  OBVIOUS
<1>4. PICK g : g = h \o r
  OBVIOUS
<1>5. PICK t : t = g \o kept
  OBVIOUS
<1>6. PICK I : I = DOMAIN q \ {i \in DOMAIN q : IsReminder(q[i])}
  OBVIOUS
<1>7. PICK z : z = Selection(q, I)
  OBVIOUS
<1>8. c.history = t /\ c.summarised = z
  BY <1>c, <1>1, <1>2, <1>3, <1>4, <1>5, <1>6, <1>7
     DEF Compaction, RescuedOf, RemainingOf, HeadOf
<1>9. used \subseteq Ids /\ n \in Nat /\ Sound(ms, used, told, n) /\ ResultsFollow(ms, told) /\ Reminded(ms)
  BY <1>0 DEF InOrder, Sound
<1>10. Sound(old, used, told, n) /\ Sound(kept, used, told, n) /\ AllKeys(old) \cap AllKeys(kept) = {}
  BY <1>0, <1>9, JoinedIsApart
<1>11. Sound(r, used, told, n) /\ Rescued(r, old, ids)
  BY <1>1, <1>10, RescuedFacts
<1>12. Sound(q, used, told, n) /\ Remaining(q, old, ids)
  BY <1>2, <1>10, RemainingFacts
<1>13. Sound(h, used, told, n) /\ Heads(h, q)
  BY <1>3, <1>9, <1>12, HeadFacts
<1>14. AllKeys(h) \cap AllKeys(r) = {}
  <2>1. ASSUME NEW x, x \in AllKeys(h), x \in AllKeys(r) PROVE FALSE
    <3>1. PICK p \in 1..Len(r) : x \in KeysOf(r[p])
      BY <2>1 DEF AllKeys
    <3>2. Proper(r[p], used, told, n) /\ ~IsReminder(r[p])
      BY <1>11 DEF Sound, Rescued
    <3>3. <<"reminder", 0>> \notin KeysOf(r[p])
      BY <3>2, KeysKnown
    <3> QED
      BY <1>13, <2>1, <3>1, <3>3 DEF Heads
  <2> QED
    BY <2>1
<1>15. Sound(g, used, told, n) /\ AllKeys(g) \subseteq AllKeys(old)
  <2>1. Sound(g, used, told, n) /\ AllKeys(g) = AllKeys(h) \union AllKeys(r)
    BY <1>4, <1>11, <1>13, <1>14, JoinedIsSound
  <2> QED
    BY <1>11, <1>12, <1>13, <2>1 DEF Rescued, Remaining, Heads
<1>16. Sound(t, used, told, n)
  <2>1. AllKeys(g) \cap AllKeys(kept) = {}
    BY <1>10, <1>15
  <2> QED
    BY <1>5, <1>10, <1>15, <2>1, JoinedIsSound
<1>17. /\ h \in Seq(Message) /\ r \in Seq(Message) /\ g \in Seq(Message) /\ q \in Seq(Message)
       /\ Len(h) \in Nat /\ Len(r) \in Nat /\ Len(g) \in Nat /\ Len(old) \in Nat /\ Len(kept) \in Nat
  BY <1>11, <1>12, <1>13, <1>15, SeqFacts DEF Sound
(* Where the messages of g, t and ms stand.                                  *)
<1>18. Joins(g, h, r)
  BY <1>4, <1>17, ConcatPlaces
<1>19. t \in Seq(Message) /\ Joins(t, g, kept)
  BY <1>5, <1>17, ConcatPlaces
<1>20. ms \in Seq(Message) /\ Joins(ms, old, kept)
  BY <1>0, ConcatPlaces
<1>21. ResultsFollow(t, told)
  <2> SUFFICES ASSUME NEW p \in 1..Len(t), NEW d \in ToSet(t[p].calls) \cap told
               PROVE  \E k \in 1..Len(t) : p < k /\ t[k].role = "tool" /\ t[k].id = d
    BY DEF ResultsFollow
  <2>1. CASE \E l \in 1..Len(kept) : p = Len(g) + l /\ t[p] = kept[l]
    <3>1. PICK l \in 1..Len(kept) : p = Len(g) + l /\ t[p] = kept[l]
      BY <2>1
    <3>2. Len(old) + l \in 1..Len(ms) /\ d \in ToSet(ms[Len(old) + l].calls) \cap told
      BY <1>20, <3>1 DEF Joins
    <3>3. PICK k \in 1..Len(ms) : Len(old) + l < k /\ ms[k].role = "tool" /\ ms[k].id = d
      BY <1>9, <3>2 DEF ResultsFollow
    <3>4. PICK m \in 1..Len(kept) : k = Len(old) + m /\ ms[k] = kept[m]
      <4>1. k \notin 1..Len(old)
        BY <1>17, <3>3
      <4> QED
        BY <1>20, <4>1 DEF Joins
    <3>5. Len(g) + m \in 1..Len(t) /\ t[Len(g) + m] = kept[m] /\ p < Len(g) + m
      <4>1. Len(g) + m \in 1..Len(t) /\ t[Len(g) + m] = kept[m]
        BY <1>19, <3>4 DEF Joins
      <4>2. l < m
        BY <1>17, <3>1, <3>3, <3>4
      <4>3. p < Len(g) + m
        BY <1>17, <3>1, <3>4, <4>2
      <4> QED
        BY <4>1, <4>3
    <3> QED
      BY <3>3, <3>4, <3>5
  <2>2. CASE p \in 1..Len(g) /\ t[p] = g[p]
    <3>1. PICK l \in 1..Len(r) : p = Len(h) + l /\ g[p] = r[l]
      BY <1>13, <1>18, <2>2 DEF Joins, Heads
    <3>2. PICK i \in 1..Len(old) :
             /\ d \in ToSet(old[i].calls)
             /\ \A k \in 1..Len(old) : i < k /\ old[k].role = "tool" /\ old[k].id = d
                  => \E s \in 1..Len(r) : l < s /\ r[s] = old[k]
      <4>1. d \in ToSet(r[l].calls)
        BY <2>2, <3>1
      <4> QED
        BY <1>11, <4>1 DEF Rescued
    <3>3. i \in 1..Len(ms) /\ d \in ToSet(ms[i].calls) \cap told
      BY <1>20, <3>2 DEF Joins
    <3>4. PICK k \in 1..Len(ms) : i < k /\ ms[k].role = "tool" /\ ms[k].id = d
      BY <1>9, <3>3 DEF ResultsFollow
    <3>5. CASE k \in 1..Len(old) /\ ms[k] = old[k]
      <4>1. PICK s \in 1..Len(r) : l < s /\ r[s] = old[k]
        BY <3>2, <3>4, <3>5
      <4>2. Len(h) + s \in 1..Len(g) /\ g[Len(h) + s] = r[s] /\ p < Len(h) + s
        BY <1>17, <1>18, <3>1, <4>1 DEF Joins
      <4>3. Len(h) + s \in 1..Len(t) /\ t[Len(h) + s] = ms[k]
        BY <1>19, <3>5, <4>1, <4>2 DEF Joins
      <4> QED
        BY <3>4, <4>2, <4>3
    <3>6. CASE \E m \in 1..Len(kept) : k = Len(old) + m /\ ms[k] = kept[m]
      <4>1. PICK m \in 1..Len(kept) : k = Len(old) + m /\ ms[k] = kept[m]
        BY <3>6
      <4>2. Len(g) + m \in 1..Len(t) /\ t[Len(g) + m] = ms[k]
        BY <1>19, <4>1 DEF Joins
      <4>3. p < Len(g) + m
        BY <1>17, <2>2
      <4> QED
        BY <3>4, <4>2, <4>3
    <3> QED
      BY <1>20, <3>5, <3>6 DEF Joins
  <2> QED
    BY <1>19, <2>1, <2>2 DEF Joins
<1>22. ASSUME NEW i \in 1..Len(old), IsReminder(old[i]) PROVE \E p \in 1..Len(t) : t[p] = old[i]
  <2>1. PICK k \in 1..Len(q) : q[k] = old[i]
    BY <1>12, <1>22 DEF Remaining
  <2>2. PICK p \in 1..Len(h) : h[p] = old[i]
    BY <1>13, <1>22, <2>1 DEF Heads
  <2> QED
    BY <1>18, <1>19, <2>2 DEF Joins
<1>23. Reminded(t)
  <2>1. PICK i \in 1..Len(ms) : IsReminder(ms[i])
    BY <1>9 DEF Reminded
  <2>2. \E p \in 1..Len(t) : t[p] = ms[i]
    <3>1. CASE i \in 1..Len(old) /\ ms[i] = old[i]
      BY <1>22, <2>1, <3>1
    <3>2. CASE \E k \in 1..Len(kept) : i = Len(old) + k /\ ms[i] = kept[k]
      <4>1. PICK k \in 1..Len(kept) : ms[i] = kept[k]
        BY <3>2
      <4>2. Len(g) + k \in 1..Len(t) /\ t[Len(g) + k] = kept[k]
        BY <1>19 DEF Joins
      <4> QED
        BY <4>1, <4>2
    <3> QED
      BY <1>20, <3>1, <3>2 DEF Joins
  <2> QED
    BY <2>1, <2>2 DEF Reminded
<1>24. InOrder(t, used, told, n)
  BY <1>9, <1>16, <1>21, <1>23 DEF InOrder, Sound
<1>25. DOMAIN q = 1..Len(q) /\ I \in SUBSET (1..Len(q)) /\ \A i \in 1..Len(q) : i \in I <=> ~IsReminder(q[i])
  <2>1. DOMAIN q = 1..Len(q)
    BY <1>17, SeqFacts
  <2> QED
    BY <1>6, <2>1
<1>26. Sound(z, used, told, n) /\ Selects(z, q, I)
  BY <1>7, <1>12, <1>25, SelectionIsSound
<1>27. z \in Seq(Message) /\ \A k \in 1..Len(z) : z[k].n \in 0..n
  BY <1>26 DEF Sound, Proper, Selects
<1>28. Numbers(z) \subseteq 1..n
  <2>1. \A k \in Numbers(z) : k # 0 /\ \E i \in 1..Len(z) : k = z[i].n
    BY <1>27, NumbersAre
  <2> QED
    BY <1>9, <1>27, <2>1
<1>29. ASSUME NEW k \in Numbers(ms) PROVE k \in Numbers(z) \/ k \in Numbers(t)
  <2>1. PICK i \in 1..Len(ms) : k = ms[i].n
    BY <1>20, <1>29, NumbersAre
  <2>2. k # 0
    BY <1>20, <1>29, NumbersAre
  <2>3. \A p \in 1..Len(t) : t[p].n = k => k \in Numbers(t)
    BY <1>19, <2>2, NumbersAre
  <2>4. \A p \in 1..Len(z) : z[p].n = k => k \in Numbers(z)
    BY <1>27, <2>2, NumbersAre
  <2>5. CASE \E m \in 1..Len(kept) : i = Len(old) + m /\ ms[i] = kept[m]
    BY <1>19, <2>1, <2>3, <2>5 DEF Joins
  <2>6. CASE i \in 1..Len(old) /\ ms[i] = old[i]
    <3>1. CASE IsReminder(old[i])
      BY <1>22, <2>1, <2>3, <2>6, <3>1
    <3>2. CASE Len(RescuedPart(old[i], ids)) # 0
      <4>1. PICK p \in 1..Len(r) : r[p].n = k
        BY <1>11, <2>1, <2>6, <3>2 DEF Rescued
      <4>2. Len(h) + p \in 1..Len(t) /\ t[Len(h) + p] = r[p]
        BY <1>18, <1>19 DEF Joins
      <4> QED
        BY <2>3, <4>1, <4>2
    <3>3. CASE ~IsReminder(old[i]) /\ Len(RescuedPart(old[i], ids)) = 0
      <4>1. PICK j \in 1..Len(q) : q[j] = old[i]
        BY <1>12, <2>6, <3>3 DEF Remaining
      <4>2. j \in I
        BY <1>25, <3>3, <4>1
      <4>3. PICK p \in 1..Len(z) : z[p] = q[j]
        BY <1>26, <4>2 DEF Selects
      <4> QED
        BY <2>1, <2>4, <2>6, <4>1, <4>3
    <3> QED
      BY <3>1, <3>2, <3>3
  <2> QED
    BY <1>20, <2>5, <2>6 DEF Joins
<1> QED
  BY <1>0, <1>c, <1>8, <1>24, <1>28, <1>29 DEF Compacts

LEMMA CompactionIs ==
  ASSUME NEW used, NEW told, NEW n, NEW ms, InOrder(ms, used, told, n), ConstantsAssumption,
         NEW c, c \in Compactions(ms)
  PROVE  Compacts(c, ms, used, told, n)
<1>1. ms \in Seq(Message) /\ Len(ms) \in Nat /\ DOMAIN ms = 1..Len(ms)
  BY SeqFacts DEF InOrder
<1>2. PICK cutoff \in 1..Len(ms) : c \in CompactionsAt(ms, cutoff)
  BY <1>1 DEF Compactions
<1>3. PICK old : old = SubSeq(ms, 1, cutoff)
  OBVIOUS
<1>4. PICK kept : kept = SubSeq(ms, cutoff + 1, Len(ms))
  OBVIOUS
<1>5. PICK reads : reads = SkillReads(old)
  OBVIOUS
<1>6. PICK S \in Rescues(reads) : c = Compaction(old, UNION {reads[i] : i \in S}, kept)
  BY <1>2, <1>3, <1>4, <1>5 DEF CompactionsAt
<1>7. PICK ids : ids = UNION {reads[i] : i \in S}
  OBVIOUS
<1>8. cutoff \in Nat /\ cutoff <= Len(ms) /\ cutoff >= 1
  BY <1>1
<1>9. old \in Seq(Message) /\ kept \in Seq(Message) /\ ms = old \o kept
  <2>1. \A i \in 1..Len(ms) : ms[i] \in Message
    BY <1>1, ElementOfSeq
  <2>2. /\ old \in Seq(Message) /\ Len(old) = cutoff
        /\ \A i \in 1..cutoff : old[i] = ms[i]
    <3>1. \A i \in 1..cutoff : ms[i] \in Message
      BY <1>8, <2>1
    <3>2. old = [i \in 1..cutoff |-> ms[1 + i - 1]]
      BY <1>3, <1>8, SubSeqProperties
    <3>3. old = [i \in 1..cutoff |-> ms[i]]
      BY <1>8, <3>2
    <3>4. old \in [1..cutoff -> Message]
      BY <3>1, <3>3
    <3>5. old \in Seq(Message)
      BY <1>8, <3>4, SeqDef
    <3> QED
      BY <1>8, <3>3, <3>4, <3>5, LenProperties
  <2>3. /\ kept \in Seq(Message) /\ Len(kept) = Len(ms) - cutoff
        /\ \A i \in 1..(Len(ms) - cutoff) : kept[i] = ms[cutoff + i]
    <3>1. \A i \in 1..(Len(ms) - cutoff) : ms[cutoff + i] \in Message /\ cutoff + 1 + i - 1 = cutoff + i
      BY <1>1, <1>8, <2>1
    <3>2. kept = [i \in 1..(Len(ms) - cutoff) |-> ms[cutoff + 1 + i - 1]]
      BY <1>1, <1>4, <1>8
    <3>3. kept = [i \in 1..(Len(ms) - cutoff) |-> ms[cutoff + i]]
      BY <3>1, <3>2
    <3>4. kept \in [1..(Len(ms) - cutoff) -> Message]
      BY <3>1, <3>3
    <3>5. Len(ms) - cutoff \in Nat
      BY <1>1, <1>8
    <3>6. kept \in Seq(Message)
      BY <3>4, <3>5, SeqDef
    <3> QED
      BY <3>3, <3>4, <3>5, <3>6, LenProperties
  <2>4. PICK u : u = old \o kept
    OBVIOUS
  <2>5. u \in Seq(Message) /\ Joins(u, old, kept)
    BY <2>2, <2>3, <2>4, ConcatPlaces
  <2>6. Len(u) = Len(ms)
    BY <1>1, <1>8, <2>2, <2>3, <2>5 DEF Joins
  <2>7. ASSUME NEW p \in 1..Len(u) PROVE u[p] = ms[p]
    <3>1. CASE p \in 1..Len(old) /\ u[p] = old[p]
      BY <2>2, <3>1
    <3>2. CASE \E q \in 1..Len(kept) : p = Len(old) + q /\ u[p] = kept[q]
      <4>1. PICK q \in 1..Len(kept) : p = Len(old) + q /\ u[p] = kept[q]
        BY <3>2
      <4> QED
        BY <2>2, <2>3, <4>1
    <3> QED
      BY <2>5, <3>1, <3>2 DEF Joins
  <2>8. u = ms
    BY <1>1, <2>5, <2>6, <2>7, SeqEqual
  <2> QED
    BY <2>2, <2>3, <2>4, <2>8
<1>10. 0 \notin ids
  <2>1. \A i \in S : reads[i] \subseteq DOMAIN SkillPath
    <3>1. S \subseteq DOMAIN reads
      BY <1>6 DEF Rescues
    <3>2. \A i \in DOMAIN reads : reads[i] \subseteq DOMAIN SkillPath
      BY <1>5 DEF SkillReads
    <3> QED
      BY <3>1, <3>2
  <2>2. 0 \notin DOMAIN SkillPath
    BY DEF ConstantsAssumption
  <2> QED
    BY <1>7, <2>1, <2>2
<1>11. InOrder(old \o kept, used, told, n)
  BY <1>9
<1>12. Compacts(Compaction(old, ids, kept), old \o kept, used, told, n)
  BY <1>9, <1>10, <1>11, CompactionKeeps
<1> QED
  BY <1>6, <1>7, <1>9, <1>12

-----------------------------------------------------------------------------
(* What the loop appends.                                                    *)

(* A message that answers what no message has answered and asks what has not *)
(* been asked may end the history; told1 are then the calls with a result.   *)
Ends(m, ms, used, told, n, used1, told1) ==
  /\ used \subseteq used1 /\ used1 \subseteq Ids /\ told \subseteq told1
  /\ Proper(m, used1, told1, n + 1)
  /\ KeysOf(m) \cap AllKeys(ms) = {}
  /\ ToSet(m.calls) \cap told1 = {}
  /\ \A c \in told1 \ told : m.role = "tool" /\ m.id = c

LEMMA AppendKeeps ==
  ASSUME NEW used, NEW told, NEW n, NEW ms, InOrder(ms, used, told, n),
         NEW used1, NEW told1, NEW m, Ends(m, ms, used, told, n, used1, told1)
  PROVE  /\ InOrder(Append(ms, m), used1, told1, n + 1)
         /\ AllKeys(Append(ms, m)) = AllKeys(ms) \union KeysOf(m)
         /\ \A k : k \in Numbers(ms) => k \in Numbers(Append(ms, m))
         /\ m.n = n + 1 => n + 1 \in Numbers(Append(ms, m))
<1>1. /\ ms \in Seq(Message) /\ Len(ms) \in Nat /\ n \in Nat /\ m \in Message
      /\ \A i \in 1..Len(ms) : Proper(ms[i], used, told, n)
  BY SeqFacts DEF InOrder, Ends, Proper
<1>2. PICK t : t = Append(ms, m)
  OBVIOUS
<1>3. PICK l : l = Len(ms) + 1
  OBVIOUS
<1>4. /\ t \in Seq(Message) /\ Len(t) = l /\ l \in 1..Len(t) /\ t[l] = m
      /\ \A i \in 1..Len(ms) : t[i] = ms[i] /\ i \in 1..Len(t) /\ i < l
      /\ \A i \in 1..Len(t) : i = l \/ i \in 1..Len(ms)
  BY <1>1, <1>2, <1>3, AppendProperties
<1>5. \A i \in 1..Len(ms) : KeysOf(ms[i]) \subseteq AllKeys(ms)
  BY DEF AllKeys
<1>6. ASSUME NEW i \in 1..Len(ms) PROVE Proper(ms[i], used1, told1, n + 1)
  <2>1. Proper(ms[i], used, told, n)
    BY <1>1
  <2>2. ToSet(ms[i].calls) \subseteq used1 /\ ms[i].id \in used1 \union {0} /\ ms[i].n \in 0..(n + 1)
    BY <1>1, <2>1 DEF Proper, Ends
  <2>3. ms[i].text = "interrupted" => ms[i].role = "tool" /\ ms[i].id \notin told1
    <3>1. SUFFICES ASSUME ms[i].text = "interrupted" PROVE ms[i].role = "tool" /\ ms[i].id \notin told1
      OBVIOUS
    <3>2. ms[i].role = "tool" /\ ms[i].id \notin told
      BY <2>1, <3>1 DEF Proper
    <3>3. CASE ms[i].id \in told1
      <4>1. m.role = "tool" /\ m.id = ms[i].id
        BY <3>2, <3>3 DEF Ends
      <4>2. <<"result", m.id>> \in KeysOf(m) /\ <<"result", m.id>> \in KeysOf(ms[i])
        BY <3>2, <4>1 DEF KeysOf
      <4> QED
        BY <1>5, <4>2 DEF Ends
    <3> QED
      BY <3>2, <3>3
  <2> QED
    BY <2>1, <2>2, <2>3 DEF Proper
<1>7. \A i \in 1..Len(t) : Proper(t[i], used1, told1, n + 1)
  BY <1>4, <1>6 DEF Ends
<1>8. Apart(t)
  <2>1. \A i, k \in 1..Len(ms) : i # k => KeysOf(ms[i]) \cap KeysOf(ms[k]) = {}
    BY DEF InOrder, Apart
  <2>2. \A i \in 1..Len(ms) : KeysOf(ms[i]) \cap KeysOf(m) = {}
    BY <1>5 DEF Ends
  <2>3. ASSUME NEW i \in 1..Len(t), NEW k \in 1..Len(t), i # k PROVE KeysOf(t[i]) \cap KeysOf(t[k]) = {}
    <3>1. CASE i \in 1..Len(ms) /\ k \in 1..Len(ms)
      BY <1>4, <2>1, <2>3, <3>1
    <3>2. CASE i = l
      <4>1. k \in 1..Len(ms)
        BY <1>4, <2>3, <3>2
      <4> QED
        BY <1>4, <2>2, <3>2, <4>1
    <3>3. CASE k = l
      <4>1. i \in 1..Len(ms)
        BY <1>4, <2>3, <3>3
      <4> QED
        BY <1>4, <2>2, <3>3, <4>1
    <3> QED
      BY <1>4, <3>1, <3>2, <3>3
  <2> QED
    BY <2>3 DEF Apart
<1>9. ResultsFollow(t, told1)
  <2> SUFFICES ASSUME NEW i \in 1..Len(t), NEW c \in ToSet(t[i].calls) \cap told1
               PROVE  \E k \in 1..Len(t) : i < k /\ t[k].role = "tool" /\ t[k].id = c
    BY DEF ResultsFollow
  <2>1. i \in 1..Len(ms) /\ t[i] = ms[i]
    BY <1>4 DEF Ends
  <2>2. CASE c \in told
    <3>1. PICK k \in 1..Len(ms) : i < k /\ ms[k].role = "tool" /\ ms[k].id = c
      BY <2>1, <2>2 DEF InOrder, ResultsFollow
    <3> QED
      BY <1>4, <3>1
  <2>3. CASE c \notin told
    <3>1. m.role = "tool" /\ m.id = c
      BY <2>3 DEF Ends
    <3> QED
      BY <1>4, <2>1, <3>1
  <2> QED
    BY <2>2, <2>3
<1>10. Reminded(t)
  BY <1>4 DEF InOrder, Reminded
<1>11. AllKeys(t) = AllKeys(ms) \union KeysOf(m)
  <2>1. ASSUME NEW x \in AllKeys(t) PROVE x \in AllKeys(ms) \union KeysOf(m)
    <3>1. PICK i \in 1..Len(t) : x \in KeysOf(t[i])
      BY <2>1 DEF AllKeys
    <3> QED
      BY <1>4, <1>5, <3>1
  <2>2. ASSUME NEW x \in AllKeys(ms) PROVE x \in AllKeys(t)
    <3>1. PICK i \in 1..Len(ms) : x \in KeysOf(ms[i])
      BY <2>2 DEF AllKeys
    <3>2. i \in 1..Len(t) /\ x \in KeysOf(t[i])
      BY <1>4, <3>1
    <3> QED
      BY <3>2 DEF AllKeys
  <2>3. ASSUME NEW x \in KeysOf(m) PROVE x \in AllKeys(t)
    <3>1. l \in 1..Len(t) /\ x \in KeysOf(t[l])
      BY <1>4, <2>3
    <3> QED
      BY <3>1 DEF AllKeys
  <2> QED
    BY <2>1, <2>2, <2>3
<1>12. ASSUME NEW k, k \in Numbers(ms) PROVE k \in Numbers(t)
  <2>1. k # 0 /\ \E i \in 1..Len(ms) : k = ms[i].n
    BY <1>1, <1>12, NumbersAre
  <2>2. \E i \in 1..Len(t) : k = t[i].n
    BY <1>4, <2>1
  <2> QED
    BY <1>4, <2>1, <2>2, NumbersAre
<1>13. ASSUME m.n = n + 1 PROVE n + 1 \in Numbers(t)
  <2>1. n + 1 # 0 /\ \E i \in 1..Len(t) : n + 1 = t[i].n
    BY <1>1, <1>4, <1>13
  <2> QED
    BY <1>4, <2>1, NumbersAre
<1>14. used1 \subseteq Ids /\ n + 1 \in Nat
  BY <1>1 DEF Ends
<1>15. InOrder(t, used1, told1, n + 1)
  BY <1>4, <1>7, <1>8, <1>9, <1>10, <1>14 DEF InOrder
<1> QED
  BY <1>2, <1>11, <1>12, <1>13, <1>15

-----------------------------------------------------------------------------
(* The inductive invariant.                                                  *)

(* The calls not yet run are different ones; none of them has had a result.  *)
TodoIsOpen ==
  /\ \A i, j \in 1..Len(todo) : todo[i] = todo[j] => i = j
  /\ ToSet(todo) \subseteq asked \ answered
  /\ \A c \in ToSet(todo) : <<"result", c>> \notin AllKeys(messages)

(* The history is in order; when the model is asked, it is patched too.      *)
Inv ==
  /\ TypeOK
  /\ InOrder(messages, asked, answered, count)
  /\ TodoIsOpen
  /\ NothingVanishes
  /\ pc = "asking" /\ Patching => Answers(messages)

(* The queued warnings may end the history.                                  *)
LEMMA WarningsKeep ==
  ASSUME NEW used, NEW told, NEW n, NEW ms, InOrder(ms, used, told, n), NEW w \in Nat
  PROVE  /\ InOrder(ms \o [i \in 1..w |-> User("warning", 0)], used, told, n)
         /\ Answers(ms) => Answers(ms \o [i \in 1..w |-> User("warning", 0)])
         /\ \A k : k \in Numbers(ms) => k \in Numbers(ms \o [i \in 1..w |-> User("warning", 0)])
<1>1. PICK m : m = User("warning", 0)
  OBVIOUS
<1>2. PICK t : t = [i \in 1..w |-> m]
  OBVIOUS
<1>3. PICK u : u = ms \o t
  OBVIOUS
<1>4. /\ ms \in Seq(Message) /\ Len(ms) \in Nat /\ n \in Nat
      /\ Sound(ms, used, told, n) /\ ResultsFollow(ms, told) /\ Reminded(ms)
  BY SeqFacts DEF InOrder, Sound
<1>5. Proper(m, used, told, n) /\ Plain(m, 0)
  <2>1. 0 \in 0..n
    BY <1>4
  <2> QED
    BY <1>1, <1>4, <2>1, UserMessage
<1>6. t \in Seq(Message) /\ Len(t) = w /\ \A i \in 1..Len(t) : t[i] = m
  <2>1. t \in [1..w -> Message]
    BY <1>2, <1>5 DEF Plain
  <2>2. t \in Seq(Message)
    BY <2>1, SeqDef
  <2> QED
    BY <1>2, <2>1, <2>2, LenProperties
<1>7. KeysOf(m) = {} /\ m.calls = <<>> /\ ToSet(m.calls) = {} /\ Len(m.calls) = 0
  BY <1>5 DEF Plain, ToSet
<1>8. AllKeys(t) = {} /\ Sound(t, used, told, n)
  <2>1. AllKeys(t) = {}
    BY <1>6, <1>7 DEF AllKeys
  <2>2. Apart(t)
    BY <1>6, <1>7 DEF Apart
  <2> QED
    BY <1>5, <1>6, <2>1, <2>2 DEF Sound
<1>9. Sound(u, used, told, n)
  <2>1. AllKeys(ms) \cap AllKeys(t) = {}
    BY <1>8
  <2>2. Sound(ms \o t, used, told, n)
    BY <1>4, <1>8, <2>1, JoinedIsSound
  <2> QED
    BY <1>3, <2>2
<1>10. u \in Seq(Message) /\ Joins(u, ms, t)
  BY <1>3, <1>4, <1>6, ConcatPlaces
<1>11. /\ \A p \in 1..Len(ms) : p \in 1..Len(u) /\ u[p] = ms[p]
       /\ \A p \in 1..Len(u) : p \in 1..Len(ms) \/ u[p].calls = <<>>
  BY <1>6, <1>7, <1>10 DEF Joins
<1>12. ResultsFollow(u, told)
  <2> SUFFICES ASSUME NEW i \in 1..Len(u), NEW c \in ToSet(u[i].calls) \cap told
               PROVE  \E k \in 1..Len(u) : i < k /\ u[k].role = "tool" /\ u[k].id = c
    BY DEF ResultsFollow
  <2>1. i \in 1..Len(ms)
    BY <1>7, <1>11
  <2>2. PICK k \in 1..Len(ms) : i < k /\ ms[k].role = "tool" /\ ms[k].id = c
    BY <1>4, <1>11, <2>1 DEF ResultsFollow
  <2> QED
    BY <1>11, <2>2
<1>13. Reminded(u)
  BY <1>4, <1>11 DEF Reminded
<1>14. InOrder(u, used, told, n)
  BY <1>9, <1>12, <1>13 DEF InOrder, Sound
<1>15. ASSUME Answers(ms) PROVE Answers(u)
  <2> SUFFICES ASSUME NEW i \in 1..Len(u), NEW j \in 1..Len(u[i].calls)
               PROVE  i + j \in 1..Len(u) /\ u[i + j].role = "tool" /\ u[i + j].id = u[i].calls[j]
    BY DEF Answers
  <2>1. i \in 1..Len(ms)
    <3>1. u[i].calls # <<>>
      BY <1>7
    <3> QED
      BY <1>11, <3>1
  <2>2. u[i] = ms[i]
    BY <1>11, <2>1
  <2>3. i + j \in 1..Len(ms) /\ ms[i + j].role = "tool" /\ ms[i + j].id = ms[i].calls[j]
    BY <1>15, <2>1, <2>2 DEF Answers
  <2> QED
    BY <1>11, <2>2, <2>3
<1>16. ASSUME NEW k, k \in Numbers(ms) PROVE k \in Numbers(u)
  <2>1. k # 0 /\ \E i \in 1..Len(ms) : k = ms[i].n
    BY <1>4, <1>16, NumbersAre
  <2>2. \E i \in 1..Len(u) : k = u[i].n
    BY <1>11, <2>1
  <2> QED
    BY <1>10, <2>1, <2>2, NumbersAre
<1>17. u = ms \o [i \in 1..w |-> User("warning", 0)]
  BY <1>1, <1>2, <1>3
<1> QED
  BY <1>14, <1>15, <1>16, <1>17

LEMMA PreparedKeeps ==
  ASSUME NEW ms, InOrder(ms, asked, answered, count), warnings \in Nat
  PROVE  /\ InOrder(Prepared(ms), asked, answered, count)
         /\ Patching => Answers(Prepared(ms))
         /\ \A k : k \in Numbers(ms) => k \in Numbers(Prepared(ms))
<1>1. PICK s : s = IF Patching THEN Patched(ms) ELSE ms
  OBVIOUS
<1>2. Prepared(ms) = s \o [i \in 1..warnings |-> User("warning", 0)]
  BY <1>1 DEF Prepared
<1>3. /\ InOrder(Patched(ms), asked, answered, count) /\ Answers(Patched(ms))
      /\ Numbers(ms) \subseteq Numbers(Patched(ms))
  BY PatchKeeps
<1>4. /\ InOrder(s, asked, answered, count) /\ (Patching => Answers(s))
      /\ \A k : k \in Numbers(ms) => k \in Numbers(s)
  BY <1>1, <1>3
<1>5. PICK w : w = warnings
  OBVIOUS
<1>6. /\ InOrder(s \o [i \in 1..w |-> User("warning", 0)], asked, answered, count)
      /\ Answers(s) => Answers(s \o [i \in 1..w |-> User("warning", 0)])
      /\ \A k : k \in Numbers(s) => k \in Numbers(s \o [i \in 1..w |-> User("warning", 0)])
  BY <1>4, <1>5, WarningsKeep
<1> QED
  BY <1>2, <1>4, <1>5, <1>6

LEMMA HeadAndTail ==
  ASSUME NEW s \in Seq(Ids), s # <<>>, \A i, j \in 1..Len(s) : s[i] = s[j] => i = j
  PROVE  /\ Head(s) \in ToSet(s) /\ Tail(s) \in Seq(Ids) /\ ToSet(Tail(s)) \subseteq ToSet(s) \ {Head(s)}
         /\ \A i, j \in 1..Len(Tail(s)) : Tail(s)[i] = Tail(s)[j] => i = j
<1>1. Len(s) \in Nat /\ Len(s) # 0 /\ ToSet(s) = {s[i] : i \in 1..Len(s)}
  BY SeqFacts, EmptySeq
<1>2. PICK t : t = Tail(s)
  OBVIOUS
<1>3. /\ Head(s) = s[1] /\ t \in Seq(Ids) /\ Len(t) = Len(s) - 1
      /\ \A i \in 1..Len(t) : t[i] = s[i + 1]
  BY <1>1, <1>2, HeadTailProperties
<1>4. \A i \in 1..Len(t) : i + 1 \in 1..Len(s) /\ i + 1 # 1
  BY <1>1, <1>3
<1>5. 1 \in 1..Len(s)
  BY <1>1
<1>6. ToSet(t) = {t[i] : i \in 1..Len(t)}
  BY <1>3, SeqFacts
<1>7. \A i \in 1..Len(t) : t[i] \in ToSet(s) /\ t[i] # s[1]
  BY <1>1, <1>3, <1>4, <1>5
<1>8. ASSUME NEW i \in 1..Len(t), NEW j \in 1..Len(t), t[i] = t[j] PROVE i = j
  <2>1. i + 1 = j + 1
    BY <1>3, <1>4, <1>8
  <2> QED
    BY <2>1
<1> QED
  BY <1>1, <1>2, <1>3, <1>5, <1>6, <1>7, <1>8

LEMMA InitInv ==
  ASSUME ConstantsAssumption, Init
  PROVE  Inv
<1>1. PICK m : m = User("reminder", 1)
  OBVIOUS
<1>2. /\ messages = <<m>> /\ pc = "idle" /\ step = 0 /\ todo = <<>> /\ warnings = 0
      /\ cancelled = FALSE /\ turn = 0 /\ count = 1 /\ asked = {} /\ answered = {} /\ flushed = {}
  BY <1>1 DEF Init
<1>3. m.role = "user" /\ m.text = "reminder" /\ m.calls = <<>> /\ m.id = 0 /\ m.n = 1 /\ m \in Message
  <2>1. <<>> \in Seq(Ids)
    BY EmptySeq
  <2> QED
    BY <1>1, <2>1 DEF User, Message
<1>4. ToSet(m.calls) = {} /\ Len(m.calls) = 0 /\ IsReminder(m)
  BY <1>3 DEF ToSet, IsReminder
<1>5. messages \in Seq(Message) /\ Len(messages) = 1 /\ messages[1] = m
  BY <1>2, <1>3, OneMessage
<1>6. Proper(m, {}, {}, 1)
  BY <1>3, <1>4 DEF Proper
<1>7. InOrder(messages, asked, answered, count)
  <2>1. Apart(messages) /\ Reminded(messages)
    BY <1>4, <1>5 DEF Apart, Reminded
  <2>2. ResultsFollow(messages, {})
    BY DEF ResultsFollow
  <2>3. \A i \in 1..Len(messages) : Proper(messages[i], {}, {}, 1)
    BY <1>5, <1>6
  <2> QED
    BY <1>2, <1>5, <2>1, <2>2, <2>3 DEF InOrder
<1>8. TypeOK
  <2>1. <<>> \in Seq(Ids)
    BY EmptySeq
  <2>2. 0 \in 0..MaxSteps /\ 0 \in 0..MaxTurns
    BY DEF ConstantsAssumption
  <2>3. pc \in PC /\ ~(pc \in {"asking", "tools"}) /\ (todo # <<>> <=> pc = "tools")
    BY <1>2 DEF PC
  <2>4. todo \in Seq(Ids) /\ step \in 0..MaxSteps /\ turn \in 0..MaxTurns
    BY <1>2, <2>1, <2>2
  <2>5. warnings \in Nat /\ ~(warnings > 0) /\ count \in Nat
    BY <1>2
  <2>7. cancelled \in BOOLEAN
    BY <1>2
  <2>6. answered \subseteq asked /\ asked \subseteq Ids /\ flushed \subseteq 1..count
    BY <1>2
  <2> QED
    BY <1>5, <2>3, <2>4, <2>5, <2>6, <2>7 DEF TypeOK
<1>9. TodoIsOpen
  <2>1. Len(todo) = 0 /\ ToSet(todo) = {}
    BY <1>2 DEF ToSet
  <2> QED
    BY <2>1 DEF TodoIsOpen
<1>10. NothingVanishes
  <2>1. 1 \in Numbers(messages)
    BY <1>3, <1>5, NumbersAre
  <2> QED
    BY <1>2, <2>1 DEF NothingVanishes
<1> QED
  BY <1>2, <1>7, <1>8, <1>9, <1>10 DEF Inv

(* What the invariant says of the history alone.                             *)
History ==
  /\ InOrder(messages, asked, answered, count) /\ NothingVanishes
  /\ answered \subseteq asked /\ flushed \subseteq 1..count

LEMMA KeysAreUsed ==
  ASSUME NEW used, NEW told, NEW n, NEW ms, InOrder(ms, used, told, n), NEW c
  PROVE  /\ <<"call", c>> \in AllKeys(ms) => c \in used
         /\ <<"result", c>> \in AllKeys(ms) => c \in used
<1>1. ASSUME NEW i \in 1..Len(ms), <<"call", c>> \in KeysOf(ms[i]) PROVE c \in used
  <2>1. Proper(ms[i], used, told, n)
    BY DEF InOrder
  <2>2. c \in ToSet(ms[i].calls)
    BY <1>1, <2>1, KeysKnown
  <2> QED
    BY <2>1, <2>2 DEF Proper
<1>2. ASSUME NEW i \in 1..Len(ms), <<"result", c>> \in KeysOf(ms[i]) PROVE c \in used
  <2>1. Proper(ms[i], used, told, n)
    BY DEF InOrder
  <2>2. ms[i].role = "tool" /\ c = ms[i].id
    BY <1>2, <2>1, KeysKnown
  <2> QED
    BY <2>1, <2>2 DEF Proper
<1> QED
  BY <1>1, <1>2 DEF AllKeys

LEMMA AppendHistory ==
  ASSUME Inv, NEW m, m.n = count + 1, messages' = Append(messages, m), count' = count + 1,
         Ends(m, messages, asked, answered, count, asked', answered'),
         answered' \subseteq asked', flushed' = flushed
  PROVE  History' /\ AllKeys(messages') = AllKeys(messages) \union KeysOf(m)
<1>1. /\ InOrder(messages, asked, answered, count) /\ NothingVanishes /\ count \in Nat
      /\ flushed \subseteq 1..count
  BY DEF Inv, TypeOK
<1>2. PICK used1 : used1 = asked'
  OBVIOUS
<1>3. PICK told1 : told1 = answered'
  OBVIOUS
<1>4. Ends(m, messages, asked, answered, count, used1, told1)
  BY <1>2, <1>3
<1>5. /\ InOrder(Append(messages, m), used1, told1, count + 1)
      /\ AllKeys(Append(messages, m)) = AllKeys(messages) \union KeysOf(m)
      /\ \A k : k \in Numbers(messages) => k \in Numbers(Append(messages, m))
      /\ m.n = count + 1 => count + 1 \in Numbers(Append(messages, m))
  BY <1>1, <1>4, AppendKeeps
<1>6. InOrder(messages', asked', answered', count')
  BY <1>2, <1>3, <1>5
<1>7. NothingVanishes'
  <2> SUFFICES ASSUME NEW k \in 1..(count + 1)
               PROVE  k \in flushed \/ k \in Numbers(Append(messages, m))
    BY DEF NothingVanishes
  <2>1. k = count + 1 \/ k \in 1..count
    BY <1>1
  <2> QED
    BY <1>1, <1>5, <2>1 DEF NothingVanishes
<1>8. flushed' \subseteq 1..count'
  BY <1>1
<1> QED
  BY <1>5, <1>6, <1>7, <1>8 DEF History

LEMMA SameHistory ==
  ASSUME Inv, UNCHANGED <<messages, ghosts>>
  PROVE  History'
<1>1. /\ InOrder(messages, asked, answered, count) /\ NothingVanishes
      /\ answered \subseteq asked /\ flushed \subseteq 1..count
  BY DEF Inv, TypeOK
<1>2. messages' = messages /\ count' = count /\ asked' = asked /\ answered' = answered /\ flushed' = flushed
  BY DEF ghosts
<1>3. NothingVanishes'
  BY <1>1, <1>2 DEF NothingVanishes
<1> QED
  BY <1>1, <1>2, <1>3 DEF History

LEMMA NoTodo ==
  ASSUME todo' = <<>>
  PROVE  TodoIsOpen' /\ todo' \in Seq(Ids)
<1>1. Len(todo') = 0 /\ ToSet(todo') = {} /\ todo' \in Seq(Ids)
  BY EmptySeq DEF ToSet
<1> QED
  BY <1>1 DEF TodoIsOpen

(* The invariant of a step that is not to the model.                         *)
LEMMA AwayFromModel ==
  ASSUME Inv, History', TodoIsOpen', todo' \in Seq(Ids), pc' \in PC, pc' # "asking",
         todo' # <<>> <=> pc' = "tools", step' \in 0..MaxSteps, pc' = "tools" => step' < MaxSteps,
         warnings' \in Nat, warnings' > 0 => Detecting, cancelled' \in BOOLEAN, turn' \in 0..MaxTurns
  PROVE  Inv'
<1>1. /\ InOrder(messages', asked', answered', count') /\ NothingVanishes'
      /\ answered' \subseteq asked' /\ flushed' \subseteq 1..count'
  BY DEF History
<1>2. messages' \in Seq(Message) /\ asked' \subseteq Ids /\ count' \in Nat
  BY <1>1 DEF InOrder
<1>3. TypeOK'
  BY <1>1, <1>2 DEF TypeOK
<1> QED
  BY <1>1, <1>3 DEF Inv

(* A turn ends.                                                              *)
LEMMA Returned ==
  ASSUME Inv, History', Return, warnings' = warnings
  PROVE  Inv'
<1>1. todo' = <<>> /\ pc' = "idle" /\ step' = step /\ cancelled' = cancelled /\ turn' = turn
  BY DEF Return
<1>2. TodoIsOpen' /\ todo' \in Seq(Ids)
  BY <1>1, NoTodo
<1>3. /\ step \in 0..MaxSteps /\ warnings \in Nat /\ (warnings > 0 => Detecting)
      /\ cancelled \in BOOLEAN /\ turn \in 0..MaxTurns
  BY DEF Inv, TypeOK
<1>4. step' \in 0..MaxSteps /\ warnings' \in Nat /\ (warnings' > 0 => Detecting) /\ turn' \in 0..MaxTurns
  BY <1>1, <1>3
<1>5. cancelled' \in BOOLEAN
  BY <1>1, <1>3
<1>6. pc' \in PC /\ pc' # "asking" /\ pc' # "tools" /\ ~(todo' # <<>>)
  BY <1>1 DEF PC
<1> QED
  BY <1>2, <1>4, <1>5, <1>6, AwayFromModel

LEMMA CallsOfBatch ==
  ASSUME ConstantsAssumption, asked \subseteq Ids, NEW calls, calls = <<>> \/ calls \in Batches
  PROVE  /\ calls \in Seq(Ids) /\ \A i, j \in 1..Len(calls) : calls[i] = calls[j] => i = j
         /\ ToSet(calls) \cap asked = {} /\ ToSet(calls) \subseteq Ids
         /\ calls \in Batches => calls # <<>>
<1>1. CASE calls = <<>>
  <2>1. Len(calls) = 0 /\ ToSet(calls) = {} /\ calls \in Seq(Ids)
    BY <1>1, EmptySeq DEF ToSet
  <2>2. calls \notin Batches
    <3>1. SUFFICES ASSUME calls \in Batches PROVE FALSE
      OBVIOUS
    <3>2. PICK k \in 1..MaxBatch : calls \in [1..k -> Ids]
      BY <3>1 DEF Batches
    <3>3. k \in Nat /\ k >= 1
      BY <3>2 DEF ConstantsAssumption
    <3>4. Len(calls) = k
      <4>1. calls \in Seq(Ids) /\ DOMAIN calls = 1..k
        BY <3>2, <3>3, SeqDef
      <4> QED
        BY <3>3, <4>1, LenProperties
    <3> QED
      BY <2>1, <3>3, <3>4
  <2> QED
    BY <2>1, <2>2
<1>2. CASE calls \in Batches
  <2>1. PICK k \in 1..MaxBatch : calls \in [1..k -> Ids]
    BY <1>2 DEF Batches
  <2>2. k \in Nat /\ k >= 1
    BY <2>1 DEF ConstantsAssumption
  <2>3. calls \in Seq(Ids) /\ Len(calls) = k /\ DOMAIN calls = 1..k
    <3>1. calls \in Seq(Ids) /\ DOMAIN calls = 1..k
      BY <2>1, <2>2, SeqDef
    <3> QED
      BY <2>2, <3>1, LenProperties
  <2>4. /\ \A i \in 1..k, id \in asked : calls[i] > id
        /\ \A i, j \in 1..k : i < j => calls[i] < calls[j]
    BY <1>2, <2>3 DEF Batches
  <2>5. \A i \in 1..k : calls[i] \in Nat /\ calls[i] \in Ids
    BY <2>1 DEF Ids
  <2>6. ASSUME NEW i \in 1..k, NEW j \in 1..k, calls[i] = calls[j] PROVE i = j
    <3>1. ~(i < j) /\ ~(j < i)
      BY <2>4, <2>5, <2>6
    <3> QED
      BY <2>2, <3>1
  <2>7. ToSet(calls) = {calls[i] : i \in 1..Len(calls)}
    BY <2>3, SeqFacts
  <2>8. \A i \in 1..k : calls[i] \notin asked
    BY <2>4, <2>5
  <2>9. Len(<<>>) = 0
    BY EmptySeq
  <2> QED
    BY <2>2, <2>3, <2>5, <2>6, <2>7, <2>8, <2>9
<1> QED
  BY <1>1, <1>2

LEMMA NextNumber ==
  ASSUME NEW n \in Nat
  PROVE  n + 1 \in Nat /\ n + 1 \in 0..(n + 1)
OBVIOUS

LEMMA CallKey ==
  ASSUME NEW T, NEW x \in {"call"} \X T
  PROVE  \E c \in T : x = <<"call", c>>
OBVIOUS

LEMMA MessageIs ==
  ASSUME NEW text, text \in {"reply", "stop", "plan", "", "result", "question"}, NEW n \in Nat
  PROVE  /\ \A calls \in Seq(Ids) : Assistant(text, calls, n) \in Message
         /\ \A c \in Ids : Tool(text, c, n) \in Message
<1>1. <<>> \in Seq(Ids)
  BY EmptySeq
<1>2. ASSUME NEW calls \in Seq(Ids) PROVE Assistant(text, calls, n) \in Message
  BY DEF Assistant, Message
<1>3. ASSUME NEW c \in Ids PROVE Tool(text, c, n) \in Message
  BY <1>1 DEF Tool, Message
<1> QED
  BY <1>2, <1>3

(* A response asks what is new.                                              *)
LEMMA Responded ==
  ASSUME ConstantsAssumption, Inv, NEW text, text \in {"reply", "stop", "plan", ""},
         NEW calls, calls = <<>> \/ calls \in Batches, Respond(text, calls)
  PROVE  History' /\ (todo' = calls => TodoIsOpen' /\ todo' \in Seq(Ids))
<1>1. /\ InOrder(messages, asked, answered, count) /\ asked \subseteq Ids /\ count \in Nat
      /\ answered \subseteq asked
  BY DEF Inv, TypeOK
<1>2. PICK m : m = Assistant(text, calls, count + 1)
  OBVIOUS
<1>3. /\ messages' = Append(messages, m) /\ count' = count + 1 /\ asked' = asked \union ToSet(calls)
      /\ answered' = answered /\ flushed' = flushed
  BY <1>2 DEF Respond
<1>4. /\ calls \in Seq(Ids) /\ \A i, j \in 1..Len(calls) : calls[i] = calls[j] => i = j
      /\ ToSet(calls) \cap asked = {} /\ ToSet(calls) \subseteq Ids
  BY <1>1, CallsOfBatch
<1>5. /\ m.role = "assistant" /\ m.text = text /\ m.calls = calls /\ m.id = 0 /\ m.n = count + 1
      /\ m \in Message
  <2>1. count + 1 \in Nat
    BY <1>1, NextNumber
  <2>2. m \in Message
    BY <1>2, <1>4, <2>1, MessageIs
  <2>3. m.role = "assistant" /\ m.text = text /\ m.calls = calls /\ m.id = 0 /\ m.n = count + 1
    BY <1>2 DEF Assistant
  <2> QED
    BY <2>2, <2>3
<1>6. ~IsReminder(m) /\ m.text # "interrupted"
  BY <1>5 DEF IsReminder
<1>7. KeysOf(m) = {"call"} \X ToSet(calls)
  BY <1>5, <1>6 DEF KeysOf
<1>8. Proper(m, asked', answered', count + 1)
  <2>1. count + 1 \in 0..(count + 1)
    BY <1>1, NextNumber
  <2> QED
    BY <1>3, <1>4, <1>5, <1>6, <2>1 DEF Proper
<1>9. ASSUME NEW x, x \in KeysOf(m), x \in AllKeys(messages) PROVE FALSE
  <2>1. PICK c \in ToSet(calls) : x = <<"call", c>>
    BY <1>7, <1>9, CallKey
  <2>2. c \in asked
    BY <1>1, <1>9, <2>1, KeysAreUsed
  <2> QED
    BY <1>4, <2>2
<1>10. Ends(m, messages, asked, answered, count, asked', answered')
  <2>1. ToSet(m.calls) \cap answered' = {}
    BY <1>1, <1>3, <1>4, <1>5
  <2>2. asked \subseteq asked' /\ asked' \subseteq Ids /\ answered \subseteq answered' /\ answered' \ answered = {}
    BY <1>1, <1>3, <1>4
  <2> QED
    BY <1>8, <1>9, <2>1, <2>2 DEF Ends
<1>11. History' /\ AllKeys(messages') = AllKeys(messages) \union KeysOf(m)
  <2>1. answered' \subseteq asked'
    BY <1>1, <1>3
  <2> QED
    BY <1>3, <1>5, <1>10, <2>1, AppendHistory
<1>12. ASSUME todo' = calls PROVE TodoIsOpen' /\ todo' \in Seq(Ids)
  <2>1. ToSet(calls) \subseteq asked' \ answered'
    BY <1>1, <1>3, <1>4
  <2>2. ASSUME NEW c \in ToSet(calls), <<"result", c>> \in AllKeys(messages') PROVE FALSE
    <3>1. <<"result", c>> \notin KeysOf(m)
      BY <1>7
    <3>2. <<"result", c>> \in AllKeys(messages)
      BY <1>11, <2>2, <3>1
    <3>3. c \in asked
      BY <1>1, <3>2, KeysAreUsed
    <3> QED
      BY <1>4, <3>3
  <2> QED
    BY <1>4, <1>12, <2>1, <2>2 DEF TodoIsOpen
<1> QED
  BY <1>11, <1>12

(* A result or a question answers the first call that waits.                 *)
LEMMA Backfilled ==
  ASSUME Inv, pc = "tools", NEW text, text \in {"result", "question"}, Backfill(text)
  PROVE  /\ History' /\ todo \in Seq(Ids) /\ todo # <<>>
         /\ todo' = Tail(todo) => TodoIsOpen' /\ todo' \in Seq(Ids)
<1>1. /\ InOrder(messages, asked, answered, count) /\ asked \subseteq Ids /\ count \in Nat
      /\ answered \subseteq asked /\ todo \in Seq(Ids) /\ todo # <<>>
  BY DEF Inv, TypeOK
<1>2. /\ \A i, j \in 1..Len(todo) : todo[i] = todo[j] => i = j
      /\ ToSet(todo) \subseteq asked \ answered
      /\ \A c \in ToSet(todo) : <<"result", c>> \notin AllKeys(messages)
  BY DEF Inv, TodoIsOpen
<1>3. PICK c : c = Head(todo)
  OBVIOUS
<1>4. PICK m : m = Tool(text, c, count + 1)
  OBVIOUS
<1>5. /\ messages' = Append(messages, m) /\ count' = count + 1 /\ asked' = asked
      /\ answered' = answered \union {c} /\ flushed' = flushed
  BY <1>3, <1>4 DEF Backfill
<1>6. /\ c \in ToSet(todo) /\ Tail(todo) \in Seq(Ids) /\ ToSet(Tail(todo)) \subseteq ToSet(todo) \ {c}
      /\ \A i, j \in 1..Len(Tail(todo)) : Tail(todo)[i] = Tail(todo)[j] => i = j
  BY <1>1, <1>2, <1>3, HeadAndTail
<1>7. c \in asked /\ c \in Ids /\ c # 0 /\ <<"result", c>> \notin AllKeys(messages)
  <2>1. c \in asked /\ c \in Ids
    BY <1>1, <1>2, <1>6
  <2>2. c # 0
    BY <2>1 DEF Ids
  <2> QED
    BY <1>2, <1>6, <2>1, <2>2
<1>8. m.role = "tool" /\ m.text = text /\ m.calls = <<>> /\ m.id = c /\ m.n = count + 1 /\ m \in Message
  <2>1. count + 1 \in Nat
    BY <1>1, NextNumber
  <2>2. m \in Message
    BY <1>4, <1>7, <2>1, MessageIs
  <2>3. m.role = "tool" /\ m.text = text /\ m.calls = <<>> /\ m.id = c /\ m.n = count + 1
    BY <1>4 DEF Tool
  <2> QED
    BY <2>2, <2>3
<1>9. ~IsReminder(m) /\ m.text # "interrupted" /\ ToSet(m.calls) = {} /\ Len(m.calls) = 0
  BY <1>8 DEF IsReminder, ToSet
<1>10. KeysOf(m) = {<<"result", c>>}
  BY <1>8, <1>9 DEF KeysOf
<1>11. Proper(m, asked', answered', count + 1)
  <2>1. count + 1 \in 0..(count + 1)
    BY <1>1, NextNumber
  <2> QED
    BY <1>5, <1>7, <1>8, <1>9, <2>1 DEF Proper
<1>12. Ends(m, messages, asked, answered, count, asked', answered')
  <2>1. KeysOf(m) \cap AllKeys(messages) = {}
    BY <1>7, <1>10
  <2>2. \A d \in answered' \ answered : m.role = "tool" /\ m.id = d
    BY <1>5, <1>8
  <2> QED
    BY <1>1, <1>5, <1>9, <1>11, <2>1, <2>2 DEF Ends
<1>13. History' /\ AllKeys(messages') = AllKeys(messages) \union KeysOf(m)
  <2>1. answered' \subseteq asked'
    BY <1>1, <1>5, <1>7
  <2> QED
    BY <1>5, <1>8, <1>12, <2>1, AppendHistory
<1>14. ASSUME todo' = Tail(todo) PROVE TodoIsOpen' /\ todo' \in Seq(Ids)
  <2>1. ToSet(Tail(todo)) \subseteq asked' \ answered'
    BY <1>2, <1>5, <1>6
  <2>2. \A d \in ToSet(Tail(todo)) : <<"result", d>> \notin AllKeys(messages')
    BY <1>2, <1>6, <1>10, <1>13
  <2> QED
    BY <1>6, <1>14, <2>1, <2>2 DEF TodoIsOpen
<1> QED
  BY <1>1, <1>13, <1>14

-----------------------------------------------------------------------------
LEMMA RunInv == ASSUME ConstantsAssumption, Inv, Run PROVE Inv'
<1>1. /\ InOrder(messages, asked, answered, count) /\ count \in Nat /\ asked \subseteq Ids
      /\ answered \subseteq asked /\ todo \in Seq(Ids) /\ (todo # <<>> <=> pc = "tools")
      /\ warnings \in Nat /\ (warnings > 0 => Detecting) /\ turn \in 0..MaxTurns
  BY DEF Inv, TypeOK
<1>2. /\ pc = "idle" /\ turn < MaxTurns /\ turn' = turn + 1
      /\ messages' = Append(messages, User("input", count + 1)) /\ count' = count + 1
      /\ pc' = "head" /\ step' = 0 /\ cancelled' = FALSE /\ todo' = todo /\ warnings' = warnings
      /\ asked' = asked /\ answered' = answered /\ flushed' = flushed
  BY DEF Run
<1>3. PICK m : m = User("input", count + 1)
  OBVIOUS
<1>4. count + 1 \in Nat /\ count + 1 \in 0..(count + 1)
  BY <1>1, NextNumber
<1>5. Proper(m, asked', answered', count + 1) /\ Plain(m, count + 1)
  BY <1>3, <1>4, UserMessage
<1>6. KeysOf(m) = {} /\ ToSet(m.calls) = {} /\ m.n = count + 1
  BY <1>5 DEF Plain, ToSet
<1>7. Ends(m, messages, asked, answered, count, asked', answered')
  BY <1>1, <1>2, <1>5, <1>6 DEF Ends
<1>8. History'
  BY <1>1, <1>2, <1>3, <1>6, <1>7, AppendHistory
<1>9. TodoIsOpen' /\ todo' \in Seq(Ids) /\ todo' = <<>>
  <2>1. todo' = <<>>
    BY <1>1, <1>2
  <2> QED
    BY <2>1, NoTodo
<1>10. step' \in 0..MaxSteps /\ warnings' \in Nat /\ (warnings' > 0 => Detecting) /\ turn' \in 0..MaxTurns
  <2>1. MaxSteps \in Nat /\ MaxTurns \in Nat
    BY DEF ConstantsAssumption
  <2> QED
    BY <1>1, <1>2, <2>1
<1>11. cancelled' \in BOOLEAN
  BY <1>2
<1>12. pc' \in PC /\ pc' # "asking" /\ pc' # "tools" /\ ~(todo' # <<>>)
  BY <1>2, <1>9 DEF PC
<1> QED
  BY <1>8, <1>9, <1>10, <1>11, <1>12, AwayFromModel

LEMMA CancelInv == ASSUME ConstantsAssumption, Inv, Cancel PROVE Inv'
<1>1. /\ messages' = messages /\ count' = count /\ asked' = asked /\ answered' = answered
      /\ flushed' = flushed /\ warnings' = warnings /\ pc' = pc /\ step' = step /\ todo' = todo
      /\ turn' = turn
  BY DEF Cancel, ghosts
<1>2. cancelled' \in BOOLEAN
  BY DEF Cancel
<1>3. TypeOK'
  BY <1>1, <1>2 DEF Inv, TypeOK
<1>4. TodoIsOpen' /\ NothingVanishes'
  BY <1>1 DEF Inv, TodoIsOpen, NothingVanishes
<1> QED
  BY <1>1, <1>3, <1>4 DEF Inv

(* A compaction whose hooks were given what it summarises.                   *)
LEMMA Compacted ==
  ASSUME ConstantsAssumption, Inv, NEW c, c \in Compactions(messages)
  PROVE  /\ InOrder(c.history, asked, answered, count)
         /\ flushed \union Numbers(c.summarised) \subseteq 1..count
         /\ \A k \in 1..count :
              k \in flushed \union Numbers(c.summarised) \/ k \in Numbers(c.history)
<1>1. /\ InOrder(messages, asked, answered, count) /\ NothingVanishes /\ flushed \subseteq 1..count
  BY DEF Inv, TypeOK
<1>2. Compacts(c, messages, asked, answered, count)
  BY <1>1, CompactionIs
<1> QED
  BY <1>1, <1>2 DEF Compacts, NothingVanishes

LEMMA SummarizeFailsInv == ASSUME ConstantsAssumption, Inv, SummarizeFails PROVE Inv'
<1>1. PICK c \in Compactions(messages) : flushed' = flushed \union Numbers(c.summarised)
  BY DEF SummarizeFails
<1>2. /\ messages' = messages /\ count' = count /\ asked' = asked /\ answered' = answered
      /\ warnings' = warnings /\ Return
  BY DEF SummarizeFails
<1>3. /\ InOrder(messages, asked, answered, count) /\ NothingVanishes /\ answered \subseteq asked
  BY DEF Inv, TypeOK
<1>4. flushed' \subseteq 1..count /\ flushed \subseteq flushed'
  BY <1>1, Compacted
<1>5. NothingVanishes'
  BY <1>2, <1>3, <1>4 DEF NothingVanishes
<1>6. History'
  BY <1>2, <1>3, <1>4, <1>5 DEF History
<1> QED
  BY <1>2, <1>6, Returned

LEMMA AskInv == ASSUME ConstantsAssumption, Inv, Ask PROVE Inv'
<1>1. /\ InOrder(messages, asked, answered, count) /\ NothingVanishes /\ answered \subseteq asked
      /\ flushed \subseteq 1..count /\ todo \in Seq(Ids) /\ (todo # <<>> <=> pc = "tools")
      /\ warnings \in Nat /\ step \in 0..MaxSteps /\ turn \in 0..MaxTurns
  BY DEF Inv, TypeOK
<1>2. /\ pc = "head" /\ step < MaxSteps /\ warnings' = 0 /\ pc' = "asking" /\ step' = step
      /\ todo' = todo /\ cancelled' = cancelled /\ turn' = turn
      /\ count' = count /\ asked' = asked /\ answered' = answered
  BY DEF Ask, AtHead, Goto
<1>3. \E ms : /\ messages' = Prepared(ms) /\ InOrder(ms, asked, answered, count)
              /\ flushed' \subseteq 1..count
              /\ \A k \in 1..count : k \in flushed' \/ k \in Numbers(ms)
  <2>1. CASE messages' = Prepared(messages) /\ UNCHANGED flushed
    BY <1>1, <2>1 DEF NothingVanishes
  <2>2. CASE \E c \in Compactions(messages) :
               messages' = Prepared(c.history) /\ flushed' = flushed \union Numbers(c.summarised)
    <3>1. PICK c \in Compactions(messages) :
             messages' = Prepared(c.history) /\ flushed' = flushed \union Numbers(c.summarised)
      BY <2>2
    <3>2. /\ InOrder(c.history, asked, answered, count) /\ flushed' \subseteq 1..count
          /\ \A k \in 1..count : k \in flushed' \/ k \in Numbers(c.history)
      BY <3>1, Compacted
    <3> QED
      BY <3>1, <3>2
  <2> QED
    BY <2>1, <2>2 DEF Ask
<1>4. PICK ms : /\ messages' = Prepared(ms) /\ InOrder(ms, asked, answered, count)
                /\ flushed' \subseteq 1..count
                /\ \A k \in 1..count : k \in flushed' \/ k \in Numbers(ms)
  BY <1>3
<1>5. /\ InOrder(messages', asked, answered, count) /\ (Patching => Answers(messages'))
      /\ \A k : k \in Numbers(ms) => k \in Numbers(messages')
  BY <1>1, <1>4, PreparedKeeps
<1>6. NothingVanishes'
  BY <1>2, <1>4, <1>5 DEF NothingVanishes
<1>7. todo' = <<>>
  BY <1>1, <1>2
<1>8. TodoIsOpen' /\ todo' \in Seq(Ids)
  BY <1>7, NoTodo
<1>9. TypeOK'
  <2>1. messages' \in Seq(Message) /\ asked \subseteq Ids /\ count \in Nat
    BY <1>5 DEF InOrder
  <2>2. warnings' \in Nat /\ ~(warnings' > 0)
    BY <1>2
  <2>3. cancelled' \in BOOLEAN
    BY <1>2 DEF Inv, TypeOK
  <2>4. pc' \in PC /\ pc' # "tools"
    BY <1>2 DEF PC
  <2> QED
    BY <1>1, <1>2, <1>4, <1>7, <1>8, <2>1, <2>2, <2>3, <2>4 DEF TypeOK
<1> QED
  BY <1>2, <1>5, <1>6, <1>8, <1>9 DEF Inv

LEMMA CallToolsInv == ASSUME ConstantsAssumption, Inv, CallTools PROVE Inv'
<1>1. PICK calls \in Batches, text \in {"", "plan"} : Respond(text, calls) /\ todo' = calls
  BY DEF CallTools
<1>2. /\ pc = "asking" /\ pc' = "tools" /\ step' = step /\ cancelled' = cancelled /\ turn' = turn
      /\ warnings' \in {warnings} \union (IF Detecting THEN {warnings + 1} ELSE {})
  BY DEF CallTools
<1>3. /\ warnings \in Nat /\ (warnings > 0 => Detecting) /\ step \in 0..MaxSteps /\ step < MaxSteps
      /\ turn \in 0..MaxTurns /\ cancelled \in BOOLEAN /\ asked \subseteq Ids
  BY <1>2 DEF Inv, TypeOK
<1>4. History' /\ TodoIsOpen' /\ todo' \in Seq(Ids)
  <2>1. text \in {"reply", "stop", "plan", ""} /\ (calls = <<>> \/ calls \in Batches)
    OBVIOUS
  <2>2. History' /\ (todo' = calls => TodoIsOpen' /\ todo' \in Seq(Ids))
    BY <1>1, <2>1, Responded
  <2> QED
    BY <1>1, <2>2
<1>5. todo' # <<>>
  BY <1>1, <1>3, CallsOfBatch
<1>6. warnings' \in Nat /\ (warnings' > 0 => Detecting)
  <2>1. warnings' = warnings \/ (Detecting /\ warnings' = warnings + 1)
    BY <1>2
  <2>2. warnings' \in Nat
    <3>1. warnings \in Nat
      BY <1>3
    <3>2. warnings' = warnings \/ warnings' = warnings + 1
      BY <2>1
    <3> QED
      BY <3>1, <3>2, NextNumber
  <2>3. ASSUME warnings' > 0 PROVE Detecting
    <3>1. CASE warnings' = warnings
      <4>1. warnings > 0
        BY <2>3, <3>1
      <4> QED
        BY <1>3, <4>1
    <3>2. CASE Detecting
      BY <3>2
    <3> QED
      BY <2>1, <3>1, <3>2
  <2> QED
    BY <2>2, <2>3
<1>7. step' \in 0..MaxSteps /\ step' < MaxSteps /\ turn' \in 0..MaxTurns
  BY <1>2, <1>3
<1>8. cancelled' \in BOOLEAN
  BY <1>2, <1>3
<1>9. pc' \in PC /\ pc' # "asking" /\ pc' = "tools"
  BY <1>2 DEF PC
<1> QED
  BY <1>4, <1>5, <1>6, <1>7, <1>8, <1>9, AwayFromModel

LEMMA ToolReturnsInv == ASSUME ConstantsAssumption, Inv, ToolReturns PROVE Inv'
<1>1. pc = "tools" /\ Backfill("result") /\ todo' = Tail(todo) /\ cancelled' = cancelled /\ turn' = turn
  BY DEF ToolReturns
<1>2. /\ warnings \in Nat /\ (warnings > 0 => Detecting) /\ step \in 0..MaxSteps /\ step < MaxSteps
      /\ turn \in 0..MaxTurns /\ cancelled \in BOOLEAN
  BY <1>1 DEF Inv, TypeOK
<1>3. History' /\ TodoIsOpen' /\ todo' \in Seq(Ids)
  BY <1>1, Backfilled
<1>4. warnings' = warnings
  BY <1>1 DEF Backfill
<1>5. \/ todo' = <<>> /\ pc' = "head" /\ step' = step + 1
      \/ todo' # <<>> /\ pc' = pc /\ step' = step
  BY <1>1 DEF ToolReturns
<1>6. step' \in 0..MaxSteps /\ (pc' = "tools" => step' < MaxSteps)
  <2>1. MaxSteps \in Nat
    BY DEF ConstantsAssumption
  <2>2. step \in Nat /\ step + 1 \in 0..MaxSteps
    BY <1>2, <2>1
  <2>3. CASE todo' = <<>> /\ pc' = "head" /\ step' = step + 1
    BY <2>2, <2>3
  <2>4. CASE todo' # <<>> /\ pc' = pc /\ step' = step
    BY <1>2, <2>4
  <2> QED
    BY <1>5, <2>3, <2>4
<1>7. pc' \in PC /\ pc' # "asking" /\ (todo' # <<>> <=> pc' = "tools")
  BY <1>1, <1>5 DEF PC
<1>8. warnings' \in Nat /\ (warnings' > 0 => Detecting) /\ turn' \in 0..MaxTurns
  BY <1>1, <1>2, <1>4
<1>9. cancelled' \in BOOLEAN
  BY <1>1, <1>2
<1> QED
  BY <1>3, <1>6, <1>7, <1>8, <1>9, AwayFromModel

LEMMA LoopInv == ASSUME ConstantsAssumption, Inv, Loop PROVE Inv'
<1>1. CASE StopAtHead \/ ChatFails \/ ToolFails
  <2>1. Return /\ warnings' = warnings /\ UNCHANGED <<messages, ghosts>>
    BY <1>1 DEF StopAtHead, ChatFails, ToolFails
  <2> QED
    BY <2>1, SameHistory, Returned
<1>2. CASE SummarizeFails
  BY <1>2, SummarizeFailsInv
<1>3. CASE Ask
  BY <1>3, AskInv
<1>4. CASE Reply
  <2>1. PICK calls \in {<<>>} \union Batches : Respond("reply", calls)
    BY <1>4 DEF Reply
  <2>2. calls = <<>> \/ calls \in Batches
    OBVIOUS
  <2>3. Return /\ warnings' = warnings
    BY <1>4 DEF Reply
  <2>4. History'
    BY <2>1, <2>2, Responded
  <2> QED
    BY <2>3, <2>4, Returned
<1>5. CASE HardStop
  <2>1. Respond("stop", <<>>) /\ Return /\ warnings' = warnings
    BY <1>5 DEF HardStop
  <2>2. History'
    BY <2>1, Responded
  <2> QED
    BY <2>1, <2>2, Returned
<1>6. CASE CallTools
  BY <1>6, CallToolsInv
<1>7. CASE ToolReturns
  BY <1>7, ToolReturnsInv
<1>8. CASE ToolAsks
  <2>1. pc = "tools" /\ Backfill("question") /\ Return
    BY <1>8 DEF ToolAsks
  <2>2. warnings' = warnings
    BY <2>1 DEF Backfill
  <2>3. History'
    BY <2>1, Backfilled
  <2> QED
    BY <2>1, <2>2, <2>3, Returned
<1> QED
  BY <1>1, <1>2, <1>3, <1>4, <1>5, <1>6, <1>7, <1>8 DEF Loop

LEMMA StutterInv == ASSUME Inv, UNCHANGED vars PROVE Inv'
<1>1. /\ messages' = messages /\ count' = count /\ asked' = asked /\ answered' = answered
      /\ flushed' = flushed /\ warnings' = warnings /\ pc' = pc /\ step' = step /\ todo' = todo
      /\ turn' = turn /\ cancelled' = cancelled
  BY DEF vars, turnVars, ghosts
<1> QED
  BY <1>1 DEF Inv, TypeOK, TodoIsOpen, NothingVanishes

(* The invariant holds in every state of the loop.                           *)
THEOREM Invariant == Spec => []Inv
<1>1. Init => Inv
  BY ConstantsAssumption, InitInv
<1>2. Inv /\ [Next]_vars => Inv'
  BY ConstantsAssumption, RunInv, CancelInv, LoopInv, StutterInv DEF Next
<1> QED
  BY <1>1, <1>2, PTL DEF Spec

(* However an earlier turn was cut short and whatever was compacted, the     *)
(* model never sees a call without its result right behind it.               *)
THEOREM CallsInPlace == Spec => []CallsAreAnswered
<1>1. Inv => CallsAreAnswered
  <2> SUFFICES ASSUME Inv, pc = "asking", Patching, NEW i \in DOMAIN messages,
                      NEW j \in DOMAIN messages[i].calls
               PROVE  /\ i + j \in DOMAIN messages /\ messages[i + j].role = "tool"
                      /\ messages[i + j].id = messages[i].calls[j]
    BY DEF CallsAreAnswered
  <2>1. messages \in Seq(Message) /\ DOMAIN messages = 1..Len(messages) /\ messages[i] \in Message
    BY SeqFacts DEF Inv, TypeOK
  <2>2. DOMAIN messages[i].calls = 1..Len(messages[i].calls)
    BY <2>1, CallsOf
  <2> QED
    BY <2>1, <2>2 DEF Inv, Answers
<1> QED
  BY <1>1, Invariant, PTL

(* A call whose result came back is never reported to the model as           *)
(* interrupted: no cutoff or rescue parts the two.                           *)
THEOREM ResultsAreTold == Spec => []NoFalseInterruption
<1>1. Inv => NoFalseInterruption
  <2>1. SUFFICES ASSUME Inv, NEW i \in DOMAIN messages, messages[i].text = "interrupted"
                 PROVE  messages[i].id \notin answered
    BY DEF NoFalseInterruption
  <2>2. i \in 1..Len(messages)
    BY <2>1, SeqFacts DEF Inv, TypeOK
  <2>3. Proper(messages[i], asked, answered, count)
    BY <2>1, <2>2 DEF Inv, InOrder
  <2> QED
    BY <2>1, <2>3 DEF Proper
<1> QED
  BY <1>1, Invariant, PTL

(* No message is lost but to a compaction whose hooks were given it, and the *)
(* dynamic context reminder is in the history once.                          *)
THEOREM HistoryStays == Spec => []HistoryIsKept
<1>1. Inv => ReminderStays
  <2>1. SUFFICES ASSUME Inv PROVE ReminderStays
    OBVIOUS
  <2>2. InOrder(messages, asked, answered, count) /\ DOMAIN messages = 1..Len(messages)
    BY <2>1, SeqFacts DEF Inv, TypeOK
  <2>3. PICK i \in 1..Len(messages) : IsReminder(messages[i])
    BY <2>2 DEF InOrder, Reminded
  <2>4. \A k \in 1..Len(messages) : IsReminder(messages[k]) => k = i
    BY <2>2, <2>3, OneOfEach
  <2> QED
    BY <2>2, <2>3, <2>4 DEF ReminderStays
<1>2. Inv => HistoryIsKept
  BY <1>1 DEF Inv, HistoryIsKept
<1> QED
  BY <1>2, Invariant, PTL
=============================================================================
