-------------------------- MODULE MemoryStoreProofs --------------------------
(***************************************************************************)
(* Theorems about MemoryStore, for any operations, keys, contents, answers *)
(* of the model and bounds.  First what the operations make of a memory:   *)
(* the facts of an update are followed through selection, recursion over   *)
(* the proposals and trimming.  Then the file, the cache and the           *)
(* operations, where Changed is not expanded.                              *)
(***************************************************************************)
EXTENDS MemoryStore, SequenceTheorems, FiniteSetTheorems, WellFoundedInduction, TLAPS

-----------------------------------------------------------------------------
(* Selections of a sequence.                                                 *)

LEMMA UpToIsFinite ==
  ASSUME NEW n \in Nat
  PROVE  IsFiniteSet(1..n) /\ Cardinality(1..n) = n
BY FS_Interval

(* The indices of a finite set are numbered from 1 on.                       *)
LEMMA RankNumbers ==
  ASSUME NEW I \in SUBSET Nat, IsFiniteSet(I)
  PROVE  /\ Cardinality(I) \in Nat
         /\ \A i \in I : Rank(I, i) \in 1..Cardinality(I)
         /\ \A i, j \in I : Rank(I, i) = Rank(I, j) => i = j
         /\ \A k \in 1..Cardinality(I) : \E i \in I : Rank(I, i) = k
<1> DEFINE Upto(i) == {j \in I : j <= i}
<1>1. \A i : /\ IsFiniteSet(Upto(i)) /\ Cardinality(Upto(i)) \in Nat
             /\ Cardinality(Upto(i)) <= Cardinality(I)
  <2> TAKE i
  <2>1. Upto(i) \in SUBSET I
    OBVIOUS
  <2> QED
    BY <2>1, FS_Subset, FS_CardinalityType
<1>2. Cardinality(I) \in Nat /\ IsFiniteSet(1..Cardinality(I)) /\ Cardinality(1..Cardinality(I)) = Cardinality(I)
  BY FS_CardinalityType, UpToIsFinite
<1>3. \A i \in I : Cardinality(Upto(i)) \in 1..Cardinality(I)
  <2> TAKE i \in I
  <2>1. Cardinality(Upto(i)) # 0
    <3>1. i \in Upto(i)
      OBVIOUS
    <3> QED
      BY <1>1, <3>1, FS_EmptySet
  <2>2. PICK x : x = Cardinality(Upto(i))
    OBVIOUS
  <2>3. PICK y : y = Cardinality(I)
    OBVIOUS
  <2>4. x \in Nat /\ y \in Nat /\ x <= y /\ x # 0
    BY <1>1, <1>2, <2>1, <2>2, <2>3
  <2>5. x \in 1..y
    BY <2>4
  <2> QED
    BY <2>2, <2>3, <2>5
<1>4. ASSUME NEW i \in I, NEW j \in I, i < j PROVE Cardinality(Upto(i)) < Cardinality(Upto(j))
  <2>1. Upto(i) \in SUBSET Upto(j) /\ j \in Upto(j) /\ j \notin Upto(i)
    <3>1. i \in Nat /\ j \in Nat /\ \A m \in I : m \in Nat
      OBVIOUS
    <3>2. \A m \in I : m <= i => m <= j
      BY <1>4, <3>1
    <3>3. j \in Upto(j) /\ j \notin Upto(i)
      BY <1>4, <3>1
    <3> QED
      BY <3>2, <3>3
  <2>2. Cardinality(Upto(i)) <= Cardinality(Upto(j)) /\ Cardinality(Upto(i)) # Cardinality(Upto(j))
    BY <1>1, <2>1, FS_Subset
  <2> QED
    BY <1>1, <2>2
<1>5. \A i, j \in I : Cardinality(Upto(i)) = Cardinality(Upto(j)) => i = j
  BY <1>1, <1>4
<1> DEFINE f == [i \in I |-> Cardinality(Upto(i))]
<1>6. f \in Injection(I, 1..Cardinality(I))
  BY <1>3, <1>5 DEF Injection, IsInjective
<1>7. f \in Surjection(I, 1..Cardinality(I))
  BY <1>2, <1>6, FS_Injection
<1>8. \A k \in 1..Cardinality(I) : \E i \in I : f[i] = k
  BY <1>7 DEF Surjection
<1> QED
  BY <1>2, <1>3, <1>5, <1>8 DEF Rank

(* A set of numbers that is not empty has a least element.                   *)
LEMMA LeastExists ==
  ASSUME NEW T \in SUBSET Nat, T # {}
  PROVE  \E x \in T : \A y \in T : x <= y
<1>1. PICK x \in T : \A y \in T : ~(<<y, x>> \in OpToRel(<, Nat))
  BY NatLessThanWellFounded, WFMin
<1>2. \A y \in T : ~(y < x)
  BY <1>1 DEF OpToRel
<1> QED
  BY <1>2

(* A list t takes its elements from the places I of s, each place once.      *)
Takes(f, t, s, I) ==
  /\ f \in [1..Len(t) -> I] /\ \A k, l \in 1..Len(t) : f[k] = f[l] => k = l
  /\ \A k \in 1..Len(t) : t[k] = s[f[k]]

LEMMA SelectionTakes ==
  ASSUME NEW S, NEW s \in Seq(S), NEW I \in SUBSET (1..Len(s))
  PROVE  /\ Selection(s, I) \in Seq(S) /\ Len(Selection(s, I)) <= Len(s)
         /\ \E f : Takes(f, Selection(s, I), s, I) /\ \A i \in I : \E k \in 1..Len(Selection(s, I)) : f[k] = i
<1> DEFINE at(k) == CHOOSE i \in I : Rank(I, i) = k
           n == Cardinality(I)
           f == [k \in 1..n |-> at(k)]
<1>1. Len(s) \in Nat /\ IsFiniteSet(I) /\ I \in SUBSET Nat /\ n <= Len(s)
  <2>1. Len(s) \in Nat
    BY LenProperties
  <2>2. IsFiniteSet(1..Len(s)) /\ Cardinality(1..Len(s)) = Len(s)
    BY <2>1, UpToIsFinite
  <2>3. IsFiniteSet(I) /\ Cardinality(I) <= Cardinality(1..Len(s)) /\ Cardinality(I) \in Nat
    BY <2>2, FS_Subset, FS_CardinalityType
  <2> QED
    BY <2>1, <2>2, <2>3
<1>2. n \in Nat /\ \A k \in 1..n : at(k) \in I /\ Rank(I, at(k)) = k
  BY <1>1, RankNumbers
<1>3. \A i \in I : Rank(I, i) \in 1..n /\ at(Rank(I, i)) = i
  BY <1>1, <1>2, RankNumbers
<1>4. \A i \in I : s[i] \in S
  BY ElementOfSeq
<1>5. Selection(s, I) = [k \in 1..n |-> s[at(k)]]
  BY DEF Selection
<1> HIDE DEF at, n
<1>6. Selection(s, I) \in [1..n -> S]
  BY <1>2, <1>4, <1>5
<1>7. Selection(s, I) \in Seq(S)
  BY <1>2, <1>6, SeqDef
<1>8. Len(Selection(s, I)) = n
  BY <1>2, <1>6, <1>7, LenProperties
<1>9. f \in [1..n -> I] /\ \A k \in 1..n : f[k] = at(k)
  BY <1>2
<1> HIDE DEF f
<1>10. \A k, l \in 1..n : f[k] = f[l] => k = l
  BY <1>2, <1>9
<1>11. \A i \in I : \E k \in 1..n : f[k] = i
  BY <1>3, <1>9
<1>12. \A k \in 1..n : Selection(s, I)[k] = s[f[k]]
  BY <1>5, <1>9
<1>13. Takes(f, Selection(s, I), s, I)
  BY <1>8, <1>9, <1>10, <1>12 DEF Takes
<1> QED
  BY <1>1, <1>7, <1>8, <1>11, <1>13

-----------------------------------------------------------------------------
(* The facts of a memory.                                                    *)

LEMMA FactsAreFacts ==
  ASSUME NEW fs \in Seq(Facts)
  PROVE  /\ Len(fs) \in Nat /\ DOMAIN fs = 1..Len(fs)
         /\ \A i \in 1..Len(fs) : fs[i] \in Facts /\ fs[i].confidence \in Nat /\ i \in Nat
<1>1. \A i \in 1..Len(fs) : fs[i] \in Facts
  BY ElementOfSeq
<1>2. Threshold + 1 \in Nat
  BY ConstantsAssumption DEF ConstantsAssumption
<1>3. \A f \in Facts : f.confidence \in Nat
  BY <1>2 DEF Facts, Confidences
<1>4. Len(fs) \in Nat /\ DOMAIN fs = 1..Len(fs)
  BY LenProperties
<1> QED
  BY <1>1, <1>3, <1>4

LEMMA FactIsFact ==
  ASSUME NEW o \in Ops, NEW i \in Nat, NEW p \in Proposals
  PROVE  /\ Fact(o, i, p) \in Facts /\ Fact(o, i, p).content = p.content
         /\ Fact(o, i, p).id = <<o, i>>
BY DEF Fact, Facts, Proposals, Ids

(* What the proposals have added so far, behind the facts there were.        *)
Grown(fs, old, o) ==
  /\ fs \in Seq(Facts) /\ Len(old) <= Len(fs)
  /\ \A i \in 1..Len(old) : fs[i] = old[i]
  /\ \A i \in 1..Len(fs) : i > Len(old) =>
       /\ fs[i].id[1] = o
       /\ \A j \in 1..Len(fs) : fs[j].content = fs[i].content => j = i

LEMMA GrowKeeps ==
  ASSUME NEW old \in Seq(Facts), NEW o \in Ops, NEW new \in Seq(Proposals), NEW fs, Grown(fs, old, o),
         NEW n \in 1..Len(new)
  PROVE  Grown(Grow(o, new, fs, n, fs), old, o)
<1>1. CASE new[n].confidence < Threshold \/ Mentions(fs, new[n].content)
  BY <1>1 DEF Grow
<1>2. CASE ~(new[n].confidence < Threshold \/ Mentions(fs, new[n].content))
  <2> DEFINE f == Fact(o, n, new[n])
             more == Append(fs, f)
  <2>1. fs \in Seq(Facts) /\ Len(fs) \in Nat /\ DOMAIN fs = 1..Len(fs) /\ Len(old) \in Nat
    BY FactsAreFacts DEF Grown
  <2>2. n \in Nat /\ new[n] \in Proposals
    BY ElementOfSeq, LenProperties
  <2>3. f \in Facts /\ f.content = new[n].content /\ f.id[1] = o
    BY <2>2, FactIsFact
  <2>4. \A i \in 1..Len(fs) : fs[i].content # f.content
    BY <1>2, <2>1, <2>3 DEF Mentions
  <2>5. Grow(o, new, fs, n, fs) = more
    BY <1>2 DEF Grow
  <2> HIDE DEF f
  <2>6. /\ more \in Seq(Facts) /\ Len(more) = Len(fs) + 1
        /\ \A i \in 1..Len(fs) : more[i] = fs[i]
        /\ more[Len(fs) + 1] = f
    BY <2>1, <2>3, AppendProperties
  <2> HIDE DEF more
  <2>7. 1..Len(more) = 1..Len(fs) \union {Len(fs) + 1}
    BY <2>1, <2>6
  <2>8. \A i \in 1..Len(old) : i \in 1..Len(fs) /\ more[i] = old[i]
    BY <2>1, <2>6 DEF Grown
  <2>9. ASSUME NEW i \in 1..Len(more), i > Len(old)
        PROVE  more[i].id[1] = o /\ \A j \in 1..Len(more) : more[j].content = more[i].content => j = i
    <3>1. CASE i \in 1..Len(fs)
      BY <2>3, <2>4, <2>6, <2>7, <2>9, <3>1 DEF Grown
    <3>2. CASE i = Len(fs) + 1
      BY <2>3, <2>4, <2>6, <2>7, <3>2
    <3> QED
      BY <2>7, <3>1, <3>2
  <2>10. Len(old) <= Len(more)
    BY <2>1, <2>6 DEF Grown
  <2> QED
    BY <2>5, <2>6, <2>8, <2>9, <2>10 DEF Grown
<1> QED
  BY <1>1, <1>2

(* The recursion over the proposals, from the facts there were.              *)
GrowsAlong(h, n, old, o, new) ==
  h = [i \in 0..n |-> IF i = 0 THEN old ELSE Grow(o, new, h[i - 1], i, h[i - 1])]

LEMMA RecursionExists ==
  ASSUME NEW old, NEW o, NEW new, NEW N \in Nat
  PROVE  \E h : GrowsAlong(h, N, old, o, new)
<1> DEFINE T == {n \in Nat : ~\E h : GrowsAlong(h, n, old, o, new)}
<1>1. SUFFICES ASSUME T # {} PROVE FALSE
  OBVIOUS
<1>2. T \in SUBSET Nat
  OBVIOUS
<1>3. PICK n \in T : \A m \in T : n <= m
  <2> HIDE DEF T
  <2> QED
    BY <1>1, <1>2, LeastExists
<1>4. n \in Nat /\ ~\E h : GrowsAlong(h, n, old, o, new)
  BY <1>3
<1>5. CASE n = 0
  <2> DEFINE h == [i \in 0..0 |-> old]
  <2>1. h = [i \in 0..0 |-> IF i = 0 THEN old ELSE Grow(o, new, h[i - 1], i, h[i - 1])]
    OBVIOUS
  <2> HIDE DEF h
  <2> QED
    BY <1>4, <1>5, <2>1 DEF GrowsAlong
<1>6. CASE n # 0
  <2>1. n - 1 \in Nat /\ n - 1 \notin T
    BY <1>3, <1>4, <1>6
  <2>2. PICK h : GrowsAlong(h, n - 1, old, o, new)
    BY <2>1
  <2> DEFINE g == [i \in 0..n |-> IF i = n THEN Grow(o, new, h[n - 1], n, h[n - 1]) ELSE h[i]]
  <2>3. \A i \in 0..(n - 1) : h[i] = IF i = 0 THEN old ELSE Grow(o, new, h[i - 1], i, h[i - 1])
    BY <2>2 DEF GrowsAlong
  <2>4. \A i \in 0..n : g[i] = IF i = 0 THEN old ELSE Grow(o, new, g[i - 1], i, g[i - 1])
    <3> TAKE i \in 0..n
    <3>1. CASE i = n
      <4>1. n - 1 \in 0..n /\ n - 1 # n /\ n \in 0..n
        BY <1>4, <1>6
      <4>2. g[n - 1] = h[n - 1] /\ g[n] = Grow(o, new, h[n - 1], n, h[n - 1])
        BY <4>1
      <4> QED
        BY <1>6, <3>1, <4>2
    <3>2. CASE i # n /\ i # 0
      <4>1. i - 1 \in 0..n /\ i - 1 # n /\ i \in 0..(n - 1)
        BY <1>4, <3>2
      <4>2. g[i - 1] = h[i - 1] /\ g[i] = h[i]
        BY <3>2, <4>1
      <4> QED
        BY <2>3, <3>2, <4>1, <4>2
    <3>3. CASE i = 0 /\ i # n
      <4>1. i \in 0..(n - 1)
        BY <1>4, <3>3
      <4> QED
        BY <2>3, <3>3, <4>1
    <3> QED
      BY <3>1, <3>2, <3>3
  <2>5. g = [i \in 0..n |-> g[i]]
    OBVIOUS
  <2> HIDE DEF g
  <2>6. g = [i \in 0..n |-> IF i = 0 THEN old ELSE Grow(o, new, g[i - 1], i, g[i - 1])]
    BY <2>4, <2>5
  <2> QED
    BY <1>4, <2>6 DEF GrowsAlong
<1> QED
  BY <1>5, <1>6

LEMMA AddNewGrows ==
  ASSUME NEW old \in Seq(Facts), NEW o \in Ops, NEW new \in Seq(Proposals)
  PROVE  Grown(AddNew(old, o, new), old, o)
<1> DEFINE N == Len(new)
           g == CHOOSE h : GrowsAlong(h, N, old, o, new)
<1>1. N \in Nat
  BY LenProperties
<1>2. AddNew(old, o, new) = g[N]
  BY DEF AddNew, GrowsAlong
<1>3. GrowsAlong(g, N, old, o, new)
  <2> HIDE DEF N
  <2> QED
    BY <1>1, RecursionExists
<1>4. \A i \in 0..N : g[i] = IF i = 0 THEN old ELSE Grow(o, new, g[i - 1], i, g[i - 1])
  BY <1>3 DEF GrowsAlong
<1> HIDE DEF g
<1> DEFINE T == {n \in 0..N : ~Grown(g[n], old, o)}
<1>5. T = {}
  <2>1. SUFFICES ASSUME T # {} PROVE FALSE
    OBVIOUS
  <2>2. T \in SUBSET Nat
    BY <1>1
  <2>3. PICK n \in T : \A m \in T : n <= m
    <3> HIDE DEF T
    <3> QED
      BY <2>1, <2>2, LeastExists
  <2>4. CASE n = 0
    <3>1. g[0] = old
      BY <1>1, <1>4
    <3>2. Grown(old, old, o)
      BY FactsAreFacts DEF Grown
    <3> QED
      BY <2>3, <2>4, <3>1, <3>2
  <2>5. CASE n # 0
    <3>1. n - 1 \in 0..N /\ n \in 1..N /\ n - 1 \notin T
      BY <1>1, <2>3, <2>5
    <3>2. Grown(g[n - 1], old, o) /\ g[n] = Grow(o, new, g[n - 1], n, g[n - 1])
      BY <1>4, <2>5, <3>1
    <3>3. Grown(g[n], old, o)
      BY <3>1, <3>2, GrowKeeps
    <3> QED
      BY <2>3, <3>3
  <2> QED
    BY <2>4, <2>5
<1>6. N \in 0..N
  BY <1>1
<1> QED
  BY <1>2, <1>5, <1>6

(* The standings of facts are the numbers from 1 on, by falling confidence.  *)
Before(fs, i, j) ==
  fs[i].confidence > fs[j].confidence \/ (fs[i].confidence = fs[j].confidence /\ i <= j)

LEMMA StandingNumbers ==
  ASSUME NEW fs \in Seq(Facts)
  PROVE  /\ \A i \in 1..Len(fs) : Standing(fs, i) \in 1..Len(fs)
         /\ \A i, j \in 1..Len(fs) : Standing(fs, i) = Standing(fs, j) => i = j
         /\ \A i, j \in 1..Len(fs) : Standing(fs, i) < Standing(fs, j) => Before(fs, i, j)
         /\ \A r \in 1..Len(fs) : \E i \in 1..Len(fs) : Standing(fs, i) = r
<1> DEFINE D == 1..Len(fs)
           upto(i) == {j \in D : Before(fs, j, i)}
<1>1. /\ Len(fs) \in Nat /\ DOMAIN fs = D
      /\ \A i \in D : fs[i].confidence \in Nat /\ i \in Nat
  BY FactsAreFacts, ConstantsAssumption DEF ConstantsAssumption
<1>2. IsFiniteSet(D) /\ Cardinality(D) = Len(fs)
  BY <1>1, UpToIsFinite
<1>3. \A i : Standing(fs, i) = Cardinality(upto(i))
  <2> TAKE i
  <2>1. upto(i) = {j \in DOMAIN fs : \/ fs[j].confidence > fs[i].confidence
                                     \/ fs[j].confidence = fs[i].confidence /\ j <= i}
    BY <1>1 DEF Before
  <2> HIDE DEF upto
  <2> QED
    BY <2>1 DEF Standing
<1>4. \A i \in D : /\ IsFiniteSet(upto(i)) /\ Cardinality(upto(i)) \in Nat
                   /\ Cardinality(upto(i)) <= Len(fs)
  <2> TAKE i \in D
  <2>1. upto(i) \in SUBSET D
    OBVIOUS
  <2> HIDE DEF D, upto
  <2> QED
    BY <1>2, <2>1, FS_Subset, FS_CardinalityType
<1>5. \A i \in D : Cardinality(upto(i)) \in D
  <2> TAKE i \in D
  <2>1. i \in upto(i)
    BY <1>1 DEF Before
  <2>2. Cardinality(upto(i)) # 0
    <3> HIDE DEF upto
    <3> QED
      BY <1>4, <2>1, FS_EmptySet
  <2> HIDE DEF upto
  <2> QED
    BY <1>1, <1>4, <2>2
<1>6. ASSUME NEW i \in D, NEW j \in D, Before(fs, i, j), i # j
      PROVE  Cardinality(upto(i)) < Cardinality(upto(j))
  <2>1. \A m \in D : Before(fs, m, i) => Before(fs, m, j)
    BY <1>1, <1>6 DEF Before
  <2>2. Before(fs, j, j) /\ ~Before(fs, j, i)
    BY <1>1, <1>6 DEF Before
  <2>3. upto(i) \in SUBSET upto(j) /\ j \in upto(j) /\ j \notin upto(i)
    BY <2>1, <2>2
  <2> HIDE DEF upto, D
  <2>4. Cardinality(upto(i)) <= Cardinality(upto(j)) /\ Cardinality(upto(i)) # Cardinality(upto(j))
    BY <1>4, <2>3, FS_Subset
  <2> QED
    BY <1>4, <2>4
<1>7. \A i, j \in D : i = j \/ Before(fs, i, j) \/ Before(fs, j, i)
  <2> TAKE i, j \in D
  <2>1. i \in Nat /\ j \in Nat /\ fs[i].confidence \in Nat /\ fs[j].confidence \in Nat
    BY <1>1
  <2> QED
    BY <2>1 DEF Before
<1> DEFINE f == [i \in D |-> Cardinality(upto(i))]
<1> HIDE DEF upto
<1>8. \A i, j \in D : Cardinality(upto(i)) = Cardinality(upto(j)) => i = j
  BY <1>4, <1>6, <1>7
<1>9. \A i, j \in D : Cardinality(upto(i)) < Cardinality(upto(j)) => Before(fs, i, j)
  <2> SUFFICES ASSUME NEW i \in D, NEW j \in D, Cardinality(upto(i)) < Cardinality(upto(j)), ~Before(fs, i, j)
               PROVE  FALSE
    OBVIOUS
  <2>1. CASE i = j
    BY <1>4, <2>1
  <2>2. CASE i # j
    BY <1>4, <1>6, <1>7, <2>2
  <2> QED
    BY <2>1, <2>2
<1>10. f \in Injection(D, D)
  <2>1. f \in [D -> D]
    BY <1>5
  <2> QED
    BY <1>8, <2>1 DEF Injection, IsInjective
<1> HIDE DEF D
<1>11. f \in Surjection(D, D)
  BY <1>2, <1>10, FS_Injection
<1>12. \A r \in D : \E i \in D : f[i] = r
  BY <1>11 DEF Surjection
<1>13. \A i \in D : f[i] = Standing(fs, i)
  BY <1>3
<1>14. \A r \in D : \E i \in D : Standing(fs, i) = r
  BY <1>12, <1>13
<1> QED
  BY <1>3, <1>5, <1>8, <1>9, <1>14 DEF D

(* What is dropped for room is not more certain than anything kept.          *)
LEMMA TrimTakes ==
  ASSUME NEW fs \in Seq(Facts)
  PROVE  /\ Trim(fs) \in Seq(Facts) /\ Len(Trim(fs)) <= MaxFacts
         /\ \E f : /\ Takes(f, Trim(fs), fs, 1..Len(fs))
                   /\ \A i \in 1..Len(fs) :
                        \/ \E k \in 1..Len(Trim(fs)) : f[k] = i
                        \/ \A k \in 1..Len(Trim(fs)) : Trim(fs)[k].confidence >= fs[i].confidence
<1>1. /\ Len(fs) \in Nat /\ DOMAIN fs = 1..Len(fs) /\ MaxFacts \in Nat
      /\ \A i \in 1..Len(fs) : fs[i] \in Facts /\ fs[i].confidence \in Nat
  BY FactsAreFacts, ConstantsAssumption DEF ConstantsAssumption
<1>2. CASE Len(fs) <= MaxFacts
  <2> DEFINE f == [k \in 1..Len(fs) |-> k]
  <2>1. Trim(fs) = fs
    BY <1>2 DEF Trim
  <2>2. Takes(f, fs, fs, 1..Len(fs)) /\ \A i \in 1..Len(fs) : f[i] = i
    BY DEF Takes
  <2> HIDE DEF f
  <2> QED
    BY <1>2, <2>1, <2>2
<1>3. CASE ~(Len(fs) <= MaxFacts)
  <2> DEFINE D == 1..Len(fs)
             at(r) == CHOOSE i \in D : Standing(fs, i) = r
             f == [r \in 1..MaxFacts |-> at(r)]
             t == [r \in 1..MaxFacts |-> fs[at(r)]]
  <2>1. Trim(fs) = t
    BY <1>1, <1>3 DEF Trim
  <2>2. \A r \in 1..MaxFacts : r \in D
    BY <1>1, <1>3
  <2>3. \A r \in 1..MaxFacts : at(r) \in D /\ Standing(fs, at(r)) = r
    BY <2>2, StandingNumbers
  <2> HIDE DEF at
  <2>4. f \in [1..MaxFacts -> D] /\ \A r \in 1..MaxFacts : f[r] = at(r) /\ t[r] = fs[f[r]]
    BY <2>3
  <2>5. t \in [1..MaxFacts -> Facts]
    BY <1>1, <2>3
  <2> HIDE DEF t, f
  <2>6. t \in Seq(Facts) /\ Len(t) = MaxFacts
    <3>1. t \in Seq(Facts)
      BY <1>1, <2>5, SeqDef
    <3> QED
      BY <1>1, <2>5, <3>1, LenProperties
  <2>7. \A k, l \in 1..MaxFacts : f[k] = f[l] => k = l
    BY <2>3, <2>4
  <2>8. Takes(f, t, fs, D)
    BY <2>4, <2>6, <2>7 DEF Takes
  <2>9. ASSUME NEW i \in D, NEW k \in 1..MaxFacts, \A r \in 1..MaxFacts : f[r] # i
        PROVE  t[k].confidence >= fs[i].confidence
    <3>1. Standing(fs, i) \in D /\ at(k) \in D /\ Standing(fs, at(k)) = k
      BY <2>3, StandingNumbers
    <3>2. Standing(fs, i) \notin 1..MaxFacts
      <4>1. SUFFICES ASSUME Standing(fs, i) \in 1..MaxFacts PROVE FALSE
        OBVIOUS
      <4>2. Standing(fs, at(Standing(fs, i))) = Standing(fs, i) /\ at(Standing(fs, i)) \in D
        BY <2>3, <4>1
      <4>3. at(Standing(fs, i)) = i
        BY <4>2, StandingNumbers
      <4> QED
        BY <2>4, <2>9, <4>1, <4>3
    <3>3. Standing(fs, at(k)) < Standing(fs, i)
      BY <1>1, <3>1, <3>2
    <3>4. Before(fs, at(k), i)
      BY <3>1, <3>3, StandingNumbers
    <3>5. t[k] = fs[at(k)]
      BY <2>4
    <3> QED
      BY <1>1, <3>1, <3>4, <3>5 DEF Before
  <2> QED
    BY <1>1, <2>1, <2>6, <2>8, <2>9
<1> QED
  BY <1>2, <1>3

Makers(m) == {m.facts[i].id[1] : i \in DOMAIN m.facts}

GoodInput(in) == in.content \in Contents /\ in.new \in Seq(Proposals)

LEMMA MemoryParts ==
  ASSUME NEW m \in Memories
  PROVE  /\ m.summary \in Ops \union {None} /\ m.facts \in Seq(Facts)
         /\ Len(m.facts) \in Nat /\ DOMAIN m.facts = 1..Len(m.facts)
         /\ \A i \in 1..Len(m.facts) : m.facts[i] \in Facts
         /\ m = [summary |-> m.summary, facts |-> m.facts]
<1>1. m.summary \in Ops \union {None} /\ m.facts \in Seq(Facts) /\ m = [summary |-> m.summary, facts |-> m.facts]
  BY DEF Memories
<1> QED
  BY <1>1, FactsAreFacts

LEMMA MadeOf ==
  ASSUME NEW s, NEW fs \in Seq(Facts)
  PROVE  LET m == [summary |-> s, facts |-> fs] IN
         /\ s \in Ops \union {None} => m \in Memories
         /\ Makers(m) = {fs[i].id[1] : i \in 1..Len(fs)}
         /\ IdsOf(m) = {fs[i].id : i \in 1..Len(fs)}
BY FactsAreFacts DEF Memories, Makers, IdsOf

(* What is left of the facts of a memory has its makers among them.          *)
LEMMA TakesMakers ==
  ASSUME NEW t \in Seq(Facts), NEW s \in Seq(Facts), NEW I \in SUBSET (1..Len(s)), \E f : Takes(f, t, s, I)
  PROVE  {t[k].id[1] : k \in 1..Len(t)} \subseteq {s[i].id[1] : i \in 1..Len(s)}
<1>1. PICK f : Takes(f, t, s, I)
  OBVIOUS
<1>2. \A k \in 1..Len(t) : f[k] \in 1..Len(s) /\ t[k] = s[f[k]]
  BY <1>1 DEF Takes
<1> QED
  BY <1>2

(* An operation that replaces the facts.                                     *)
LEMMA FactsReplaced ==
  ASSUME NEW m \in Memories, NEW fs
  PROVE  [m EXCEPT !.facts = fs] = [summary |-> m.summary, facts |-> fs]
BY DEF Memories

(* The facts of an update: those it leaves, the best of them and the new     *)
(* ones, and of these what does not mention an upload.                       *)
Left(m, in)    == Selection(m.facts, {i \in DOMAIN m.facts : m.facts[i].id \notin in.remove})
Unloaded(fs)   == Selection(fs, {i \in DOMAIN fs : fs[i].content \notin Uploads})
More(m, o, in) == AddNew(Left(m, in), o, in.new)
Told(m, o, in) == Unloaded(Trim(More(m, o, in)))

LEMMA UpdateTells ==
  ASSUME NEW m \in Memories, NEW o \in Ops, NEW in
  PROVE  StripUploads(ApplyUpdates(m, o, in)) =
           [summary |-> IF in.summarise THEN o ELSE m.summary, facts |-> Told(m, o, in)]
<1> DEFINE su == IF in.summarise THEN o ELSE m.summary
           fs == Trim(More(m, o, in))
           r  == [summary |-> su, facts |-> fs]
<1>1. ApplyUpdates(m, o, in) = r
  BY DEF ApplyUpdates, More, Left
<1>2. StripUploads(r) = [r EXCEPT !.facts = Unloaded(r.facts)]
  BY DEF StripUploads, Unloaded
<1>3. r.facts = fs
  OBVIOUS
<1>4. StripUploads(r) = [r EXCEPT !.facts = Unloaded(fs)]
  <2> HIDE DEF r
  <2> QED
    BY <1>2, <1>3
<1>5. [r EXCEPT !.facts = Unloaded(fs)] = [summary |-> su, facts |-> Unloaded(fs)]
  OBVIOUS
<1> QED
  BY <1>1, <1>4, <1>5 DEF Told

LEMMA LeftTakes ==
  ASSUME NEW m \in Memories, NEW in
  PROVE  /\ Left(m, in) \in Seq(Facts)
         /\ \E f : /\ Takes(f, Left(m, in), m.facts, {i \in 1..Len(m.facts) : m.facts[i].id \notin in.remove})
                   /\ \A i \in 1..Len(m.facts) : m.facts[i].id \notin in.remove =>
                        \E k \in 1..Len(Left(m, in)) : f[k] = i
<1> DEFINE I == {i \in 1..Len(m.facts) : m.facts[i].id \notin in.remove}
<1>1. I \in SUBSET (1..Len(m.facts)) /\ m.facts \in Seq(Facts)
  BY MemoryParts
<1>2. \A i \in 1..Len(m.facts) : m.facts[i].id \notin in.remove => i \in I
  OBVIOUS
<1>3. DOMAIN m.facts = 1..Len(m.facts)
  BY MemoryParts
<1>4. Left(m, in) = Selection(m.facts, I)
  BY <1>3 DEF Left
<1> HIDE DEF I
<1>5. PICK f : Takes(f, Left(m, in), m.facts, I) /\ \A i \in I : \E k \in 1..Len(Left(m, in)) : f[k] = i
  BY <1>1, <1>4, SelectionTakes
<1> QED
  <2>1. Left(m, in) \in Seq(Facts)
    BY <1>1, <1>4, SelectionTakes
  <2>2. \A i \in 1..Len(m.facts) : m.facts[i].id \notin in.remove => \E k \in 1..Len(Left(m, in)) : f[k] = i
    BY <1>2, <1>5
  <2>3. Takes(f, Left(m, in), m.facts, {i \in 1..Len(m.facts) : m.facts[i].id \notin in.remove})
    BY <1>5 DEF I
  <2> QED
    BY <2>1, <2>2, <2>3

LEMMA MoreGrows ==
  ASSUME NEW m \in Memories, NEW o \in Ops, NEW in, GoodInput(in)
  PROVE  Grown(More(m, o, in), Left(m, in), o) /\ More(m, o, in) \in Seq(Facts)
<1>1. Left(m, in) \in Seq(Facts) /\ in.new \in Seq(Proposals)
  BY LeftTakes DEF GoodInput
<1>2. Grown(More(m, o, in), Left(m, in), o)
  BY <1>1, AddNewGrows DEF More
<1> QED
  BY <1>2 DEF Grown

(* What is left of a list of facts when it is cut to the best MaxFacts and   *)
(* rid of uploads.                                                           *)
LEMMA ToldTakes ==
  ASSUME NEW more \in Seq(Facts)
  PROVE  LET out == Unloaded(Trim(more)) IN
         /\ out \in Seq(Facts) /\ Len(out) <= MaxFacts
         /\ \E g : /\ Takes(g, out, more, 1..Len(more))
                   /\ \A k \in 1..Len(out) : out[k].content \notin Uploads
                   /\ \A a \in 1..Len(more) :
                        \/ \E k \in 1..Len(out) : g[k] = a
                        \/ more[a].content \in Uploads
                        \/ \A k \in 1..Len(out) : out[k].confidence >= more[a].confidence
<1> DEFINE fs  == Trim(more)
           J   == {i \in DOMAIN fs : fs[i].content \notin Uploads}
           out == Unloaded(fs)
<1>1. /\ fs \in Seq(Facts) /\ Len(fs) <= MaxFacts
  BY TrimTakes
<1>2. PICK f : /\ Takes(f, fs, more, 1..Len(more))
               /\ \A i \in 1..Len(more) :
                    \/ \E k \in 1..Len(fs) : f[k] = i
                    \/ \A k \in 1..Len(fs) : fs[k].confidence >= more[i].confidence
  BY TrimTakes
<1>3. J \in SUBSET (1..Len(fs)) /\ \A i \in 1..Len(fs) : i \in J <=> fs[i].content \notin Uploads
  BY <1>1, FactsAreFacts
<1>4. out = Selection(fs, J)
  BY DEF Unloaded
<1> HIDE DEF fs, J, out
<1>5. /\ out \in Seq(Facts) /\ Len(out) <= Len(fs)
  BY <1>1, <1>3, <1>4, SelectionTakes
<1>6. PICK h : Takes(h, out, fs, J) /\ \A i \in J : \E k \in 1..Len(out) : h[k] = i
  BY <1>1, <1>3, <1>4, SelectionTakes
<1>7. Len(out) \in Nat /\ Len(fs) \in Nat /\ Len(out) <= MaxFacts
  BY <1>1, <1>5, FactsAreFacts, ConstantsAssumption DEF ConstantsAssumption
<1>8. \A k \in 1..Len(out) : h[k] \in J /\ h[k] \in 1..Len(fs) /\ out[k] = fs[h[k]]
  BY <1>3, <1>6 DEF Takes
<1>9. \A k \in 1..Len(fs) : f[k] \in 1..Len(more) /\ fs[k] = more[f[k]]
  BY <1>2 DEF Takes
<1> DEFINE g == [k \in 1..Len(out) |-> f[h[k]]]
<1>10. g \in [1..Len(out) -> 1..Len(more)] /\ \A k \in 1..Len(out) : g[k] = f[h[k]]
  BY <1>8, <1>9
<1> HIDE DEF g
<1>11. \A k, l \in 1..Len(out) : g[k] = g[l] => k = l
  BY <1>2, <1>6, <1>8, <1>10 DEF Takes
<1>12. Takes(g, out, more, 1..Len(more))
  <2>1. \A k \in 1..Len(out) : out[k] = more[g[k]]
    BY <1>8, <1>9, <1>10
  <2> QED
    BY <1>10, <1>11, <2>1 DEF Takes
<1>13. \A k \in 1..Len(out) : out[k].content \notin Uploads
  BY <1>3, <1>8
<1>14. ASSUME NEW a \in 1..Len(more), more[a].content \notin Uploads, \A k \in 1..Len(out) : g[k] # a
       PROVE  \A k \in 1..Len(out) : out[k].confidence >= more[a].confidence
  <2>1. \A l \in 1..Len(fs) : f[l] # a
    <3> SUFFICES ASSUME NEW l \in 1..Len(fs), f[l] = a PROVE FALSE
      OBVIOUS
    <3>1. l \in J
      BY <1>3, <1>9, <1>14
    <3>2. PICK k \in 1..Len(out) : h[k] = l
      BY <1>6, <3>1
    <3> QED
      BY <1>10, <1>14, <3>2
  <2>2. \A l \in 1..Len(fs) : fs[l].confidence >= more[a].confidence
    BY <1>2, <2>1
  <2> QED
    BY <1>8, <2>2
<1> QED
  BY <1>5, <1>7, <1>12, <1>13, <1>14 DEF fs, out

(* A memory stays one, and only the operation itself adds facts to it.       *)
LEMMA ChangedIsMemory ==
  ASSUME NEW m \in Memories, NEW o \in Ops, NEW in, GoodInput(in),
         kind[o] \in {"update", "create", "foreign", "delete", "edit", "import", "clear"}
  PROVE  /\ Changed(m, o, in) \in Memories
         /\ Makers(Changed(m, o, in)) \subseteq Makers(m) \union {o}
         /\ kind[o] = "import" => Makers(Changed(m, o, in)) = {}
<1>1. CASE kind[o] = "update"
  <2> DEFINE left == Left(m, in)
             more == More(m, o, in)
             out  == Told(m, o, in)
             su   == IF in.summarise THEN o ELSE m.summary
  <2>1. Changed(m, o, in) = [summary |-> su, facts |-> out]
    BY <1>1, UpdateTells DEF Changed
  <2>2. left \in Seq(Facts) /\ \E f : Takes(f, left, m.facts, 1..Len(m.facts))
    <3>1. PICK f : Takes(f, left, m.facts, {i \in 1..Len(m.facts) : m.facts[i].id \notin in.remove})
      BY LeftTakes
    <3>2. Takes(f, left, m.facts, 1..Len(m.facts))
      BY <3>1 DEF Takes
    <3> QED
      BY <3>2, LeftTakes
  <2>3. Grown(more, left, o) /\ more \in Seq(Facts)
    BY MoreGrows
  <2>4. out \in Seq(Facts) /\ \E f : Takes(f, out, more, 1..Len(more))
    BY <2>3, ToldTakes DEF Told
  <2>5. su \in Ops \union {None} /\ m.facts \in Seq(Facts)
    BY MemoryParts
  <2> HIDE DEF left, more, out, su
  <2>6. /\ {out[k].id[1] : k \in 1..Len(out)} \subseteq {more[k].id[1] : k \in 1..Len(more)}
        /\ {left[k].id[1] : k \in 1..Len(left)} \subseteq {m.facts[k].id[1] : k \in 1..Len(m.facts)}
    BY <2>2, <2>3, <2>4, <2>5, TakesMakers
  <2>7. {more[k].id[1] : k \in 1..Len(more)} \subseteq {left[k].id[1] : k \in 1..Len(left)} \union {o}
    <3> SUFFICES ASSUME NEW k \in 1..Len(more), more[k].id[1] # o
                 PROVE  \E l \in 1..Len(left) : more[k].id[1] = left[l].id[1]
      OBVIOUS
    <3>1. Len(left) \in Nat /\ Len(more) \in Nat
      BY <2>2, <2>3, FactsAreFacts
    <3>2. k \in 1..Len(left)
      BY <2>3, <3>1 DEF Grown
    <3> QED
      BY <2>3, <3>2 DEF Grown
  <2>8. Makers(m) = {m.facts[k].id[1] : k \in 1..Len(m.facts)}
    BY MemoryParts DEF Makers
  <2>9. /\ [summary |-> su, facts |-> out] \in Memories
        /\ Makers([summary |-> su, facts |-> out]) = {out[k].id[1] : k \in 1..Len(out)}
    BY <2>4, <2>5, MadeOf
  <2> QED
    BY <1>1, <2>1, <2>6, <2>7, <2>8, <2>9
<1>2. CASE kind[o] \in {"create", "foreign"}
  <2> DEFINE f == Fact(o, 0, [content |-> in.content, confidence |-> Threshold])
             fs == Append(m.facts, f)
  <2>1. Changed(m, o, in) = [summary |-> m.summary, facts |-> fs]
    BY <1>2, FactsReplaced DEF Changed
  <2>2. f \in Facts /\ f.id = <<o, 0>>
    <3>1. [content |-> in.content, confidence |-> Threshold] \in Proposals
      BY ConstantsAssumption DEF GoodInput, Proposals, Confidences, ConstantsAssumption
    <3> QED
      BY <3>1, FactIsFact
  <2> HIDE DEF f
  <2>3. /\ fs \in Seq(Facts) /\ Len(fs) = Len(m.facts) + 1 /\ Len(m.facts) \in Nat
        /\ \A i \in 1..Len(m.facts) : fs[i] = m.facts[i]
        /\ fs[Len(m.facts) + 1] = f
    BY <2>2, MemoryParts, AppendProperties
  <2> HIDE DEF fs
  <2>4. {fs[k].id[1] : k \in 1..Len(fs)} \subseteq {m.facts[k].id[1] : k \in 1..Len(m.facts)} \union {o}
    <3> SUFFICES ASSUME NEW k \in 1..Len(fs), fs[k].id[1] # o
                 PROVE  \E l \in 1..Len(m.facts) : fs[k].id[1] = m.facts[l].id[1]
      OBVIOUS
    <3>1. k # Len(m.facts) + 1
      BY <2>2, <2>3
    <3>2. k \in 1..Len(m.facts)
      BY <2>3, <3>1
    <3> QED
      BY <2>3, <3>2
  <2>5. Makers(m) = {m.facts[k].id[1] : k \in 1..Len(m.facts)}
    BY MemoryParts DEF Makers
  <2>6. /\ [summary |-> m.summary, facts |-> fs] \in Memories
        /\ Makers([summary |-> m.summary, facts |-> fs]) = {fs[k].id[1] : k \in 1..Len(fs)}
    BY <2>3, MemoryParts, MadeOf
  <2> QED
    BY <1>2, <2>1, <2>4, <2>5, <2>6
<1>3. CASE kind[o] = "delete"
  <2> DEFINE I == {i \in DOMAIN m.facts : m.facts[i].id # in.id}
             fs == Selection(m.facts, I)
  <2>1. Changed(m, o, in) = [summary |-> m.summary, facts |-> fs]
    BY <1>3, FactsReplaced DEF Changed
  <2>2. I \in SUBSET (1..Len(m.facts)) /\ m.facts \in Seq(Facts)
    BY MemoryParts
  <2> HIDE DEF I
  <2>3. fs \in Seq(Facts) /\ \E f : Takes(f, fs, m.facts, I)
    BY <2>2, SelectionTakes
  <2> HIDE DEF fs
  <2>4. {fs[k].id[1] : k \in 1..Len(fs)} \subseteq {m.facts[k].id[1] : k \in 1..Len(m.facts)}
    BY <2>2, <2>3, TakesMakers
  <2>5. Makers(m) = {m.facts[k].id[1] : k \in 1..Len(m.facts)}
    BY MemoryParts DEF Makers
  <2>6. /\ [summary |-> m.summary, facts |-> fs] \in Memories
        /\ Makers([summary |-> m.summary, facts |-> fs]) = {fs[k].id[1] : k \in 1..Len(fs)}
    BY <2>3, MemoryParts, MadeOf
  <2> QED
    BY <1>3, <2>1, <2>4, <2>5, <2>6
<1>4. CASE kind[o] = "edit"
  <2> DEFINE fs == [i \in DOMAIN m.facts |->
                      IF m.facts[i].id = in.id THEN [m.facts[i] EXCEPT !.content = in.content] ELSE m.facts[i]]
  <2>1. Changed(m, o, in) = [summary |-> m.summary, facts |-> fs]
    BY <1>4, FactsReplaced DEF Changed
  <2>2. \A i \in 1..Len(m.facts) : fs[i] \in Facts /\ fs[i].id = m.facts[i].id
    BY MemoryParts DEF Facts, GoodInput
  <2>3. fs \in [1..Len(m.facts) -> Facts]
    BY <2>2, MemoryParts
  <2> HIDE DEF fs
  <2>4. fs \in Seq(Facts)
    BY <2>3, MemoryParts, SeqDef
  <2>5. Len(fs) = Len(m.facts)
    BY <2>3, <2>4, MemoryParts, LenProperties
  <2>6. Makers(m) = {fs[k].id[1] : k \in 1..Len(fs)}
    BY <2>2, <2>5, MemoryParts DEF Makers
  <2>7. /\ [summary |-> m.summary, facts |-> fs] \in Memories
        /\ Makers([summary |-> m.summary, facts |-> fs]) = {fs[k].id[1] : k \in 1..Len(fs)}
    BY <2>4, MemoryParts, MadeOf
  <2> QED
    BY <1>4, <2>1, <2>6, <2>7
<1>5. CASE kind[o] \in {"import", "clear"}
  <2>1. Changed(m, o, in) \in {[summary |-> o, facts |-> <<>>], [summary |-> None, facts |-> <<>>]}
    BY <1>5 DEF Changed, Empty
  <2>2. <<>> \in Seq(Facts) /\ 1..Len(<<>>) = {}
    OBVIOUS
  <2>3. \A s \in Ops \union {None} :
          [summary |-> s, facts |-> <<>>] \in Memories /\ Makers([summary |-> s, facts |-> <<>>]) = {}
    BY <2>2, MadeOf
  <2> QED
    BY <2>1, <2>3
<1> QED
  BY <1>1, <1>2, <1>3, <1>4, <1>5

(* What an update saves is bounded as it should be, if none of the facts it  *)
(* loaded is its own.                                                        *)
Bounded(m, in, out) ==
  /\ Len(out) <= MaxFacts
  /\ \A i \in 1..Len(out) : out[i].id \notin in.remove /\ out[i].content \notin Uploads
  /\ \A i, j \in 1..Len(out) : i # j /\ out[i].content = out[j].content =>
       {out[i].id, out[j].id} \subseteq IdsOf(m)
  /\ \A i \in 1..Len(m.facts) :
       \/ \E k \in 1..Len(out) : out[k].id = m.facts[i].id
       \/ m.facts[i].id \in in.remove \/ m.facts[i].content \in Uploads
       \/ \A k \in 1..Len(out) : out[k].confidence >= m.facts[i].confidence

LEMMA ToldIsBounded ==
  ASSUME NEW m \in Memories, NEW o \in Ops, NEW in, GoodInput(in), in.remove \subseteq IdsOf(m),
         o \notin Makers(m)
  PROVE  Bounded(m, in, Told(m, o, in))
<1> DEFINE left == Left(m, in)
           more == More(m, o, in)
           out  == Told(m, o, in)
<1>1. Grown(more, left, o) /\ more \in Seq(Facts) /\ left \in Seq(Facts)
  BY MoreGrows, LeftTakes
<1>2. PICK f : /\ Takes(f, left, m.facts, {i \in 1..Len(m.facts) : m.facts[i].id \notin in.remove})
               /\ \A i \in 1..Len(m.facts) : m.facts[i].id \notin in.remove =>
                    \E k \in 1..Len(left) : f[k] = i
  BY LeftTakes
<1>3. out \in Seq(Facts) /\ Len(out) <= MaxFacts
  BY <1>1, ToldTakes DEF Told
<1>4. PICK g : /\ Takes(g, out, more, 1..Len(more))
               /\ \A k \in 1..Len(out) : out[k].content \notin Uploads
               /\ \A a \in 1..Len(more) :
                    \/ \E k \in 1..Len(out) : g[k] = a
                    \/ more[a].content \in Uploads
                    \/ \A k \in 1..Len(out) : out[k].confidence >= more[a].confidence
  BY <1>1, ToldTakes DEF Told
<1> HIDE DEF left, more, out
<1>5. Len(left) \in Nat /\ Len(more) \in Nat /\ Len(left) <= Len(more)
  BY <1>1, FactsAreFacts DEF Grown
<1>6. \A k \in 1..Len(left) : /\ f[k] \in 1..Len(m.facts) /\ left[k] = m.facts[f[k]]
                              /\ left[k].id \notin in.remove
  BY <1>2 DEF Takes
<1>7. \A k \in 1..Len(out) : g[k] \in 1..Len(more) /\ out[k] = more[g[k]]
  BY <1>4 DEF Takes
<1>8. \A a \in 1..Len(left) : a \in 1..Len(more) /\ more[a] = left[a]
  BY <1>1, <1>5 DEF Grown
<1>9. /\ IdsOf(m) = {m.facts[i].id : i \in 1..Len(m.facts)}
      /\ Makers(m) = {m.facts[i].id[1] : i \in 1..Len(m.facts)}
  BY MemoryParts DEF IdsOf, Makers
<1>10. ASSUME NEW a \in 1..Len(more), a \notin 1..Len(left)
       PROVE  /\ more[a].id \notin in.remove
              /\ \A b \in 1..Len(more) : more[b].content = more[a].content => b = a
  <2>1. a > Len(left)
    BY <1>5, <1>10
  <2>2. more[a].id[1] = o
    BY <1>1, <2>1 DEF Grown
  <2>3. more[a].id \notin IdsOf(m)
    BY <1>9, <2>2
  <2> QED
    BY <1>1, <2>1, <2>3 DEF Grown
<1>11. ASSUME NEW k \in 1..Len(out) PROVE out[k].id \notin in.remove
  BY <1>6, <1>7, <1>8, <1>10
<1>12. ASSUME NEW i \in 1..Len(out), NEW j \in 1..Len(out), i # j, out[i].content = out[j].content
       PROVE  {out[i].id, out[j].id} \subseteq IdsOf(m)
  <2>1. g[i] # g[j] /\ more[g[i]].content = more[g[j]].content
    BY <1>4, <1>7, <1>12 DEF Takes
  <2>2. g[i] \in 1..Len(left) /\ g[j] \in 1..Len(left)
    BY <1>7, <1>10, <2>1
  <2>3. out[i] = left[g[i]] /\ out[j] = left[g[j]]
    BY <1>7, <1>8, <2>2
  <2> QED
    <3>1. \A k \in 1..Len(left) : left[k].id \in IdsOf(m)
      BY <1>6, <1>9
    <3> QED
      BY <2>2, <2>3, <3>1
<1>13. ASSUME NEW i \in 1..Len(m.facts), m.facts[i].id \notin in.remove, m.facts[i].content \notin Uploads,
              \A k \in 1..Len(out) : out[k].id # m.facts[i].id
       PROVE  \A k \in 1..Len(out) : out[k].confidence >= m.facts[i].confidence
  <2>1. PICK a \in 1..Len(left) : f[a] = i
    BY <1>2, <1>13
  <2>2. a \in 1..Len(more) /\ more[a] = m.facts[i]
    BY <1>6, <1>8, <2>1
  <2>3. \A k \in 1..Len(out) : g[k] # a
    BY <1>7, <1>13, <2>2
  <2> QED
    BY <1>4, <1>13, <2>2, <2>3
<1> QED
  BY <1>3, <1>4, <1>11, <1>12, <1>13 DEF Bounded, out

-----------------------------------------------------------------------------

Places == {"idle", "stat", "lookup", "read", "fill", "change", "replace", "cache", "done"}
Saving == {"import", "clear", "foreign"}

(* As much of the types as the proofs need: nothing about memories.          *)
Types ==
  /\ mtime \in Nat /\ overlapped \in BOOLEAN
  /\ DOMAIN cache = Keys
  /\ \A k \in Keys : cache[k] # None =>
       /\ cache[k] = [data |-> cache[k].data, mtime |-> cache[k].mtime, by |-> cache[k].by]
       /\ cache[k].mtime \in Nat /\ cache[k].mtime <= mtime
  /\ kind \in [Ops -> Kinds \union {"get", None}] /\ key \in [Ops -> Keys \union {None}]
  /\ pc \in [Ops -> Places] /\ stamp \in [Ops -> Nat]
  /\ DOMAIN base = Ops /\ DOMAIN input = Ops /\ DOMAIN data = Ops

(* What an operation knows of the file where it is.                          *)
OpInv(o) ==
  /\ pc[o] \notin {"idle", "done"} => key[o] \in Keys
  /\ stamp[o] <= mtime
  /\ pc[o] \in {"stat", "lookup", "read", "fill"} => kind[o] \notin Saving
  /\ pc[o] = "fill" /\ kind[o] # "reload" /\ stamp[o] = mtime => base[o] = file

(* Before any two operations overlap.                                        *)
AtWork == {o \in Ops : pc[o] \notin {"idle", "done"}}
SerialInv ==
  ~overlapped =>
    /\ \A o, p \in AtWork : o = p
    /\ file = expected
    /\ \A k \in Keys : cache[k] # None /\ cache[k].mtime = mtime => cache[k].data = file
    /\ \A o \in Ops :
         /\ pc[o] = "lookup" => stamp[o] = mtime
         /\ pc[o] \in {"fill", "change"} /\ kind[o] \notin Saving => base[o] = file
         /\ pc[o] = "replace" /\ kind[o] # "foreign" => data[o] = Changed(file, o, input[o])
         /\ pc[o] = "cache" => data[o] = file

Inv == Types /\ (\A o \in Ops : OpInv(o)) /\ LoadedEntryIsCurrent /\ SerialInv

-----------------------------------------------------------------------------

LEMMA InitInv == Init => Inv
<1> SUFFICES ASSUME Init PROVE Inv
  OBVIOUS
<1>1. Types
  BY DEF Init, Types, Places
<1>2. ASSUME NEW o \in Ops PROVE OpInv(o)
  BY DEF Init, OpInv
<1>3. LoadedEntryIsCurrent /\ SerialInv
  BY DEF Init, LoadedEntryIsCurrent, SerialInv, AtWork
<1> QED
  BY <1>1, <1>2, <1>3 DEF Inv

(* What a step does to the operation that makes it and to everybody else.    *)
Others(o) ==
  \A p \in Ops : p # o =>
    /\ kind'[p] = kind[p] /\ key'[p] = key[p] /\ pc'[p] = pc[p] /\ stamp'[p] = stamp[p]
    /\ base'[p] = base[p] /\ input'[p] = input[p] /\ data'[p] = data[p]

LEMMA OthersKeep ==
  ASSUME Types, NEW o \in Ops,
         \/ \E what \in Kinds, k \in Keys : Start(o, what, k)
         \/ Stat(o) \/ Lookup(o) \/ ReadFile(o) \/ Fill(o) \/ Change(o) \/ Reject(o)
         \/ Replace(o) \/ SaveFails(o) \/ CacheSaved(o)
  PROVE  Others(o)
BY DEF Others, Types, Start, Stat, Lookup, ReadFile, Fill, Change, Reject, Replace, SaveFails,
   CacheSaved, Loaded, Saved, Return, Goto

LEMMA TypesStep == Types /\ (\A o \in Ops : OpInv(o)) /\ [Next]_vars => Types'
<1> SUFFICES ASSUME Types, \A o \in Ops : OpInv(o), [Next]_vars PROVE Types'
  OBVIOUS
<1> USE DEF Types, Places, Goto
<1>1. ASSUME NEW o \in Ops, NEW what \in Kinds, NEW k \in Keys, Start(o, what, k) PROVE Types'
  BY <1>1 DEF Start, fileVars
<1>2. ASSUME NEW o \in Ops, Stat(o) PROVE Types'
  BY <1>2 DEF Stat, fileVars, history
<1>3. ASSUME NEW o \in Ops, Lookup(o) PROVE Types'
  BY <1>3 DEF Lookup, Loaded, Return, fileVars, history
<1>4. ASSUME NEW o \in Ops, ReadFile(o) PROVE Types'
  BY <1>4 DEF ReadFile, fileVars, history
<1>5. ASSUME NEW o \in Ops, Fill(o) PROVE Types'
  BY <1>5 DEF Fill, Put, Loaded, Return, OpInv, fileVars, history
<1>6. ASSUME NEW o \in Ops, Change(o) PROVE Types'
  BY <1>6 DEF Change, fileVars, history
<1>7. ASSUME NEW o \in Ops, Reject(o) \/ SaveFails(o) PROVE Types'
  BY <1>7 DEF Reject, SaveFails, Return, fileVars, history
<1>8. ASSUME NEW o \in Ops, Replace(o) PROVE Types'
  BY <1>8 DEF Replace, Return
<1>9. ASSUME NEW o \in Ops, CacheSaved(o) PROVE Types'
  BY <1>9 DEF CacheSaved, Put, Saved, Return, fileVars, history
<1>10. CASE UNCHANGED vars
  BY <1>10 DEF vars, fileVars, opVars, history
<1> QED
  BY <1>1, <1>2, <1>3, <1>4, <1>5, <1>6, <1>7, <1>8, <1>9, <1>10 DEF Next

(* What lies behind the cache and the modification times: a memory was read  *)
(* after the time it is cached with.                                         *)
LEMMA OpStep == Inv /\ [Next]_vars => \A q \in Ops : OpInv(q)'
<1> SUFFICES ASSUME Inv, [Next]_vars, NEW q \in Ops PROVE OpInv(q)'
  OBVIOUS
<1>a. Types /\ OpInv(q)
  BY DEF Inv
<1>b. \A o \in Ops : Others(o) /\ o # q => kind'[q] = kind[q] /\ key'[q] = key[q] /\ pc'[q] = pc[q]
                                        /\ stamp'[q] = stamp[q] /\ base'[q] = base[q]
  BY DEF Others
<1> USE DEF OpInv, Saving
<1>1. ASSUME NEW o \in Ops, o # q, UNCHANGED fileVars, Others(o) PROVE OpInv(q)'
  BY <1>a, <1>b, <1>1 DEF fileVars
<1>2. ASSUME NEW o \in Ops, o # q, mtime' = mtime + 1, Others(o) PROVE OpInv(q)'
  BY <1>a, <1>b, <1>2 DEF Types
<1> USE <1>a DEF Types, Places, Goto
<1>3. ASSUME NEW what \in Kinds, NEW k \in Keys, Start(q, what, k) PROVE OpInv(q)'
  BY <1>3 DEF Start, fileVars
<1>4. CASE Stat(q)
  BY <1>4 DEF Stat, fileVars
<1>5. CASE Lookup(q)
  BY <1>5 DEF Lookup, Loaded, Return, fileVars
<1>6. CASE ReadFile(q)
  BY <1>6 DEF ReadFile, fileVars
<1>7. CASE Fill(q)
  BY <1>7 DEF Fill, Loaded, Return, fileVars
<1>8. CASE Change(q) \/ Reject(q) \/ SaveFails(q)
  BY <1>8 DEF Change, Reject, SaveFails, Return, fileVars
<1>9. CASE Replace(q)
  BY <1>9 DEF Replace, Return
<1>10. CASE CacheSaved(q)
  BY <1>10 DEF CacheSaved, Saved, Return, fileVars
<1>11. CASE UNCHANGED vars
  BY <1>11 DEF vars, fileVars, opVars
<1>12. ASSUME NEW o \in Ops, o # q,
              \/ \E what \in Kinds, k \in Keys : Start(o, what, k)
              \/ Stat(o) \/ Lookup(o) \/ ReadFile(o) \/ Fill(o) \/ Change(o) \/ Reject(o)
              \/ Replace(o) \/ SaveFails(o) \/ CacheSaved(o)
       PROVE  OpInv(q)'
  <2>1. Others(o)
    BY <1>12, OthersKeep
  <2>2. UNCHANGED fileVars \/ mtime' = mtime + 1
    BY <1>12 DEF Start, Stat, Lookup, ReadFile, Fill, Change, Reject, Replace, SaveFails, CacheSaved
  <2> HIDE <1>a DEF OpInv, Types
  <2> QED
    BY <1>1, <1>2, <1>12, <2>1, <2>2
<1> QED
  BY <1>3, <1>4, <1>5, <1>6, <1>7, <1>8, <1>9, <1>10, <1>11, <1>12 DEF Next

LEMMA CacheStep == Inv /\ [Next]_vars => LoadedEntryIsCurrent'
<1> SUFFICES ASSUME Inv, [Next]_vars PROVE LoadedEntryIsCurrent'
  OBVIOUS
<1>a. Types /\ LoadedEntryIsCurrent
  BY DEF Inv
<1> USE DEF LoadedEntryIsCurrent
<1>1. CASE UNCHANGED <<fileVars, cache>>
  BY <1>a, <1>1 DEF fileVars
<1>2. ASSUME NEW o \in Ops, Fill(o) PROVE LoadedEntryIsCurrent'
  <2>1. UNCHANGED fileVars /\ OpInv(o) /\ pc[o] = "fill"
    BY <1>2 DEF Fill, Inv
  <2>2. CASE kind[o] = "reload"
    <3>1. cache' = [cache EXCEPT ![key[o]] = [data |-> base[o], mtime |-> mtime, by |-> "reload"]]
      BY <1>2, <2>2 DEF Fill, Put
    <3> QED
      BY <1>a, <2>1, <3>1 DEF fileVars, Types
  <2>3. CASE kind[o] # "reload"
    <3>1. cache' = [cache EXCEPT ![key[o]] = [data |-> base[o], mtime |-> stamp[o], by |-> "load"]]
      BY <1>2, <2>3 DEF Fill, Put
    <3> QED
      BY <1>a, <2>1, <2>3, <3>1 DEF fileVars, Types, OpInv
  <2> QED
    BY <2>2, <2>3
<1>3. ASSUME NEW o \in Ops, CacheSaved(o) PROVE LoadedEntryIsCurrent'
  <2>1. /\ cache' = [cache EXCEPT ![key[o]] = [data |-> data[o], mtime |-> mtime, by |-> "save"]]
        /\ UNCHANGED fileVars
    BY <1>3 DEF CacheSaved, Put
  <2> QED
    BY <1>a, <2>1 DEF fileVars, Types
<1>4. ASSUME NEW o \in Ops, Replace(o) PROVE LoadedEntryIsCurrent'
  <2>1. mtime' = mtime + 1 /\ cache' = cache
    BY <1>4 DEF Replace
  <2> QED
    BY <1>a, <2>1 DEF Types
<1> QED
  BY <1>1, <1>2, <1>3, <1>4 DEF Next, vars, history, Start, Stat, Lookup, ReadFile, Change, Reject, SaveFails

-----------------------------------------------------------------------------

(* What an operation makes of a memory depends on its kind, and not on the   *)
(* memory if it does not load.                                               *)
LEMMA ChangedKeeps ==
  ASSUME NEW o \in Ops, kind'[o] = kind[o]
  PROVE  Changed(file, o, input[o])' = Changed(file', o, input'[o])
BY DEF Changed

LEMMA ChangedAnew ==
  ASSUME NEW o \in Ops, kind[o] \in {"import", "clear"}, NEW m, NEW n, NEW in
  PROVE  Changed(m, o, in) = Changed(n, o, in)
BY DEF Changed

LEMMA SerialStep == Inv /\ [Next]_vars => SerialInv'
<1> SUFFICES ASSUME Inv, [Next]_vars, ~overlapped' PROVE SerialInv'
  BY DEF SerialInv
<1>a. Types /\ Types'
  BY TypesStep DEF Inv
<1>b. ~overlapped
  BY <1>a DEF Next, vars, history, Start, Stat, Lookup, ReadFile, Fill, Change, Reject, Replace,
     SaveFails, CacheSaved, Types
<1>c. /\ \A o, p \in AtWork : o = p
      /\ file = expected
      /\ \A k \in Keys : cache[k] # None /\ cache[k].mtime = mtime => cache[k].data = file
      /\ \A o \in Ops :
           /\ pc[o] = "lookup" => stamp[o] = mtime
           /\ pc[o] \in {"fill", "change"} /\ kind[o] \notin Saving => base[o] = file
           /\ pc[o] = "replace" /\ kind[o] # "foreign" => data[o] = Changed(file, o, input[o])
           /\ pc[o] = "cache" => data[o] = file
  BY <1>b DEF Inv, SerialInv
<1>d. ASSUME NEW o \in Ops, Others(o), pc[o] \notin {"idle", "done"} \/ ~Busy,
             file' = expected',
             \A k \in Keys : cache'[k] # None /\ cache'[k].mtime = mtime' => cache'[k].data = file',
             pc'[o] = "lookup" => stamp'[o] = mtime',
             pc'[o] \in {"fill", "change"} /\ kind'[o] \notin Saving => base'[o] = file',
             pc'[o] = "replace" /\ kind'[o] # "foreign" => data'[o] = Changed(file, o, input[o])',
             pc'[o] = "cache" => data'[o] = file'
      PROVE  SerialInv'
  <2>1. \A q \in Ops : q # o => pc[q] \in {"idle", "done"}
    BY <1>c, <1>d DEF AtWork, Busy
  <2>2. \A q \in Ops : q # o => pc'[q] \in {"idle", "done"}
    BY <1>d, <2>1 DEF Others
  <2>3. \A q, p \in AtWork' : q = p
    BY <2>2 DEF AtWork
  <2>4. \A q \in Ops :
          /\ pc'[q] = "lookup" => stamp'[q] = mtime'
          /\ pc'[q] \in {"fill", "change"} /\ kind'[q] \notin Saving => base'[q] = file'
          /\ pc'[q] = "replace" /\ kind'[q] # "foreign" => data'[q] = Changed(file, q, input[q])'
          /\ pc'[q] = "cache" => data'[q] = file'
    BY <1>d, <2>2
  <2> QED
    BY <1>d, <2>3, <2>4 DEF SerialInv
<1>e. ASSUME NEW o \in Ops, UNCHANGED <<fileVars, cache, history>>
      PROVE  /\ file' = expected' /\ mtime' = mtime /\ file' = file
             /\ \A k \in Keys : cache'[k] # None /\ cache'[k].mtime = mtime' => cache'[k].data = file'
  BY <1>c, <1>e DEF fileVars, history
<1>1. ASSUME NEW o \in Ops, NEW what \in Kinds, NEW k \in Keys, Start(o, what, k) PROVE SerialInv'
  <2>1. ~Busy /\ UNCHANGED <<file, mtime, cache, expected>>
    BY <1>1, <1>a DEF Start, fileVars, Types
  <2>2. pc'[o] \in {"stat", "read", "change"} /\ (pc'[o] = "change" => kind'[o] \in Saving)
    BY <1>1, <1>a DEF Start, Goto, Types, Saving
  <2> QED
    BY <1>1, <1>a, <1>c, <1>d, <2>1, <2>2, OthersKeep
<1>2. ASSUME NEW o \in Ops, Stat(o) PROVE SerialInv'
  <2>1. /\ pc[o] = "stat" /\ pc'[o] = "lookup" /\ stamp'[o] = mtime /\ UNCHANGED <<fileVars, cache, history>>
    BY <1>2, <1>a DEF Stat, Goto, Types
  <2> QED
    BY <1>2, <1>a, <1>d, <1>e, <2>1, OthersKeep
<1>3. ASSUME NEW o \in Ops, Lookup(o) PROVE SerialInv'
  <2>1. pc[o] = "lookup" /\ UNCHANGED <<fileVars, cache, history>> /\ key[o] \in Keys
    BY <1>3 DEF Lookup, Inv, OpInv
  <2>2. \/ pc'[o] \in {"done", "read"}
        \/ /\ cache[key[o]] # None /\ cache[key[o]].mtime = stamp[o]
           /\ pc'[o] = "change" /\ base'[o] = cache[key[o]].data
    BY <1>3, <1>a DEF Lookup, Loaded, Return, Goto, Types
  <2>3. pc'[o] = "change" => base'[o] = file
    BY <1>c, <2>1, <2>2
  <2> QED
    BY <1>3, <1>a, <1>d, <1>e, <2>1, <2>2, <2>3, OthersKeep
<1>4. ASSUME NEW o \in Ops, ReadFile(o) PROVE SerialInv'
  <2>1. pc[o] = "read" /\ pc'[o] = "fill" /\ base'[o] = file /\ UNCHANGED <<fileVars, cache, history>>
    BY <1>4, <1>a DEF ReadFile, Goto, Types
  <2> QED
    BY <1>4, <1>a, <1>d, <1>e, <2>1, OthersKeep
<1>5. ASSUME NEW o \in Ops, Fill(o) PROVE SerialInv'
  <2>1. pc[o] = "fill" /\ UNCHANGED <<fileVars, history>> /\ key[o] \in Keys /\ base[o] = file
    BY <1>5, <1>c DEF Fill, Inv, OpInv
  <2>2. pc'[o] = "done" \/ (pc'[o] = "change" /\ base'[o] = base[o])
    BY <1>5, <1>a DEF Fill, Loaded, Return, Goto, Types
  <2>3. \A k \in Keys : cache'[k] = cache[k] \/ cache'[k].data = file
    BY <1>5, <1>a, <2>1 DEF Fill, Put, Types
  <2>4. file' = file /\ mtime' = mtime /\ expected' = expected
    BY <2>1 DEF fileVars, history
  <2> QED
    BY <1>5, <1>a, <1>c, <1>d, <2>1, <2>2, <2>3, <2>4, OthersKeep
<1>6. ASSUME NEW o \in Ops, Change(o) PROVE SerialInv'
  <2>1. /\ pc[o] = "change" /\ pc'[o] = "replace" /\ kind' = kind /\ file' = file
        /\ UNCHANGED <<fileVars, cache, history>> /\ data'[o] = Changed(base[o], o, input'[o])
    BY <1>6, <1>a DEF Change, Goto, Types, fileVars
  <2>2. kind[o] # "foreign" => data'[o] = Changed(file, o, input[o])'
    <3>1. kind[o] \notin Saving => base[o] = file
      BY <1>c, <2>1
    <3>2. kind[o] # "foreign" => Changed(base[o], o, input'[o]) = Changed(file, o, input'[o])
      BY <3>1, ChangedAnew DEF Saving
    <3>3. Changed(file, o, input[o])' = Changed(file', o, input'[o])
      BY <2>1, ChangedKeeps
    <3> QED
      BY <2>1, <3>2, <3>3
  <2> QED
    BY <1>6, <1>a, <1>d, <1>e, <2>1, <2>2, OthersKeep
<1>7. ASSUME NEW o \in Ops, Reject(o) \/ SaveFails(o) PROVE SerialInv'
  <2>1. pc[o] \notin {"idle", "done"} /\ pc'[o] = "done" /\ UNCHANGED <<fileVars, cache, history>>
    BY <1>7, <1>a DEF Reject, SaveFails, Return, Goto, Types
  <2> QED
    BY <1>7, <1>a, <1>d, <1>e, <2>1, OthersKeep
<1>8. ASSUME NEW o \in Ops, Replace(o) PROVE SerialInv'
  <2>1. /\ pc[o] = "replace" /\ mtime' = mtime + 1 /\ cache' = cache
        /\ expected' = Changed(expected, o, input[o])
        /\ file' = IF kind[o] = "foreign" THEN Changed(file, o, input[o]) ELSE data[o]
    BY <1>8, <1>b DEF Replace
  <2>2. file' = expected'
    BY <1>c, <2>1
  <2>3. \A k \in Keys : cache'[k] # None => cache'[k].mtime # mtime'
    BY <1>a, <2>1 DEF Types
  <2>4. \/ pc'[o] = "done"
        \/ kind[o] # "foreign" /\ pc'[o] = "cache" /\ data'[o] = data[o]
    BY <1>8, <1>a DEF Replace, Return, Goto, Types
  <2> QED
    BY <1>8, <1>a, <1>d, <2>1, <2>2, <2>3, <2>4, OthersKeep
<1>9. ASSUME NEW o \in Ops, CacheSaved(o) PROVE SerialInv'
  <2>1. pc[o] = "cache" /\ UNCHANGED <<fileVars, history>> /\ data[o] = file
    BY <1>9, <1>c DEF CacheSaved
  <2>2. pc'[o] \in {"done", "stat"}
    BY <1>9, <1>a DEF CacheSaved, Saved, Return, Goto, Types
  <2>3. \A k \in Keys : cache'[k] = cache[k] \/ cache'[k].data = file
    BY <1>9, <1>a, <2>1 DEF CacheSaved, Put, Types
  <2>4. file' = file /\ mtime' = mtime /\ expected' = expected
    BY <2>1 DEF fileVars, history
  <2> QED
    BY <1>9, <1>a, <1>c, <1>d, <2>1, <2>2, <2>3, <2>4, OthersKeep
<1>10. CASE UNCHANGED vars
  <2>1. UNCHANGED <<file, mtime, cache, kind, key, pc, stamp, base, input, data, expected>>
    BY <1>10 DEF vars, fileVars, opVars, history
  <2>2. ASSUME NEW o \in Ops PROVE Changed(file, o, input[o])' = Changed(file, o, input[o])
    <3>1. Changed(file, o, input[o])' = Changed(file', o, input'[o])
      BY <2>1, ChangedKeeps
    <3> QED
      BY <2>1, <3>1
  <2> QED
    BY <1>c, <2>1, <2>2 DEF SerialInv, AtWork
<1> QED
  BY <1>1, <1>2, <1>3, <1>4, <1>5, <1>6, <1>7, <1>8, <1>9, <1>10 DEF Next

LEMMA NextInv == Inv /\ [Next]_vars => Inv'
BY TypesStep, OpStep, CacheStep, SerialStep DEF Inv

(* What is known of the file, the cache and every operation holds always.    *)
THEOREM Invariant == Spec => []Inv
BY InitInv, NextInv, PTL DEF Spec

(* Operations that do not overlap act as single steps, whichever keys they   *)
(* use and whichever of them fail (memory.go 237-345, 833-882).              *)
THEOREM SerialOperations == Spec => []SerialIsAtomic
<1>1. Inv => SerialIsAtomic
  BY DEF Inv, SerialInv, SerialIsAtomic, Saving
<1> QED
  BY <1>1, Invariant, PTL

-----------------------------------------------------------------------------
(* What the memories are: everything that is stored, cached or under way is  *)
(* well formed, an update holds what it makes of what it has loaded, and     *)
(* there are no facts of an operation anywhere before it has saved them.     *)

Writing == {"update", "create", "foreign", "delete", "edit", "import", "clear"}

Stored ==
  /\ file \in Memories
  /\ \A k \in Keys : cache[k] # None => cache[k].data \in Memories
  /\ \A o \in Ops : base[o] \in Memories /\ data[o] \in Memories

Held(o) ==
  /\ pc[o] \notin {"idle", "done"} => kind[o] \in Kinds \union {"get"}
  /\ pc[o] \in {"change", "replace", "cache"} => kind[o] \in Writing
  /\ pc[o] = "replace" => GoodInput(input[o])
  /\ pc[o] = "replace" /\ kind[o] = "update" =>
       data[o] = Changed(base[o], o, input[o]) /\ input[o].remove \subseteq IdsOf(base[o])

Unsaved(o) == pc[o] \notin {"cache", "done"} \/ (pc[o] = "cache" /\ kind[o] = "import")
Importing(o) == kind[o] = "import" /\ pc[o] \in {"replace", "cache"}

Fresh(o) ==
  Unsaved(o) =>
    /\ o \notin Makers(file)
    /\ \A k \in Keys : cache[k] # None => o \notin Makers(cache[k].data)
    /\ \A p \in Ops : /\ o \notin Makers(base[p])
                      /\ p # o \/ Importing(o) => o \notin Makers(data[p])

Sound == Stored /\ \A o \in Ops : Held(o) /\ Fresh(o)

LEMMA EmptyIsMemory == Empty \in Memories /\ Makers(Empty) = {}
<1>1. <<>> \in Seq(Facts) /\ 1..Len(<<>>) = {}
  OBVIOUS
<1> QED
  BY <1>1, MadeOf DEF Empty

LEMMA InitSound == Init => Sound
<1> SUFFICES ASSUME Init PROVE Sound
  OBVIOUS
<1>1. Stored
  BY EmptyIsMemory DEF Init, Stored
<1>2. ASSUME NEW o \in Ops PROVE Held(o) /\ Fresh(o)
  BY EmptyIsMemory DEF Init, Held, Fresh, Unsaved, Importing
<1> QED
  BY <1>1, <1>2 DEF Sound

(* The memories an operation can get at, and what it makes of them.          *)
InReach(o) == {file, base[o], data[o], Empty} \union {cache[k].data : k \in {k \in Keys : cache[k] # None}}

Made(o, m) ==
  \/ m \in InReach(o)
  \/ kind[o] \in Writing /\ \E n \in InReach(o) : \E in : GoodInput(in) /\ m = Changed(n, o, in)

Spreads(o) ==
  /\ Made(o, file') /\ Made(o, base'[o]) /\ Made(o, data'[o])
  /\ \A k \in Keys : cache'[k] # None => Made(o, cache'[k].data)

LEMMA MadeIsMemory ==
  ASSUME Sound, NEW o \in Ops, NEW m, Made(o, m)
  PROVE  /\ m \in Memories
         /\ \A q \in Ops : q # o /\ Unsaved(q) => q \notin Makers(m)
<1>1. ASSUME NEW n \in InReach(o) PROVE n \in Memories /\ \A q \in Ops : q # o /\ Unsaved(q) => q \notin Makers(n)
  <2>1. CASE n \in {file, base[o], data[o]}
    BY <2>1 DEF Sound, Stored, Fresh
  <2>2. CASE n = Empty
    BY <2>2, EmptyIsMemory
  <2>3. ASSUME NEW k \in Keys, cache[k] # None, n = cache[k].data
        PROVE  n \in Memories /\ \A q \in Ops : q # o /\ Unsaved(q) => q \notin Makers(n)
    BY <2>3 DEF Sound, Stored, Fresh
  <2> QED
    BY <2>1, <2>2, <2>3 DEF InReach
<1>2. CASE m \in InReach(o)
  BY <1>1, <1>2
<1>3. ASSUME kind[o] \in Writing, NEW n \in InReach(o), NEW in, GoodInput(in), m = Changed(n, o, in)
      PROVE  m \in Memories /\ \A q \in Ops : q # o /\ Unsaved(q) => q \notin Makers(m)
  <2>1. n \in Memories
    BY <1>1
  <2>2. m \in Memories /\ Makers(m) \subseteq Makers(n) \union {o}
    BY <1>3, <2>1, ChangedIsMemory DEF Writing
  <2> QED
    BY <1>1, <2>2
<1> QED
  BY <1>2, <1>3 DEF Made

(* A step that spreads memories keeps them well formed and shows nobody a    *)
(* fact of his own.                                                          *)
LEMMA SpreadingIsSound ==
  ASSUME Sound, Types, NEW o \in Ops, Others(o), Spreads(o)
  PROVE  Stored' /\ \A q \in Ops : q # o => Held(q)' /\ Fresh(q)'
<1>1. /\ file' \in Memories /\ base'[o] \in Memories /\ data'[o] \in Memories
      /\ \A k \in Keys : cache'[k] # None => cache'[k].data \in Memories
  BY MadeIsMemory DEF Spreads
<1>2. Stored'
  BY <1>1 DEF Stored, Others, Sound
<1>3. ASSUME NEW q \in Ops, q # o PROVE Held(q)'
  <2>1. /\ pc'[q] = pc[q] /\ kind'[q] = kind[q] /\ input'[q] = input[q]
        /\ base'[q] = base[q] /\ data'[q] = data[q]
    BY <1>3 DEF Others
  <2>2. Changed(base[q], q, input[q])' = Changed(base[q], q, input[q])
    BY <2>1 DEF Changed
  <2>3. GoodInput(input[q])' = GoodInput(input[q]) /\ IdsOf(base[q])' = IdsOf(base[q])
    BY <2>1 DEF GoodInput, IdsOf
  <2>4. Held(q)
    BY DEF Sound
  <2> QED
    BY <2>1, <2>2, <2>3, <2>4 DEF Held
<1>4. ASSUME NEW q \in Ops, q # o PROVE Fresh(q)'
  <2>1. Unsaved(q)' = Unsaved(q) /\ Importing(q)' = Importing(q)
    BY <1>4 DEF Others, Unsaved, Importing
  <2>2. SUFFICES ASSUME Unsaved(q) PROVE Fresh(q)'
    BY <2>1 DEF Fresh
  <2>3. /\ q \notin Makers(file') /\ q \notin Makers(base'[o]) /\ q \notin Makers(data'[o])
        /\ \A k \in Keys : cache'[k] # None => q \notin Makers(cache'[k].data)
    BY <1>4, <2>2, MadeIsMemory DEF Spreads
  <2>4. ASSUME NEW p \in Ops, p # o
        PROVE  /\ q \notin Makers(base'[p])
               /\ p # q \/ Importing(q) => q \notin Makers(data'[p])
    <3>1. base'[p] = base[p] /\ data'[p] = data[p]
      BY <2>4 DEF Others
    <3> QED
      BY <2>2, <3>1 DEF Sound, Fresh
  <2> QED
    BY <2>1, <2>3, <2>4 DEF Fresh, Makers
<1> QED
  BY <1>2, <1>3, <1>4

LEMMA WithinReach ==
  ASSUME NEW o \in Ops
  PROVE  /\ Made(o, file) /\ Made(o, base[o]) /\ Made(o, data[o]) /\ Made(o, Empty)
         /\ \A k \in Keys : cache[k] # None => Made(o, cache[k].data)
BY DEF Made, InReach

(* The operation itself has no facts anywhere as long as it has not saved.   *)
LEMMA StaysFresh ==
  ASSUME Sound, NEW o \in Ops, Others(o), Unsaved(o)' => Unsaved(o),
         Unsaved(o) => /\ o \notin Makers(file') /\ o \notin Makers(base'[o])
                       /\ \A k \in Keys : cache'[k] # None => o \notin Makers(cache'[k].data)
                       /\ Importing(o)' => o \notin Makers(data'[o])
  PROVE  Fresh(o)'
<1> SUFFICES ASSUME Unsaved(o)' PROVE Fresh(o)'
  BY DEF Fresh
<1>1. Unsaved(o)
  OBVIOUS
<1>2. ASSUME NEW p \in Ops, p # o PROVE o \notin Makers(base'[p]) /\ o \notin Makers(data'[p])
  <2>1. base'[p] = base[p] /\ data'[p] = data[p]
    BY <1>2 DEF Others
  <2> QED
    BY <1>1, <1>2, <2>1 DEF Sound, Fresh
<1> QED
  BY <1>1, <1>2 DEF Fresh, Makers

(* What an unsaved operation has in hand.                                    *)
LEMMA FreshInHand ==
  ASSUME Sound, NEW o \in Ops, Unsaved(o)
  PROVE  /\ o \notin Makers(file) /\ o \notin Makers(base[o]) /\ o \notin Makers(Empty)
         /\ \A k \in Keys : cache[k] # None => o \notin Makers(cache[k].data)
         /\ Importing(o) => o \notin Makers(data[o])
BY EmptyIsMemory DEF Sound, Fresh

LEMMA KindsAreKnown ==
  ASSUME NEW w \in Kinds \union {"get"}, w \notin {"get", "reload"}
  PROVE  w \in Writing
BY ConstantsAssumption DEF ConstantsAssumption, Writing

LEMMA InputsAreGood ==
  ASSUME NEW o \in Ops, NEW in \in PossibleInputs(o)
  PROVE  GoodInput(in) /\ in.remove \subseteq IdsOf(base[o])
<1>1. in.content \in Contents /\ in.new \in Answers \union {<<>>} /\ InputFor(o, in)
  BY DEF PossibleInputs
<1>2. <<>> \in Seq(Proposals)
  OBVIOUS
<1>3. Answers \subseteq Seq(Proposals)
  BY ConstantsAssumption DEF ConstantsAssumption
<1> QED
  BY <1>1, <1>2, <1>3 DEF GoodInput, InputFor

LEMMA SoundStep == Inv /\ Sound /\ [Next]_vars => Sound'
<1> SUFFICES ASSUME Inv, Sound, [Next]_vars PROVE Sound'
  OBVIOUS
<1>a. Types /\ \A o \in Ops : OpInv(o) /\ Held(o)
  BY DEF Inv, Sound
<1>b. ASSUME NEW o \in Ops, Others(o), Spreads(o), Held(o)', Fresh(o)' PROVE Sound'
  BY <1>a, <1>b, SpreadingIsSound DEF Sound
<1>1. ASSUME NEW o \in Ops, NEW what \in Kinds, NEW k \in Keys, Start(o, what, k) PROVE Sound'
  <2>1. /\ UNCHANGED <<file, cache, base, data>> /\ pc[o] = "idle" /\ Others(o)
        /\ kind'[o] = what /\ pc'[o] \in {"stat", "read", "change"}
        /\ pc'[o] = "change" => what \in Writing
    BY <1>1, <1>a, OthersKeep DEF Start, Types, Goto, fileVars, Writing
  <2>2. Spreads(o)
    BY <2>1, WithinReach DEF Spreads
  <2>3. Held(o)'
    BY <2>1 DEF Held
  <2>4. Fresh(o)'
    BY <2>1, FreshInHand, StaysFresh DEF Unsaved, Importing
  <2> QED
    BY <1>b, <2>1, <2>2, <2>3, <2>4
<1>2. ASSUME NEW o \in Ops, Stat(o) \/ ReadFile(o) PROVE Sound'
  <2>1. /\ UNCHANGED <<file, cache, data>> /\ pc[o] \in {"stat", "read"} /\ Others(o)
        /\ base'[o] \in {file, base[o]} /\ kind'[o] = kind[o] /\ pc'[o] \in {"lookup", "fill"}
    BY <1>2, <1>a, OthersKeep DEF Stat, ReadFile, Types, Goto, fileVars
  <2>2. Spreads(o)
    BY <2>1, WithinReach DEF Spreads
  <2>3. Held(o)'
    BY <1>a, <2>1 DEF Held
  <2>4. Fresh(o)'
    BY <2>1, FreshInHand, StaysFresh DEF Unsaved, Importing
  <2> QED
    BY <1>b, <2>1, <2>2, <2>3, <2>4
<1>3. ASSUME NEW o \in Ops, Lookup(o) PROVE Sound'
  <2>1. UNCHANGED <<file, cache>> /\ pc[o] = "lookup" /\ Others(o) /\ key[o] \in Keys
    BY <1>3, <1>a, OthersKeep DEF Lookup, OpInv, fileVars
  <2>2. \/ pc'[o] = "done" /\ base'[o] = Empty /\ data'[o] = Empty
        \/ /\ pc'[o] = "change" /\ kind'[o] = kind[o] /\ kind[o] \notin {"get", "reload"}
           /\ cache[key[o]] # None /\ base'[o] = cache[key[o]].data /\ data'[o] = data[o]
        \/ pc'[o] = "read" /\ kind'[o] = kind[o] /\ base'[o] = base[o] /\ data'[o] = data[o]
    BY <1>3, <1>a DEF Lookup, Loaded, Return, Types, Goto
  <2>3. Spreads(o)
    BY <2>1, <2>2, WithinReach DEF Spreads
  <2>4. Held(o)'
    BY <1>a, <2>1, <2>2, KindsAreKnown DEF Held
  <2>5. Fresh(o)'
    BY <2>1, <2>2, FreshInHand, StaysFresh DEF Unsaved, Importing
  <2> QED
    BY <1>b, <2>1, <2>3, <2>4, <2>5
<1>4. ASSUME NEW o \in Ops, Fill(o) PROVE Sound'
  <2>1. file' = file /\ pc[o] = "fill" /\ Others(o)
    BY <1>4, <1>a, OthersKeep DEF Fill, fileVars
  <2>2. \/ pc'[o] = "done" /\ base'[o] = Empty /\ data'[o] = Empty
        \/ /\ pc'[o] = "change" /\ kind'[o] = kind[o] /\ kind[o] \notin {"get", "reload"}
           /\ base'[o] = base[o] /\ data'[o] = data[o]
    BY <1>4, <1>a DEF Fill, Loaded, Return, Types, Goto
  <2>3. \A k \in Keys : cache'[k] = cache[k] \/ cache'[k].data = base[o]
    BY <1>4, <1>a DEF Fill, Put, Types
  <2>4. Spreads(o)
    BY <2>1, <2>2, <2>3, WithinReach DEF Spreads
  <2>5. Held(o)'
    BY <1>a, <2>1, <2>2, KindsAreKnown DEF Held
  <2>6. Fresh(o)'
    BY <2>1, <2>2, <2>3, FreshInHand, StaysFresh DEF Unsaved, Importing
  <2> QED
    BY <1>b, <2>1, <2>4, <2>5, <2>6
<1>5. ASSUME NEW o \in Ops, Change(o) PROVE Sound'
  <2>1. PICK in \in PossibleInputs(o) : /\ input' = [input EXCEPT ![o] = in]
                                        /\ data' = [data EXCEPT ![o] = Changed(base[o], o, in)]
    BY <1>5 DEF Change
  <2>2. /\ UNCHANGED <<file, cache, base, kind>> /\ pc[o] = "change" /\ pc'[o] = "replace" /\ Others(o)
        /\ input'[o] = in /\ data'[o] = Changed(base[o], o, in)
    BY <1>5, <1>a, <2>1, OthersKeep DEF Change, Types, Goto, fileVars
  <2>3. GoodInput(in) /\ in.remove \subseteq IdsOf(base[o]) /\ kind[o] \in Writing
    BY <1>a, <2>1, <2>2, InputsAreGood DEF Held
  <2>4. Made(o, data'[o])
    BY <2>2, <2>3 DEF Made, InReach
  <2>5. Spreads(o)
    BY <2>2, <2>4, WithinReach DEF Spreads
  <2>6. Held(o)'
    <3>1. Changed(base[o], o, input[o])' = Changed(base[o], o, in)
      BY <2>2 DEF Changed
    <3>2. GoodInput(input[o])' /\ (input[o].remove \subseteq IdsOf(base[o]))'
      BY <2>2, <2>3 DEF GoodInput, IdsOf
    <3> QED
      BY <1>a, <2>2, <2>3, <3>1, <3>2 DEF Held
  <2>7. kind[o] = "import" => o \notin Makers(data'[o])
    <3>1. base[o] \in Memories
      BY DEF Sound, Stored
    <3> QED
      BY <2>2, <2>3, <3>1, ChangedIsMemory DEF Writing
  <2>8. Fresh(o)'
    BY <2>2, <2>7, FreshInHand, StaysFresh DEF Unsaved, Importing
  <2> QED
    BY <1>b, <2>2, <2>5, <2>6, <2>8
<1>6. ASSUME NEW o \in Ops, Reject(o) \/ SaveFails(o) PROVE Sound'
  <2>1. /\ UNCHANGED <<file, cache>> /\ pc'[o] = "done" /\ Others(o)
        /\ base'[o] = Empty /\ data'[o] = Empty
    BY <1>6, <1>a, OthersKeep DEF Reject, SaveFails, Return, Types, Goto, fileVars
  <2>2. Spreads(o)
    BY <2>1, WithinReach DEF Spreads
  <2>3. Held(o)' /\ ~Unsaved(o)'
    BY <2>1 DEF Held, Unsaved
  <2>4. Fresh(o)'
    BY <2>3 DEF Fresh
  <2> QED
    BY <1>b, <2>1, <2>2, <2>3, <2>4
<1>7. ASSUME NEW o \in Ops, Replace(o) PROVE Sound'
  <2>1. /\ cache' = cache /\ pc[o] = "replace" /\ Others(o) /\ base'[o] = Empty
        /\ file' = IF kind[o] = "foreign" THEN Changed(file, o, input[o]) ELSE data[o]
        /\ \/ pc'[o] = "done" /\ data'[o] = Empty
           \/ pc'[o] = "cache" /\ data'[o] = data[o] /\ kind'[o] = kind[o] /\ kind[o] # "foreign"
    BY <1>7, <1>a, OthersKeep DEF Replace, Return, Types, Goto
  <2>2. GoodInput(input[o]) /\ kind[o] \in Writing
    BY <1>a, <2>1 DEF Held
  <2>3. Made(o, file')
    BY <2>1, <2>2 DEF Made, InReach
  <2>4. Spreads(o)
    BY <2>1, <2>3, WithinReach DEF Spreads
  <2>5. Held(o)'
    BY <1>a, <2>1 DEF Held
  <2>6. Fresh(o)'
    <3>1. CASE Unsaved(o)'
      <4>1. pc'[o] = "cache" /\ kind[o] = "import" /\ Unsaved(o) /\ Importing(o)
        BY <2>1, <3>1 DEF Unsaved, Importing
      <4>2. o \notin Makers(file') /\ data'[o] = data[o] /\ o \notin Makers(data[o])
        BY <2>1, <4>1, FreshInHand
      <4> QED
        BY <2>1, <4>1, <4>2, FreshInHand, StaysFresh
    <3>2. CASE ~Unsaved(o)'
      BY <3>2 DEF Fresh
    <3> QED
      BY <3>1, <3>2
  <2> QED
    BY <1>b, <2>1, <2>4, <2>5, <2>6
<1>8. ASSUME NEW o \in Ops, CacheSaved(o) PROVE Sound'
  <2>1. file' = file /\ pc[o] = "cache" /\ Others(o)
    BY <1>8, <1>a, OthersKeep DEF CacheSaved, fileVars
  <2>2. \/ pc'[o] = "done" /\ base'[o] = Empty /\ data'[o] = Empty
        \/ /\ pc'[o] = "stat" /\ kind[o] = "import" /\ kind'[o] = "get"
           /\ base'[o] = base[o] /\ data'[o] = data[o]
    BY <1>8, <1>a DEF CacheSaved, Saved, Return, Types, Goto
  <2>3. \A k \in Keys : cache'[k] = cache[k] \/ cache'[k].data = data[o]
    BY <1>8, <1>a DEF CacheSaved, Put, Types
  <2>4. Spreads(o)
    BY <2>1, <2>2, <2>3, WithinReach DEF Spreads
  <2>5. Held(o)'
    BY <2>2 DEF Held
  <2>6. Fresh(o)'
    <3>1. CASE pc'[o] = "stat"
      <4>1. Unsaved(o) /\ Importing(o)
        BY <2>1, <2>2, <3>1 DEF Unsaved, Importing
      <4> QED
        BY <2>1, <2>2, <2>3, <3>1, <4>1, FreshInHand, StaysFresh DEF Importing
    <3>2. CASE pc'[o] = "done"
      BY <3>2 DEF Fresh, Unsaved
    <3> QED
      BY <2>2, <3>1, <3>2
  <2> QED
    BY <1>b, <2>1, <2>4, <2>5, <2>6
<1>9. CASE UNCHANGED vars
  <2>1. UNCHANGED <<file, cache, kind, key, pc, stamp, base, input, data>>
    BY <1>9 DEF vars, fileVars, opVars
  <2>2. ASSUME NEW o \in Ops PROVE Changed(base[o], o, input[o])' = Changed(base[o], o, input[o])
    BY <2>1 DEF Changed
  <2> QED
    BY <2>1, <2>2 DEF Sound, Stored, Held, Fresh, Unsaved, Importing, Makers, GoodInput, IdsOf
<1> QED
  BY <1>1, <1>2, <1>3, <1>4, <1>5, <1>6, <1>7, <1>8, <1>9 DEF Next

LEMMA SoundAlways == Spec => [](Inv /\ Sound)
BY InitInv, NextInv, InitSound, SoundStep, PTL DEF Spec

(* Whatever the operations make of the memory, the file, the caches and what *)
(* operations have in hand stay well formed, and an entry that Load has      *)
(* cached and that looks current is current, because Load takes the          *)
(* modification time before it reads the file (memory.go 254-345).           *)
THEOREM LoadsAreRight == Spec => []LoadsAreCurrent
<1>1. Inv /\ Sound => LoadsAreCurrent
  BY DEF Inv, Sound, Types, Places, Stored, LoadsAreCurrent, TypeOK
<1> QED
  BY <1>1, SoundAlways, PTL

(* An update saves at most MaxFacts facts, nothing that it was told to       *)
(* remove and no mention of an upload, no content anew that it had, and the  *)
(* most certain facts if there is no room for all (memory.go 884-946,        *)
(* 1157-1255).                                                               *)
THEOREM UpdatesAreBounded == Spec => []UpdateIsBounded
<1>1. Inv /\ Sound => UpdateIsBounded
  <2> SUFFICES ASSUME Sound, NEW o \in Ops, kind[o] = "update", pc[o] = "replace"
               PROVE  LET fs == data[o].facts  old == base[o].facts IN
                 /\ Len(fs) <= MaxFacts
                 /\ \A i \in DOMAIN fs : fs[i].id \notin input[o].remove /\ fs[i].content \notin Uploads
                 /\ \A i, j \in DOMAIN fs : i # j /\ fs[i].content = fs[j].content =>
                      {fs[i].id, fs[j].id} \subseteq IdsOf(base[o])
                 /\ \A i \in DOMAIN old :
                      old[i].id \in IdsOf(data[o]) \union input[o].remove \/ old[i].content \in Uploads
                        \/ \A j \in DOMAIN fs : fs[j].confidence >= old[i].confidence
    BY DEF UpdateIsBounded
  <2> DEFINE m  == base[o]
             in == input[o]
             fs == data[o].facts
  <2>1. m \in Memories /\ data[o] \in Memories
    BY DEF Sound, Stored
  <2>2. data[o] = Changed(m, o, in) /\ in.remove \subseteq IdsOf(m) /\ GoodInput(in)
    BY DEF Sound, Held
  <2>3. o \notin Makers(m)
    BY FreshInHand DEF Unsaved
  <2>4. Changed(m, o, in) = StripUploads(ApplyUpdates(m, o, in))
    BY DEF Changed
  <2> HIDE DEF m, in
  <2>5. fs = Told(m, o, in)
    BY <2>1, <2>2, <2>4, UpdateTells
  <2>6. Bounded(m, in, fs)
    BY <2>1, <2>2, <2>3, <2>5, ToldIsBounded
  <2>7. /\ DOMAIN m.facts = 1..Len(m.facts) /\ DOMAIN fs = 1..Len(fs)
        /\ IdsOf(data[o]) = {fs[k].id : k \in 1..Len(fs)}
    BY <2>1, MemoryParts DEF IdsOf
  <2> HIDE DEF fs
  <2>8. /\ Len(fs) <= MaxFacts
        /\ \A i \in DOMAIN fs : fs[i].id \notin in.remove /\ fs[i].content \notin Uploads
        /\ \A i, j \in DOMAIN fs : i # j /\ fs[i].content = fs[j].content =>
             {fs[i].id, fs[j].id} \subseteq IdsOf(m)
        /\ \A i \in DOMAIN m.facts :
             m.facts[i].id \in IdsOf(data[o]) \union in.remove \/ m.facts[i].content \in Uploads
               \/ \A j \in DOMAIN fs : fs[j].confidence >= m.facts[i].confidence
    BY <2>6, <2>7 DEF Bounded
  <2> QED
    BY <2>8 DEF m, in, fs
<1> QED
  BY <1>1, SoundAlways, PTL
=============================================================================
