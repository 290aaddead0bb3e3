-------------------------- MODULE LocalToolsProofs --------------------------
(***************************************************************************)
(* Theorems about the local sandboxes and the loop detector, for any       *)
(* threads, calls, runs, mounts and limits.                                *)
(***************************************************************************)
EXTENDS MCLocalTools, SequenceTheorems, FiniteSetTheorems, WellFoundedInduction, TLAPS

-----------------------------------------------------------------------------
(* Lists without repetitions, and what comes after an element of one.        *)

Distinct(s)    == \A i, j \in 1..Len(s) : s[i] = s[j] => i = j
AfterIn(s, x)  == {s[j] : j \in {j \in 1..Len(s) : \E i \in 1..Len(s) : s[i] = x /\ i < j}}

LEMMA UpToIsFinite ==
  ASSUME NEW n \in Nat
  PROVE  IsFiniteSet(1..n) /\ Cardinality(1..n) = n
BY FS_Interval

(* The indices of a finite set are numbered from 1 on.                       *)
LEMMA RankNumbers ==
  ASSUME NEW I \in SUBSET Nat, IsFiniteSet(I)
  PROVE  /\ Cardinality(I) \in Nat
         /\ \A i \in I : Rank(I, i) \in 1..Cardinality(I)
         /\ \A i, j \in I : Rank(I, i) = Rank(I, j) => i = j
         /\ \A k \in 1..Cardinality(I) : \E i \in I : Rank(I, i) = k
         /\ \A i, j \in I : i < j => Rank(I, i) < Rank(I, j)
<1> DEFINE Upto(i) == {j \in I : j <= i}
<1>1. \A i : /\ IsFiniteSet(Upto(i)) /\ Cardinality(Upto(i)) \in Nat
             /\ Cardinality(Upto(i)) <= Cardinality(I)
  <2> TAKE i
  <2>1. Upto(i) \in SUBSET I
    OBVIOUS
  <2> QED
    BY <2>1, FS_Subset, FS_CardinalityType
<1>2. Cardinality(I) \in Nat /\ IsFiniteSet(1..Cardinality(I)) /\ Cardinality(1..Cardinality(I)) = Cardinality(I)
  BY FS_CardinalityType, UpToIsFinite
<1>3. \A i \in I : Cardinality(Upto(i)) \in 1..Cardinality(I)
  <2> TAKE i \in I
  <2>1. Cardinality(Upto(i)) # 0
    <3>1. i \in Upto(i)
      OBVIOUS
    <3> QED
      BY <1>1, <3>1, FS_EmptySet
  <2>2. PICK x : x = Cardinality(Upto(i))
    OBVIOUS
  <2>3. PICK y : y = Cardinality(I)
    OBVIOUS
  <2>4. x \in Nat /\ y \in Nat /\ x <= y /\ x # 0
    BY <1>1, <1>2, <2>1, <2>2, <2>3
  <2>5. x \in 1..y
    BY <2>4
  <2> QED
    BY <2>2, <2>3, <2>5
<1>4. ASSUME NEW i \in I, NEW j \in I, i < j PROVE Cardinality(Upto(i)) < Cardinality(Upto(j))
  <2>1. Upto(i) \in SUBSET Upto(j) /\ j \in Upto(j) /\ j \notin Upto(i)
    <3>1. i \in Nat /\ j \in Nat /\ \A m \in I : m \in Nat
      OBVIOUS
    <3>2. \A m \in I : m <= i => m <= j
      BY <1>4, <3>1
    <3>3. j \in Upto(j) /\ j \notin Upto(i)
      BY <1>4, <3>1
    <3> QED
      BY <3>2, <3>3
  <2>2. Cardinality(Upto(i)) <= Cardinality(Upto(j)) /\ Cardinality(Upto(i)) # Cardinality(Upto(j))
    BY <1>1, <2>1, FS_Subset
  <2> QED
    BY <1>1, <2>2
<1>5. \A i, j \in I : Cardinality(Upto(i)) = Cardinality(Upto(j)) => i = j
  BY <1>1, <1>4
<1> DEFINE f == [i \in I |-> Cardinality(Upto(i))]
<1>6. f \in Injection(I, 1..Cardinality(I))
  BY <1>3, <1>5 DEF Injection, IsInjective
<1>7. f \in Surjection(I, 1..Cardinality(I))
  BY <1>2, <1>6, FS_Injection
<1>8. \A k \in 1..Cardinality(I) : \E i \in I : f[i] = k
  BY <1>7 DEF Surjection
<1> QED
  BY <1>2, <1>3, <1>4, <1>5, <1>8 DEF Rank

(* A set of numbers that is not empty has a least element.                   *)
LEMMA LeastExists ==
  ASSUME NEW T \in SUBSET Nat, T # {}
  PROVE  \E x \in T : \A y \in T : x <= y
<1>1. PICK x \in T : \A y \in T : ~(<<y, x>> \in OpToRel(<, Nat))
  BY NatLessThanWellFounded, WFMin
<1>2. \A y \in T : ~(y < x)
  BY <1>1 DEF OpToRel
<1> QED
  BY <1>2

LEMMA ListProperties ==
  ASSUME NEW S, NEW s \in Seq(S)
  PROVE  /\ Len(s) \in Nat /\ DOMAIN s = 1..Len(s) /\ \A i \in 1..Len(s) : s[i] \in S
         /\ ToSet(s) = {s[i] : i \in 1..Len(s)} /\ ToSet(s) \subseteq S
<1>1. Len(s) \in Nat /\ DOMAIN s = 1..Len(s) /\ \A i \in 1..Len(s) : s[i] \in S
  BY LenProperties, ElementOfSeq
<1> QED
  BY <1>1 DEF ToSet

(* What is selected keeps its order.                                         *)
LEMMA SelectionInOrder ==
  ASSUME NEW S, NEW s \in Seq(S), NEW I \in SUBSET (1..Len(s))
  PROVE  /\ Selection(s, I) \in Seq(S)
         /\ Len(Selection(s, I)) <= Len(s)
         /\ ToSet(Selection(s, I)) = {s[i] : i \in I}
         /\ Distinct(s) => Distinct(Selection(s, I))
         /\ \A x : AfterIn(Selection(s, I), x) \subseteq AfterIn(s, x)
<1>0. /\ Len(s) \in Nat /\ IsFiniteSet(I) /\ I \in SUBSET Nat
      /\ Cardinality(I) \in Nat /\ Cardinality(I) <= Len(s)
  <2>1. Len(s) \in Nat
    BY LenProperties
  <2>2. IsFiniteSet(1..Len(s)) /\ Cardinality(1..Len(s)) = Len(s)
    BY <2>1, UpToIsFinite
  <2>3. IsFiniteSet(I) /\ Cardinality(I) <= Cardinality(1..Len(s)) /\ Cardinality(I) \in Nat
    BY <2>2, FS_Subset, FS_CardinalityType
  <2> QED
    BY <2>1, <2>2, <2>3
<1> DEFINE at(k) == CHOOSE i \in I : Rank(I, i) = k
           n == Cardinality(I)
           sel == Selection(s, I)
<1>1. Len(s) \in Nat /\ IsFiniteSet(I) /\ n <= Len(s) /\ I \in SUBSET Nat
  BY <1>0
<1>2. n \in Nat /\ \A k \in 1..n : at(k) \in I /\ Rank(I, at(k)) = k
  BY <1>1, RankNumbers
<1>3. \A i \in I : Rank(I, i) \in 1..n /\ at(Rank(I, i)) = i
  BY <1>1, <1>2, RankNumbers
<1>4. \A k, l \in 1..n : k < l => at(k) < at(l)
  <2> SUFFICES ASSUME NEW k \in 1..n, NEW l \in 1..n, k < l, ~(at(k) < at(l)) PROVE FALSE
    OBVIOUS
  <2>1. at(k) \in I /\ at(l) \in I /\ Rank(I, at(k)) = k /\ Rank(I, at(l)) = l
    BY <1>2
  <2> HIDE DEF at
  <2>2. at(k) \in Nat /\ at(l) \in Nat
    BY <1>1, <2>1
  <2>3. at(k) = at(l) \/ at(l) < at(k)
    BY <2>2
  <2>4. \A i, j \in I : i < j => Rank(I, i) < Rank(I, j)
    BY <1>1, RankNumbers
  <2>5. l < k \/ l = k
    BY <2>1, <2>3, <2>4
  <2> QED
    BY <2>5
<1>5. sel = [k \in 1..n |-> s[at(k)]]
  BY DEF Selection
<1> HIDE DEF at, n, sel
<1>6. \A i \in I : i \in 1..Len(s) /\ s[i] \in S
  BY ElementOfSeq
<1>7. sel \in [1..n -> S]
  BY <1>2, <1>5, <1>6
<1>8. sel \in Seq(S) /\ Len(sel) = n /\ DOMAIN sel = 1..n
  BY <1>2, <1>7, SeqDef, LenProperties
<1>9. \A k \in 1..n : at(k) \in 1..Len(s) /\ sel[k] = s[at(k)]
  BY <1>2, <1>5, <1>6
<1>10. ToSet(sel) = {s[i] : i \in I}
  <2>1. ToSet(sel) = {sel[k] : k \in 1..n}
    BY <1>8 DEF ToSet
  <2>2. ToSet(sel) \subseteq {s[i] : i \in I}
    BY <1>2, <1>9, <2>1
  <2>3. ASSUME NEW i \in I PROVE s[i] \in ToSet(sel)
    <3>1. Rank(I, i) \in 1..n /\ at(Rank(I, i)) = i
      BY <1>3
    <3>2. sel[Rank(I, i)] = s[i]
      BY <1>9, <3>1
    <3> QED
      BY <2>1, <3>1, <3>2
  <2> QED
    BY <2>2, <2>3
<1>11. ASSUME Distinct(s), NEW k \in 1..n, NEW l \in 1..n, sel[k] = sel[l] PROVE k = l
  <2>1. at(k) = at(l)
    BY <1>9, <1>11 DEF Distinct
  <2> QED
    BY <1>2, <2>1
<1>12. Distinct(s) => Distinct(sel)
  BY <1>8, <1>11 DEF Distinct
<1>13. ASSUME NEW x, NEW l \in 1..n, NEW k \in 1..n, sel[k] = x, k < l PROVE sel[l] \in AfterIn(s, x)
  <2>1. at(k) \in 1..Len(s) /\ at(l) \in 1..Len(s) /\ s[at(k)] = x /\ at(k) < at(l) /\ sel[l] = s[at(l)]
    BY <1>4, <1>9, <1>13
  <2> QED
    BY <2>1 DEF AfterIn
<1>14. \A x : AfterIn(sel, x) \subseteq AfterIn(s, x)
  <2> SUFFICES ASSUME NEW x, NEW y \in AfterIn(sel, x) PROVE y \in AfterIn(s, x)
    OBVIOUS
  <2>1. PICK l \in 1..n, k \in 1..n : y = sel[l] /\ sel[k] = x /\ k < l
    BY <1>8 DEF AfterIn
  <2> QED
    BY <1>13, <2>1
<1> QED
  BY <1>1, <1>8, <1>10, <1>12, <1>14 DEF sel

LEMMA AppendInOrder ==
  ASSUME NEW S, NEW s \in Seq(S), NEW x \in S, x \notin ToSet(s)
  PROVE  /\ Append(s, x) \in Seq(S) /\ Len(Append(s, x)) = Len(s) + 1
         /\ ToSet(Append(s, x)) = ToSet(s) \union {x}
         /\ Distinct(s) => Distinct(Append(s, x))
         /\ \A y : AfterIn(Append(s, x), y) \subseteq AfterIn(s, y) \union {x}
         /\ AfterIn(Append(s, x), x) = {}
<1> DEFINE a == Append(s, x)
           n == Len(s)
<1>1. n \in Nat /\ ToSet(s) = {s[i] : i \in 1..n}
  BY ListProperties
<1>2. /\ a \in Seq(S) /\ Len(a) = n + 1
      /\ \A i \in 1..n : a[i] = s[i]
      /\ a[n + 1] = x
  BY AppendProperties
<1> HIDE DEF a, n
<1>3. ToSet(a) = {a[i] : i \in 1..(n + 1)}
  BY <1>2, ListProperties
<1>4. /\ n + 1 \in 1..(n + 1) /\ \A i \in 1..(n + 1) : i \in 1..n \/ i = n + 1
      /\ \A i \in 1..n : i \in 1..(n + 1) /\ i # n + 1 /\ i < n + 1
  BY <1>1
<1>5. ToSet(a) = ToSet(s) \union {x}
  <2>1. ASSUME NEW i \in 1..(n + 1) PROVE a[i] \in ToSet(s) \union {x}
    BY <1>1, <1>2, <1>4
  <2>2. ASSUME NEW i \in 1..n PROVE s[i] \in ToSet(a)
    BY <1>2, <1>3, <1>4
  <2>3. x \in ToSet(a)
    BY <1>2, <1>3, <1>4
  <2> QED
    BY <1>1, <1>3, <2>1, <2>2, <2>3
<1>6. \A i \in 1..n : a[i] # x
  BY <1>1, <1>2
<1>7. Distinct(s) => Distinct(a)
  <2> SUFFICES ASSUME Distinct(s), NEW i \in 1..(n + 1), NEW j \in 1..(n + 1), a[i] = a[j] PROVE i = j
    BY <1>2 DEF Distinct
  <2>1. CASE i \in 1..n /\ j \in 1..n
    BY <1>2, <2>1 DEF Distinct, n
  <2>2. CASE i = n + 1 \/ j = n + 1
    BY <1>2, <1>4, <1>6, <2>2
  <2> QED
    BY <1>4, <2>1, <2>2
<1>8. ASSUME NEW y, NEW z \in AfterIn(a, y) PROVE z \in AfterIn(s, y) \union {x} /\ y # x
  <2>1. PICK j \in 1..(n + 1), i \in 1..(n + 1) : z = a[j] /\ a[i] = y /\ i < j
    BY <1>2 DEF AfterIn
  <2>2. i \in 1..n
    BY <1>1, <2>1
  <2>3. CASE j = n + 1
    BY <1>2, <1>6, <2>1, <2>2, <2>3
  <2>4. CASE j \in 1..n
    <3>1. z = s[j] /\ s[i] = y
      BY <1>2, <2>1, <2>2, <2>4
    <3>2. z \in AfterIn(s, y)
      BY <2>1, <2>2, <2>4, <3>1 DEF AfterIn, n
    <3> QED
      BY <1>6, <2>1, <2>2, <3>2
  <2> QED
    BY <1>4, <2>3, <2>4
<1>9. \A y : AfterIn(a, y) \subseteq AfterIn(s, y) \union {x}
  BY <1>8
<1>10. AfterIn(a, x) = {}
  BY <1>8
<1> QED
  BY <1>2, <1>5, <1>7, <1>9, <1>10 DEF a, n

LEMMA TailInOrder ==
  ASSUME NEW S, NEW s \in Seq(S), s # <<>>, Distinct(s)
  PROVE  /\ Tail(s) \in Seq(S) /\ Len(Tail(s)) = Len(s) - 1 /\ Distinct(Tail(s))
         /\ Head(s) \in ToSet(s) /\ ToSet(Tail(s)) = ToSet(s) \ {Head(s)}
         /\ \A y : AfterIn(Tail(s), y) \subseteq AfterIn(s, y)
         /\ AfterIn(s, Head(s)) = ToSet(Tail(s))
<1> DEFINE r == Tail(s)
           n == Len(s)
<1>1. n \in Nat /\ ToSet(s) = {s[i] : i \in 1..n} /\ n # 0
  BY ListProperties, EmptySeq
<1>2. r \in Seq(S) /\ Len(r) = n - 1 /\ (\A i \in 1..(n - 1) : r[i] = s[i + 1]) /\ Head(s) = s[1]
  BY HeadTailProperties
<1>3. ToSet(r) = {r[i] : i \in 1..(n - 1)}
  BY <1>2, ListProperties
<1>4. \A i, j \in 1..n : s[i] = s[j] => i = j
  BY DEF Distinct
<1> HIDE DEF r, n
<1>5. /\ 1 \in 1..n
      /\ \A i \in 1..(n - 1) : i + 1 \in 1..n /\ i + 1 # 1 /\ 1 < i + 1
      /\ \A i \in 1..n : i # 1 => i - 1 \in 1..(n - 1) /\ (i - 1) + 1 = i
  BY <1>1
<1>6. Distinct(r)
  <2> SUFFICES ASSUME NEW i \in 1..(n - 1), NEW j \in 1..(n - 1), r[i] = r[j] PROVE i = j
    BY <1>2 DEF Distinct
  <2>1. i + 1 = j + 1
    BY <1>2, <1>4, <1>5
  <2> QED
    BY <2>1
<1>7. Head(s) \in ToSet(s)
  BY <1>1, <1>2, <1>5
<1>8. ToSet(r) = ToSet(s) \ {Head(s)}
  <2>1. ASSUME NEW i \in 1..(n - 1) PROVE r[i] \in ToSet(s) \ {Head(s)}
    <3>1. r[i] = s[i + 1] /\ i + 1 \in 1..n /\ i + 1 # 1
      BY <1>2, <1>5
    <3>2. s[i + 1] # s[1]
      BY <1>4, <1>5, <3>1
    <3> QED
      BY <1>1, <1>2, <3>1, <3>2
  <2>2. ASSUME NEW i \in 1..n, s[i] # Head(s) PROVE s[i] \in ToSet(r)
    <3>1. i # 1
      BY <1>2, <2>2
    <3>2. r[i - 1] = s[i] /\ i - 1 \in 1..(n - 1)
      BY <1>2, <1>5, <3>1
    <3> QED
      BY <1>3, <3>2
  <2> QED
    BY <1>1, <1>3, <2>1, <2>2
<1>9. ASSUME NEW y, NEW z \in AfterIn(r, y) PROVE z \in AfterIn(s, y)
  <2>1. PICK j \in 1..(n - 1), i \in 1..(n - 1) : z = r[j] /\ r[i] = y /\ i < j
    BY <1>2 DEF AfterIn
  <2>2. i + 1 \in 1..n /\ j + 1 \in 1..n /\ i + 1 < j + 1 /\ z = s[j + 1] /\ s[i + 1] = y
    BY <1>2, <1>5, <2>1
  <2> QED
    BY <2>2 DEF AfterIn, n
<1>10. AfterIn(s, Head(s)) = ToSet(r)
  <2>1. ASSUME NEW z \in AfterIn(s, Head(s)) PROVE z \in ToSet(r)
    <3>1. PICK j \in 1..n, i \in 1..n : z = s[j] /\ s[i] = Head(s) /\ i < j
      BY DEF AfterIn, n
    <3>2. j # 1
      BY <3>1
    <3>3. r[j - 1] = z /\ j - 1 \in 1..(n - 1)
      BY <1>2, <1>5, <3>1, <3>2
    <3> QED
      BY <1>3, <3>3
  <2>2. ASSUME NEW i \in 1..(n - 1) PROVE r[i] \in AfterIn(s, Head(s))
    <3>1. i + 1 \in 1..n /\ 1 \in 1..n /\ s[1] = Head(s) /\ 1 < i + 1 /\ r[i] = s[i + 1]
      BY <1>2, <1>5
    <3> QED
      BY <3>1 DEF AfterIn, n
  <2> QED
    BY <1>3, <2>1, <2>2
<1> QED
  BY <1>2, <1>6, <1>7, <1>8, <1>9, <1>10 DEF r, n

LEMMA DistinctAreCounted ==
  ASSUME NEW S, NEW s \in Seq(S), Distinct(s)
  PROVE  IsFiniteSet(ToSet(s)) /\ Cardinality(ToSet(s)) = Len(s)
<1>1. Len(s) \in Nat /\ DOMAIN s = 1..Len(s) /\ ToSet(s) = {s[i] : i \in 1..Len(s)}
  BY ListProperties
<1>2. IsFiniteSet(1..Len(s)) /\ Cardinality(1..Len(s)) = Len(s)
  BY <1>1, UpToIsFinite
<1> DEFINE f == [i \in 1..Len(s) |-> s[i]]
<1>3. f \in Surjection(1..Len(s), ToSet(s)) /\ \A i, j \in 1..Len(s) : f[i] = f[j] => i = j
  BY <1>1 DEF Surjection, Distinct
<1> HIDE DEF f
<1>4. IsFiniteSet(ToSet(s)) /\ Cardinality(ToSet(s)) <= Len(s)
         /\ (Cardinality(ToSet(s)) = Len(s) <=> f \in Injection(1..Len(s), ToSet(s)))
  BY <1>2, <1>3, FS_Surjection
<1>5. f \in Injection(1..Len(s), ToSet(s))
  BY <1>3 DEF Injection, IsInjective, Surjection
<1> QED
  BY <1>4, <1>5

-----------------------------------------------------------------------------
(* The sandboxes in the cache.                                               *)

Pressed(c) == (IsFiniteSet(since[c]) /\ Cardinality(since[c]) >= MaxCache) \/ since[c] = Threads

(* The cache: the threads used after that of a call are those it counts.     *)
CacheInv ==
  /\ ToSet(lru) = {t \in Threads : cached[t] # None} /\ Len(lru) <= MaxCache /\ Distinct(lru)
  /\ \A t \in Threads : cached[t] # None => cached[t][1] = t

CallInv(c) ==
  /\ doing[c] # "idle" => owner[c] \in Threads
  /\ sb[c] = None <=> doing[c] \in {"idle", "get", "lost"}
  /\ sb[c] # None => sb[c][1] = owner[c]
  /\ since[c] = Threads \/ IsFiniteSet(since[c])
  /\ doing[c] = "get" => /\ AfterIn(lru, owner[c]) \subseteq since[c]
                         /\ cached[owner[c]] = None => Pressed(c)
  /\ doing[c] = "lost" => Pressed(c)

(* A call that is in the middle of a write.                                  *)
Writing(c) == doing[c] \in {"open", "mark"}

JobInv(c) == Writing(c) =>
  /\ owner[c] \in Threads /\ sb[c] \in Objects /\ sb[c][1] = owner[c]
  /\ job[c] \in Jobs /\ ~Locked[owner[c]][job[c].path]

(* The content of a file that one sandbox alone has written, and the one who *)
(* is at it.                                                                 *)
FileInv(f) ==
  /\ author[f] = None => meant[f] = {}
  /\ author[f] # None =>
       /\ f \in DOMAIN disk /\ disk[f] = ToHost(author[f][1], meant[f])
       /\ f \in marks[author[f]] \/ \E c \in Calls : Writing(c) /\ File(c) = f /\ sb[c] = author[f]
       /\ \A c, d \in Calls : c \in Writers(f) /\ d \in Writers(f) => c = d
       /\ \A c \in Writers(f) : sb[c] = author[f] /\ (~job[c].append => meant[f] = {})

CacheTypes ==
  /\ cached \in [Threads -> Objects \union {None}] /\ lru \in Seq(Threads)
  /\ made \in 0..MaxObjects

CallTypes ==
  /\ doing \in [Calls -> {"idle", "get", "use", "lost", "open", "mark"}]
  /\ owner \in [Calls -> Threads \union {None}] /\ sb \in [Calls -> Objects \union {None}]
  /\ since \in [Calls -> SUBSET Threads]

FileTypes ==
  /\ marks \in [Objects -> SUBSET Files]
  /\ DOMAIN disk \subseteq Files /\ \A f \in DOMAIN disk : disk[f] \subseteq Words
  /\ author \in [Files -> Objects \union {None}]
  /\ meant \in [Files -> SUBSET UNION Contents]
  /\ job \in [Calls -> Jobs \union {None}]

CacheSide == CacheTypes /\ CallTypes /\ CacheInv /\ \A c \in Calls : CallInv(c)
FileSide  == FileTypes /\ (\A c \in Calls : JobInv(c)) /\ \A f \in Files : FileInv(f)

Inv == CacheSide /\ FileSide

LEMMA InvIsTyped == Inv => TypeOK
BY DEF Inv, CacheSide, FileSide, CacheTypes, CallTypes, FileTypes, TypeOK

LEMMA Bounds ==
  ASSUME ConstantsAssumption
  PROVE  /\ MaxCache \in Nat \ {0} /\ MaxObjects \in Nat \ {0} /\ None \notin Objects
         /\ \A o \in Objects : o[1] \in Threads
BY DEF ConstantsAssumption, Objects

LEMMA CacheSideInit == ConstantsAssumption /\ Init => CacheSide
<1> SUFFICES ASSUME ConstantsAssumption, Init PROVE CacheSide
  OBVIOUS
<1>1. lru = <<>> /\ Len(lru) = 0 /\ ToSet(lru) = {} /\ lru \in Seq(Threads)
  BY EmptySeq DEF Init, ToSet
<1>2. CacheTypes /\ CallTypes
  BY <1>1, Bounds DEF Init, CacheTypes, CallTypes
<1>3. CacheInv
  BY <1>1, Bounds DEF Init, CacheInv, Distinct
<1>4. \A c \in Calls : CallInv(c)
  BY FS_EmptySet DEF Init, CallInv
<1> QED
  BY <1>2, <1>3, <1>4 DEF CacheSide

LEMMA TouchInOrder ==
  ASSUME CacheTypes, CacheInv, NEW t \in Threads
  PROVE  /\ Touch(t) \in Seq(Threads) /\ Distinct(Touch(t))
         /\ ToSet(Touch(t)) = ToSet(lru) \union {t}
         /\ t \in ToSet(lru) => Len(Touch(t)) <= Len(lru)
         /\ \A y : AfterIn(Touch(t), y) \subseteq AfterIn(lru, y) \union {t}
         /\ AfterIn(Touch(t), t) = {}
<1> DEFINE rest == Without(t)
           I == {i \in DOMAIN lru : lru[i] # t}
<1>1. lru \in Seq(Threads) /\ Distinct(lru)
  BY DEF CacheTypes, CacheInv
<1>2. I \in SUBSET (1..Len(lru)) /\ ToSet(lru) = {lru[i] : i \in 1..Len(lru)} /\ DOMAIN lru = 1..Len(lru)
  BY <1>1, ListProperties
<1>3. rest = Selection(lru, I)
  BY DEF Without
<1>4. /\ rest \in Seq(Threads) /\ Distinct(rest) /\ ToSet(rest) = {lru[i] : i \in I}
      /\ \A y : AfterIn(rest, y) \subseteq AfterIn(lru, y)
  <2> HIDE DEF I, rest
  <2> QED
    BY <1>1, <1>2, <1>3, SelectionInOrder
<1>5. t \notin ToSet(rest) /\ ToSet(rest) \union {t} = ToSet(lru) \union {t}
  BY <1>2, <1>4
<1> HIDE DEF rest
<1>6. /\ Append(rest, t) \in Seq(Threads) /\ Distinct(Append(rest, t))
      /\ ToSet(Append(rest, t)) = ToSet(rest) \union {t}
      /\ \A y : AfterIn(Append(rest, t), y) \subseteq AfterIn(rest, y) \union {t}
      /\ AfterIn(Append(rest, t), t) = {}
  BY <1>4, <1>5, AppendInOrder
<1>7. Touch(t) = Append(rest, t)
  BY DEF Touch, rest
<1>8. ASSUME t \in ToSet(lru) PROVE Len(Touch(t)) <= Len(lru)
  <2>1. ToSet(Touch(t)) = ToSet(lru)
    BY <1>5, <1>6, <1>7, <1>8
  <2>2. Cardinality(ToSet(Touch(t))) = Len(Touch(t)) /\ Cardinality(ToSet(lru)) = Len(lru)
    BY <1>1, <1>6, <1>7, DistinctAreCounted
  <2>3. Len(lru) \in Nat
    BY <1>1, LenProperties
  <2> QED
    BY <2>1, <2>2, <2>3
<1> QED
  BY <1>4, <1>5, <1>6, <1>7, <1>8

(* What counts as pressure goes on doing so.                                 *)
LEMMA PressureStays ==
  ASSUME ConstantsAssumption, NEW c \in Calls, NEW A, IsFiniteSet(A),
         since[c] \subseteq Threads, since'[c] = since[c] \union A, since'[c] \subseteq Threads
  PROVE  /\ Pressed(c) => Pressed(c)'
         /\ (since[c] = Threads \/ IsFiniteSet(since[c])) => since'[c] = Threads \/ IsFiniteSet(since'[c])
<1>1. CASE since[c] = Threads
  BY <1>1 DEF Pressed
<1>2. CASE IsFiniteSet(since[c])
  <2>1. IsFiniteSet(since'[c])
    BY <1>2, FS_Union
  <2>2. Cardinality(since[c]) <= Cardinality(since'[c])
    BY <2>1, FS_Subset
  <2>3. Cardinality(since[c]) \in Nat /\ Cardinality(since'[c]) \in Nat
    BY <1>2, <2>1, FS_CardinalityType
  <2> QED
    BY <2>1, <2>2, <2>3, Bounds DEF Pressed
<1> QED
  BY <1>1, <1>2 DEF Pressed

(* The other calls, when call c uses thread t.                               *)
LEMMA OtherCall ==
  ASSUME ConstantsAssumption, CallTypes, NEW c \in Calls, NEW t \in Threads,
         NEW d \in Calls, d # c, CallInv(d),
         doing'[d] = doing[d], owner'[d] = owner[d], sb'[d] = sb[d], since'[d] = Used(c, t)[d],
         \A y : AfterIn(lru', y) \subseteq AfterIn(lru, y) \union {t},
         AfterIn(lru', t) = {},
         \A u \in Threads : cached[u] # None /\ cached'[u] = None =>
           u # t /\ (AfterIn(lru, u) \union {t} \subseteq since'[d] /\ IsFiniteSet(since'[d]) => Pressed(d)')
  PROVE  CallInv(d)'
<1> DEFINE A == IF doing[d] = "get" THEN {t} \ {owner[d]} ELSE {}
<1>1. since'[d] = since[d] \union A
  BY DEF Used
<1>2. IsFiniteSet(A) /\ A \subseteq Threads
  <2>1. A \subseteq {t} /\ IsFiniteSet({t})
    BY FS_Singleton
  <2> QED
    BY <2>1, FS_Subset
<1>3. since[d] \subseteq Threads
  BY DEF CallTypes
<1>4. since'[d] \subseteq Threads
  <2> HIDE DEF A
  <2> QED
    BY <1>1, <1>2, <1>3
<1>5. /\ Pressed(d) => Pressed(d)'
      /\ since'[d] = Threads \/ IsFiniteSet(since'[d])
  <2> HIDE DEF A
  <2> QED
    BY <1>1, <1>2, <1>3, <1>4, PressureStays DEF CallInv
<1>6. ASSUME doing[d] = "get"
      PROVE  AfterIn(lru', owner[d]) \subseteq since'[d] /\ (cached'[owner[d]] = None => Pressed(d)')
  <2>1. owner[d] \in Threads /\ AfterIn(lru, owner[d]) \subseteq since[d] /\ (cached[owner[d]] = None => Pressed(d))
    BY <1>6 DEF CallInv
  <2>2. CASE owner[d] = t
    BY <1>5, <2>1, <2>2
  <2>3. CASE owner[d] # t
    <3>1. since'[d] = since[d] \union {t}
      BY <1>1, <1>6, <2>3
    <3>2. AfterIn(lru, owner[d]) \union {t} \subseteq since'[d]
      BY <2>1, <3>1
    <3>3. CASE cached[owner[d]] # None /\ cached'[owner[d]] = None
      <4>1. CASE since'[d] = Threads
        BY <3>2, <4>1 DEF Pressed
      <4>2. CASE IsFiniteSet(since'[d])
        BY <2>1, <3>2, <3>3, <4>2
      <4> QED
        BY <1>5, <3>2, <4>1, <4>2
    <3> QED
      BY <1>5, <2>1, <3>2, <3>3
  <2> QED
    BY <2>2, <2>3
<1> QED
  BY <1>5, <1>6 DEF CallInv

LEMMA AcquireSide ==
  ASSUME ConstantsAssumption, CacheSide, NEW c \in Calls, NEW t \in Threads, Acquire(c, t)
  PROVE  CacheSide'
<1>1. /\ CacheTypes /\ CallTypes /\ CacheInv /\ \A d \in Calls : CallInv(d)
      /\ MaxCache \in Nat \ {0} /\ MaxObjects \in Nat \ {0} /\ None \notin Objects
      /\ doing[c] \in {"idle", "lost"} /\ sb[c] = None
  BY Bounds DEF CacheSide, Acquire, CallInv
<1>2. /\ owner' = [owner EXCEPT ![c] = t] /\ doing' = [doing EXCEPT ![c] = "get"]
      /\ since' = [Used(c, t) EXCEPT ![c] = {}] /\ sb' = sb
  BY DEF Acquire, Goto
<1>3. /\ owner'[c] = t /\ doing'[c] = "get" /\ since'[c] = {}
      /\ \A d \in Calls : d # c => owner'[d] = owner[d] /\ doing'[d] = doing[d] /\ since'[d] = Used(c, t)[d]
  BY <1>1, <1>2 DEF CallTypes, Used
<1>4. CallTypes'
  BY <1>1, <1>2 DEF CallTypes, Used
<1>5. ASSUME CacheTypes', CacheInv', cached'[t] # None,
             \A y : AfterIn(lru', y) \subseteq AfterIn(lru, y) \union {t}, AfterIn(lru', t) = {},
             \A d \in Calls : \A u \in Threads : cached[u] # None /\ cached'[u] = None =>
               u # t /\ (AfterIn(lru, u) \union {t} \subseteq since'[d] /\ IsFiniteSet(since'[d]) => Pressed(d)')
      PROVE  CacheSide'
  <2>1. CallInv(c)'
    BY <1>1, <1>2, <1>3, <1>5, FS_EmptySet DEF CallInv
  <2>2. ASSUME NEW d \in Calls, d # c PROVE CallInv(d)'
    <3>1. /\ doing'[d] = doing[d] /\ owner'[d] = owner[d] /\ sb'[d] = sb[d] /\ since'[d] = Used(c, t)[d]
          /\ CallInv(d)
      BY <1>1, <1>2, <1>3, <2>2
    <3> QED
      BY <1>1, <1>5, <2>2, <3>1, OtherCall
  <2> QED
    BY <1>4, <1>5, <2>1, <2>2 DEF CacheSide
<1>6. CASE cached[t] # None
  <2>1. lru' = Touch(t) /\ UNCHANGED <<cached, made>>
    BY <1>6 DEF Acquire
  <2>2. /\ lru' \in Seq(Threads) /\ Distinct(lru') /\ ToSet(lru') = ToSet(lru) \union {t}
        /\ (t \in ToSet(lru) => Len(lru') <= Len(lru))
        /\ (\A y : AfterIn(lru', y) \subseteq AfterIn(lru, y) \union {t}) /\ AfterIn(lru', t) = {}
    BY <1>1, <2>1, TouchInOrder
  <2>3. t \in ToSet(lru)
    BY <1>1, <1>6 DEF CacheInv
  <2>4. CacheTypes'
    BY <1>1, <2>1, <2>2 DEF CacheTypes
  <2>5. CacheInv'
    <3>1. Len(lru') \in Nat /\ Len(lru) \in Nat /\ lru \in Seq(Threads)
      BY <1>1, <2>2, LenProperties DEF CacheTypes
    <3> QED
      BY <1>1, <2>1, <2>2, <2>3, <3>1 DEF CacheInv
  <2> QED
    BY <1>5, <1>6, <2>1, <2>2, <2>4, <2>5
<1>7. CASE cached[t] = None
  <2> DEFINE all == Append(lru, t)
  <2>1. /\ made < MaxObjects /\ made' = made + 1 /\ lru' = Evict(all)
        /\ cached' = [u \in Threads |-> IF u \notin ToSet(lru') THEN None ELSE IF u = t THEN <<t, made'>> ELSE cached[u]]
    BY <1>7 DEF Acquire
  <2>2. /\ lru \in Seq(Threads) /\ t \notin ToSet(lru) /\ Distinct(lru) /\ Len(lru) \in Nat /\ Len(lru) <= MaxCache
        /\ made \in Nat /\ <<t, made'>> \in Objects /\ <<t, made'>> # None
    <3>1. <<t, made'>> \in Objects
      <4>1. made' \in 1..MaxObjects
        BY <1>1, <2>1 DEF CacheTypes
      <4> QED
        BY <4>1 DEF Objects
    <3> QED
      BY <1>1, <1>7, <3>1, LenProperties DEF CacheTypes, CacheInv
  <2>3. /\ all \in Seq(Threads) /\ Len(all) = Len(lru) + 1 /\ ToSet(all) = ToSet(lru) \union {t} /\ Distinct(all)
        /\ (\A y : AfterIn(all, y) \subseteq AfterIn(lru, y) \union {t}) /\ AfterIn(all, t) = {}
    BY <2>2, AppendInOrder
  <2> HIDE DEF all
  <2>4. /\ lru' \in Seq(Threads) /\ Len(lru') <= MaxCache /\ Distinct(lru')
        /\ t \in ToSet(lru') /\ ToSet(lru') \subseteq ToSet(all)
        /\ (\A y : AfterIn(lru', y) \subseteq AfterIn(all, y)) /\ AfterIn(lru', t) = {}
        /\ \A u \in ToSet(all) \ ToSet(lru') :
             AfterIn(all, u) = ToSet(lru') /\ Len(lru') = MaxCache
    <3>1. CASE Len(all) > MaxCache
      <4>1. lru' = Tail(all) /\ all # <<>> /\ Len(all) = MaxCache + 1 /\ Len(all) > 1
        BY <1>1, <2>1, <2>2, <2>3, <3>1 DEF Evict
      <4>2. /\ Tail(all) \in Seq(Threads) /\ Len(Tail(all)) = Len(all) - 1 /\ Distinct(Tail(all))
            /\ Head(all) \in ToSet(all) /\ ToSet(Tail(all)) = ToSet(all) \ {Head(all)}
            /\ \A y : AfterIn(Tail(all), y) \subseteq AfterIn(all, y)
            /\ AfterIn(all, Head(all)) = ToSet(Tail(all))
        BY <2>3, <4>1, TailInOrder
      <4>3. Len(lru') = MaxCache
        BY <1>1, <4>1, <4>2
      <4>4. Head(all) # t
        <5>1. ToSet(lru') # {}
          <6>1. Cardinality(ToSet(lru')) = MaxCache
            BY <4>1, <4>2, <4>3, DistinctAreCounted
          <6> QED
            BY <1>1, <6>1, FS_EmptySet
        <5> QED
          BY <2>3, <4>1, <4>2, <5>1
      <4> QED
        BY <1>1, <2>3, <4>1, <4>2, <4>3, <4>4
    <3>2. CASE ~(Len(all) > MaxCache)
      <4>1. lru' = all
        BY <2>1, <3>2 DEF Evict
      <4>2. Len(all) \in Nat
        BY <2>2, <2>3
      <4> QED
        BY <1>1, <2>3, <3>2, <4>1, <4>2
    <3> QED
      BY <3>1, <3>2
  <2>5. cached'[t] = <<t, made'>> /\ cached'[t] # None
    BY <2>1, <2>2, <2>4
  <2>6. CacheTypes'
    <3>1. made' \in 0..MaxObjects
      BY <1>1, <2>1, <2>2 DEF CacheTypes
    <3>2. cached' \in [Threads -> Objects \union {None}]
      BY <1>1, <2>1, <2>2 DEF CacheTypes
    <3> QED
      BY <2>4, <3>1, <3>2 DEF CacheTypes
  <2>7. \A u \in Threads : u # t => cached'[u] = IF u \in ToSet(lru') THEN cached[u] ELSE None
    BY <2>1
  <2>8. \A u \in ToSet(lru') : u \in Threads /\ (u # t => u \in ToSet(lru) /\ cached[u] # None)
    <3>1. ToSet(lru') \subseteq Threads
      BY <2>4, ListProperties
    <3> QED
      BY <1>1, <2>3, <2>4, <3>1 DEF CacheInv
  <2>10. CacheInv'
    <3>1. ToSet(lru') = {u \in Threads : cached'[u] # None}
      BY <2>4, <2>5, <2>7, <2>8
    <3>2. \A u \in Threads : cached'[u] # None => cached'[u][1] = u
      BY <1>1, <2>5, <2>7 DEF CacheInv
    <3> QED
      BY <2>4, <3>1, <3>2 DEF CacheInv
  <2>11. ASSUME NEW d \in Calls, NEW u \in Threads, cached[u] # None, cached'[u] = None
         PROVE  u # t /\ (AfterIn(lru, u) \union {t} \subseteq since'[d] /\ IsFiniteSet(since'[d]) => Pressed(d)')
    <3>1. u # t /\ u \in ToSet(all) \ ToSet(lru')
      BY <1>1, <1>7, <2>3, <2>10, <2>11 DEF CacheInv
    <3> SUFFICES ASSUME AfterIn(lru, u) \union {t} \subseteq since'[d], IsFiniteSet(since'[d]) PROVE Pressed(d)'
      BY <3>1
    <3>2. ToSet(lru') \subseteq since'[d] /\ Len(lru') = MaxCache
      BY <2>3, <2>4, <3>1
    <3>3. Cardinality(ToSet(lru')) = MaxCache
      BY <2>4, <3>2, DistinctAreCounted
    <3>4. Cardinality(ToSet(lru')) <= Cardinality(since'[d])
      BY <3>2, FS_Subset
    <3>5. Cardinality(since'[d]) \in Nat
      BY FS_CardinalityType
    <3> QED
      BY <1>1, <3>3, <3>4, <3>5 DEF Pressed
  <2>12. \A y : AfterIn(lru', y) \subseteq AfterIn(lru, y) \union {t}
    BY <2>3, <2>4
  <2> QED
    BY <1>5, <2>4, <2>5, <2>6, <2>10, <2>11, <2>12
<1> QED
  BY <1>6, <1>7

LEMMA GetSide ==
  ASSUME ConstantsAssumption, CacheSide, NEW c \in Calls, Get(c)
  PROVE  CacheSide'
<1>1. /\ CacheTypes /\ CallTypes /\ CacheInv /\ \A d \in Calls : CallInv(d)
      /\ doing[c] = "get" /\ owner[c] \in Threads /\ UNCHANGED <<cached, made, owner>>
  BY DEF CacheSide, Get, CallInv
<1>2. CASE cached[owner[c]] # None
  <2> DEFINE t == owner[c]
  <2>1. /\ lru' = Touch(t) /\ since' = Used(c, t) /\ sb' = [sb EXCEPT ![c] = cached[t]]
        /\ doing' = [doing EXCEPT ![c] = "use"]
    BY <1>2 DEF Get, Goto
  <2>2. /\ lru' \in Seq(Threads) /\ Distinct(lru') /\ ToSet(lru') = ToSet(lru) \union {t}
        /\ (t \in ToSet(lru) => Len(lru') <= Len(lru))
        /\ (\A y : AfterIn(lru', y) \subseteq AfterIn(lru, y) \union {t}) /\ AfterIn(lru', t) = {}
    BY <1>1, <2>1, TouchInOrder
  <2>3. t \in ToSet(lru)
    BY <1>1, <1>2 DEF CacheInv
  <2>4. CacheTypes'
    BY <1>1, <2>1, <2>2 DEF CacheTypes
  <2>5. CacheInv'
    <3>1. Len(lru') \in Nat /\ Len(lru) \in Nat /\ MaxCache \in Nat
      BY <1>1, <2>2, LenProperties, Bounds DEF CacheTypes
    <3> QED
      BY <1>1, <2>2, <2>3, <3>1 DEF CacheInv
  <2>6. CallTypes'
    BY <1>1, <2>1 DEF CallTypes, CacheTypes, Used
  <2>7. /\ doing'[c] = "use" /\ sb'[c] = cached[t] /\ since'[c] = since[c]
        /\ \A d \in Calls : d # c => doing'[d] = doing[d] /\ sb'[d] = sb[d] /\ since'[d] = Used(c, t)[d]
    BY <1>1, <2>1 DEF CallTypes, Used
  <2>8. CallInv(c)'
    BY <1>1, <1>2, <2>7 DEF CallInv, CacheInv
  <2>9. ASSUME NEW d \in Calls, d # c PROVE CallInv(d)'
    <3>1. /\ doing'[d] = doing[d] /\ owner'[d] = owner[d] /\ sb'[d] = sb[d] /\ since'[d] = Used(c, t)[d]
          /\ CallInv(d) /\ t \in Threads
      BY <1>1, <2>7, <2>9
    <3>2. \A u \in Threads : cached[u] # None /\ cached'[u] = None => FALSE
      BY <1>1
    <3> HIDE DEF t
    <3> QED
      BY <1>1, <2>2, <2>9, <3>1, <3>2, OtherCall
  <2> QED
    BY <2>4, <2>5, <2>6, <2>8, <2>9 DEF CacheSide
<1>3. CASE cached[owner[c]] = None
  <2>1. doing' = [doing EXCEPT ![c] = "lost"] /\ UNCHANGED <<lru, sb, since>>
    BY <1>3 DEF Get, Goto
  <2>2. CacheTypes' /\ CacheInv' /\ CallTypes'
    BY <1>1, <2>1 DEF CacheTypes, CacheInv, CallTypes
  <2>3. doing'[c] = "lost" /\ Pressed(c) /\ \A d \in Calls : d # c => doing'[d] = doing[d]
    BY <1>1, <1>3, <2>1 DEF CallInv, CallTypes
  <2>4. ASSUME NEW d \in Calls PROVE CallInv(d)'
    <3>1. Pressed(d)' <=> Pressed(d)
      BY <2>1 DEF Pressed
    <3>2. CallInv(d)
      BY <1>1
    <3>3. CASE d = c
      BY <1>1, <2>1, <2>3, <3>1, <3>2, <3>3 DEF CallInv
    <3>4. CASE d # c
      <4>1. doing'[d] = doing[d]
        BY <2>3, <3>4
      <4> QED
        BY <1>1, <2>1, <3>1, <3>2, <4>1 DEF CallInv
    <3> QED
      BY <3>3, <3>4
  <2> QED
    BY <2>2, <2>4 DEF CacheSide
<1> QED
  BY <1>2, <1>3

LEMMA ResetSide ==
  ASSUME ConstantsAssumption, CacheSide, Reset
  PROVE  CacheSide'
<1>1. /\ CacheTypes /\ CallTypes /\ CacheInv /\ \A d \in Calls : CallInv(d)
      /\ cached' = [t \in Threads |-> None] /\ lru' = <<>>
      /\ since' = [c \in Calls |-> IF doing[c] = "get" THEN Threads ELSE since[c]]
      /\ UNCHANGED <<made, doing, owner, sb>>
  BY DEF CacheSide, Reset
<1>2. Len(lru') = 0 /\ ToSet(lru') = {} /\ lru' \in Seq(Threads) /\ \A x : AfterIn(lru', x) = {}
  BY <1>1, EmptySeq DEF ToSet, AfterIn
<1>3. CacheTypes' /\ CallTypes'
  BY <1>1, <1>2 DEF CacheTypes, CallTypes
<1>4. CacheInv'
  BY <1>1, <1>2, Bounds DEF CacheInv, Distinct
<1>5. ASSUME NEW d \in Calls PROVE CallInv(d)'
  <2>1. CASE doing[d] = "get"
    BY <1>1, <1>2, <2>1 DEF CallInv, Pressed
  <2>2. CASE doing[d] # "get"
    BY <1>1, <2>2 DEF CallInv, Pressed
  <2> QED
    BY <2>1, <2>2
<1> QED
  BY <1>3, <1>4, <1>5 DEF CacheSide

(* A tool goes on with its write or is done, or only files change.           *)
LEMMA ToolSide ==
  ASSUME CacheSide, UNCHANGED <<cacheVars, made>>, CallTypes',
         \A d \in Calls :
           \/ doing'[d] = doing[d] /\ owner'[d] = owner[d] /\ sb'[d] = sb[d] /\ since'[d] = since[d]
           \/ /\ doing[d] \in {"use", "open", "mark"} /\ doing'[d] \in {"open", "mark"}
              /\ owner'[d] = owner[d] /\ sb'[d] = sb[d] /\ since'[d] = since[d]
           \/ doing'[d] = "idle" /\ sb'[d] = None /\ since'[d] = {}
  PROVE  CacheSide'
<1>1. /\ CacheTypes /\ CacheInv /\ \A d \in Calls : CallInv(d)
      /\ UNCHANGED <<cached, lru, made>>
  BY DEF CacheSide, cacheVars
<1>2. CacheTypes' /\ CacheInv'
  BY <1>1 DEF CacheTypes, CacheInv
<1>3. ASSUME NEW d \in Calls PROVE CallInv(d)'
  <2>1. CallInv(d)
    BY <1>1
  <2>2. CASE doing'[d] = doing[d] /\ owner'[d] = owner[d] /\ sb'[d] = sb[d] /\ since'[d] = since[d]
    BY <1>1, <2>1, <2>2 DEF CallInv, Pressed
  <2>3. CASE /\ doing[d] \in {"use", "open", "mark"} /\ doing'[d] \in {"open", "mark"}
             /\ owner'[d] = owner[d] /\ sb'[d] = sb[d] /\ since'[d] = since[d]
    BY <1>1, <2>1, <2>3 DEF CallInv
  <2>4. CASE doing'[d] = "idle" /\ sb'[d] = None /\ since'[d] = {}
    BY <2>4, FS_EmptySet DEF CallInv
  <2> QED
    BY <2>2, <2>3, <2>4
<1> QED
  BY <1>2, <1>3 DEF CacheSide

LEMMA ReturnSide ==
  ASSUME CacheSide, UNCHANGED <<cacheVars, made>>, NEW c \in Calls, Return(c)
  PROVE  CacheSide'
<1>1. CallTypes
  BY DEF CacheSide
<1>2. CallTypes'
  BY <1>1 DEF CallTypes, Return, Goto
<1>3. /\ doing'[c] = "idle" /\ sb'[c] = None /\ since'[c] = {}
      /\ \A d \in Calls : d # c => doing'[d] = doing[d] /\ owner'[d] = owner[d] /\ sb'[d] = sb[d] /\ since'[d] = since[d]
  BY <1>1 DEF CallTypes, Return, Goto
<1> QED
  BY <1>2, <1>3, ToolSide

(* Call c goes on to the stage at.                                           *)
LEMMA StageSide ==
  ASSUME CacheSide, UNCHANGED <<cacheVars, made, owner, sb, since>>, NEW c \in Calls,
         doing[c] \in {"use", "open", "mark"}, NEW at \in {"open", "mark"}, Goto(c, at)
  PROVE  CacheSide'
<1>1. CallTypes
  BY DEF CacheSide
<1>2. CallTypes'
  BY <1>1 DEF CallTypes, Goto
<1>3. doing'[c] = at /\ \A d \in Calls : d # c => doing'[d] = doing[d]
  BY <1>1 DEF CallTypes, Goto
<1> QED
  BY <1>2, <1>3, ToolSide

-----------------------------------------------------------------------------
(* The files.                                                                *)

LEMMA FileSideInit == ConstantsAssumption /\ Init => FileSide
<1> SUFFICES ASSUME ConstantsAssumption, Init PROVE FileSide
  OBVIOUS
<1>1. DOMAIN disk = {}
  BY DEF Init
<1>2. FileTypes
  BY <1>1 DEF Init, FileTypes
<1>3. \A c \in Calls : JobInv(c)
  BY DEF Init, JobInv, Writing
<1>4. \A f \in Files : FileInv(f)
  BY DEF Init, FileInv
<1> QED
  BY <1>2, <1>3, <1>4 DEF FileSide

(* The same call, for the files.                                             *)
SameCall(d) == doing'[d] = doing[d] /\ owner'[d] = owner[d] /\ sb'[d] = sb[d] /\ job'[d] = job[d]

(* What calls C do at other files leaves file g alone.                       *)
LEMMA OtherFiles ==
  ASSUME FileSide, NEW g \in Files, NEW C \in SUBSET Calls,
         \A d \in Calls \ C : SameCall(d),
         \A d \in C : (Writing(d) => File(d) # g) /\ (Writing(d)' => File(d)' # g),
         author'[g] = author[g], meant'[g] = meant[g],
         g \in DOMAIN disk' <=> g \in DOMAIN disk, g \in DOMAIN disk => disk'[g] = disk[g],
         \A o \in Objects : marks[o] \subseteq marks'[o]
  PROVE  FileInv(g)'
<1>1. FileInv(g) /\ author[g] \in Objects \union {None}
  BY DEF FileSide, FileTypes
<1>2. \A d \in Calls : Writing(d) /\ File(d) = g => SameCall(d)
  OBVIOUS
<1>3. \A d \in Calls : (Writing(d) /\ File(d) = g)' => SameCall(d)
  OBVIOUS
<1>4. \A d \in Calls : SameCall(d) => File(d)' = File(d) /\ (Writing(d)' <=> Writing(d))
  BY DEF SameCall, File, Writing
<1>5. \A d \in Calls : d \in Writers(g)' => d \in Writers(g) /\ SameCall(d)
  BY <1>3, <1>4 DEF Writers, Writing, SameCall
<1>6. \A d \in Calls : Writing(d) /\ File(d) = g => (Writing(d) /\ File(d) = g)' /\ sb'[d] = sb[d]
  BY <1>2, <1>4 DEF SameCall
<1>7. CASE author[g] = None
  BY <1>1, <1>7 DEF FileInv
<1>8. CASE author[g] # None
  <2>1. /\ g \in DOMAIN disk /\ disk[g] = ToHost(author[g][1], meant[g])
        /\ g \in marks[author[g]] \/ \E c \in Calls : Writing(c) /\ File(c) = g /\ sb[c] = author[g]
        /\ \A c, d \in Calls : c \in Writers(g) /\ d \in Writers(g) => c = d
        /\ \A c \in Writers(g) : sb[c] = author[g] /\ (~job[c].append => meant[g] = {})
    BY <1>1, <1>8 DEF FileInv
  <2>2. author[g] \in Objects
    BY <1>1, <1>8
  <2>3. g \in DOMAIN disk' /\ disk'[g] = ToHost(author[g][1], meant[g])
    BY <2>1
  <2>4. g \in marks'[author[g]] \/ \E c \in Calls : (Writing(c) /\ File(c) = g)' /\ sb'[c] = author[g]
    BY <1>6, <2>1, <2>2
  <2>5. \A c, d \in Calls : c \in Writers(g)' /\ d \in Writers(g)' => c = d
    BY <1>5, <2>1
  <2>6. \A c \in Calls : c \in Writers(g)' => sb'[c] = author[g] /\ (~job'[c].append => meant[g] = {})
    BY <1>5, <2>1 DEF SameCall
  <2>7. Writers(g)' \subseteq Calls
    BY DEF Writers
  <2> QED
    BY <1>8, <2>3, <2>4, <2>5, <2>6, <2>7 DEF FileInv
<1> QED
  BY <1>7, <1>8

LEMMA FilesStay ==
  ASSUME FileSide, UNCHANGED fileVars, job' \in [Calls -> Jobs \union {None}],
         \A d \in Calls : SameCall(d) \/ (~Writing(d) /\ ~Writing(d)')
  PROVE  FileSide'
<1> DEFINE C == {d \in Calls : ~SameCall(d)}
<1>1. UNCHANGED <<disk, author, meant, marks>> /\ FileTypes /\ \A d \in Calls : JobInv(d)
  BY DEF fileVars, FileSide
<1>2. FileTypes'
  BY <1>1 DEF FileTypes
<1>3. \A d \in Calls : JobInv(d)'
  BY <1>1 DEF JobInv, Writing, SameCall
<1>4. ASSUME NEW g \in Files PROVE FileInv(g)'
  <2>1. C \in SUBSET Calls /\ (\A d \in Calls \ C : SameCall(d)) /\ \A d \in C : ~Writing(d) /\ ~Writing(d)'
    OBVIOUS
  <2> HIDE DEF C
  <2> QED
    BY <1>1, <2>1, OtherFiles
<1> QED
  BY <1>2, <1>3, <1>4 DEF FileSide

LEMMA HostTexts ==
  ASSUME NEW t \in Threads
  PROVE  /\ \A k \in SUBSET UNION Contents : ToHost(t, k) \subseteq Words
         /\ \A k, l : ToHost(t, k \union l) = ToHost(t, k) \union ToHost(t, l)
         /\ ToHost(t, {}) = {}
BY DEF ToHost, Words

LEMMA Stored ==
  ASSUME NEW f, NEW k, Store(f, k)
  PROVE  /\ DOMAIN disk' = DOMAIN disk \union {f} /\ disk'[f] = k
         /\ \A g \in DOMAIN disk : g # f => disk'[g] = disk[g]
BY DEF Store

(* Nothing but file f changes, nor any mark.                                 *)
Touches(f) ==
  /\ marks' = marks
  /\ \A g \in Files : g # f =>
       /\ author'[g] = author[g] /\ meant'[g] = meant[g]
       /\ g \in DOMAIN disk' <=> g \in DOMAIN disk
       /\ g \in DOMAIN disk => disk'[g] = disk[g]

LEMMA Edited ==
  ASSUME FileTypes, NEW f \in Files, NEW k, k \in SUBSET Words, Store(f, k),
         NEW a, a \in Objects \union {None}, author' = [author EXCEPT ![f] = a],
         NEW M, M \in SUBSET UNION Contents, meant' = [meant EXCEPT ![f] = M],
         marks' = marks, job' \in [Calls -> Jobs \union {None}]
  PROVE  FileTypes' /\ Touches(f) /\ author'[f] = a /\ meant'[f] = M /\ f \in DOMAIN disk' /\ disk'[f] = k
<1>1. /\ DOMAIN disk' = DOMAIN disk \union {f} /\ disk'[f] = k
      /\ \A g \in DOMAIN disk : g # f => disk'[g] = disk[g]
  BY Stored
<1>2. FileTypes'
  BY <1>1 DEF FileTypes
<1>3. author'[f] = a /\ meant'[f] = M /\ \A g \in Files : g # f => author'[g] = author[g] /\ meant'[g] = meant[g]
  BY DEF FileTypes
<1>4. Touches(f)
  BY <1>1, <1>3 DEF Touches
<1> QED
  BY <1>1, <1>2, <1>3, <1>4

(* A write to file f alone, by the calls C or none.                          *)
LEMMA OneFile ==
  ASSUME FileSide, NEW f \in Files, FileTypes', Touches(f), FileInv(f)',
         NEW C \in SUBSET Calls, \A d \in Calls \ C : SameCall(d),
         \A d \in C : JobInv(d)' /\ (Writing(d) => File(d) = f) /\ (Writing(d)' => File(d)' = f)
  PROVE  FileSide'
<1>1. FileTypes /\ \A d \in Calls : JobInv(d)
  BY DEF FileSide
<1>2. ASSUME NEW g \in Files, g # f PROVE FileInv(g)'
  <2>1. /\ author'[g] = author[g] /\ meant'[g] = meant[g] /\ marks' = marks
        /\ (g \in DOMAIN disk' <=> g \in DOMAIN disk) /\ (g \in DOMAIN disk => disk'[g] = disk[g])
    BY <1>2 DEF Touches
  <2>2. \A o \in Objects : marks[o] \subseteq marks'[o]
    BY <2>1
  <2> QED
    BY <1>2, <2>1, <2>2, OtherFiles
<1>3. \A d \in Calls : JobInv(d)'
  <2>1. \A d \in Calls : SameCall(d) => JobInv(d)'
    BY <1>1 DEF SameCall, JobInv, Writing
  <2> QED
    BY <2>1
<1> QED
  BY <1>2, <1>3 DEF FileSide

LEMMA BashFiles ==
  ASSUME ConstantsAssumption, FileSide, NEW f \in Files, NEW k \in SUBSET Words, Bash(f, k)
  PROVE  FileSide'
<1>1. /\ Store(f, k) /\ author' = [author EXCEPT ![f] = None] /\ meant' = [meant EXCEPT ![f] = {}]
      /\ marks' = marks /\ UNCHANGED <<doing, owner, sb, job>>
  BY DEF Bash
<1>2. FileTypes /\ job' \in [Calls -> Jobs \union {None}]
  BY <1>1 DEF FileSide, FileTypes
<1>a. PICK a, M : a = None /\ M = {}
  OBVIOUS
<1>b. a \in Objects \union {None} /\ M \in SUBSET UNION Contents
  BY <1>a
<1>c. author' = [author EXCEPT ![f] = a] /\ meant' = [meant EXCEPT ![f] = M]
  BY <1>1, <1>a
<1>3. FileTypes' /\ Touches(f) /\ author'[f] = None /\ meant'[f] = {}
  BY <1>1, <1>2, <1>a, <1>b, <1>c, Edited
<1>4. FileInv(f)'
  BY <1>3 DEF FileInv
<1>5. {} \in SUBSET Calls /\ \A d \in Calls \ {} : SameCall(d)
  BY <1>1 DEF SameCall
<1> QED
  BY <1>3, <1>4, <1>5, OneFile

(* A call that is done, or goes to another stage of its write.               *)
LEMMA OthersStay ==
  ASSUME CacheSide, FileSide, NEW c \in Calls
  PROVE  /\ Return(c) => /\ ~Writing(c)' /\ (\A d \in Calls \ {c} : SameCall(d))
                         /\ job' \in [Calls -> Jobs \union {None}]
         /\ \A at, j : Goto(c, at) /\ job' = [job EXCEPT ![c] = j] /\ UNCHANGED <<owner, sb>> =>
              /\ doing'[c] = at /\ job'[c] = j /\ owner'[c] = owner[c] /\ sb'[c] = sb[c]
              /\ \A d \in Calls \ {c} : SameCall(d)
              /\ j \in Jobs => job' \in [Calls -> Jobs \union {None}]
<1>1. CallTypes /\ job \in [Calls -> Jobs \union {None}]
  BY DEF CacheSide, FileSide, FileTypes
<1>2. Return(c) => /\ ~Writing(c)' /\ (\A d \in Calls \ {c} : SameCall(d))
                   /\ job' \in [Calls -> Jobs \union {None}]
  BY <1>1 DEF CallTypes, Return, Goto, Writing, SameCall
<1>3. ASSUME NEW at, NEW j, Goto(c, at), job' = [job EXCEPT ![c] = j], UNCHANGED <<owner, sb>>
      PROVE  /\ doing'[c] = at /\ job'[c] = j /\ owner'[c] = owner[c] /\ sb'[c] = sb[c]
             /\ \A d \in Calls \ {c} : SameCall(d)
             /\ j \in Jobs => job' \in [Calls -> Jobs \union {None}]
  BY <1>1, <1>3 DEF CallTypes, Goto, SameCall
<1> QED
  BY <1>2, <1>3

LEMMA ReturnFiles ==
  ASSUME CacheSide, FileSide, UNCHANGED fileVars, NEW c \in Calls, doing[c] = "use", Return(c)
  PROVE  FileSide'
<1>1. ~Writing(c) /\ ~Writing(c)' /\ (\A d \in Calls \ {c} : SameCall(d)) /\ job' \in [Calls -> Jobs \union {None}]
  BY OthersStay DEF Writing
<1> QED
  BY <1>1, FilesStay

LEMMA OpenFiles ==
  ASSUME ConstantsAssumption, CacheSide, FileSide,
         NEW c \in Calls, NEW p \in Paths, NEW k \in Contents, NEW append \in BOOLEAN, Open(c, p, k, append)
  PROVE  FileSide'
<1>a. PICK f, o, t : f = FileOf[owner[c]][p] /\ o = sb[c] /\ t = owner[c]
  OBVIOUS
<1>b. PICK old, a, M, j : /\ old = IF append THEN Old(f) ELSE {}
                          /\ a = IF Alone(c, f, append) THEN o ELSE None
                          /\ M = IF append /\ Alone(c, f, append) THEN meant[f] ELSE {}
                          /\ j = [path |-> p, text |-> k, append |-> append]
  OBVIOUS
<1>1. /\ doing[c] = "use" /\ t \in Threads /\ o \in Objects /\ o[1] = t /\ o # None /\ None \notin Objects
      /\ FileTypes /\ \A g \in Files : FileInv(g)
  <2>1. doing[c] = "use" /\ CallInv(c) /\ CallTypes
    BY DEF Open, CacheSide
  <2> QED
    BY <1>a, <2>1, Bounds DEF CallInv, CallTypes, FileSide
<1>2. f \in Files
  BY <1>1, <1>a DEF Files
<1>3. /\ Store(f, old) /\ author' = [author EXCEPT ![f] = a] /\ meant' = [meant EXCEPT ![f] = M]
      /\ job' = [job EXCEPT ![c] = j] /\ Goto(c, "open") /\ UNCHANGED <<owner, sb, marks>>
      /\ ~Locked[t][p]
  <2>1. meant' = [meant EXCEPT ![f] = M]
    BY <1>a, <1>b, <1>1, <1>2 DEF Open, FileTypes
  <2> QED
    BY <1>a, <1>b, <2>1 DEF Open
<1>4. /\ doing'[c] = "open" /\ job'[c] = j /\ owner'[c] = t /\ sb'[c] = o
      /\ (\A d \in Calls \ {c} : SameCall(d)) /\ job' \in [Calls -> Jobs \union {None}] /\ j \in Jobs
  <2>1. j \in Jobs
    BY <1>b DEF Jobs
  <2> QED
    BY <1>3, <1>a, <2>1, OthersStay
<1>5. /\ old \in SUBSET Words /\ a \in Objects \union {None} /\ M \in SUBSET UNION Contents
  BY <1>1, <1>2, <1>b DEF FileTypes, Old
<1>6. JobInv(c)' /\ ~Writing(c) /\ File(c)' = f /\ j.path = p /\ j.append = append
  <2>1. j.path = p /\ j.append = append
    BY <1>b
  <2> QED
    BY <1>1, <1>3, <1>4, <1>a, <2>1 DEF JobInv, Writing, File
<1>7. FileTypes' /\ Touches(f) /\ author'[f] = a /\ meant'[f] = M /\ f \in DOMAIN disk' /\ disk'[f] = old
  BY <1>1, <1>2, <1>3, <1>4, <1>5, Edited
<1>8. FileInv(f)'
  <2>1. CASE ~Alone(c, f, append)
    BY <1>7, <1>b, <2>1 DEF FileInv
  <2>2. CASE Alone(c, f, append)
    <3>1. a = o /\ Writers(f) = {} /\ (append => f \notin DOMAIN disk \/ author[f] = o)
      BY <1>a, <1>b, <2>2 DEF Alone
    <3>2. old = ToHost(t, M)
      <4>1. CASE ~append
        BY <1>1, <1>b, <4>1, HostTexts
      <4>2. CASE append /\ author[f] = o
        BY <1>1, <1>2, <1>b, <2>2, <4>2 DEF FileInv, Old
      <4>3. CASE append /\ author[f] # o
        <5>1. f \notin DOMAIN disk
          BY <3>1, <4>3
        <5>2. meant[f] = {}
          BY <1>1, <1>2, <5>1 DEF FileInv
        <5> QED
          BY <1>1, <1>b, <2>2, <4>3, <5>1, <5>2, HostTexts DEF Old
      <4> QED
        BY <4>1, <4>2, <4>3
    <3>3. \A d \in Calls : d \in Writers(f)' => d = c
      <4>1. \A d \in Calls \ {c} : File(d)' = File(d) /\ doing'[d] = doing[d]
        BY <1>4 DEF SameCall, File
      <4> QED
        BY <3>1, <4>1 DEF Writers
    <3>4. Writing(c)' /\ ~append => M = {}
      BY <1>b
    <3>5. Writers(f)' \subseteq {c} /\ Writing(c)'
      BY <1>4, <3>3 DEF Writers, Writing
    <3>6. \A d \in Writers(f)' : sb'[d] = author'[f] /\ (~job'[d].append => meant'[f] = {})
      BY <1>4, <1>6, <1>7, <3>1, <3>4, <3>5
    <3>7. \E d \in Calls : (Writing(d) /\ File(d) = f)' /\ sb'[d] = author'[f]
      BY <1>4, <1>6, <1>7, <3>1, <3>5
    <3>8. author'[f] # None /\ disk'[f] = ToHost(author'[f][1], meant'[f])
      BY <1>1, <1>7, <3>1, <3>2
    <3> QED
      BY <1>7, <3>3, <3>6, <3>7, <3>8 DEF FileInv
  <2> QED
    BY <2>1, <2>2
<1>9. /\ {c} \in SUBSET Calls
      /\ \A d \in {c} : JobInv(d)' /\ (Writing(d) => File(d) = f) /\ (Writing(d)' => File(d)' = f)
  BY <1>6
<1> QED
  BY <1>2, <1>4, <1>7, <1>8, <1>9, OneFile

(* A call that has opened a file of its thread, and the file.                *)
LEMMA AtItsFile ==
  ASSUME CacheSide, FileSide, NEW c \in Calls, Writing(c)
  PROVE  /\ File(c) \in Files /\ owner[c] \in Threads /\ sb[c] \in Objects /\ sb[c][1] = owner[c]
         /\ job[c] \in Jobs /\ job[c].text \in SUBSET UNION Contents /\ JobInv(c)
         /\ FileTypes /\ FileInv(File(c))
<1>1. JobInv(c) /\ FileTypes /\ \A f \in Files : FileInv(f)
  BY DEF FileSide
<1>2. job[c].path \in Paths /\ job[c].text \in Contents
  BY <1>1 DEF JobInv, Jobs
<1>3. File(c) \in Files
  BY <1>1, <1>2 DEF JobInv, File, Files
<1> QED
  BY <1>1, <1>2, <1>3 DEF JobInv

LEMMA WriteFiles ==
  ASSUME ConstantsAssumption, CacheSide, FileSide, NEW c \in Calls, WriteText(c)
  PROVE  FileSide'
<1>a. PICK f, o, t, k : f = File(c) /\ o = sb[c] /\ t = owner[c] /\ k = job[c].text
  OBVIOUS
<1>b. PICK M : M = IF author[f] = None THEN {} ELSE meant[f] \union k
  OBVIOUS
<1>c. PICK old \in Left(c) : Store(f, old \union ToHost(t, k))
  BY <1>a DEF WriteText
<1>1. Writing(c) /\ doing[c] = "open"
  BY DEF WriteText, Writing
<1>2. /\ f \in Files /\ t \in Threads /\ o \in Objects /\ o[1] = t /\ job[c] \in Jobs
      /\ k \in SUBSET UNION Contents /\ JobInv(c) /\ FileTypes /\ FileInv(f)
  BY <1>1, <1>a, AtItsFile
<1>3. /\ author' = author /\ meant' = [meant EXCEPT ![f] = M]
      /\ job' = job /\ Goto(c, "mark") /\ UNCHANGED <<owner, sb, marks>>
  <2>1. meant' = [meant EXCEPT ![f] = M]
    BY <1>a, <1>b, <1>2 DEF WriteText, FileTypes
  <2> QED
    BY <2>1 DEF WriteText
<1>4. /\ doing'[c] = "mark" /\ job'[c] = job[c] /\ owner'[c] = t /\ sb'[c] = o
      /\ (\A d \in Calls \ {c} : SameCall(d)) /\ job' \in [Calls -> Jobs \union {None}]
  <2>1. job' = [job EXCEPT ![c] = job[c]]
    BY <1>2, <1>3 DEF FileTypes
  <2> QED
    BY <1>2, <1>3, <1>a, <2>1, OthersStay
<1>5. author' = [author EXCEPT ![f] = author[f]] /\ author[f] \in Objects \union {None} /\ M \in SUBSET UNION Contents
  BY <1>2, <1>3, <1>b DEF FileTypes
<1>6. old \in SUBSET Old(f) /\ Old(f) \in SUBSET Words /\ old \union ToHost(t, k) \in SUBSET Words
      /\ (job[c].append => old = Old(f))
  <2>1. old \in SUBSET Old(f) /\ (job[c].append => old = Old(f))
    BY <1>a, <1>c DEF Left
  <2>2. Old(f) \in SUBSET Words
    BY <1>2 DEF FileTypes, Old
  <2> QED
    BY <1>2, <2>1, <2>2, HostTexts
<1>7. JobInv(c)' /\ File(c)' = f /\ Writing(c)'
  <2>1. File(c)' = f
    BY <1>4, <1>a DEF File
  <2>2. /\ owner'[c] = owner[c] /\ sb'[c] = sb[c] /\ job'[c] = job[c]
        /\ owner[c] \in Threads /\ sb[c] \in Objects /\ sb[c][1] = owner[c]
        /\ job[c] \in Jobs /\ ~Locked[owner[c]][job[c].path]
    BY <1>1, <1>2, <1>4, <1>a DEF JobInv
  <2>3. JobInv(c)'
    BY <2>2 DEF JobInv
  <2> QED
    BY <1>4, <2>1, <2>3 DEF Writing
<1>8. /\ FileTypes' /\ Touches(f) /\ author'[f] = author[f] /\ meant'[f] = M
      /\ f \in DOMAIN disk' /\ disk'[f] = old \union ToHost(t, k)
  <2>1. PICK new, a : new = old \union ToHost(t, k) /\ a = author[f]
    OBVIOUS
  <2>2. new \in SUBSET Words /\ Store(f, new) /\ a \in Objects \union {None} /\ author' = [author EXCEPT ![f] = a]
    BY <1>5, <1>6, <1>c, <2>1
  <2>3. /\ f \in Files /\ FileTypes /\ meant' = [meant EXCEPT ![f] = M] /\ M \in SUBSET UNION Contents
        /\ marks' = marks /\ job' \in [Calls -> Jobs \union {None}]
    BY <1>2, <1>3, <1>4, <1>5
  <2>4. /\ FileTypes' /\ Touches(f) /\ author'[f] = a /\ meant'[f] = M
        /\ f \in DOMAIN disk' /\ disk'[f] = new
    BY <2>2, <2>3, Edited
  <2> QED
    BY <2>1, <2>4
<1>9. FileInv(f)'
  <2>1. CASE author[f] = None
    BY <1>8, <1>b, <2>1 DEF FileInv
  <2>2. CASE author[f] # None
    <3>1. c \in Writers(f)
      BY <1>1, <1>a DEF Writers
    <3>2. /\ f \in DOMAIN disk /\ disk[f] = ToHost(author[f][1], meant[f])
          /\ \A d, e \in Calls : d \in Writers(f) /\ e \in Writers(f) => d = e
          /\ author[f] = o /\ (~job[c].append => meant[f] = {})
      BY <1>2, <1>a, <2>2, <3>1 DEF FileInv
    <3>3. old = ToHost(t, meant[f])
      <4>1. Old(f) = ToHost(t, meant[f])
        BY <1>2, <3>2 DEF Old
      <4>2. CASE job[c].append
        BY <1>6, <4>1, <4>2
      <4>3. CASE ~job[c].append
        <5>1. ToHost(t, meant[f]) = {}
          BY <1>2, <3>2, <4>3, HostTexts
        <5> QED
          BY <1>6, <4>1, <5>1
      <4> QED
        BY <4>2, <4>3
    <3>4. disk'[f] = ToHost(t, M)
      BY <1>2, <1>8, <1>b, <2>2, <3>3, HostTexts
    <3>5. Writers(f)' = {}
      <4>1. \A d \in Calls \ {c} : File(d)' = File(d) /\ doing'[d] = doing[d]
        BY <1>4 DEF SameCall, File
      <4>2. \A d \in Calls : d \in Writers(f)' => d \in Writers(f) /\ d # c
        BY <1>4, <4>1 DEF Writers
      <4> QED
        BY <3>1, <3>2, <4>2 DEF Writers
    <3>6. \E d \in Calls : (Writing(d) /\ File(d) = f)' /\ sb'[d] = author'[f]
      BY <1>4, <1>7, <1>8, <3>2
    <3> QED
      BY <1>2, <1>8, <2>2, <3>2, <3>4, <3>5, <3>6 DEF FileInv
  <2> QED
    BY <2>1, <2>2
<1>10. /\ {c} \in SUBSET Calls
       /\ \A d \in {c} : JobInv(d)' /\ (Writing(d) => File(d) = f) /\ (Writing(d)' => File(d)' = f)
  BY <1>7, <1>a
<1> QED
  BY <1>2, <1>4, <1>8, <1>9, <1>10, OneFile

LEMMA FailFiles ==
  ASSUME ConstantsAssumption, CacheSide, FileSide, NEW c \in Calls, WriteFails(c)
  PROVE  FileSide'
<1>a. PICK f : f = File(c)
  OBVIOUS
<1>1. Writing(c)
  BY DEF WriteFails, Writing
<1>2. /\ f \in Files /\ owner[c] \in Threads /\ job[c].text \in SUBSET UNION Contents /\ FileTypes
  BY <1>1, <1>a, AtItsFile
<1>3. PICK old \in Left(c), part \in SUBSET job[c].text : Store(f, old \union ToHost(owner[c], part))
  BY <1>a DEF WriteFails
<1>4. /\ author' = [author EXCEPT ![f] = None] /\ meant' = [meant EXCEPT ![f] = {}] /\ marks' = marks
      /\ Return(c)
  BY <1>a DEF WriteFails
<1>5. old \union ToHost(owner[c], part) \in SUBSET Words
  <2>1. old \subseteq Old(f) /\ part \in SUBSET UNION Contents
    BY <1>2, <1>3, <1>a DEF Left
  <2> QED
    BY <1>2, <2>1, HostTexts DEF FileTypes, Old
<1>6. ~Writing(c)' /\ (\A d \in Calls \ {c} : SameCall(d)) /\ job' \in [Calls -> Jobs \union {None}]
  BY <1>4, OthersStay
<1>7. FileTypes' /\ Touches(f) /\ author'[f] = None /\ meant'[f] = {}
  <2>1. PICK new, a, M : new = old \union ToHost(owner[c], part) /\ a = None /\ M = {}
    OBVIOUS
  <2>2. /\ new \in SUBSET Words /\ Store(f, new)
        /\ a \in Objects \union {None} /\ author' = [author EXCEPT ![f] = a]
        /\ M \in SUBSET UNION Contents /\ meant' = [meant EXCEPT ![f] = M]
    BY <1>3, <1>4, <1>5, <2>1
  <2> QED
    BY <1>2, <1>4, <1>6, <2>1, <2>2, Edited
<1>8. FileInv(f)'
  BY <1>7 DEF FileInv
<1>9. /\ {c} \in SUBSET Calls
      /\ \A d \in {c} : JobInv(d)' /\ (Writing(d) => File(d) = f) /\ (Writing(d)' => File(d)' = f)
  BY <1>6, <1>a DEF JobInv
<1> QED
  BY <1>2, <1>6, <1>7, <1>8, <1>9, OneFile

LEMMA MarkFiles ==
  ASSUME ConstantsAssumption, CacheSide, FileSide, NEW c \in Calls, MarkWritten(c)
  PROVE  FileSide'
<1>a. PICK f, o : f = File(c) /\ o = sb[c]
  OBVIOUS
<1>1. Writing(c) /\ doing[c] = "mark"
  BY DEF MarkWritten, Writing
<1>2. f \in Files /\ o \in Objects /\ FileTypes /\ FileInv(f)
  BY <1>1, <1>a, AtItsFile
<1>3. marks' = [marks EXCEPT ![o] = @ \union {f}] /\ UNCHANGED <<disk, author, meant>> /\ Return(c)
  BY <1>a DEF MarkWritten, Mark
<1>4. ~Writing(c)' /\ (\A d \in Calls \ {c} : SameCall(d)) /\ job' \in [Calls -> Jobs \union {None}]
  BY <1>3, OthersStay
<1>5. /\ marks' \in [Objects -> SUBSET Files] /\ f \in marks'[o]
      /\ \A q \in Objects : marks[q] \subseteq marks'[q]
  BY <1>2, <1>3 DEF FileTypes
<1>6. FileTypes'
  BY <1>2, <1>3, <1>4, <1>5 DEF FileTypes
<1>7. \A d \in Calls : JobInv(d)'
  <2>1. \A d \in Calls : JobInv(d)
    BY DEF FileSide
  <2>2. \A d \in Calls \ {c} : JobInv(d)'
    BY <1>4, <2>1 DEF SameCall, JobInv, Writing
  <2>3. JobInv(c)'
    BY <1>4 DEF JobInv
  <2> QED
    BY <2>2, <2>3
<1>8. ASSUME NEW g \in Files, g # f PROVE FileInv(g)'
  <2>1. {c} \in SUBSET Calls /\ \A d \in {c} : (Writing(d) => File(d) = f) /\ (Writing(d)' => File(d)' = f)
    BY <1>4, <1>a
  <2>2. author'[g] = author[g] /\ meant'[g] = meant[g] /\ disk' = disk
    BY <1>3
  <2> QED
    BY <1>4, <1>5, <1>8, <2>1, <2>2, OtherFiles
<1>9. FileInv(f)'
  <2>1. CASE author[f] = None
    BY <1>2, <1>3, <2>1 DEF FileInv
  <2>2. CASE author[f] # None
    <3>1. /\ f \in DOMAIN disk /\ disk[f] = ToHost(author[f][1], meant[f])
          /\ f \in marks[author[f]] \/ \E d \in Calls : Writing(d) /\ File(d) = f /\ sb[d] = author[f]
          /\ \A d, e \in Calls : d \in Writers(f) /\ e \in Writers(f) => d = e
          /\ \A d \in Writers(f) : sb[d] = author[f] /\ (~job[d].append => meant[f] = {})
      BY <1>2, <2>2 DEF FileInv
    <3>2. author[f] \in Objects
      BY <1>2, <2>2 DEF FileTypes
    <3>3. \A d \in Calls \ {c} : File(d)' = File(d) /\ (Writing(d)' <=> Writing(d)) /\ SameCall(d)
      BY <1>4 DEF SameCall, File, Writing
    <3>4. f \in marks'[author[f]] \/ \E d \in Calls : (Writing(d) /\ File(d) = f)' /\ sb'[d] = author[f]
      <4>1. CASE f \in marks[author[f]]
        BY <1>5, <3>2, <4>1
      <4>2. ASSUME NEW d \in Calls, Writing(d), File(d) = f, sb[d] = author[f]
            PROVE  f \in marks'[author[f]] \/ \E e \in Calls : (Writing(e) /\ File(e) = f)' /\ sb'[e] = author[f]
        <5>1. CASE d = c
          BY <1>5, <1>a, <4>2, <5>1
        <5>2. CASE d # c
          BY <3>3, <4>2, <5>2 DEF SameCall
        <5> QED
          BY <5>1, <5>2
      <4> QED
        BY <3>1, <4>1, <4>2
    <3>5. \A d \in Calls : d \in Writers(f)' => d \in Writers(f) /\ SameCall(d)
      <4>1. doing'[c] # "open"
        BY <1>4 DEF Writing
      <4> QED
        BY <3>3, <4>1 DEF Writers, SameCall
    <3>6. \A d, e \in Calls : d \in Writers(f)' /\ e \in Writers(f)' => d = e
      BY <3>1, <3>5
    <3>7. \A d \in Writers(f)' : sb'[d] = author[f] /\ (~job'[d].append => meant[f] = {})
      <4>1. Writers(f)' \subseteq Calls
        BY DEF Writers
      <4> QED
        BY <3>1, <3>5, <4>1 DEF SameCall
    <3> QED
      BY <1>3, <2>2, <3>1, <3>4, <3>6, <3>7 DEF FileInv
  <2> QED
    BY <2>1, <2>2
<1> QED
  BY <1>6, <1>7, <1>8, <1>9 DEF FileSide

-----------------------------------------------------------------------------
(* Paths and mounts.                                                         *)

LEMMA LongestIsLongest ==
  ASSUME NEW P, P # {}, NEW n \in Nat, \A q \in P : Len(q) \in Nat /\ Len(q) <= n
  PROVE  Longest(P) \in P /\ \A q \in P : Len(q) <= Len(Longest(P))
<1> DEFINE T == {n - Len(q) : q \in P}
<1>1. T \in SUBSET Nat /\ T # {}
  OBVIOUS
<1>2. PICK x \in T : \A y \in T : x <= y
  BY <1>1, LeastExists
<1>3. PICK q \in P : x = n - Len(q)
  BY <1>2
<1>4. ASSUME NEW r \in P PROVE Len(r) <= Len(q)
  <2>1. n - Len(r) \in T
    BY <1>4
  <2> HIDE DEF T
  <2>2. n - Len(q) <= n - Len(r)
    BY <1>2, <1>3, <2>1
  <2> QED
    BY <1>3, <1>4, <2>2
<1> QED
  BY <1>4 DEF Longest

LEMMA JoinedInAnyOrder == \A S : \A p, q, r \in Seq(S) : (p \o q) \o r = p \o (q \o r)
BY ConcatAssociative

(* A path is its prefix and the rest.                                        *)
LEMMA PrefixAndRest ==
  ASSUME NEW S, NEW p \in Seq(S), NEW s \in Seq(S), IsPrefix(p, s)
  PROVE  Rest(p, s) \in Seq(S) /\ s = p \o Rest(p, s) /\ Len(p) \in Nat /\ Len(s) \in Nat /\ Len(p) <= Len(s)
<1>1. Len(p) \in Nat /\ Len(s) \in Nat /\ Len(p) <= Len(s) /\ \A i \in 1..Len(s) : s[i] \in S
  BY LenProperties, ElementOfSeq DEF IsPrefix
<1>2. SubSeq(s, 1, Len(p)) = p
  BY SubSeqFull DEF IsPrefix
<1>3. Rest(p, s) \in Seq(S)
  BY <1>1, SubSeqProperties DEF Rest
<1>4. SubSeq(s, 1, Len(s)) = s
  BY SubSeqFull
<1>5. SubSeq(s, 1, Len(p)) \o SubSeq(s, Len(p) + 1, Len(s)) = SubSeq(s, 1, Len(s))
  <2>1. 1 \in 1..Len(s)+1 /\ Len(p) \in 1-1..Len(s) /\ Len(s) \in Len(p)..Len(s)
    BY <1>1
  <2> QED
    BY <2>1, ConcatAdjacentSubSeq
<1> QED
  BY <1>1, <1>2, <1>3, <1>4, <1>5 DEF Rest

LEMMA RestOfJoined ==
  ASSUME NEW S, NEW p \in Seq(S), NEW q \in Seq(S)
  PROVE  p \o q \in Seq(S) /\ IsPrefix(p, p \o q) /\ Rest(p, p \o q) = q
<1> DEFINE s == p \o q
<1>1. Len(p) \in Nat /\ Len(q) \in Nat /\ s \in Seq(S) /\ Len(s) = Len(p) + Len(q)
  BY LenProperties, ConcatProperties
<1>2. \A i \in 1..Len(p) : s[i] = p[i]
  BY <1>1, ConcatProperties
<1> HIDE DEF s
<1>3. SubSeq(s, 1, Len(p)) = SubSeq(p, 1, Len(p))
  <2>1. /\ \A i \in 1..Len(p) : s[i] \in S /\ p[i] \in S
        /\ 1 \in Int /\ Len(p) \in Int
    BY <1>1, <1>2, ElementOfSeq
  <2>2. /\ SubSeq(s, 1, Len(p)) \in Seq(S) /\ Len(SubSeq(s, 1, Len(p))) = IF 1 <= Len(p) THEN Len(p) - 1 + 1 ELSE 0
        /\ \A i \in 1..(Len(p) - 1 + 1) : SubSeq(s, 1, Len(p))[i] = s[1 + i - 1]
    BY <2>1, SubSeqProperties
  <2>3. /\ SubSeq(p, 1, Len(p)) = p
    BY SubSeqFull
  <2>4. Len(SubSeq(s, 1, Len(p))) = Len(p) /\ \A i \in 1..Len(p) : SubSeq(s, 1, Len(p))[i] = p[i]
    BY <1>1, <1>2, <2>2
  <2>5. SubSeq(s, 1, Len(p)) = p
    BY <2>2, <2>4, SeqEqual
  <2> QED
    BY <2>3, <2>5
<1>4. IsPrefix(p, s)
  BY <1>1, <1>3 DEF IsPrefix
<1>5. Rest(p, s) \in Seq(S) /\ s = p \o Rest(p, s)
  BY <1>1, <1>4, PrefixAndRest
<1>6. Rest(p, s) = q
  <2>1. PICK r \in Seq(S) : r = Rest(p, s)
    BY <1>5
  <2>2. p \o r = p \o q
    BY <1>5, <2>1 DEF s
  <2>3. \A S1 : \A u, v, w \in Seq(S1) : u \o v = u \o w => v = w
    BY ConcatSimplifications
  <2> QED
    BY <2>1, <2>2, <2>3
<1> QED
  BY <1>1, <1>4, <1>6 DEF s

(* Of two prefixes of a path the shorter one is a prefix of the other.       *)
LEMMA NestedPrefixes ==
  ASSUME NEW S, NEW p \in Seq(S), NEW q \in Seq(S), NEW s \in Seq(S),
         IsPrefix(p, s), IsPrefix(q, s), Len(p) <= Len(q)
  PROVE  IsPrefix(p, q) /\ Rest(p, q) \in Seq(S) /\ Rest(p, s) = Rest(p, q) \o Rest(q, s)
<1>1. Len(p) \in Nat /\ Len(q) \in Nat /\ Len(s) \in Nat /\ Len(q) <= Len(s)
  BY PrefixAndRest
<1>2. \A a \in Nat \ {0}, k \in 0..Len(q) : SubSeq(q, a, k) \in Seq(S) /\ SubSeq(s, a, k) = SubSeq(q, a, k)
  <2> TAKE a \in Nat \ {0}, k \in 0..Len(q)
  <2>1. PICK r \in Seq(S) : s = q \o r
    BY PrefixAndRest
  <2>2. Len(q) \in Nat /\ Len(r) \in Nat
    BY LenProperties
  <2>3. \A i \in 1..Len(q) : s[i] = q[i] /\ q[i] \in S
    BY <2>1, <2>2, ConcatProperties, ElementOfSeq
  <2>4. a \in Int /\ k \in Int /\ \A i \in a..k : s[i] = q[i] /\ q[i] \in S
    BY <2>2, <2>3
  <2>5. /\ SubSeq(s, a, k) \in Seq(S) /\ Len(SubSeq(s, a, k)) = IF a <= k THEN k - a + 1 ELSE 0
        /\ \A i \in 1..(k - a + 1) : SubSeq(s, a, k)[i] = s[a + i - 1]
    BY <2>4, SubSeqProperties
  <2>6. /\ SubSeq(q, a, k) \in Seq(S) /\ Len(SubSeq(q, a, k)) = IF a <= k THEN k - a + 1 ELSE 0
        /\ \A i \in 1..(k - a + 1) : SubSeq(q, a, k)[i] = q[a + i - 1]
    BY <2>4, SubSeqProperties
  <2>7. \A i \in 1..Len(SubSeq(s, a, k)) : SubSeq(s, a, k)[i] = SubSeq(q, a, k)[i]
    <3> SUFFICES ASSUME NEW i \in 1..Len(SubSeq(s, a, k)) PROVE SubSeq(s, a, k)[i] = SubSeq(q, a, k)[i]
      OBVIOUS
    <3>1. i \in 1..(k - a + 1) /\ a + i - 1 \in a..k
      BY <2>5
    <3> QED
      BY <2>4, <2>5, <2>6, <3>1
  <2> QED
    BY <2>5, <2>6, <2>7, SeqEqual
<1>3. IsPrefix(p, q)
  <2>1. Len(p) \in 0..Len(q) /\ 1 \in Nat \ {0}
    BY <1>1
  <2>2. SubSeq(s, 1, Len(p)) = SubSeq(q, 1, Len(p))
    BY <1>2, <2>1
  <2> QED
    BY <2>2 DEF IsPrefix
<1>4. Rest(p, q) \in Seq(S) /\ SubSeq(s, Len(p) + 1, Len(q)) = Rest(p, q)
  <2>1. Len(q) \in 0..Len(q) /\ Len(p) + 1 \in Nat \ {0}
    BY <1>1
  <2> QED
    BY <1>2, <2>1 DEF Rest
<1>5. SubSeq(s, Len(p) + 1, Len(q)) \o SubSeq(s, Len(q) + 1, Len(s)) = SubSeq(s, Len(p) + 1, Len(s))
  <2>1. Len(p) + 1 \in 1..Len(s)+1 /\ Len(q) \in (Len(p) + 1)-1..Len(s) /\ Len(s) \in Len(q)..Len(s)
    BY <1>1
  <2> QED
    BY <2>1, ConcatAdjacentSubSeq
<1> QED
  BY <1>3, <1>4, <1>5 DEF Rest

(* The segments that a path and the mounts are made of.                      *)
SegmentsOf(p) == Threads \union ToSet(p) \union UNION {ToSet(m.container) \union ToSet(m.local) : m \in Mounts}

(* The mounts and the threads' directories are paths of segments S.          *)
MountsIn(S) ==
  /\ Threads \subseteq S
  /\ \A m \in Mounts : m.container \in Seq(S) /\ m.local \in Seq(S)
  /\ \A t \in Threads, m \in Mounts : Local(t, m) \in Seq(S)

LEMMA PathsAreLists ==
  ASSUME ConstantsAssumption, NEW p \in Paths \union UNION Contents
  PROVE  p \in Seq(SegmentsOf(p)) /\ MountsIn(SegmentsOf(p))
<1> DEFINE S == SegmentsOf(p)
<1>1. Threads \subseteq S /\ ToSet(p) \subseteq S /\ \A m \in Mounts : ToSet(m.container) \subseteq S /\ ToSet(m.local) \subseteq S
  BY DEF SegmentsOf
<1> HIDE DEF S
<1>2. p \in Seq(S)
  BY <1>1, SeqMonotonic DEF ConstantsAssumption
<1>3. ASSUME NEW m \in Mounts PROVE m.container \in Seq(S) /\ m.local \in Seq(S)
  <2>1. m.container \in Seq(ToSet(m.container)) /\ m.local \in Seq(ToSet(m.local))
    BY DEF ConstantsAssumption
  <2> QED
    BY <1>1, <2>1, SeqMonotonic
<1>4. ASSUME NEW t \in Threads, NEW m \in Mounts PROVE Local(t, m) \in Seq(S)
  <2>1. <<t>> \in Seq(S) /\ m.local \in Seq(S)
    BY <1>1, <1>3
  <2> QED
    BY <2>1, ConcatProperties DEF Local
<1> QED
  BY <1>1, <1>2, <1>3, <1>4 DEF S, MountsIn

(* The mount of a path is the innermost one whose container path begins it.  *)
LEMMA MountFound ==
  ASSUME NEW S, MountsIn(S), NEW p \in Seq(S), Mapped(p) # {}
  PROVE  /\ MountOf(p) \in Mounts /\ IsPrefix(MountOf(p).container, p)
         /\ \A h \in Mapped(p) : Len(h.container) <= Len(MountOf(p).container)
<1> DEFINE P == {n.container : n \in Mapped(p)}
<1>1. \A q \in P : q \in Seq(S) /\ IsPrefix(q, p) /\ \E n \in Mapped(p) : n.container = q
  BY DEF Mapped, MountsIn
<1>2. Len(p) \in Nat /\ \A q \in P : Len(q) \in Nat /\ Len(q) <= Len(p)
  BY <1>1, LenProperties DEF IsPrefix
<1>3. MountOf(p) = CHOOSE m \in Mapped(p) : m.container = Longest(P)
  BY DEF MountOf
<1>4. P # {} /\ \A h \in Mapped(p) : h.container \in P
  OBVIOUS
<1> HIDE DEF P
<1>5. Longest(P) \in P /\ \A q \in P : Len(q) <= Len(Longest(P))
  BY <1>2, <1>4, LongestIsLongest
<1>6. MountOf(p) \in Mapped(p) /\ MountOf(p).container = Longest(P)
  BY <1>1, <1>3, <1>5
<1> QED
  BY <1>4, <1>5, <1>6 DEF Mapped

(* The holder of a file is a mount whose directory the file lies in.         *)
LEMMA HolderFound ==
  ASSUME NEW S, MountsIn(S), NEW t \in Threads, NEW f \in Seq(S), HeldBy(t, f) # {}
  PROVE  HolderOf(t, f) \in Mounts /\ IsPrefix(Local(t, HolderOf(t, f)), f)
<1> DEFINE P == {Local(t, n) : n \in HeldBy(t, f)}
<1>1. \A q \in P : q \in Seq(S) /\ IsPrefix(q, f) /\ \E n \in HeldBy(t, f) : Local(t, n) = q
  BY DEF HeldBy, MountsIn
<1>2. Len(f) \in Nat /\ \A q \in P : Len(q) \in Nat /\ Len(q) <= Len(f)
  BY <1>1, LenProperties DEF IsPrefix
<1>3. HolderOf(t, f) = CHOOSE m \in HeldBy(t, f) : Local(t, m) = Longest(P)
  BY DEF HolderOf
<1>4. P # {}
  OBVIOUS
<1> HIDE DEF P
<1>5. Longest(P) \in P
  BY <1>2, <1>4, LongestIsLongest
<1>6. HolderOf(t, f) \in HeldBy(t, f)
  BY <1>1, <1>3, <1>5
<1> QED
  BY <1>6 DEF HeldBy

(* A path begins as its prefix does.                                         *)
LEMMA FirstOfPrefix ==
  ASSUME NEW S, NEW p \in Seq(S), NEW s \in Seq(S), p # <<>>, IsPrefix(p, s)
  PROVE  s[1] = p[1]
<1>1. Rest(p, s) \in Seq(S) /\ s = p \o Rest(p, s)
  BY PrefixAndRest
<1>2. PICK r \in Seq(S) : s = p \o r
  BY <1>1
<1>3. Len(p) \in Nat /\ Len(r) \in Nat /\ Len(p) # 0
  BY LenProperties, EmptySeq
<1> QED
  BY <1>2, <1>3, ConcatProperties

(* The files of a mount lie in the directory of their thread.                *)
LEMMA HeldAtHome ==
  ASSUME NEW S, MountsIn(S), NEW t \in Threads, NEW f \in Seq(S), NEW m \in HeldBy(t, f)
  PROVE  f[1] = t
<1>1. m \in Mounts /\ IsPrefix(Local(t, m), f) /\ Local(t, m) \in Seq(S)
  BY DEF HeldBy, MountsIn
<1>2. <<t>> \in Seq(S) /\ m.local \in Seq(S) /\ Len(<<t>>) = 1 /\ <<t>>[1] = t /\ Len(m.local) \in Nat
  BY <1>1, LenProperties DEF MountsIn
<1>3. Len(Local(t, m)) \in Nat \ {0} /\ Local(t, m)[1] = t
  BY <1>2, ConcatProperties DEF Local
<1>4. Local(t, m) # <<>>
  BY <1>3, EmptySeq
<1> QED
  BY <1>1, <1>3, <1>4, FirstOfPrefix

(* What begins with a container path does not begin with a thread.           *)
LEMMA MappedAbroad ==
  ASSUME NamesApart, NEW S, MountsIn(S), NEW p \in Seq(S), NEW m \in Mapped(p)
  PROVE  p[1] \notin Threads
<1>1. m \in Mounts /\ IsPrefix(m.container, p) /\ m.container \in Seq(S)
  BY DEF Mapped, MountsIn
<1>2. m.container # <<>> /\ m.container[1] \notin Threads
  BY <1>1 DEF NamesApart
<1> QED
  BY <1>1, <1>2, FirstOfPrefix

(* A path under a mount leads into the directory of the mount, any other one *)
(* to itself.                                                                *)
LEMMA LeadsIntoMount ==
  ASSUME NEW S, MountsIn(S), NEW t \in Threads, NEW p \in Seq(S)
  PROVE  /\ Resolve(t, p) \in Seq(S)
         /\ Mapped(p) = {} => Resolve(t, p) = p
         /\ Mapped(p) # {} => HeldBy(t, Resolve(t, p)) # {}
<1>1. CASE Mapped(p) = {}
  BY <1>1 DEF Resolve
<1>2. CASE Mapped(p) # {}
  <2> DEFINE m == MountOf(p)
             r == Rest(m.container, p)
  <2>1. m \in Mounts /\ IsPrefix(m.container, p)
    BY <1>2, MountFound
  <2>2. Resolve(t, p) = Local(t, m) \o r
    BY <1>2 DEF Resolve
  <2> HIDE DEF m
  <2>3. r \in Seq(S) /\ Local(t, m) \in Seq(S)
    BY <2>1, PrefixAndRest DEF MountsIn
  <2> HIDE DEF r
  <2>4. Local(t, m) \o r \in Seq(S) /\ IsPrefix(Local(t, m), Local(t, m) \o r)
    BY <2>3, RestOfJoined
  <2> QED
    BY <1>2, <2>1, <2>2, <2>4 DEF HeldBy
<1> QED
  BY <1>1, <1>2

(* The name shown for a file in a mount leads back to it, and is none of the *)
(* host.  It begins with the container path of the mount that holds the      *)
(* file, but another mount may be the innermost of that name: that one is    *)
(* below the first, and so in its directory.                                 *)
LEMMA ShownLeadsBack ==
  ASSUME NestedAlike, NamesApart, NEW S, MountsIn(S), NEW t \in Threads, NEW f \in Seq(S), HeldBy(t, f) # {}
  PROVE  Resolve(t, Shown(t, f)) = f /\ HeldBy(t, Shown(t, f)) = {}
<1> DEFINE h == HolderOf(t, f)
           r == Rest(Local(t, h), f)
           s == h.container \o r
           n == MountOf(s)
           u == Rest(h.container, n.container)
           v == Rest(n.container, s)
<1>1. <<t>> \in Seq(S) /\ \A m \in Mounts : m.container \in Seq(S) /\ m.local \in Seq(S) /\ Local(t, m) \in Seq(S)
  BY DEF MountsIn
<1>2. Shown(t, f) = s /\ (Mapped(s) # {} => Resolve(t, s) = Local(t, n) \o v)
  BY DEF Shown, Resolve
<1>3. h \in Mounts /\ IsPrefix(Local(t, h), f)
  BY HolderFound
<1> HIDE DEF h
<1>4. r \in Seq(S) /\ f = Local(t, h) \o r
  BY <1>1, <1>3, PrefixAndRest
<1> HIDE DEF r
<1>5. s \in Seq(S) /\ IsPrefix(h.container, s) /\ Rest(h.container, s) = r
  BY <1>1, <1>3, <1>4, RestOfJoined
<1> HIDE DEF s
<1>6. h \in Mapped(s)
  BY <1>3, <1>5 DEF Mapped
<1>7. n \in Mounts /\ IsPrefix(n.container, s) /\ Len(h.container) <= Len(n.container)
  BY <1>5, <1>6, MountFound
<1> HIDE DEF n
<1>8. v \in Seq(S)
  BY <1>1, <1>5, <1>7, PrefixAndRest
<1>9. IsPrefix(h.container, n.container) /\ u \in Seq(S) /\ Rest(h.container, s) = u \o v
  <2>1. /\ h.container \in Seq(S) /\ n.container \in Seq(S) /\ s \in Seq(S)
        /\ IsPrefix(h.container, s) /\ IsPrefix(n.container, s) /\ Len(h.container) <= Len(n.container)
    BY <1>1, <1>3, <1>5, <1>7
  <2> QED
    BY <2>1, NestedPrefixes DEF u, v
<1>10. n.local = h.local \o u
  BY <1>3, <1>7, <1>9 DEF NestedAlike
<1> HIDE DEF u, v
<1>11. Local(t, n) = Local(t, h) \o u
  <2>1. PICK w \in Seq(S) : w = h.local
    BY <1>1, <1>3
  <2>2. <<t>> \in Seq(S) /\ u \in Seq(S)
    BY <1>1, <1>9
  <2>3. (<<t>> \o w) \o u = <<t>> \o (w \o u)
    BY <2>2, JoinedInAnyOrder
  <2> QED
    BY <1>10, <2>1, <2>3 DEF Local
<1>12. Local(t, n) \o v = Local(t, h) \o (u \o v)
  <2>1. Local(t, h) \in Seq(S) /\ u \in Seq(S) /\ v \in Seq(S)
    BY <1>1, <1>3, <1>8, <1>9
  <2>2. (Local(t, h) \o u) \o v = Local(t, h) \o (u \o v)
    BY <2>1, JoinedInAnyOrder
  <2> QED
    BY <1>11, <2>2
<1>13. Resolve(t, s) = f
  BY <1>2, <1>4, <1>5, <1>6, <1>9, <1>12
<1>14. HeldBy(t, s) = {}
  <2>1. s[1] \notin Threads
    BY <1>5, <1>6, MappedAbroad
  <2>2. \A m \in HeldBy(t, s) : s[1] = t
    BY <1>5, HeldAtHome
  <2> QED
    BY <2>1, <2>2
<1> QED
  BY <1>2, <1>13, <1>14

(* The name that any thread is shown for a file leads it to that file, and   *)
(* is none of the host in its mounts.                                        *)
LEMMA NamesComeBack ==
  ASSUME ConstantsAssumption, NestedAlike, NamesApart,
         NEW p \in Paths \union UNION Contents, NEW t \in Threads, NEW u \in Threads, NEW f, f = Resolve(t, p)
  PROVE  Resolve(u, Shown(u, f)) = f /\ HeldBy(u, Shown(u, f)) = {}
<1> DEFINE S == SegmentsOf(p)
<1>1. p \in Seq(S) /\ MountsIn(S)
  BY PathsAreLists
<1> HIDE DEF S
<1>2. f \in Seq(S) /\ (Mapped(p) = {} => f = p) /\ (Mapped(p) # {} => HeldBy(t, f) # {})
  BY <1>1, LeadsIntoMount
<1>3. CASE HeldBy(u, f) # {}
  BY <1>1, <1>2, <1>3, ShownLeadsBack
<1>4. CASE HeldBy(u, f) = {}
  <2>1. Shown(u, f) = f
    BY <1>4 DEF Shown
  <2>2. Mapped(f) = {}
    <3>1. CASE Mapped(p) = {}
      BY <1>2, <3>1
    <3>2. CASE Mapped(p) # {}
      <4>1. f[1] = t
        BY <1>1, <1>2, <3>2, HeldAtHome
      <4> QED
        BY <1>1, <1>2, <4>1, MappedAbroad
    <3> QED
      BY <3>1, <3>2
  <2> QED
    BY <1>4, <2>1, <2>2 DEF Resolve
<1> QED
  BY <1>3, <1>4

LEMMA NoneMisleads ==
  ASSUME ConstantsAssumption, NestedAlike, NamesApart
  PROVE  Misleading = {}
<1>1. ASSUME NEW f \in Files, NEW u \in Threads PROVE Resolve(u, Shown(u, f)) = f
  <2>1. PICK t \in Threads, p \in Paths : f = FileOf[t][p]
    BY DEF Files
  <2>2. f = Resolve(t, p)
    BY <2>1 DEF FileOf
  <2> QED
    BY <2>2, NamesComeBack
<1> QED
  BY <1>1 DEF Misleading

-----------------------------------------------------------------------------
(* The writes.                                                               *)

PathAt(c)   == IF doing[c] = "use" THEN job'[c].path ELSE job[c].path
Confined(c) == \A f \in Changed : InBounds(owner[c], PathAt(c), f)

(* What is stored in the file of a path that is not locked.                  *)
LEMMA StoredInBounds ==
  ASSUME ConstantsAssumption, NEW t \in Threads, NEW p \in Paths, ~Locked[t][p],
         NEW k, Store(FileOf[t][p], k), NEW f \in Changed
  PROVE  InBounds(t, p, f)
<1> DEFINE S == SegmentsOf(p)
<1>1. FileOf[t][p] = Resolve(t, p) /\ ~ReadOnly(t, p)
  BY DEF FileOf, Locked
<1>2. f = Resolve(t, p)
  <2>1. /\ DOMAIN disk' = DOMAIN disk \union {Resolve(t, p)}
        /\ \A g \in DOMAIN disk : g # Resolve(t, p) => disk'[g] = disk[g]
    BY <1>1, Stored
  <2>2. (f \in DOMAIN disk') # (f \in DOMAIN disk) \/ (f \in DOMAIN disk /\ disk'[f] # disk[f])
    BY DEF Changed
  <2>3. CASE f \in DOMAIN disk
    BY <2>1, <2>2, <2>3
  <2>4. CASE f \notin DOMAIN disk
    BY <2>1, <2>2, <2>4
  <2> QED
    BY <2>3, <2>4
<1>3. p \in Seq(S) /\ MountsIn(S)
  BY PathsAreLists
<1> HIDE DEF S
<1>4. (Mapped(p) = {} => f = p) /\ (Mapped(p) # {} => HeldBy(t, f) # {})
  BY <1>2, <1>3, LeadsIntoMount
<1>5. HeldBy(t, f) # {} => ~HolderOf(t, f).readOnly
  BY <1>1, <1>2 DEF ReadOnly
<1> QED
  BY <1>4, <1>5 DEF InBounds

LEMMA OpenInBounds ==
  ASSUME ConstantsAssumption, CacheSide, FileSide,
         NEW c \in Calls, NEW p \in Paths, NEW k \in Contents, NEW append \in BOOLEAN, Open(c, p, k, append)
  PROVE  Confined(c)
<1>1. PICK content : Store(FileOf[owner[c]][p], content)
  BY DEF Open
<1>2. doing[c] = "use" /\ ~Locked[owner[c]][p]
  BY DEF Open
<1>3. owner[c] \in Threads
  BY <1>2 DEF CacheSide, CallInv
<1>4. job'[c].path = p
  BY DEF Open, FileSide, FileTypes
<1> QED
  BY <1>1, <1>2, <1>3, <1>4, StoredInBounds DEF Confined, PathAt

LEMMA WriteInBounds ==
  ASSUME ConstantsAssumption, CacheSide, FileSide, NEW c \in Calls, WriteText(c) \/ WriteFails(c)
  PROVE  Confined(c)
<1>1. PICK content : Store(File(c), content)
  BY DEF WriteText, WriteFails
<1>2. doing[c] = "open" /\ Writing(c)
  BY DEF WriteText, WriteFails, Writing
<1>3. owner[c] \in Threads /\ job[c].path \in Paths /\ ~Locked[owner[c]][job[c].path]
  BY <1>2, AtItsFile DEF JobInv, Jobs
<1>4. File(c) = FileOf[owner[c]][job[c].path]
  BY DEF File
<1> QED
  BY <1>1, <1>2, <1>3, <1>4, StoredInBounds DEF Confined, PathAt

-----------------------------------------------------------------------------
(* What holds of the sandboxes, with the loop detector beside them.          *)

LEMMA InvInit == ConstantsAssumption /\ Init => Inv
BY CacheSideInit, FileSideInit DEF Inv

LEMMA InvNext ==
  ASSUME ConstantsAssumption, Inv, [Next]_vars
  PROVE  /\ Inv'
         /\ (\A c \in Calls : doing'[c] # doing[c] => Confined(c)) \/ UNCHANGED vars
<1> DEFINE Kept == \A c \in Calls : doing'[c] # doing[c] => Confined(c)
<1>a. CacheSide /\ FileSide /\ CallTypes
  BY DEF Inv, CacheSide
<1>b. UNCHANGED disk => Kept
  BY DEF Confined, Changed
<1>c. ASSUME NEW c \in Calls, NEW at, doing' = [doing EXCEPT ![c] = at], Confined(c) PROVE Kept
  <2>1. \A d \in Calls : d # c => doing'[d] = doing[d]
    BY <1>a, <1>c DEF CallTypes
  <2> QED
    BY <1>c, <2>1
<1> HIDE DEF Kept
<1>1. ASSUME NEW c \in Calls, NEW t \in Threads, Acquire(c, t) PROVE Inv' /\ Kept
  <2>1. CacheSide'
    BY <1>a, <1>1, AcquireSide
  <2>2. \A d \in Calls : SameCall(d) \/ (~Writing(d) /\ ~Writing(d)')
    BY <1>a, <1>1 DEF Acquire, Goto, CallTypes, SameCall, Writing
  <2>3. UNCHANGED <<fileVars, job>> /\ job' \in [Calls -> Jobs \union {None}]
    BY <1>a, <1>1 DEF Acquire, FileSide, FileTypes
  <2>4. FileSide'
    BY <1>a, <2>2, <2>3, FilesStay
  <2> QED
    BY <1>b, <2>1, <2>3, <2>4 DEF Inv, fileVars
<1>2. ASSUME NEW c \in Calls, Get(c) PROVE Inv' /\ Kept
  <2>1. CacheSide'
    BY <1>a, <1>2, GetSide
  <2>2. \A d \in Calls : SameCall(d) \/ (~Writing(d) /\ ~Writing(d)')
    BY <1>a, <1>2 DEF Get, Goto, CallTypes, SameCall, Writing
  <2>3. UNCHANGED <<fileVars, job>> /\ job' \in [Calls -> Jobs \union {None}]
    BY <1>a, <1>2 DEF Get, FileSide, FileTypes
  <2>4. FileSide'
    BY <1>a, <2>2, <2>3, FilesStay
  <2> QED
    BY <1>b, <2>1, <2>3, <2>4 DEF Inv, fileVars
<1>3. ASSUME NEW c \in Calls, Look(c) \/ Refuse(c) PROVE Inv' /\ Kept
  <2>1. doing[c] = "use" /\ Return(c) /\ UNCHANGED <<cacheVars, made, fileVars>>
    BY <1>3 DEF Look, Refuse
  <2>2. CacheSide'
    BY <1>a, <2>1, ReturnSide
  <2>3. FileSide'
    BY <1>a, <2>1, ReturnFiles
  <2> QED
    BY <1>b, <2>1, <2>2, <2>3 DEF Inv, fileVars
<1>4. ASSUME NEW c \in Calls, NEW p \in Paths, NEW k \in Contents, NEW append \in BOOLEAN, Open(c, p, k, append)
      PROVE  Inv' /\ Kept
  <2>1. doing[c] = "use" /\ UNCHANGED <<cacheVars, made, owner, sb, since>> /\ Goto(c, "open")
    BY <1>4 DEF Open
  <2>2. CacheSide'
    BY <1>a, <2>1, StageSide
  <2>3. FileSide'
    BY <1>a, <1>4, OpenFiles
  <2>4. Kept
    BY <1>a, <1>c, <1>4, <2>1, OpenInBounds DEF Goto
  <2> QED
    BY <2>2, <2>3, <2>4 DEF Inv
<1>5. ASSUME NEW c \in Calls, WriteText(c) PROVE Inv' /\ Kept
  <2>1. doing[c] = "open" /\ UNCHANGED <<cacheVars, made, owner, sb, since>> /\ Goto(c, "mark")
    BY <1>5 DEF WriteText
  <2>2. CacheSide'
    BY <1>a, <2>1, StageSide
  <2>3. FileSide'
    BY <1>a, <1>5, WriteFiles
  <2>4. Kept
    BY <1>a, <1>c, <1>5, <2>1, WriteInBounds DEF Goto
  <2> QED
    BY <2>2, <2>3, <2>4 DEF Inv
<1>6. ASSUME NEW c \in Calls, WriteFails(c) PROVE Inv' /\ Kept
  <2>1. UNCHANGED <<cacheVars, made>> /\ Return(c)
    BY <1>6 DEF WriteFails
  <2>2. CacheSide'
    BY <1>a, <2>1, ReturnSide
  <2>3. FileSide'
    BY <1>a, <1>6, FailFiles
  <2>4. Kept
    BY <1>a, <1>c, <1>6, <2>1, WriteInBounds DEF Return, Goto
  <2> QED
    BY <2>2, <2>3, <2>4 DEF Inv
<1>7. ASSUME NEW c \in Calls, MarkWritten(c) PROVE Inv' /\ Kept
  <2>1. UNCHANGED <<cacheVars, made, disk>> /\ Return(c)
    BY <1>7 DEF MarkWritten
  <2>2. CacheSide'
    BY <1>a, <2>1, ReturnSide
  <2>3. FileSide'
    BY <1>a, <1>7, MarkFiles
  <2> QED
    BY <1>b, <2>1, <2>2, <2>3 DEF Inv
<1>8. CASE Reset
  <2>1. CacheSide' /\ UNCHANGED <<fileVars, doing, owner, sb, job>>
    BY <1>a, <1>8, ResetSide DEF Reset
  <2>2. (\A d \in Calls : SameCall(d)) /\ job' \in [Calls -> Jobs \union {None}]
    BY <1>a, <2>1 DEF SameCall, FileSide, FileTypes
  <2>3. FileSide'
    BY <1>a, <2>1, <2>2, FilesStay
  <2> QED
    BY <1>b, <2>1, <2>3 DEF Inv, fileVars
<1>9. ASSUME NEW t \in Threads, NEW p \in OtherPaths, NEW k \in Contents, Bash(FileOf[t][p], ToHost(t, k))
      PROVE  Inv' /\ Kept
  <2>1. UNCHANGED <<cacheVars, made, doing, owner, sb, job, since>>
    BY <1>9 DEF Bash
  <2>2. CacheSide'
    <3>1. CallTypes' /\ \A d \in Calls :
            doing'[d] = doing[d] /\ owner'[d] = owner[d] /\ sb'[d] = sb[d] /\ since'[d] = since[d]
      BY <1>a, <2>1 DEF CallTypes
    <3> QED
      BY <1>a, <2>1, <3>1, ToolSide
  <2>3. FileOf[t][p] \in Files /\ ToHost(t, k) \in SUBSET Words
    BY HostTexts DEF Files, ConstantsAssumption
  <2>4. FileSide'
    BY <1>a, <1>9, <2>3, BashFiles
  <2>5. Kept
    BY <2>1 DEF Kept
  <2> QED
    BY <2>2, <2>4, <2>5 DEF Inv
<1>10. CASE UNCHANGED vars
  <2>1. /\ UNCHANGED <<cached, lru, made, disk, author, meant, marks>>
        /\ UNCHANGED <<doing, owner, sb, job, since>>
    BY <1>10 DEF vars, cacheVars, fileVars
  <2>2. CacheSide'
    <3>1. CallTypes' /\ UNCHANGED cacheVars /\ \A d \in Calls :
            doing'[d] = doing[d] /\ owner'[d] = owner[d] /\ sb'[d] = sb[d] /\ since'[d] = since[d]
      BY <1>a, <2>1 DEF CallTypes, cacheVars
    <3> QED
      BY <1>a, <2>1, <3>1, ToolSide
  <2>3. FileSide'
    <3>1. UNCHANGED fileVars /\ (\A d \in Calls : SameCall(d)) /\ job' \in [Calls -> Jobs \union {None}]
      BY <1>a, <2>1 DEF SameCall, FileSide, FileTypes, fileVars
    <3> QED
      BY <1>a, <3>1, FilesStay
  <2> QED
    BY <1>10, <2>2, <2>3 DEF Inv
<1> QED
  BY <1>1, <1>2, <1>3, <1>4, <1>5, <1>6, <1>7, <1>8, <1>9, <1>10 DEF Next, Kept

LEMMA CacheIsKept == Inv => CacheKeepsSandboxes
<1> SUFFICES ASSUME Inv PROVE CacheKeepsSandboxes
  OBVIOUS
<1>1. CacheTypes /\ CacheInv /\ \A c \in Calls : CallInv(c)
  BY DEF Inv, CacheSide
<1>2. Cardinality(ToSet(lru)) = Len(lru)
  BY <1>1, DistinctAreCounted DEF CacheTypes, CacheInv
<1> QED
  BY <1>1, <1>2, InvIsTyped DEF CacheInv, CallInv, Pressed, CacheKeepsSandboxes, LruIsExact, LostByPressureOnly

LEMMA ReadsBack ==
  ASSUME ConstantsAssumption, NestedAlike, NamesApart, Inv
  PROVE  WrittenReadsBack
<1> SUFFICES ASSUME NEW f \in DOMAIN disk, NEW o \in Objects, author[f] = o,
                    \A c \in Calls : doing[c] \in {"open", "mark"} => File(c) # f
             PROVE  /\ Meaning(o[1], View(o, f)) = Meaning(o[1], meant[f])
                    /\ \A x \in View(o, f) : HeldBy(o[1], x) = {}
  BY DEF WrittenReadsBack
<1>1. f \in Files /\ FileInv(f) /\ meant[f] \in SUBSET UNION Contents
  BY DEF Inv, FileSide, FileTypes
<1>2. PICK t \in Threads, M \in SUBSET UNION Contents : t = o[1] /\ M = meant[f]
  BY <1>1, Bounds
<1>3. f \in marks[o] /\ disk[f] = ToHost(t, M)
  BY <1>1, <1>2, Bounds DEF FileInv, Writing
<1>4. View(o, f) = {Shown(t, Resolve(t, x)) : x \in M}
  BY <1>2, <1>3 DEF View, ToNames, ToHost
<1>5. \A x \in M : Resolve(t, Shown(t, Resolve(t, x))) = Resolve(t, x) /\ HeldBy(t, Shown(t, Resolve(t, x))) = {}
  BY NamesComeBack
<1>6. Meaning(t, View(o, f)) = Meaning(t, M)
  BY <1>4, <1>5 DEF Meaning
<1> QED
  BY <1>2, <1>4, <1>5, <1>6

(* Inv holds in every state of every execution.                              *)
THEOREM Invariant == BothSpec => []Inv
<1>1. BothInit => Inv
  BY BothAssumption, InvInit DEF BothInit
<1>2. Inv /\ [BothNext]_<<detecting, vars, ldVars>> => Inv'
  BY BothAssumption, InvNext DEF BothNext
<1> QED
  BY <1>1, <1>2, PTL DEF BothSpec

(* The LRU cache is exact, and a tool finds no sandbox after it has acquired *)
(* one only if as many other threads as the cache holds were used in         *)
(* between, or it was reset, whatever tools run at the same time             *)
(* (sandbox.go, LocalSandboxProvider).                                       *)
THEOREM SandboxesAreKept == BothSpec => []CacheKeepsSandboxes
<1>1. Inv => CacheKeepsSandboxes
  BY CacheIsKept
<1> QED
  BY <1>1, Invariant, PTL

(* The sandbox that alone has written a file reads back names that lead to   *)
(* the files it meant, and none of the host, for any order and overlap of    *)
(* writes and appends, some of which fail, and any mounts that nest as       *)
(* LocalSandboxProvider makes them.  That the names are those it wrote does  *)
(* not follow: another mount may give a file its name (write_file, read_file *)
(* and the rewriting of paths in sandbox.go).                                *)
THEOREM WrittenIsRead == BothSpec => []WrittenReadsBack
<1>1. Inv => WrittenReadsBack
  BY BothAssumption, ReadsBack
<1> QED
  BY <1>1, Invariant, PTL

(* The name that a tool shows for a file leads to that file again, whatever  *)
(* the mounts, if each one inside another is the directory of the same name  *)
(* inside the local one, as LocalSandboxProvider makes them                  *)
(* (sandbox.go, Acquire).                                                    *)
THEOREM NamesLeadBack == BothSpec => []ShownNamesResolve
<1>1. ShownNamesResolve
  BY BothAssumption, NoneMisleads DEF ShownNamesResolve
<1> QED
  BY <1>1, PTL

(* A write changes a file in the mounts of its own thread, the innermost of  *)
(* which is not read-only, whatever name it was given, or, told a path under *)
(* no mount, the file that this path itself is, for any mounts and paths     *)
(* (sandbox.go 179-223, 343-376).                                            *)
THEOREM WritesAreConfined == BothSpec => WritesStayInBounds
<1> DEFINE Bounded == \A c \in Calls : doing'[c] # doing[c] =>
             \A f \in Changed : InBounds(owner[c], IF doing[c] = "use" THEN job'[c].path ELSE job[c].path, f)
<1>1. Inv /\ [BothNext]_<<detecting, vars, ldVars>> => [Bounded]_vars
  BY BothAssumption, InvNext DEF BothNext, Confined, PathAt
<1> QED
  BY <1>1, Invariant, PTL DEF BothSpec, WritesStayInBounds

-----------------------------------------------------------------------------
(* The threads, hashes, counts and warnings of the loop detector.            *)

(* The tracked threads, and the LRU list of them.                            *)
TrackInv ==
  /\ DOMAIN history \subseteq Threads /\ history \in [DOMAIN history -> Seq(LD!Hashes)]
  /\ \A t \in DOMAIN history : Len(history[t]) \in 1..WindowSize
  /\ order \in Seq(Threads) /\ Distinct(order)
  /\ ToSet(order) = DOMAIN history /\ Len(order) <= MaxTrackedThreads

(* What is in the window often enough for a warning has had one.             *)
WarnedInv ==
  /\ warned \in [Threads -> SUBSET LD!Hashes]
  /\ \A t \in Threads \ DOMAIN history : warned[t] = {}
  /\ \A t \in DOMAIN history :
       /\ \A h \in LD!Hashes : LD!Count(history[t], h) >= Warn => h \in warned[t]
       /\ warned[t] \subseteq ToSet(history[t])

FreqInv ==
  /\ toolFreq \in [Threads -> [LD!Names -> Nat]] /\ toolFreqWarned \in [Threads -> SUBSET LD!Names]
  /\ \A t \in Threads, n \in LD!Names :
       toolFreq[t][n] <= FreqHard[n] /\ (toolFreq[t][n] >= FreqWarn[n] <=> n \in toolFreqWarned[t])
  /\ \A t \in Threads \ DOMAIN history : toolFreq[t] = LD!Nothing /\ toolFreqWarned[t] = {}

(* The last calls of a thread are as many repetitions as its streak says.    *)
StreakInv ==
  /\ streak \in [Threads -> 0..HardLimit] /\ stopped \subseteq Threads
  /\ \A t \in Threads : streak[t] > 0 =>
       /\ t \in DOMAIN history /\ streak[t] <= Len(history[t])
       /\ \A i \in 1..Len(history[t]) :
            i > Len(history[t]) - streak[t] => history[t][i] = history[t][Len(history[t])]
  /\ \A t \in Threads : streak[t] = HardLimit => t \in stopped

PendingInv ==
  /\ DOMAIN pending \subseteq Threads \X Runs
  /\ pending \in [DOMAIN pending -> Seq(LD!Names \union {"same"})]
  /\ \A k \in DOMAIN pending : Len(pending[k]) \in 1..MaxPerRun /\ k[1] \in DOMAIN history
  /\ pendingOrder \in Seq(Threads \X Runs) /\ Distinct(pendingOrder)
  /\ ToSet(pendingOrder) = DOMAIN pending /\ Len(pendingOrder) <= LD!MaxPendingKeys

LoopSide == TrackInv /\ WarnedInv /\ FreqInv /\ StreakInv /\ PendingInv


(* The operators of the detector's module are those of the lists above.      *)
LEMMA SameOperators ==
  /\ \A S : LD!Cardinality(S) = Cardinality(S)
  /\ \A s : LD!Range(s) = ToSet(s)
  /\ \A s, I : LD!Selection(s, I) = Selection(s, I)
<1>1. \A S : LD!Cardinality(S) = Cardinality(S)
  BY DEF LD!Cardinality, Cardinality
<1>2. \A I, i : LD!Rank(I, i) = Rank(I, i)
  BY <1>1 DEF LD!Rank, Rank
<1>3. \A s : LD!Range(s) = ToSet(s)
  BY DEF LD!Range, ToSet
<1>4. \A I, k : (CHOOSE i \in I : LD!Rank(I, i) = k) = (CHOOSE i \in I : Rank(I, i) = k)
  BY <1>2
<1>5. ASSUME NEW s, NEW I
      PROVE  LD!Selection(s, I) = [k \in 1..Cardinality(I) |-> s[CHOOSE i \in I : Rank(I, i) = k]]
  <2>1. LD!Selection(s, I) = [k \in 1..LD!Cardinality(I) |-> s[CHOOSE i \in I : LD!Rank(I, i) = k]]
    BY DEF LD!Selection
  <2> DEFINE there(k) == CHOOSE i \in I : LD!Rank(I, i) = k
             here(k)  == CHOOSE i \in I : Rank(I, i) = k
  <2>2. \A k : there(k) = here(k)
    BY <1>4
  <2> SUFFICES [k \in 1..LD!Cardinality(I) |-> s[there(k)]] = [k \in 1..Cardinality(I) |-> s[here(k)]]
    BY <2>1
  <2> HIDE DEF there, here
  <2> QED
    BY <1>1, <2>2
<1> QED
  BY <1>1, <1>3, <1>5 DEF Selection

(* A list from which some elements are taken.                                *)
LEMMA WithoutIsOrdered ==
  ASSUME NEW S, NEW s \in Seq(S), Distinct(s), NEW X
  PROVE  /\ LD!Without(s, X) \in Seq(S) /\ Distinct(LD!Without(s, X))
         /\ ToSet(LD!Without(s, X)) = ToSet(s) \ X
         /\ Len(LD!Without(s, X)) <= Len(s)
<1> DEFINE I == {i \in DOMAIN s : s[i] \notin X}
<1>1. DOMAIN s = 1..Len(s) /\ ToSet(s) = {s[i] : i \in 1..Len(s)}
  BY ListProperties
<1>2. I \in SUBSET (1..Len(s)) /\ {s[i] : i \in I} = ToSet(s) \ X
  BY <1>1
<1>3. LD!Without(s, X) = Selection(s, I)
  BY SameOperators DEF LD!Without
<1> HIDE DEF I
<1> QED
  BY <1>2, <1>3, SelectionInOrder

(* The last n entries of a list.                                             *)
LEMMA LastEntries ==
  ASSUME NEW S, NEW s \in Seq(S), NEW n \in Nat \ {0}
  PROVE  /\ LD!Last(n, s) \in Seq(S)
         /\ Len(LD!Last(n, s)) = IF Len(s) > n THEN n ELSE Len(s)
         /\ \A i \in 1..Len(LD!Last(n, s)) : LD!Last(n, s)[i] = s[Len(s) - Len(LD!Last(n, s)) + i]
         /\ ToSet(LD!Last(n, s)) \subseteq ToSet(s)
         /\ Distinct(s) => Distinct(LD!Last(n, s))
         /\ Len(s) > 0 => s[Len(s)] \in ToSet(LD!Last(n, s))
<1> DEFINE l == LD!Last(n, s)
           k == IF Len(s) > n THEN n ELSE Len(s)
           a == IF Len(s) > n THEN Len(s) - n + 1 ELSE 1
<1>1. Len(s) \in Nat /\ k \in Nat /\ k <= Len(s) /\ a = Len(s) - k + 1 /\ a \in 1..(Len(s) + 1)
  BY LenProperties
<1>2. l = SubSeq(s, a, Len(s))
  BY DEF LD!Last
<1>3. l \in Seq(S) /\ Len(l) = k /\ \A i \in 1..k : l[i] = s[a + i - 1]
  BY <1>1, <1>2, SubSeqProperties
<1> HIDE DEF l, k, a
<1>4. \A i \in 1..k : l[i] = s[Len(s) - k + i] /\ Len(s) - k + i \in 1..Len(s)
  BY <1>1, <1>3
<1>5. ToSet(l) = {l[i] : i \in 1..k} /\ ToSet(s) = {s[i] : i \in 1..Len(s)}
  BY <1>3, ListProperties
<1>6. ToSet(l) \subseteq ToSet(s)
  BY <1>4, <1>5
<1>7. ASSUME Distinct(s) PROVE Distinct(l)
  <2> SUFFICES ASSUME NEW i \in 1..k, NEW j \in 1..k, l[i] = l[j] PROVE i = j
    BY <1>3 DEF Distinct
  <2>1. Len(s) - k + i = Len(s) - k + j
    BY <1>4, <1>7 DEF Distinct
  <2> QED
    BY <1>1, <2>1
<1>8. ASSUME Len(s) > 0 PROVE s[Len(s)] \in ToSet(l)
  <2>1. k \in 1..k /\ Len(s) - k + k = Len(s)
    BY <1>1, <1>8 DEF k
  <2> QED
    BY <1>4, <1>5, <2>1
<1> QED
  BY <1>3, <1>4, <1>6, <1>7, <1>8 DEF l, k

LEMMA CountProperties ==
  ASSUME NEW S, NEW s \in Seq(S), NEW x
  PROVE  /\ IsFiniteSet({i \in DOMAIN s : s[i] = x}) /\ LD!Count(s, x) = Cardinality({i \in DOMAIN s : s[i] = x})
         /\ LD!Count(s, x) \in Nat /\ (LD!Count(s, x) > 0 <=> x \in ToSet(s))
<1> DEFINE I == {i \in DOMAIN s : s[i] = x}
<1>1. DOMAIN s = 1..Len(s) /\ Len(s) \in Nat /\ ToSet(s) = {s[i] : i \in 1..Len(s)}
  BY ListProperties
<1>2. IsFiniteSet(I)
  <2>1. I \in SUBSET (1..Len(s)) /\ IsFiniteSet(1..Len(s))
    BY <1>1, UpToIsFinite
  <2> QED
    BY <2>1, FS_Subset
<1>3. LD!Count(s, x) = Cardinality(I)
  BY SameOperators DEF LD!Count
<1>4. I # {} <=> x \in ToSet(s)
  BY <1>1
<1> HIDE DEF I
<1>5. Cardinality(I) \in Nat /\ (Cardinality(I) = 0 <=> I = {})
  BY <1>2, FS_CardinalityType, FS_EmptySet
<1> QED
  BY <1>2, <1>3, <1>4, <1>5 DEF I

(* The window has no more of an element than the list it is cut from, and a  *)
(* new entry adds one to its own count.                                      *)
LEMMA WindowCounts ==
  ASSUME NEW S, NEW s \in Seq(S), NEW x, NEW n \in Nat \ {0}
  PROVE  LD!Count(LD!Last(n, s), x) <= LD!Count(s, x)
<1> DEFINE l == LD!Last(n, s)
           d == Len(s) - Len(l)
           I == {i \in DOMAIN l : l[i] = x}
           J == {i \in DOMAIN s : s[i] = x}
           f == [i \in I |-> d + i]
<1>1. l \in Seq(S) /\ \A i \in 1..Len(l) : l[i] = s[Len(s) - Len(l) + i]
  BY LastEntries
<1>2. DOMAIN l = 1..Len(l) /\ DOMAIN s = 1..Len(s) /\ Len(l) \in Nat /\ Len(s) \in Nat /\ Len(l) <= Len(s)
  BY <1>1, LastEntries, ListProperties
<1>3. IsFiniteSet(J) /\ LD!Count(s, x) = Cardinality(J) /\ LD!Count(l, x) = Cardinality(I)
  BY <1>1, CountProperties
<1> HIDE DEF l
<1>4. \A i \in I : i \in Nat /\ d + i \in J
  BY <1>1, <1>2
<1>5. d \in Nat
  BY <1>2
<1> HIDE DEF d, I, J
<1>6. f \in Injection(I, J)
  <2>1. f \in [I -> J]
    BY <1>4
  <2>2. \A i, j \in I : f[i] = f[j] => i = j
    BY <1>4, <1>5
  <2> QED
    BY <2>1, <2>2 DEF Injection, IsInjective
<1> HIDE DEF f
<1>7. Cardinality(I) <= Cardinality(J)
  BY <1>3, <1>6, FS_Injection
<1> QED
  BY <1>3, <1>7 DEF l

LEMMA AppendCounts ==
  ASSUME NEW S, NEW s \in Seq(S), NEW h \in S, NEW x
  PROVE  LD!Count(Append(s, h), x) = LD!Count(s, x) + IF x = h THEN 1 ELSE 0
<1> DEFINE a == Append(s, h)
           m == Len(s) + 1
           I == {i \in DOMAIN a : a[i] = x}
           J == {i \in DOMAIN s : s[i] = x}
<1>1. a \in Seq(S) /\ Len(a) = m /\ a[m] = h /\ \A i \in 1..Len(s) : a[i] = s[i]
  BY AppendProperties
<1>2. DOMAIN a = 1..m /\ DOMAIN s = 1..Len(s) /\ Len(s) \in Nat
  BY <1>1, ListProperties
<1>3. IsFiniteSet(J) /\ LD!Count(s, x) = Cardinality(J) /\ LD!Count(a, x) = Cardinality(I)
  BY <1>1, CountProperties
<1> HIDE DEF a
<1>4. m \notin J /\ I = IF x = h THEN J \union {m} ELSE J
  <2>1. m \notin DOMAIN s /\ DOMAIN a = DOMAIN s \union {m}
    BY <1>2
  <2>2. \A i \in DOMAIN s : a[i] = s[i]
    BY <1>1, <1>2
  <2> HIDE DEF m
  <2> QED
    BY <1>1, <2>1, <2>2
<1> HIDE DEF I, J, m
<1>5. Cardinality(J) \in Nat /\ Cardinality(J \union {m}) = Cardinality(J) + 1
  BY <1>3, <1>4, FS_AddElement, FS_CardinalityType
<1> QED
  BY <1>3, <1>4, <1>5 DEF a

LEMMA LoopBounds ==
  ASSUME LD!ConstantsAssumption
  PROVE  /\ Warn \in Nat \ {0} /\ HardLimit \in Nat \ {0} /\ WindowSize \in Nat \ {0} /\ MaxPerRun \in Nat \ {0}
         /\ MaxTrackedThreads \in Nat \ {0} /\ LD!MaxPendingKeys \in Nat \ {0}
         /\ Warn < HardLimit /\ HardLimit <= WindowSize
         /\ \A n \in LD!Names : FreqWarn[n] \in Nat \ {0} /\ FreqHard[n] \in Nat /\ FreqWarn[n] < FreqHard[n]
BY DEF LD!ConstantsAssumption, LD!MaxPendingKeys

Before(t) == IF t \in DOMAIN history THEN history[t] ELSE <<>>

(* The window of thread t becomes hist, with h as its newest set of calls,   *)
(* and those in gone are forgotten.                                          *)
Tracked(t, h, gone, hist) ==
  /\ t \in Threads /\ h \in LD!Hashes /\ gone = LD!Evicted(t)
  /\ hist = LD!Last(WindowSize, Append(Before(t), h))
  /\ history' = [u \in (DOMAIN history \ gone) \union {t} |-> IF u = t THEN hist ELSE history[u]]
  /\ order' = Append(LD!Without(order, gone \union {t}), t)

LEMMA HistoryStep ==
  ASSUME NEW t, NEW h, NEW gone, NEW hist, Tracked(t, h, gone, hist)
  PROVE  /\ t \in Threads /\ h \in LD!Hashes
         /\ DOMAIN history' = (DOMAIN history \ gone) \union {t} /\ hist = history'[t]
         /\ \A u \in DOMAIN history' : u # t => u \in DOMAIN history \ gone /\ history'[u] = history[u]
BY DEF Tracked

(* Who is forgotten was tracked, and the new window continues the old one.   *)
LEMMA WindowStep ==
  ASSUME LD!ConstantsAssumption, TrackInv, NEW t, NEW h, NEW gone, NEW hist, Tracked(t, h, gone, hist)
  PROVE  /\ t \notin gone /\ gone \subseteq DOMAIN history
         /\ Before(t) \in Seq(LD!Hashes) /\ Append(Before(t), h) \in Seq(LD!Hashes) /\ hist = LD!Last(WindowSize, Append(Before(t), h))
         /\ hist \in Seq(LD!Hashes) /\ Len(Before(t)) \in 0..WindowSize
         /\ Len(hist) \in 1..WindowSize
         /\ h \in ToSet(hist) /\ ToSet(hist) \subseteq ToSet(Before(t)) \union {h}
<1>0. PICK old : old = Before(t)
  OBVIOUS
<1>1. WindowSize \in Nat \ {0} /\ MaxTrackedThreads \in Nat \ {0}
  BY LoopBounds
<1>2. t \notin gone /\ gone \subseteq DOMAIN history
  <2>1. CASE gone = {}
    BY <2>1
  <2>2. CASE gone # {}
    <3>1. t \notin DOMAIN history /\ gone = {Head(order)} /\ Len(order) = MaxTrackedThreads
      BY <2>2 DEF Tracked, LD!Evicted
    <3>2. order \in Seq(Threads) /\ order # <<>> /\ Distinct(order)
      BY <1>1, <3>1 DEF TrackInv
    <3>3. Head(order) \in ToSet(order)
      BY <3>2, TailInOrder
    <3> QED
      BY <3>1, <3>3 DEF TrackInv
  <2> QED
    BY <2>1, <2>2
<1>3. old \in Seq(LD!Hashes) /\ Len(old) \in 0..WindowSize
  <2>1. CASE t \in DOMAIN history
    <3>1. history[t] \in Seq(LD!Hashes) /\ Len(history[t]) \in 1..WindowSize
      BY <2>1 DEF TrackInv
    <3> QED
      BY <1>0, <1>1, <2>1, <3>1 DEF Before
  <2>2. CASE t \notin DOMAIN history
    <3>1. <<>> \in Seq(LD!Hashes) /\ Len(<<>>) = 0
      OBVIOUS
    <3> QED
      BY <1>0, <1>1, <2>2, <3>1 DEF Before
  <2> QED
    BY <2>1, <2>2
<1>4. h \in LD!Hashes /\ hist = LD!Last(WindowSize, Append(old, h))
  BY <1>0 DEF Tracked
<1> DEFINE a == Append(old, h)
<1>5. a \in Seq(LD!Hashes) /\ Len(a) = Len(old) + 1 /\ a[Len(a)] = h /\ ToSet(a) = ToSet(old) \union {h}
  <2>1. a \in Seq(LD!Hashes) /\ Len(a) = Len(old) + 1 /\ a[Len(old) + 1] = h /\ \A i \in 1..Len(old) : a[i] = old[i]
    BY <1>3, <1>4, AppendProperties
  <2>2. ToSet(a) = {a[i] : i \in 1..Len(a)} /\ ToSet(old) = {old[i] : i \in 1..Len(old)}
    <3>1. ToSet(a) = {a[i] : i \in 1..Len(a)}
      BY <2>1, ListProperties
    <3>2. ToSet(old) = {old[i] : i \in 1..Len(old)}
      BY <1>3, ListProperties
    <3> QED
      BY <3>1, <3>2
  <2>3. 1..(Len(old) + 1) = 1..Len(old) \union {Len(old) + 1}
    BY <1>3
  <2> HIDE DEF a
  <2>4. ToSet(a) = ToSet(old) \union {h}
    BY <2>1, <2>2, <2>3
  <2> QED
    BY <2>1, <2>4
<1> HIDE DEF a
<1>6. /\ hist \in Seq(LD!Hashes) /\ Len(hist) = IF Len(a) > WindowSize THEN WindowSize ELSE Len(a)
      /\ ToSet(hist) \subseteq ToSet(a) /\ (Len(a) > 0 => a[Len(a)] \in ToSet(hist))
  BY <1>1, <1>4, <1>5, LastEntries DEF a
<1>7. Len(hist) \in 1..WindowSize /\ h \in ToSet(hist)
  BY <1>1, <1>3, <1>5, <1>6
<1> QED
  BY <1>0, <1>2, <1>3, <1>4, <1>5, <1>6, <1>7 DEF a

(* The LRU list of threads stays exact and within its limit.                 *)
LEMMA TrackStep ==
  ASSUME LD!ConstantsAssumption, TrackInv, NEW t, NEW h, NEW gone, NEW hist, Tracked(t, h, gone, hist)
  PROVE  TrackInv'
<1>1. /\ t \notin gone /\ gone \subseteq DOMAIN history /\ hist \in Seq(LD!Hashes)
      /\ Len(hist) \in 1..WindowSize
  BY WindowStep
<1>2. /\ t \in Threads /\ DOMAIN history' = (DOMAIN history \ gone) \union {t} /\ history'[t] = hist
      /\ \A u \in DOMAIN history' : u # t => u \in DOMAIN history /\ history'[u] = history[u]
  BY HistoryStep
<1>3. WindowSize \in Nat \ {0} /\ MaxTrackedThreads \in Nat \ {0}
  BY LoopBounds
<1>4. DOMAIN history' \subseteq Threads /\ history' \in [DOMAIN history' -> Seq(LD!Hashes)]
  <2>1. history' = [u \in (DOMAIN history \ gone) \union {t} |-> IF u = t THEN hist ELSE history[u]]
    BY DEF Tracked
  <2> QED
    BY <1>1, <1>2, <2>1 DEF TrackInv
<1>5. ASSUME NEW u \in DOMAIN history' PROVE Len(history'[u]) \in 1..WindowSize
  <2>1. CASE u = t
    BY <1>1, <1>2, <2>1
  <2>2. CASE u # t
    BY <1>2, <1>5, <2>2 DEF TrackInv
  <2> QED
    BY <2>1, <2>2
<1> DEFINE o == LD!Without(order, gone \union {t})
<1>6. order \in Seq(Threads) /\ Distinct(order) /\ ToSet(order) = DOMAIN history /\ Len(order) \in 0..MaxTrackedThreads
  <2>1. order \in Seq(Threads) /\ Distinct(order) /\ ToSet(order) = DOMAIN history /\ Len(order) <= MaxTrackedThreads
    BY DEF TrackInv
  <2> QED
    BY <1>3, <2>1, LenProperties
<1>7. o \in Seq(Threads) /\ Distinct(o) /\ ToSet(o) = ToSet(order) \ (gone \union {t}) /\ Len(o) <= Len(order)
  BY <1>6, WithoutIsOrdered
<1>8. order' = Append(o, t)
  BY DEF Tracked
<1> HIDE DEF o
<1>9. order' \in Seq(Threads) /\ Distinct(order') /\ ToSet(order') = ToSet(o) \union {t} /\ Len(order') = Len(o) + 1
  BY <1>1, <1>2, <1>7, <1>8, AppendInOrder
<1>10. ToSet(order') = DOMAIN history'
  BY <1>1, <1>2, <1>6, <1>7, <1>9
<1>11. Len(o) + 1 <= MaxTrackedThreads
  <2>1. Len(o) \in Nat
    BY <1>7, LenProperties
  <2>2. CASE Len(order) < MaxTrackedThreads
    BY <1>3, <1>6, <1>7, <2>1, <2>2
  <2>3. CASE Len(order) = MaxTrackedThreads
    <3>1. PICK x \in ToSet(order) : x \in gone \union {t}
      <4>1. CASE t \in DOMAIN history
        BY <1>6, <4>1
      <4>2. CASE t \notin DOMAIN history
        <5>1. gone = {Head(order)}
          BY <2>3, <4>2 DEF Tracked, LD!Evicted
        <5> QED
          BY <1>1, <1>6, <5>1
      <4> QED
        BY <4>1, <4>2
    <3>2. IsFiniteSet(ToSet(order)) /\ Cardinality(ToSet(order)) = Len(order) /\ Cardinality(ToSet(o)) = Len(o)
      BY <1>6, <1>7, DistinctAreCounted
    <3>3. IsFiniteSet(ToSet(order) \ {x}) /\ Cardinality(ToSet(order) \ {x}) = Len(order) - 1
      BY <3>1, <3>2, FS_RemoveElement
    <3>4. ToSet(o) \in SUBSET (ToSet(order) \ {x})
      BY <1>7, <3>1
    <3>5. Cardinality(ToSet(o)) <= Cardinality(ToSet(order) \ {x})
      BY <3>3, <3>4, FS_Subset
    <3> QED
      BY <1>3, <2>1, <2>3, <3>2, <3>3, <3>5
  <2> QED
    BY <1>3, <1>6, <2>2, <2>3
<1> QED
  BY <1>4, <1>5, <1>9, <1>10, <1>11 DEF TrackInv

(* Only the newest set of calls can have become more frequent.               *)
LEMMA WarnedStep ==
  ASSUME LD!ConstantsAssumption, TrackInv, WarnedInv,
         NEW t, NEW h, NEW gone, NEW hist, Tracked(t, h, gone, hist),
         NEW M, warned[t] \intersect ToSet(hist) \subseteq M, M \subseteq (warned[t] \union {h}) \intersect ToSet(hist),
         LD!Count(hist, h) >= Warn /\ LD!Count(hist, h) < HardLimit => h \in M,
         warned' = [u \in Threads |-> IF u = t THEN M ELSE IF u \in gone THEN {} ELSE warned[u]]
  PROVE  WarnedInv'
<1>1. /\ t \in Threads /\ h \in LD!Hashes /\ t \notin gone /\ gone \subseteq DOMAIN history
      /\ Before(t) \in Seq(LD!Hashes) /\ Append(Before(t), h) \in Seq(LD!Hashes)
      /\ hist = LD!Last(WindowSize, Append(Before(t), h)) /\ hist \in Seq(LD!Hashes)
  <2>1. t \in Threads /\ h \in LD!Hashes
    BY HistoryStep
  <2> QED
    BY <2>1, WindowStep
<1>2. /\ DOMAIN history' = (DOMAIN history \ gone) \union {t} /\ history'[t] = hist
      /\ \A u \in DOMAIN history' : u # t => u \in DOMAIN history \ gone /\ history'[u] = history[u]
  BY HistoryStep
<1>3. Warn \in Nat \ {0} /\ HardLimit \in Nat \ {0} /\ WindowSize \in Nat \ {0} /\ Warn < HardLimit
  BY LoopBounds
<1>4. /\ warned \in [Threads -> SUBSET LD!Hashes]
      /\ \A u \in Threads \ DOMAIN history : warned[u] = {}
      /\ \A u \in DOMAIN history :
           (\A g \in LD!Hashes : LD!Count(history[u], g) >= Warn => g \in warned[u]) /\ warned[u] \subseteq ToSet(history[u])
  BY DEF WarnedInv
<1>5. ASSUME NEW g \in LD!Hashes, LD!Count(Before(t), g) >= Warn PROVE g \in warned[t]
  <2>1. CASE t \in DOMAIN history
    BY <1>4, <1>5, <2>1 DEF Before
  <2>2. CASE t \notin DOMAIN history
    <3>1. Before(t) = <<>> /\ ToSet(<<>>) = {}
      BY <2>2 DEF Before, ToSet
    <3>2. LD!Count(Before(t), g) \in Nat /\ ~(LD!Count(Before(t), g) > 0)
      BY <1>1, <3>1, CountProperties
    <3> QED
      BY <1>3, <1>5, <3>2
  <2> QED
    BY <2>1, <2>2
<1>6. ASSUME NEW g \in LD!Hashes, LD!Count(hist, g) >= Warn PROVE g \in M
  <2>1. LD!Count(hist, g) \in Nat /\ (LD!Count(hist, g) > 0 <=> g \in ToSet(hist))
    BY <1>1, CountProperties
  <2>2. LD!Count(Before(t), g) \in Nat
    BY <1>1, CountProperties
  <2>3. LD!Count(hist, g) <= LD!Count(Append(Before(t), h), g)
    <3>1. PICK a : a = Append(Before(t), h)
      OBVIOUS
    <3>2. a \in Seq(LD!Hashes) /\ hist = LD!Last(WindowSize, a)
      BY <1>1, <3>1
    <3>3. LD!Count(LD!Last(WindowSize, a), g) <= LD!Count(a, g)
      BY <1>1, <1>3, <3>2, WindowCounts
    <3> QED
      BY <3>1, <3>2, <3>3
  <2>4. LD!Count(Append(Before(t), h), g) = LD!Count(Before(t), g) + IF g = h THEN 1 ELSE 0
    BY <1>1, AppendCounts
  <2>5. g \in ToSet(hist)
    BY <1>3, <1>6, <2>1
  <2>6. CASE g # h
    <3>1. LD!Count(Before(t), g) >= Warn
      BY <1>3, <1>6, <2>1, <2>2, <2>3, <2>4, <2>6
    <3> QED
      BY <1>5, <2>5, <3>1
  <2>7. CASE g = h /\ LD!Count(hist, h) < HardLimit
    BY <1>6, <2>7
  <2>8. CASE g = h /\ ~(LD!Count(hist, h) < HardLimit)
    <3>1. LD!Count(Before(t), g) >= Warn
      BY <1>3, <2>1, <2>2, <2>3, <2>4, <2>8
    <3> QED
      BY <1>5, <2>5, <3>1
  <2> QED
    BY <2>6, <2>7, <2>8
<1>7. warned' \in [Threads -> SUBSET LD!Hashes]
  <2>1. M \subseteq LD!Hashes
    BY <1>1, <1>4
  <2> QED
    BY <1>4, <2>1
<1>8. warned'[t] = M /\ \A u \in Threads : u # t => warned'[u] = IF u \in gone THEN {} ELSE warned[u]
  BY <1>1
<1>9. \A u \in Threads \ DOMAIN history' : warned'[u] = {}
  BY <1>2, <1>4, <1>8
<1>10. ASSUME NEW u \in DOMAIN history', u \in Threads
       PROVE  /\ \A g \in LD!Hashes : LD!Count(history'[u], g) >= Warn => g \in warned'[u]
              /\ warned'[u] \subseteq ToSet(history'[u])
  <2>1. CASE u = t
    BY <1>2, <1>6, <1>8, <2>1
  <2>2. CASE u # t
    BY <1>2, <1>4, <1>8, <1>10, <2>2
  <2> QED
    BY <2>1, <2>2
<1>11. DOMAIN history' \subseteq Threads
  BY <1>1, <1>2 DEF TrackInv
<1> QED
  BY <1>7, <1>9, <1>10, <1>11 DEF WarnedInv

(* If the first layer stops or warns, no tool is counted.                    *)
LEMMA FreqForgotten ==
  ASSUME LD!ConstantsAssumption, TrackInv, FreqInv, NEW t, NEW h, NEW gone, NEW hist, Tracked(t, h, gone, hist),
         toolFreq' = [u \in Threads |-> IF u \in gone THEN LD!Nothing ELSE toolFreq[u]],
         toolFreqWarned' = [u \in Threads |-> IF u \in gone THEN {} ELSE toolFreqWarned[u]]
  PROVE  FreqInv'
<1>1. DOMAIN history' = (DOMAIN history \ gone) \union {t}
  BY HistoryStep
<1>2. LD!Nothing \in [LD!Names -> Nat] /\ \A n \in LD!Names : LD!Nothing[n] = 0 /\ FreqWarn[n] \in Nat \ {0} /\ FreqHard[n] \in Nat
  BY LoopBounds DEF LD!Nothing
<1>3. toolFreq' \in [Threads -> [LD!Names -> Nat]] /\ toolFreqWarned' \in [Threads -> SUBSET LD!Names]
  BY <1>2 DEF FreqInv
<1>4. ASSUME NEW u \in Threads, NEW n \in LD!Names
      PROVE  toolFreq'[u][n] <= FreqHard[n] /\ (toolFreq'[u][n] >= FreqWarn[n] <=> n \in toolFreqWarned'[u])
  <2>1. CASE u \in gone
    BY <1>2, <2>1
  <2>2. CASE u \notin gone
    BY <2>2 DEF FreqInv
  <2> QED
    BY <2>1, <2>2
<1>5. \A u \in Threads \ DOMAIN history' : toolFreq'[u] = LD!Nothing /\ toolFreqWarned'[u] = {}
  BY <1>1 DEF FreqInv
<1> QED
  BY <1>3, <1>4, <1>5 DEF FreqInv

(* How many of the first calls use a tool.                                   *)
Uses(calls, n, i) == Cardinality({j \in 1..i : calls[j].name = n})

LEMMA UsesGrow ==
  ASSUME NEW calls, NEW n, NEW i \in Nat
  PROVE  /\ Uses(calls, n, i) \in Nat /\ Uses(calls, n, 0) = 0
         /\ Uses(calls, n, i + 1) = Uses(calls, n, i) + IF calls[i + 1].name = n THEN 1 ELSE 0
<1> DEFINE I == {j \in 1..i : calls[j].name = n}
           J == {j \in 1..(i + 1) : calls[j].name = n}
           m == i + 1
<1>1. IsFiniteSet(I)
  <2>1. I \in SUBSET (1..i) /\ IsFiniteSet(1..i)
    BY UpToIsFinite
  <2> QED
    BY <2>1, FS_Subset
<1>2. {j \in 1..0 : calls[j].name = n} = {}
  OBVIOUS
<1>3. m \notin I /\ J = IF calls[m].name = n THEN I \union {m} ELSE I
  <2>1. 1..m = 1..i \union {m} /\ m \notin 1..i
    OBVIOUS
  <2> HIDE DEF m
  <2> SUFFICES m \notin I /\ {j \in 1..m : calls[j].name = n} = IF calls[m].name = n THEN I \union {m} ELSE I
    BY DEF m
  <2> QED
    BY <2>1
<1>4. Uses(calls, n, i) = Cardinality(I) /\ Uses(calls, n, i + 1) = Cardinality(J)
  BY DEF Uses
<1>5. Uses(calls, n, 0) = 0
  BY <1>2, FS_EmptySet DEF Uses
<1> HIDE DEF I, J
<1>6. Cardinality(I) \in Nat /\ Cardinality(I \union {m}) = Cardinality(I) + 1
  BY <1>1, <1>3, FS_AddElement, FS_CardinalityType
<1> QED
  BY <1>3, <1>4, <1>5, <1>6

LEMMA CallsHaveNames ==
  ASSUME LD!ConstantsAssumption, NEW calls \in CallSets
  PROVE  /\ Len(calls) \in Nat \ {0} /\ DOMAIN calls = 1..Len(calls)
         /\ \A i \in 1..Len(calls) : calls[i].name \in LD!Names
         /\ LD!HashOf[calls] \in LD!Hashes
<1>1. calls # <<>> /\ calls \in Seq(LD!Range(calls))
  BY DEF LD!ConstantsAssumption
<1>2. Len(calls) \in Nat \ {0} /\ DOMAIN calls = 1..Len(calls)
  BY <1>1, LenProperties, EmptySeq
<1>3. ASSUME NEW i \in 1..Len(calls) PROVE calls[i].name \in LD!Names
  <2>1. calls[i] \in LD!Range(calls)
    BY <1>2 DEF LD!Range
  <2>2. calls[i] \in UNION {LD!Range(s) : s \in CallSets}
    BY <2>1
  <2> QED
    BY <2>2 DEF LD!Names
<1>4. LD!HashOf[calls] \in LD!Hashes
  <2>1. DOMAIN LD!HashOf = CallSets
    BY DEF LD!HashOf
  <2> QED
    BY <2>1 DEF LD!Hashes, LD!Range
<1> QED
  BY <1>2, <1>3, <1>4

(* Calls are counted up to the first that stops or warns.                    *)
LEMMA CountedCalls ==
  ASSUME LD!ConstantsAssumption, NEW t, NEW calls \in CallSets
  PROVE  /\ LD!Counted(t, calls) \in 1..Len(calls)
         /\ \A i \in 1..Len(calls) : LD!FreqStops(t, calls, i) \/ LD!FreqWarns(t, calls, i) => LD!Counted(t, calls) <= i
<1> DEFINE Stops(i) == LD!FreqStops(t, calls, i) \/ LD!FreqWarns(t, calls, i)
           T == {i \in DOMAIN calls : Stops(i)}
           least == CHOOSE i \in T : \A j \in T : i <= j
<1>1. Len(calls) \in Nat \ {0} /\ DOMAIN calls = 1..Len(calls)
  BY CallsHaveNames
<1>2. LD!Counted(t, calls) = IF T = {} THEN Len(calls) ELSE least
  BY DEF LD!Counted
<1> HIDE DEF Stops
<1>3. CASE T = {}
  BY <1>1, <1>2, <1>3 DEF Stops
<1>4. CASE T # {}
  <2>1. T \in SUBSET Nat
    BY <1>1
  <2>2. \E i \in T : \A j \in T : i <= j
    BY <1>4, <2>1, LeastExists
  <2>3. least \in T /\ \A j \in T : least <= j
    BY <2>2
  <2> HIDE DEF least
  <2> QED
    BY <1>1, <1>2, <1>4, <2>3 DEF Stops
<1> QED
  BY <1>3, <1>4

(* A tool is marked as warned of exactly when its count gets to the limit.   *)
LEMMA BumpedCounts ==
  ASSUME LD!ConstantsAssumption, FreqInv, NEW t \in Threads, NEW calls \in CallSets, NEW n \in LD!Names,
         NEW k, k = LD!Counted(t, calls), NEW told \in BOOLEAN, told = (LD!FreqWarns(t, calls, k) /\ calls[k].name = n)
  PROVE  /\ LD!Bumped(t, calls, n) \in Nat /\ LD!Bumped(t, calls, n) <= FreqHard[n]
         /\ LD!Bumped(t, calls, n) >= FreqWarn[n] <=> n \in toolFreqWarned[t] \/ told
<1>1. k \in 1..Len(calls) /\ Len(calls) \in Nat
      /\ \A i \in 1..Len(calls) : LD!FreqStops(t, calls, i) \/ LD!FreqWarns(t, calls, i) => k <= i
  BY CountedCalls, CallsHaveNames
<1>2. PICK f : f = toolFreq[t][n]
  OBVIOUS
<1>3. PICK w : w = FreqWarn[n]
  OBVIOUS
<1>4. PICK x : x = FreqHard[n]
  OBVIOUS
<1>5. f \in Nat /\ w \in Nat \ {0} /\ x \in Nat /\ w < x /\ f <= x /\ (f >= w <=> n \in toolFreqWarned[t])
  <2>1. w \in Nat \ {0} /\ x \in Nat /\ w < x
    BY <1>3, <1>4, LoopBounds
  <2>2. f \in Nat /\ f <= x /\ (f >= w <=> n \in toolFreqWarned[t])
    BY <1>2, <1>3, <1>4 DEF FreqInv
  <2> QED
    BY <2>1, <2>2
<1>6. \A i \in Nat : Uses(calls, n, i) \in Nat
  BY UsesGrow
<1>7. ASSUME NEW i \in Nat, calls[i].name = n
      PROVE  /\ LD!FreqStops(t, calls, i) <=> f + Uses(calls, n, i) >= x
             /\ LD!FreqWarns(t, calls, i) <=> /\ ~(f + Uses(calls, n, i) >= x) /\ f + Uses(calls, n, i) >= w
                                              /\ n \notin toolFreqWarned[t]
  <2>1. LD!Used(t, calls, i) = f + Uses(calls, n, i)
    BY <1>2, <1>7, SameOperators DEF LD!Used, Uses
  <2> QED
    BY <1>3, <1>4, <1>7, <2>1 DEF LD!FreqStops, LD!FreqWarns
<1>8. LD!Bumped(t, calls, n) = IF f + Uses(calls, n, k) > x THEN x ELSE f + Uses(calls, n, k)
  <2>1. LD!Cardinality({j \in 1..k : calls[j].name = n}) = Uses(calls, n, k)
    BY SameOperators DEF Uses
  <2> QED
    BY <1>2, <1>4, <2>1 DEF LD!Bumped
<1> DEFINE b == LD!Bumped(t, calls, n)
<1>9. k \in Nat /\ Uses(calls, n, k) \in Nat /\ b \in Nat /\ b <= x /\ b >= f /\ (b >= w <=> f + Uses(calls, n, k) >= w)
  <2>1. PICK c \in Nat : c = Uses(calls, n, k)
    BY <1>1, <1>6
  <2>2. b = IF f + c > x THEN x ELSE f + c
    BY <1>8, <2>1
  <2> HIDE DEF b
  <2>3. b \in Nat /\ b <= x /\ b >= f /\ (b >= w <=> f + c >= w)
    <3>1. CASE f + c > x
      BY <1>5, <2>2, <3>1
    <3>2. CASE ~(f + c > x)
      BY <1>5, <2>2, <3>2
    <3> QED
      BY <3>1, <3>2
  <2> QED
    BY <1>1, <2>1, <2>3
<1>10. n \in toolFreqWarned[t] => b >= w
  BY <1>5, <1>9
<1>11. told => b >= w
  BY <1>7, <1>9
<1>12. ASSUME b >= w, n \notin toolFreqWarned[t] PROVE told
  <2> DEFINE T == {i \in 0..k : f + Uses(calls, n, i) >= w}
  <2>1. T \in SUBSET Nat /\ k \in T
    BY <1>1, <1>9, <1>12
  <2>2. PICK i \in T : \A j \in T : i <= j
    BY <2>1, LeastExists
  <2>3. i \in 0..k /\ f + Uses(calls, n, i) >= w /\ i <= k
    BY <1>1, <2>2
  <2>4. i # 0
    <3>1. Uses(calls, n, 0) = 0
      BY UsesGrow
    <3> QED
      BY <1>5, <1>12, <2>3, <3>1
  <2>5. PICK m \in Nat : i = m + 1
    <3>1. i - 1 \in Nat /\ i = (i - 1) + 1
      BY <2>3, <2>4
    <3> QED
      BY <3>1
  <2>6. m \notin T
    BY <2>2, <2>5
  <2>7. ~(f + Uses(calls, n, m) >= w)
    BY <1>9, <2>3, <2>5, <2>6
  <2>8. /\ Uses(calls, n, m) \in Nat
        /\ Uses(calls, n, i) = Uses(calls, n, m) + IF calls[i].name = n THEN 1 ELSE 0
    BY <2>5, UsesGrow
  <2>9. calls[i].name = n /\ f + Uses(calls, n, i) = w
    BY <1>5, <2>3, <2>7, <2>8
  <2>10. LD!FreqWarns(t, calls, i)
    BY <1>5, <1>7, <1>12, <2>3, <2>9
  <2>11. i \in 1..Len(calls)
    BY <1>1, <2>3, <2>4
  <2>12. k <= i
    BY <1>1, <2>10, <2>11
  <2>13. i = k
    BY <1>9, <2>3, <2>12
  <2> QED
    BY <2>9, <2>10, <2>13
<1> HIDE DEF b
<1>13. b >= w <=> n \in toolFreqWarned[t] \/ told
  BY <1>10, <1>11, <1>12
<1> QED
  BY <1>3, <1>4, <1>9, <1>13 DEF b

(* The counts of the tools of a thread, and its new mark if one is due.      *)
Grown(t, gone, calls, new) ==
  /\ new = IF LD!FreqWarns(t, calls, LD!Counted(t, calls)) THEN {calls[LD!Counted(t, calls)].name} ELSE {}
  /\ toolFreq' = [u \in Threads |-> IF u \in gone THEN LD!Nothing
                                    ELSE IF u = t THEN [n \in LD!Names |-> LD!Bumped(t, calls, n)] ELSE toolFreq[u]]
  /\ toolFreqWarned' = [u \in Threads |-> IF u \in gone THEN {} ELSE
                                            toolFreqWarned[u] \union (IF u = t THEN new ELSE {})]

LEMMA FreqCounted ==
  ASSUME LD!ConstantsAssumption, TrackInv, FreqInv, NEW t, NEW h, NEW gone, NEW hist, Tracked(t, h, gone, hist),
         NEW calls \in CallSets, NEW new, Grown(t, gone, calls, new)
  PROVE  FreqInv'
<1>0. PICK k : k = LD!Counted(t, calls)
  OBVIOUS
<1>a. /\ new = (IF LD!FreqWarns(t, calls, k) THEN {calls[k].name} ELSE {})
      /\ toolFreq' = [u \in Threads |-> IF u \in gone THEN LD!Nothing
                                        ELSE IF u = t THEN [n \in LD!Names |-> LD!Bumped(t, calls, n)] ELSE toolFreq[u]]
      /\ toolFreqWarned' = [u \in Threads |-> IF u \in gone THEN {} ELSE
                              toolFreqWarned[u] \union (IF u = t THEN new ELSE {})]
  BY <1>0 DEF Grown
<1>1. t \in Threads /\ DOMAIN history' = (DOMAIN history \ gone) \union {t}
  BY HistoryStep
<1>2. t \notin gone
  BY WindowStep
<1>3. LD!Nothing \in [LD!Names -> Nat] /\ \A n \in LD!Names : LD!Nothing[n] = 0 /\ FreqWarn[n] \in Nat \ {0} /\ FreqHard[n] \in Nat
  BY LoopBounds DEF LD!Nothing
<1>4. ASSUME NEW n \in LD!Names
      PROVE  /\ LD!Bumped(t, calls, n) \in Nat /\ LD!Bumped(t, calls, n) <= FreqHard[n]
             /\ LD!Bumped(t, calls, n) >= FreqWarn[n] <=> n \in toolFreqWarned[t] \union new
  <2>1. PICK told \in BOOLEAN : told = (LD!FreqWarns(t, calls, k) /\ calls[k].name = n)
    OBVIOUS
  <2>2. told <=> n \in new
    BY <1>a, <2>1
  <2>3. /\ LD!Bumped(t, calls, n) \in Nat /\ LD!Bumped(t, calls, n) <= FreqHard[n]
        /\ LD!Bumped(t, calls, n) >= FreqWarn[n] <=> n \in toolFreqWarned[t] \/ told
    BY <1>0, <1>1, <2>1, BumpedCounts
  <2> QED
    BY <2>2, <2>3
<1>5. new \subseteq LD!Names
  <2>1. k \in 1..Len(calls)
    BY <1>0, CountedCalls
  <2>2. calls[k].name \in LD!Names
    BY <2>1, CallsHaveNames
  <2> QED
    BY <1>a, <2>2
<1>6. toolFreq' \in [Threads -> [LD!Names -> Nat]] /\ toolFreqWarned' \in [Threads -> SUBSET LD!Names]
  <2>1. [n \in LD!Names |-> LD!Bumped(t, calls, n)] \in [LD!Names -> Nat]
    BY <1>4
  <2> QED
    BY <1>a, <1>3, <1>5, <2>1 DEF FreqInv
<1>7. ASSUME NEW u \in Threads, NEW n \in LD!Names
      PROVE  toolFreq'[u][n] <= FreqHard[n] /\ (toolFreq'[u][n] >= FreqWarn[n] <=> n \in toolFreqWarned'[u])
  <2>1. CASE u \in gone
    BY <1>a, <1>3, <2>1
  <2>2. CASE u \notin gone /\ u = t
    <3>1. toolFreq'[u][n] = LD!Bumped(t, calls, n) /\ toolFreqWarned'[u] = toolFreqWarned[t] \union new
      BY <1>a, <2>2
    <3> QED
      BY <1>4, <3>1
  <2>3. CASE u \notin gone /\ u # t
    <3>1. toolFreq'[u] = toolFreq[u] /\ toolFreqWarned'[u] = toolFreqWarned[u]
      BY <1>a, <2>3
    <3> QED
      BY <3>1 DEF FreqInv
  <2> QED
    BY <2>1, <2>2, <2>3
<1>8. \A u \in Threads \ DOMAIN history' : toolFreq'[u] = LD!Nothing /\ toolFreqWarned'[u] = {}
  BY <1>a, <1>1 DEF FreqInv
<1> QED
  BY <1>6, <1>7, <1>8 DEF FreqInv

(* The streak of t goes on or begins anew, and t is in cut if it is stopped.  *)
StreakMoves(t, h, gone, hist, again, cut) ==
  /\ again = (t \in DOMAIN history /\ streak[t] > 0 /\ history[t][Len(history[t])] = h)
  /\ streak' = [u \in Threads |-> IF u = t THEN IF again THEN LD!Saturated(streak[t]) ELSE 1
                                  ELSE IF u \in gone THEN 0 ELSE streak[u]]
  /\ LD!Count(hist, h) >= HardLimit => t \in cut
  /\ stopped' = (stopped \ (gone \union {t})) \union cut

(* A streak is within the window, so that it counts as often as it is long.  *)
LEMMA StreakStep ==
  ASSUME LD!ConstantsAssumption, TrackInv, StreakInv, NEW t, NEW h, NEW gone, NEW hist, Tracked(t, h, gone, hist),
         NEW again \in BOOLEAN, NEW cut \in SUBSET {t}, StreakMoves(t, h, gone, hist, again, cut)
  PROVE  StreakInv'
<1>1. /\ t \in Threads /\ h \in LD!Hashes /\ DOMAIN history' = (DOMAIN history \ gone) \union {t} /\ history'[t] = hist
      /\ \A u \in DOMAIN history' : u # t => u \in DOMAIN history \ gone /\ history'[u] = history[u]
  <2>1. t \in Threads /\ h \in LD!Hashes /\ DOMAIN history' = (DOMAIN history \ gone) \union {t}
    BY HistoryStep
  <2>2. history'[t] = hist
    BY DEF Tracked
  <2>3. \A u \in DOMAIN history' : u # t => u \in DOMAIN history \ gone /\ history'[u] = history[u]
    BY HistoryStep
  <2> QED
    BY <2>1, <2>2, <2>3
<1>2. /\ t \notin gone /\ gone \subseteq DOMAIN history
      /\ Before(t) \in Seq(LD!Hashes) /\ hist = LD!Last(WindowSize, Append(Before(t), h))
      /\ hist \in Seq(LD!Hashes) /\ Len(hist) \in 1..WindowSize /\ Len(Before(t)) \in 0..WindowSize
  BY WindowStep
<1>3. HardLimit \in Nat \ {0} /\ WindowSize \in Nat \ {0} /\ HardLimit <= WindowSize /\ 1 < HardLimit
  BY LoopBounds
<1>4. /\ streak \in [Threads -> 0..HardLimit] /\ stopped \subseteq Threads
      /\ \A u \in Threads : streak[u] > 0 =>
           /\ u \in DOMAIN history /\ streak[u] <= Len(history[u])
           /\ \A i \in 1..Len(history[u]) :
                i > Len(history[u]) - streak[u] => history[u][i] = history[u][Len(history[u])]
      /\ \A u \in Threads : streak[u] = HardLimit => u \in stopped
  BY DEF StreakInv
<1>5. PICK x : x = streak[t]
  OBVIOUS
<1>6. PICK y : y = IF again THEN LD!Saturated(x) ELSE 1
  OBVIOUS
<1>7. PICK old : old = Before(t)
  OBVIOUS
<1>8. PICK L : L = Len(hist)
  OBVIOUS
<1>9. x \in 0..HardLimit /\ y \in 1..HardLimit /\ (y = 1 \/ (again /\ y <= x + 1))
  BY <1>1, <1>3, <1>4, <1>5, <1>6 DEF LD!Saturated
<1>10. again => /\ x > 0 /\ x <= Len(old) /\ \A i \in 1..Len(old) : i > Len(old) - x => old[i] = h
  <2> SUFFICES ASSUME again PROVE x > 0 /\ x <= Len(old) /\ \A i \in 1..Len(old) : i > Len(old) - x => old[i] = h
    OBVIOUS
  <2>1. t \in DOMAIN history /\ x > 0 /\ history[t][Len(history[t])] = h
    BY <1>5 DEF StreakMoves
  <2>2. old = history[t]
    BY <1>7, <2>1 DEF Before
  <2> QED
    BY <1>1, <1>4, <1>5, <2>1, <2>2
<1>11. /\ L \in 1..WindowSize /\ L = (IF Len(old) + 1 > WindowSize THEN WindowSize ELSE Len(old) + 1)
       /\ \A i \in 1..L : hist[i] = IF i = L THEN h ELSE old[Len(old) + 1 - L + i]
  <2> DEFINE a == Append(old, h)
             m == Len(old) + 1
  <2>1. a \in Seq(LD!Hashes) /\ Len(a) = m /\ a[m] = h /\ \A i \in 1..Len(old) : a[i] = old[i]
    BY <1>1, <1>2, <1>7, AppendProperties
  <2>2. hist = LD!Last(WindowSize, a)
    BY <1>2, <1>7
  <2>3. Len(old) \in 0..WindowSize /\ m \in Nat
    BY <1>2, <1>7
  <2> HIDE DEF a
  <2>4. L = (IF m > WindowSize THEN WindowSize ELSE m) /\ \A i \in 1..L : hist[i] = a[m - L + i]
    <3>0. a \in Seq(LD!Hashes) /\ WindowSize \in Nat \ {0}
      BY <1>3, <2>1
    <3>1. /\ Len(LD!Last(WindowSize, a)) = IF Len(a) > WindowSize THEN WindowSize ELSE Len(a)
          /\ \A i \in 1..Len(LD!Last(WindowSize, a)) :
               LD!Last(WindowSize, a)[i] = a[Len(a) - Len(LD!Last(WindowSize, a)) + i]
      BY <3>0, LastEntries
    <3>2. Len(hist) = (IF Len(a) > WindowSize THEN WindowSize ELSE Len(a))
          /\ \A i \in 1..Len(hist) : hist[i] = a[Len(a) - Len(hist) + i]
      BY <2>2, <3>1
    <3> QED
      BY <1>8, <2>1, <3>2
  <2>5. \A i \in 1..L : hist[i] = IF i = L THEN h ELSE old[m - L + i]
    <3> TAKE i \in 1..L
    <3>1. CASE i = L
      <4>1. L \in Nat /\ Len(old) \in Nat
        BY <1>3, <2>3, <2>4
      <4>2. m - L + L = m
        BY <4>1
      <4>3. hist[i] = a[m - L + i]
        BY <2>4
      <4> HIDE DEF m
      <4> QED
        BY <2>1, <3>1, <4>2, <4>3
    <3>2. CASE i # L
      <4>1. m - L + i \in 1..Len(old)
        BY <1>3, <2>3, <2>4, <3>2
      <4> QED
        BY <2>1, <2>4, <3>2, <4>1
    <3> QED
      BY <3>1, <3>2
  <2>6. L \in 1..WindowSize
    BY <1>2, <1>8
  <2>7. L = (IF Len(old) + 1 > WindowSize THEN WindowSize ELSE Len(old) + 1)
    BY <2>4
  <2>8. \A i \in 1..L : hist[i] = IF i = L THEN h ELSE old[Len(old) + 1 - L + i]
    BY <1>3, <2>3, <2>5, <2>6
  <2> QED
    BY <2>6, <2>7, <2>8
<1>12. y <= L
  <2>1. Len(old) \in 0..WindowSize
    BY <1>2, <1>7
  <2> QED
    BY <1>3, <1>9, <1>10, <1>11, <2>1
<1>13. \A i \in 1..L : i > L - y => hist[i] = h
  <2> TAKE i \in 1..L
  <2> HAVE i > L - y
  <2>1. Len(old) \in 0..WindowSize
    BY <1>2, <1>7
  <2>2. CASE i = L
    BY <1>11, <2>2
  <2>3. CASE i # L
    <3>1. again /\ y <= x + 1
      BY <1>3, <1>9, <1>11, <2>3
    <3>2. PICK j : j = Len(old) + 1 - L + i
      OBVIOUS
    <3>3. j \in 1..Len(old) /\ j > Len(old) - x
      <4>1. L \in Nat /\ i \in Nat /\ i < L /\ i > L - y /\ Len(old) \in Nat /\ x \in Nat /\ y \in Nat
        BY <1>3, <1>9, <1>11, <2>1, <2>3
      <4>2. x <= Len(old)
        BY <1>10, <3>1
      <4> QED
        BY <3>1, <3>2, <4>1, <4>2
    <3>4. old[j] = h
      BY <1>10, <3>1, <3>3
    <3> QED
      BY <1>11, <2>3, <3>2, <3>4
  <2> QED
    BY <2>2, <2>3
<1>14. y = HardLimit => t \in cut
  <2> SUFFICES ASSUME y = HardLimit PROVE LD!Count(hist, h) >= HardLimit
    BY DEF StreakMoves
  <2> DEFINE I == {i \in DOMAIN hist : hist[i] = h}
             J == (L - y + 1)..L
  <2>1. DOMAIN hist = 1..L
    BY <1>2, <1>8, ListProperties
  <2>2. IsFiniteSet(I) /\ LD!Count(hist, h) = Cardinality(I) /\ LD!Count(hist, h) \in Nat
    <3>1. hist \in Seq(LD!Hashes)
      BY <1>2
    <3> QED
      BY <3>1, CountProperties
  <2>3. J \in SUBSET I
    BY <1>9, <1>11, <1>12, <1>13, <2>1
  <2>4. Cardinality(J) = y
    <3>1. L \in Int /\ L - y + 1 \in Int /\ L - y + 1 <= L /\ L - (L - y + 1) + 1 = y
      BY <1>3, <1>9, <1>11
    <3> QED
      BY <3>1, FS_Interval
  <2> HIDE DEF I, J
  <2>5. Cardinality(J) <= Cardinality(I)
    BY <2>2, <2>3, FS_Subset
  <2> QED
    BY <1>3, <2>2, <2>4, <2>5
<1>15. /\ streak'[t] = y
       /\ \A u \in Threads : u # t => streak'[u] = IF u \in gone THEN 0 ELSE streak[u]
  BY <1>1, <1>5, <1>6 DEF StreakMoves
<1>16. streak' \in [Threads -> 0..HardLimit] /\ stopped' \subseteq Threads
  <2>1. y \in 0..HardLimit /\ 0 \in 0..HardLimit
    BY <1>3, <1>9
  <2>2. streak' = [u \in Threads |-> IF u = t THEN y ELSE IF u \in gone THEN 0 ELSE streak[u]]
    BY <1>5, <1>6 DEF StreakMoves
  <2> QED
    BY <1>1, <1>4, <2>1, <2>2 DEF StreakMoves
<1>17. ASSUME NEW u \in Threads, streak'[u] > 0
       PROVE  /\ u \in DOMAIN history' /\ streak'[u] <= Len(history'[u])
              /\ \A i \in 1..Len(history'[u]) :
                   i > Len(history'[u]) - streak'[u] => history'[u][i] = history'[u][Len(history'[u])]
  <2>1. CASE u = t
    <3>1. hist[L] = h
      <4>1. L \in 1..L
        BY <1>3, <1>11
      <4> QED
        BY <1>11, <4>1
    <3> QED
      BY <1>1, <1>8, <1>12, <1>13, <1>15, <2>1, <3>1
  <2>2. CASE u # t
    <3>1. u \notin gone /\ streak'[u] = streak[u]
      BY <1>15, <1>17, <2>2
    <3>2. u \in DOMAIN history
      BY <1>4, <1>17, <3>1
    <3>3. u \in DOMAIN history' /\ history'[u] = history[u]
      BY <1>1, <2>2, <3>1, <3>2
    <3> QED
      BY <1>4, <1>17, <3>1, <3>3
  <2> QED
    BY <2>1, <2>2
<1>18. ASSUME NEW u \in Threads, streak'[u] = HardLimit PROVE u \in stopped'
  <2>1. CASE u = t
    BY <1>14, <1>15, <1>18, <2>1 DEF StreakMoves
  <2>2. CASE u # t
    BY <1>3, <1>4, <1>15, <1>18, <2>2 DEF StreakMoves
  <2> QED
    BY <2>1, <2>2
<1> QED
  BY <1>16, <1>17, <1>18 DEF StreakInv

-----------------------------------------------------------------------------
(* The queues of warnings.                                                   *)

(* Queues that are drained or belong to a forgotten thread leave the list.   *)
LEMMA DropStep ==
  ASSUME LD!ConstantsAssumption, PendingInv, NEW K, LD!DropPending(K), \A k \in DOMAIN pending \ K : k[1] \in DOMAIN history'
  PROVE  PendingInv'
<1>1. /\ DOMAIN pending' = DOMAIN pending \ K /\ \A k \in DOMAIN pending' : pending'[k] = pending[k]
      /\ pending' = [k \in DOMAIN pending \ K |-> pending[k]] /\ pendingOrder' = LD!Without(pendingOrder, K)
  BY DEF LD!DropPending
<1>2. /\ DOMAIN pending \subseteq Threads \X Runs
      /\ pending \in [DOMAIN pending -> Seq(LD!Names \union {"same"})]
      /\ \A k \in DOMAIN pending : Len(pending[k]) \in 1..MaxPerRun
      /\ pendingOrder \in Seq(Threads \X Runs) /\ Distinct(pendingOrder)
      /\ ToSet(pendingOrder) = DOMAIN pending /\ Len(pendingOrder) <= LD!MaxPendingKeys
  BY DEF PendingInv
<1>3. /\ pendingOrder' \in Seq(Threads \X Runs) /\ Distinct(pendingOrder')
      /\ ToSet(pendingOrder') = ToSet(pendingOrder) \ K /\ Len(pendingOrder') <= Len(pendingOrder)
  BY <1>1, <1>2, WithoutIsOrdered
<1>4. Len(pendingOrder') <= LD!MaxPendingKeys
  <2>1. Len(pendingOrder') \in Nat /\ Len(pendingOrder) \in Nat
    BY <1>2, <1>3, LenProperties
  <2>2. LD!MaxPendingKeys \in Nat
    BY LoopBounds
  <2> QED
    BY <1>2, <1>3, <2>1, <2>2
<1>5. DOMAIN pending' \subseteq Threads \X Runs /\ pending' \in [DOMAIN pending' -> Seq(LD!Names \union {"same"})]
  BY <1>1, <1>2
<1>6. \A k \in DOMAIN pending' : Len(pending'[k]) \in 1..MaxPerRun /\ k[1] \in DOMAIN history'
  BY <1>1, <1>2
<1> QED
  BY <1>1, <1>2, <1>3, <1>4, <1>5, <1>6 DEF PendingInv

(* A new warning may push the oldest out, and the oldest queue with it.      *)
LEMMA QueueStep ==
  ASSUME LD!ConstantsAssumption, PendingInv, NEW key \in Threads \X Runs, NEW w \in LD!Names \union {"same"}, NEW K,
         LD!Queue(key, w, K), key[1] \in DOMAIN history', \A k \in DOMAIN pending \ K : k[1] \in DOMAIN history'
  PROVE  PendingInv'
<1> DEFINE W == LD!Names \union {"same"}
           o == LD!Without(pendingOrder, K \union {key})
           old == IF key \in DOMAIN pending THEN pending[key] ELSE <<>>
           kept == LD!Last(LD!MaxPendingKeys, Append(o, key))
           queue == LD!Last(MaxPerRun, IF w \in LD!Range(old) THEN old ELSE Append(old, w))
<1>1. pendingOrder' = kept /\ pending' = [k \in ToSet(kept) |-> IF k # key THEN pending[k] ELSE queue]
  BY SameOperators DEF LD!Queue, LD!Prune, LD!Capped
<1>2. /\ DOMAIN pending \subseteq Threads \X Runs
      /\ pending \in [DOMAIN pending -> Seq(W)]
      /\ \A k \in DOMAIN pending : Len(pending[k]) \in 1..MaxPerRun
      /\ pendingOrder \in Seq(Threads \X Runs) /\ Distinct(pendingOrder) /\ ToSet(pendingOrder) = DOMAIN pending
  BY DEF PendingInv
<1>3. MaxPerRun \in Nat \ {0} /\ LD!MaxPendingKeys \in Nat \ {0}
  BY LoopBounds
<1>4. /\ o \in Seq(Threads \X Runs) /\ Distinct(o) /\ ToSet(o) = DOMAIN pending \ (K \union {key})
  BY <1>2, WithoutIsOrdered
<1>5. queue \in Seq(W) /\ Len(queue) \in 1..MaxPerRun
  <2>1. old \in Seq(W) /\ Len(old) \in Nat
    <3>1. CASE key \in DOMAIN pending
      BY <1>2, <1>3, <3>1
    <3>2. CASE key \notin DOMAIN pending
      <4>1. <<>> \in Seq(W) /\ Len(<<>>) = 0
        OBVIOUS
      <4> QED
        BY <3>2, <4>1
    <3> QED
      BY <3>1, <3>2
  <2> HIDE DEF old
  <2> DEFINE all == IF w \in LD!Range(old) THEN old ELSE Append(old, w)
  <2>2. all \in Seq(W) /\ Len(all) \in Nat \ {0}
    <3>1. CASE w \in LD!Range(old)
      <4>1. old # <<>>
        BY <3>1 DEF LD!Range
      <4> QED
        BY <2>1, <3>1, <4>1, EmptySeq
    <3>2. CASE w \notin LD!Range(old)
      <4>1. Append(old, w) \in Seq(W) /\ Len(Append(old, w)) = Len(old) + 1
        BY <2>1, AppendProperties
      <4> QED
        BY <2>1, <3>2, <4>1
    <3> QED
      BY <3>1, <3>2
  <2> HIDE DEF all
  <2>3. /\ LD!Last(MaxPerRun, all) \in Seq(W)
        /\ Len(LD!Last(MaxPerRun, all)) = IF Len(all) > MaxPerRun THEN MaxPerRun ELSE Len(all)
    BY <1>3, <2>2, LastEntries
  <2>4. queue = LD!Last(MaxPerRun, all)
    BY DEF all
  <2> HIDE DEF queue
  <2> QED
    BY <1>3, <2>2, <2>3, <2>4
<1> HIDE DEF o, queue
<1> DEFINE a == Append(o, key)
<1>6. a \in Seq(Threads \X Runs) /\ Distinct(a) /\ ToSet(a) = ToSet(o) \union {key} /\ Len(a) = Len(o) + 1
  BY <1>4, AppendInOrder
<1> HIDE DEF a
<1>7. /\ kept \in Seq(Threads \X Runs) /\ Len(kept) = (IF Len(a) > LD!MaxPendingKeys THEN LD!MaxPendingKeys ELSE Len(a))
      /\ ToSet(kept) \subseteq ToSet(a) /\ Distinct(kept)
  BY <1>3, <1>6, LastEntries DEF a
<1> HIDE DEF kept
<1>8. Len(kept) <= LD!MaxPendingKeys
  <2>1. Len(a) \in Nat
    BY <1>6, LenProperties
  <2> QED
    BY <1>3, <1>7, <2>1
<1>9. ToSet(kept) \subseteq (DOMAIN pending \ K) \union {key}
  BY <1>4, <1>6, <1>7
<1>10. DOMAIN pending' = ToSet(kept) /\ \A k \in DOMAIN pending' : pending'[k] = IF k # key THEN pending[k] ELSE queue
  BY <1>1
<1>11. DOMAIN pending' \subseteq Threads \X Runs /\ pending' \in [DOMAIN pending' -> Seq(W)]
  <2>1. \A k \in DOMAIN pending' : pending'[k] \in Seq(W)
    BY <1>2, <1>5, <1>9, <1>10
  <2> HIDE DEF W
  <2> QED
    BY <1>1, <1>2, <1>9, <1>10, <2>1
<1>12. ASSUME NEW k \in DOMAIN pending' PROVE Len(pending'[k]) \in 1..MaxPerRun /\ k[1] \in DOMAIN history'
  <2>1. CASE k = key
    BY <1>5, <1>10, <2>1
  <2>2. CASE k # key
    <3>1. k \in DOMAIN pending \ K /\ pending'[k] = pending[k]
      BY <1>9, <1>10, <2>2
    <3> QED
      BY <1>2, <3>1
  <2> QED
    BY <2>1, <2>2
<1> QED
  BY <1>1, <1>7, <1>8, <1>10, <1>11, <1>12 DEF PendingInv

-----------------------------------------------------------------------------
(* The operations of the detector.                                           *)

LEMMA LoopInit == LD!ConstantsAssumption /\ LD!Init => LoopSide
<1> SUFFICES ASSUME LD!ConstantsAssumption, LD!Init PROVE LoopSide
  OBVIOUS
<1>1. /\ history = <<>> /\ order = <<>> /\ pending = <<>> /\ pendingOrder = <<>> /\ stopped = {}
      /\ warned = [t \in Threads |-> {}] /\ toolFreqWarned = [t \in Threads |-> {}]
      /\ toolFreq = [t \in Threads |-> LD!Nothing] /\ streak = [t \in Threads |-> 0]
  BY DEF LD!Init
<1>2. /\ MaxTrackedThreads \in Nat \ {0} /\ LD!MaxPendingKeys \in Nat \ {0} /\ HardLimit \in Nat \ {0}
      /\ \A n \in LD!Names : FreqWarn[n] \in Nat \ {0} /\ FreqHard[n] \in Nat
  BY LoopBounds
<1>3. DOMAIN <<>> = {} /\ ToSet(<<>>) = {} /\ Len(<<>>) = 0 /\ \A S : <<>> \in Seq(S)
  BY DEF ToSet
<1>4. \A S : <<>> \in [DOMAIN <<>> -> S]
  BY <1>3
<1>5. TrackInv
  BY <1>1, <1>2, <1>3, <1>4 DEF TrackInv, Distinct
<1>6. WarnedInv
  BY <1>1, <1>3 DEF WarnedInv
<1>7. FreqInv
  <2>1. LD!Nothing \in [LD!Names -> Nat] /\ \A n \in LD!Names : LD!Nothing[n] = 0
    BY DEF LD!Nothing
  <2> QED
    BY <1>1, <1>2, <2>1 DEF FreqInv
<1>8. StreakInv
  BY <1>1, <1>2 DEF StreakInv
<1>9. PendingInv
  BY <1>1, <1>2, <1>3, <1>4 DEF PendingInv, Distinct
<1> QED
  BY <1>5, <1>6, <1>7, <1>8, <1>9 DEF LoopSide

(* The threads and their books do not depend on the warnings.                *)
LEMMA ThreadsStay ==
  ASSUME TrackInv, WarnedInv, FreqInv, StreakInv,
         UNCHANGED <<history, order, warned, toolFreq, toolFreqWarned, streak, stopped>>
  PROVE  TrackInv' /\ WarnedInv' /\ FreqInv' /\ StreakInv'
BY DEF TrackInv, WarnedInv, FreqInv, StreakInv

LEMMA DrainSide ==
  ASSUME LD!ConstantsAssumption, LoopSide, NEW K, LD!DropPending(K),
         UNCHANGED <<history, order, warned, toolFreq, toolFreqWarned, streak, stopped>>
  PROVE  LoopSide'
<1>1. \A k \in DOMAIN pending \ K : k[1] \in DOMAIN history'
  BY DEF LoopSide, PendingInv
<1>2. PendingInv'
  BY <1>1, DropStep DEF LoopSide
<1> QED
  BY <1>2, ThreadsStay DEF LoopSide

LEMMA ResetLoopSide ==
  ASSUME LD!ConstantsAssumption, LoopSide, NEW T \in SUBSET Threads, LD!Reset(T)
  PROVE  LoopSide'
<1>1. /\ TrackInv /\ WarnedInv /\ FreqInv /\ StreakInv /\ PendingInv
  BY DEF LoopSide
<1>2. /\ DOMAIN history' = DOMAIN history \ T /\ \A t \in DOMAIN history' : history'[t] = history[t]
      /\ history' = [t \in DOMAIN history' |-> history[t]]
      /\ order' = LD!Without(order, T)
      /\ warned' = [u \in Threads |-> IF u \in T THEN {} ELSE warned[u]]
      /\ toolFreq' = [u \in Threads |-> IF u \in T THEN LD!Nothing ELSE toolFreq[u]]
      /\ toolFreqWarned' = [u \in Threads |-> IF u \in T THEN {} ELSE toolFreqWarned[u]]
      /\ LD!DropPending({k \in DOMAIN pending : k[1] \in T})
      /\ streak' = [u \in Threads |-> IF u \in T THEN 0 ELSE streak[u]] /\ stopped' = stopped \ T
  <2>1. DOMAIN history \subseteq Threads
    BY <1>1 DEF TrackInv
  <2>2. DOMAIN history \intersect (Threads \ T) = DOMAIN history \ T
    BY <2>1
  <2>3. history' = [t \in DOMAIN history \ T |-> history[t]]
    BY <2>2 DEF LD!Reset, LD!Only
  <2> QED
    BY <2>3 DEF LD!Reset, LD!ForgetFreq
<1>3. TrackInv'
  <2>1. order \in Seq(Threads) /\ Distinct(order) /\ ToSet(order) = DOMAIN history /\ Len(order) <= MaxTrackedThreads
    BY <1>1 DEF TrackInv
  <2>2. /\ order' \in Seq(Threads) /\ Distinct(order') /\ ToSet(order') = ToSet(order) \ T /\ Len(order') <= Len(order)
    BY <1>2, <2>1, WithoutIsOrdered
  <2>3. Len(order') <= MaxTrackedThreads
    <3>1. Len(order') \in Nat /\ Len(order) \in Nat /\ MaxTrackedThreads \in Nat
      BY <2>1, <2>2, LenProperties, LoopBounds
    <3> QED
      BY <2>1, <2>2, <3>1
  <2>4. DOMAIN history' \subseteq Threads /\ history' \in [DOMAIN history' -> Seq(LD!Hashes)]
        /\ \A t \in DOMAIN history' : Len(history'[t]) \in 1..WindowSize
    BY <1>1, <1>2 DEF TrackInv
  <2> QED
    BY <1>2, <2>1, <2>2, <2>3, <2>4 DEF TrackInv
<1>4. WarnedInv'
  <2>1. \A t \in DOMAIN history' : t \in DOMAIN history /\ t \in Threads /\ t \notin T
    BY <1>1, <1>2 DEF TrackInv
  <2>2. warned' \in [Threads -> SUBSET LD!Hashes] /\ \A t \in Threads \ DOMAIN history' : warned'[t] = {}
    BY <1>1, <1>2 DEF WarnedInv
  <2>3. \A t \in DOMAIN history' : warned'[t] = warned[t] /\ history'[t] = history[t]
    BY <1>2, <2>1
  <2> QED
    BY <1>1, <2>1, <2>2, <2>3 DEF WarnedInv
<1>5. FreqInv'
  <2>1. LD!Nothing \in [LD!Names -> Nat] /\ \A n \in LD!Names : LD!Nothing[n] = 0 /\ FreqWarn[n] \in Nat \ {0} /\ FreqHard[n] \in Nat
    BY LoopBounds DEF LD!Nothing
  <2>2. toolFreq' \in [Threads -> [LD!Names -> Nat]] /\ toolFreqWarned' \in [Threads -> SUBSET LD!Names]
    BY <1>1, <1>2, <2>1 DEF FreqInv
  <2>3. ASSUME NEW u \in Threads, NEW n \in LD!Names
        PROVE  toolFreq'[u][n] <= FreqHard[n] /\ (toolFreq'[u][n] >= FreqWarn[n] <=> n \in toolFreqWarned'[u])
    <3>1. CASE u \in T
      BY <1>2, <2>1, <3>1
    <3>2. CASE u \notin T
      BY <1>1, <1>2, <3>2 DEF FreqInv
    <3> QED
      BY <3>1, <3>2
  <2>4. \A u \in Threads \ DOMAIN history' : toolFreq'[u] = LD!Nothing /\ toolFreqWarned'[u] = {}
    BY <1>1, <1>2 DEF FreqInv
  <2> QED
    BY <2>2, <2>3, <2>4 DEF FreqInv
<1>6. StreakInv'
  <2>1. HardLimit \in Nat \ {0}
    BY LoopBounds
  <2>2. streak' \in [Threads -> 0..HardLimit] /\ stopped' \subseteq Threads
    BY <1>1, <1>2, <2>1 DEF StreakInv
  <2>3. ASSUME NEW u \in Threads, u \notin T PROVE streak'[u] = streak[u] /\ (u \in stopped' <=> u \in stopped)
                                                   /\ (u \in DOMAIN history => u \in DOMAIN history' /\ history'[u] = history[u])
    BY <1>2, <2>3
  <2>4. \A u \in Threads : u \in T => streak'[u] = 0
    BY <1>2
  <2>5. ASSUME NEW u \in Threads, streak'[u] > 0
        PROVE  /\ u \in DOMAIN history' /\ streak'[u] <= Len(history'[u])
               /\ \A i \in 1..Len(history'[u]) :
                    i > Len(history'[u]) - streak'[u] => history'[u][i] = history'[u][Len(history'[u])]
    <3>1. u \notin T
      BY <2>4, <2>5
    <3>2. streak'[u] = streak[u]
      BY <2>3, <3>1
    <3>3. u \in DOMAIN history
      BY <1>1, <2>5, <3>2 DEF StreakInv
    <3>4. u \in DOMAIN history' /\ history'[u] = history[u]
      BY <2>3, <3>1, <3>3
    <3> QED
      BY <1>1, <2>5, <3>2, <3>4 DEF StreakInv
  <2>6. ASSUME NEW u \in Threads, streak'[u] = HardLimit PROVE u \in stopped'
    <3>1. u \notin T
      BY <2>1, <2>4, <2>6
    <3> QED
      BY <1>1, <2>3, <2>6, <3>1 DEF StreakInv
  <2> QED
    BY <2>2, <2>5, <2>6 DEF StreakInv
<1>7. PendingInv'
  <2> DEFINE K == {k \in DOMAIN pending : k[1] \in T}
  <2>1. \A k \in DOMAIN pending \ K : k[1] \in DOMAIN history'
    BY <1>1, <1>2 DEF PendingInv
  <2>2. LD!DropPending(K)
    BY <1>2
  <2> HIDE DEF K
  <2> QED
    BY <1>1, <2>1, <2>2, DropStep
<1> QED
  BY <1>3, <1>4, <1>5, <1>6, <1>7 DEF LoopSide

(* The second layer: the counts of the tools.                                *)
LEMMA CheckFreqSide ==
  ASSUME LD!ConstantsAssumption, TrackInv, FreqInv, PendingInv, NEW t, NEW h, NEW gone, NEW hist, Tracked(t, h, gone, hist),
         NEW r \in Runs, NEW calls \in CallSets, NEW K, K = {k \in DOMAIN pending : k[1] \in gone},
         LD!CheckFreq(t, r, calls, gone, K)
  PROVE  /\ FreqInv' /\ PendingInv'
         /\ \E cut \in SUBSET {t} : stopped' = (stopped \ (gone \union {t})) \union cut
<1>1. PICK k : k = LD!Counted(t, calls)
  OBVIOUS
<1>2. PICK name : name = calls[k].name
  OBVIOUS
<1>3. PICK warns \in BOOLEAN : warns = LD!FreqWarns(t, calls, k)
  <2>1. (LD!FreqWarns(t, calls, k)) \in BOOLEAN
    BY DEF LD!FreqWarns
  <2> QED
    BY <2>1
<1>4. PICK new : new = IF warns THEN {name} ELSE {}
  OBVIOUS
<1>5. /\ toolFreq' = [u \in Threads |-> IF u \in gone THEN LD!Nothing
                                        ELSE IF u = t THEN [n \in LD!Names |-> LD!Bumped(t, calls, n)] ELSE toolFreq[u]]
      /\ stopped' = (stopped \ (gone \union {t})) \union (IF LD!FreqStops(t, calls, k) THEN {t} ELSE {})
  BY <1>1 DEF LD!CheckFreq
<1>6. IF warns
      THEN /\ toolFreqWarned' = [u \in Threads |-> IF u \in gone THEN {} ELSE
                                   toolFreqWarned[u] \union (IF u = t THEN {name} ELSE {})]
           /\ LD!Queue(<<t, r>>, name, K)
      ELSE /\ toolFreqWarned' = [u \in Threads |-> IF u \in gone THEN {} ELSE toolFreqWarned[u]]
           /\ LD!DropPending(K)
  BY <1>1, <1>2, <1>3 DEF LD!CheckFreq
<1>7. toolFreqWarned' = [u \in Threads |-> IF u \in gone THEN {} ELSE
                           toolFreqWarned[u] \union (IF u = t THEN new ELSE {})]
  <2>1. CASE warns
    BY <1>4, <1>6, <2>1
  <2>2. CASE ~warns
    <3>1. \A u \in Threads : toolFreqWarned[u] \union (IF u = t THEN new ELSE {}) = toolFreqWarned[u]
      BY <1>4, <2>2
    <3> QED
      BY <1>6, <2>2, <3>1
  <2> QED
    BY <2>1, <2>2
<1>8. FreqInv'
  <2>1. Grown(t, gone, calls, new)
    BY <1>1, <1>2, <1>3, <1>4, <1>5, <1>7 DEF Grown
  <2> QED
    BY <2>1, FreqCounted
<1>9. PendingInv'
  <2>1. t \in Threads /\ DOMAIN history' = (DOMAIN history \ gone) \union {t}
    BY HistoryStep
  <2>2. \A j \in DOMAIN pending \ K : j[1] \in DOMAIN history'
    BY <2>1 DEF PendingInv
  <2>3. CASE warns
    <3>1. name \in LD!Names \union {"same"}
      <4>1. k \in 1..Len(calls)
        BY <1>1, CountedCalls
      <4> QED
        BY <1>2, <4>1, CallsHaveNames
    <3>2. PICK key \in Threads \X Runs : key = <<t, r>> /\ key[1] = t
      <4>1. <<t, r>> \in Threads \X Runs /\ <<t, r>>[1] = t
        BY <2>1
      <4> QED
        BY <4>1
    <3>3. LD!Queue(key, name, K) /\ key[1] \in DOMAIN history'
      BY <1>6, <2>1, <2>3, <3>2
    <3> QED
      BY <2>2, <3>1, <3>3, QueueStep
  <2>4. CASE ~warns
    BY <1>6, <2>2, <2>4, DropStep
  <2> QED
    BY <2>3, <2>4
<1>10. \E cut \in SUBSET {t} : stopped' = (stopped \ (gone \union {t})) \union cut
  BY <1>5
<1> QED
  BY <1>8, <1>9, <1>10

(* Both layers, in each of the three outcomes of the first.                  *)
LEMMA TrackSide ==
  ASSUME LD!ConstantsAssumption, LoopSide, NEW t \in Threads, NEW r \in Runs, NEW calls \in CallSets,
         LD!TrackAndCheck(t, r, calls)
  PROVE  LoopSide'
<1>1. TrackInv /\ WarnedInv /\ FreqInv /\ StreakInv /\ PendingInv
  BY DEF LoopSide
<1>2. PICK gone, K, h : gone = LD!Evicted(t) /\ K = {k \in DOMAIN pending : k[1] \in gone} /\ h = LD!HashOf[calls]
  OBVIOUS
<1>3. PICK hist : hist = LD!Last(WindowSize, Append(Before(t), h))
  OBVIOUS
<1>4. PICK left, count : left = LD!StillWarned(t, hist) /\ count = LD!Count(hist, h)
  OBVIOUS
<1>5. PICK again \in BOOLEAN : again = (t \in DOMAIN history /\ streak[t] > 0 /\ history[t][Len(history[t])] = h)
  OBVIOUS
<1> DEFINE Forget(f, nil) == [u \in Threads |-> IF u \in gone THEN nil ELSE f[u]]
           Marked(m) == [u \in Threads |-> IF u = t THEN m ELSE IF u \in gone THEN {} ELSE warned[u]]
<1>6. /\ history' = [u \in (DOMAIN history \ gone) \union {t} |-> IF u = t THEN hist ELSE history[u]]
      /\ order' = Append(LD!Without(order, gone \union {t}), t)
  BY <1>2, <1>3 DEF LD!TrackAndCheck, LD!Slide, Before
<1>7. streak' = [Forget(streak, 0) EXCEPT ![t] = IF again THEN LD!Saturated(@) ELSE 1]
  BY <1>2, <1>5 DEF LD!TrackAndCheck
<1>8. \/ /\ count >= HardLimit
         /\ warned' = [Forget(warned, {}) EXCEPT ![t] = left]
         /\ toolFreq' = Forget(toolFreq, LD!Nothing) /\ toolFreqWarned' = Forget(toolFreqWarned, {})
         /\ stopped' = (stopped \ gone) \union {t}
         /\ LD!DropPending(K)
      \/ /\ count \in Warn..(HardLimit - 1) /\ h \notin left
         /\ warned' = [Forget(warned, {}) EXCEPT ![t] = left \union {h}]
         /\ toolFreq' = Forget(toolFreq, LD!Nothing) /\ toolFreqWarned' = Forget(toolFreqWarned, {})
         /\ stopped' = stopped \ (gone \union {t})
         /\ LD!Queue(<<t, r>>, "same", K)
      \/ /\ count < HardLimit /\ (count >= Warn => h \in left)
         /\ warned' = [Forget(warned, {}) EXCEPT ![t] = left]
         /\ LD!CheckFreq(t, r, calls, gone, K)
  BY <1>2, <1>3, <1>4 DEF LD!TrackAndCheck, LD!Slide, Before
<1>9. Tracked(t, h, gone, hist)
  <2>1. h \in LD!Hashes
    BY <1>2, CallsHaveNames
  <2> QED
    BY <1>2, <1>3, <1>6, <2>1 DEF Tracked
<1>10. /\ t \notin gone /\ hist \in Seq(LD!Hashes) /\ h \in ToSet(hist)
  BY <1>1, <1>9, WindowStep
<1>11. DOMAIN history' = (DOMAIN history \ gone) \union {t}
  BY <1>9, HistoryStep
<1>12. \A m : [Forget(warned, {}) EXCEPT ![t] = m] = Marked(m)
  OBVIOUS
<1>13. streak' = [u \in Threads |-> IF u = t THEN IF again THEN LD!Saturated(streak[t]) ELSE 1
                                    ELSE IF u \in gone THEN 0 ELSE streak[u]]
  BY <1>7, <1>10
<1>14. left = warned[t] \intersect ToSet(hist) /\ count \in Nat
  BY <1>4, <1>10, SameOperators, CountProperties DEF LD!StillWarned
<1>15. Warn \in Nat \ {0} /\ HardLimit \in Nat \ {0}
  BY LoopBounds
<1>16. \A k \in DOMAIN pending \ K : k[1] \in DOMAIN history'
  BY <1>1, <1>2, <1>11 DEF PendingInv
<1>17. TrackInv'
  BY <1>1, <1>9, TrackStep
<1> HIDE DEF Forget, Marked
<1>18. ASSUME NEW M, warned' = Marked(M), left \subseteq M, M \subseteq left \union {h}, count >= Warn /\ count < HardLimit => h \in M
       PROVE  WarnedInv'
  <2>1. warned[t] \intersect ToSet(hist) \subseteq M /\ M \subseteq (warned[t] \union {h}) \intersect ToSet(hist)
    BY <1>10, <1>14, <1>18
  <2>2. warned' = [u \in Threads |-> IF u = t THEN M ELSE IF u \in gone THEN {} ELSE warned[u]]
    BY <1>18 DEF Marked
  <2>3. LD!Count(hist, h) >= Warn /\ LD!Count(hist, h) < HardLimit => h \in M
    BY <1>4, <1>18
  <2> QED
    BY <1>1, <1>9, <2>1, <2>2, <2>3, WarnedStep
<1>19. ASSUME toolFreq' = Forget(toolFreq, LD!Nothing), toolFreqWarned' = Forget(toolFreqWarned, {}) PROVE FreqInv'
  <2>1. /\ toolFreq' = [u \in Threads |-> IF u \in gone THEN LD!Nothing ELSE toolFreq[u]]
        /\ toolFreqWarned' = [u \in Threads |-> IF u \in gone THEN {} ELSE toolFreqWarned[u]]
    BY <1>19 DEF Forget
  <2> QED
    BY <1>1, <1>9, <2>1, FreqForgotten
<1>20. ASSUME NEW cut \in SUBSET {t}, count >= HardLimit => t \in cut, stopped' = (stopped \ (gone \union {t})) \union cut
       PROVE  StreakInv'
  <2>1. LD!Count(hist, h) >= HardLimit => t \in cut
    BY <1>4, <1>20
  <2>2. StreakMoves(t, h, gone, hist, again, cut)
    BY <1>5, <1>13, <1>20, <2>1 DEF StreakMoves
  <2> QED
    BY <1>1, <1>9, <2>2, StreakStep
<1>21. CASE /\ count >= HardLimit
            /\ warned' = [Forget(warned, {}) EXCEPT ![t] = left]
            /\ toolFreq' = Forget(toolFreq, LD!Nothing) /\ toolFreqWarned' = Forget(toolFreqWarned, {})
            /\ stopped' = (stopped \ gone) \union {t}
            /\ LD!DropPending(K)
  <2>1. WarnedInv'
    BY <1>12, <1>14, <1>15, <1>18, <1>21
  <2>2. FreqInv'
    BY <1>19, <1>21
  <2>3. StreakInv'
    <3>1. stopped' = (stopped \ (gone \union {t})) \union {t} /\ {t} \in SUBSET {t}
      BY <1>21
    <3> QED
      BY <1>20, <3>1
  <2>4. PendingInv'
    BY <1>1, <1>16, <1>21, DropStep
  <2> QED
    BY <1>17, <2>1, <2>2, <2>3, <2>4 DEF LoopSide
<1>22. CASE /\ count \in Warn..(HardLimit - 1) /\ h \notin left
            /\ warned' = [Forget(warned, {}) EXCEPT ![t] = left \union {h}]
            /\ toolFreq' = Forget(toolFreq, LD!Nothing) /\ toolFreqWarned' = Forget(toolFreqWarned, {})
            /\ stopped' = stopped \ (gone \union {t})
            /\ LD!Queue(<<t, r>>, "same", K)
  <2>1. WarnedInv'
    BY <1>12, <1>18, <1>22
  <2>2. FreqInv'
    BY <1>19, <1>22
  <2>3. StreakInv'
    <3>1. stopped' = (stopped \ (gone \union {t})) \union {} /\ {} \in SUBSET {t} /\ ~(count >= HardLimit)
      BY <1>14, <1>15, <1>22
    <3> QED
      BY <1>20, <3>1
  <2>4. PendingInv'
    <3>1. PICK key \in Threads \X Runs : key = <<t, r>> /\ key[1] = t
      <4>1. <<t, r>> \in Threads \X Runs /\ <<t, r>>[1] = t
        OBVIOUS
      <4> QED
        BY <4>1
    <3>2. LD!Queue(key, "same", K) /\ key[1] \in DOMAIN history' /\ "same" \in LD!Names \union {"same"}
      BY <1>11, <1>22, <3>1
    <3> QED
      BY <1>1, <1>16, <3>2, QueueStep
  <2> QED
    BY <1>17, <2>1, <2>2, <2>3, <2>4 DEF LoopSide
<1>23. CASE /\ count < HardLimit /\ (count >= Warn => h \in left)
            /\ warned' = [Forget(warned, {}) EXCEPT ![t] = left]
            /\ LD!CheckFreq(t, r, calls, gone, K)
  <2>1. WarnedInv'
    BY <1>12, <1>18, <1>23
  <2>2. /\ FreqInv' /\ PendingInv'
        /\ \E cut \in SUBSET {t} : stopped' = (stopped \ (gone \union {t})) \union cut
    BY <1>1, <1>2, <1>9, <1>23, CheckFreqSide
  <2>3. PICK cut \in SUBSET {t} : stopped' = (stopped \ (gone \union {t})) \union cut
    BY <2>2
  <2>4. StreakInv'
    BY <1>14, <1>15, <1>20, <1>23, <2>3
  <2> QED
    BY <1>17, <2>1, <2>2, <2>4 DEF LoopSide
<1> QED
  BY <1>8, <1>21, <1>22, <1>23

(* Every step of the detector keeps LoopSide.                                *)
LEMMA LoopNext ==
  ASSUME LD!ConstantsAssumption, LoopSide, LD!Next
  PROVE  LoopSide'
<1>1. ASSUME NEW t \in Threads, NEW r \in Runs, NEW calls \in CallSets, LD!TrackAndCheck(t, r, calls) PROVE LoopSide'
  BY <1>1, TrackSide
<1>2. ASSUME NEW t \in Threads, NEW r \in Runs, LD!DrainPendingWarnings(t, r) PROVE LoopSide'
  BY <1>2, DrainSide DEF LD!DrainPendingWarnings, LD!threadVars
<1>3. ASSUME NEW t \in Threads, NEW r \in Runs, LD!BeforeAgent(t, r) PROVE LoopSide'
  BY <1>3, DrainSide DEF LD!BeforeAgent, LD!threadVars
<1>4. ASSUME NEW t \in Threads, NEW r \in Runs, LD!AfterAgent(t, r) PROVE LoopSide'
  BY <1>4, DrainSide DEF LD!AfterAgent, LD!threadVars
<1>5. ASSUME NEW t \in Threads, LD!Reset({t}) PROVE LoopSide'
  BY <1>5, ResetLoopSide
<1>6. CASE LD!Reset(Threads)
  BY <1>6, ResetLoopSide
<1> QED
  BY <1>1, <1>2, <1>3, <1>4, <1>5, <1>6 DEF LD!Next

LEMMA LoopStays == LoopSide /\ UNCHANGED ldVars => LoopSide'
BY DEF LoopSide, TrackInv, WarnedInv, FreqInv, StreakInv, PendingInv, ldVars

LEMMA LoopsAreWatched ==
  ASSUME LD!ConstantsAssumption, LoopSide
  PROVE  LoopsAreCut
<1>1. /\ TrackInv /\ WarnedInv /\ FreqInv /\ StreakInv /\ PendingInv
  BY DEF LoopSide
<1>2. \A s : LD!Range(s) = ToSet(s)
  BY SameOperators
<1>3. LD!TypeOK
  <2>1. ASSUME NEW t \in DOMAIN history PROVE Len(history[t]) \in 1..WindowSize /\ LD!Range(history[t]) \subseteq LD!Hashes
    <3>1. history[t] \in Seq(LD!Hashes) /\ Len(history[t]) \in 1..WindowSize
      BY <1>1 DEF TrackInv
    <3> QED
      BY <1>2, <3>1, ListProperties
  <2>2. ASSUME NEW k \in DOMAIN pending
        PROVE  Len(pending[k]) \in 1..MaxPerRun /\ LD!Range(pending[k]) \subseteq LD!Names \union {"same"}
    <3>1. pending[k] \in Seq(LD!Names \union {"same"}) /\ Len(pending[k]) \in 1..MaxPerRun
      BY <1>1 DEF PendingInv
    <3> QED
      BY <1>2, <3>1, ListProperties
  <2>3. \A t \in Threads, n \in LD!Names : toolFreq[t][n] \in 0..FreqHard[n]
    BY <1>1, LoopBounds DEF FreqInv
  <2>4. /\ DOMAIN history \subseteq Threads /\ warned \in [Threads -> SUBSET LD!Hashes]
        /\ toolFreqWarned \in [Threads -> SUBSET LD!Names] /\ DOMAIN pending \subseteq Threads \X Runs
        /\ streak \in [Threads -> 0..HardLimit] /\ stopped \subseteq Threads
    BY <1>1 DEF TrackInv, WarnedInv, FreqInv, StreakInv, PendingInv
  <2> QED
    BY <2>1, <2>2, <2>3, <2>4 DEF LD!TypeOK
<1>4. LD!BooksAgree
  <2>1. /\ order \in Seq(Threads) /\ Distinct(order) /\ ToSet(order) = DOMAIN history /\ Len(order) <= MaxTrackedThreads
    BY <1>1 DEF TrackInv
  <2>2. /\ pendingOrder \in Seq(Threads \X Runs) /\ Distinct(pendingOrder)
        /\ ToSet(pendingOrder) = DOMAIN pending /\ Len(pendingOrder) <= LD!MaxPendingKeys
        /\ \A k \in DOMAIN pending : k[1] \in DOMAIN history
    BY <1>1 DEF PendingInv
  <2>3. Len(order) = LD!Cardinality(DOMAIN history)
    BY <2>1, DistinctAreCounted, SameOperators
  <2>4. Len(pendingOrder) = LD!Cardinality(DOMAIN pending)
    BY <2>2, DistinctAreCounted, SameOperators
  <2>5. \A t \in Threads \ DOMAIN history : warned[t] = {} /\ toolFreq[t] = LD!Nothing /\ toolFreqWarned[t] = {}
    BY <1>1 DEF WarnedInv, FreqInv
  <2> QED
    BY <1>2, <2>1, <2>2, <2>3, <2>4, <2>5 DEF LD!BooksAgree
<1>5. LD!WarnedBeforeStopped
  <2>1. DOMAIN history \subseteq Threads
    BY <1>1 DEF TrackInv
  <2> QED
    BY <1>1, <1>2, <2>1 DEF WarnedInv, FreqInv, LD!WarnedBeforeStopped
<1>6. LD!LoopsAreStopped
  BY <1>1 DEF StreakInv, LD!LoopsAreStopped
<1> QED
  BY <1>3, <1>4, <1>5, <1>6 DEF LoopsAreCut, LD!LoopsAreCut

(* LoopSide holds in every state of every execution.                         *)
THEOREM LoopInvariant == BothSpec => []LoopSide
<1>1. BothInit => LoopSide
  BY BothAssumption, LoopInit DEF BothInit
<1>2. LoopSide /\ [BothNext]_<<detecting, vars, ldVars>> => LoopSide'
  BY BothAssumption, LoopNext, LoopStays DEF BothNext
<1> QED
  BY <1>1, <1>2, PTL DEF BothSpec

(* A thread that repeats its calls is warned and then stopped, whatever      *)
(* other threads and runs do meanwhile, and nothing is kept of a thread or a *)
(* run that is no longer tracked (TrackAndCheck in loopdetect.go).           *)
THEOREM LoopsAreWarnedAndCut == BothSpec => []LoopsAreCut
<1>1. LoopSide => LoopsAreCut
  BY BothAssumption, LoopsAreWatched
<1> QED
  BY <1>1, LoopInvariant, PTL

=============================================================================
