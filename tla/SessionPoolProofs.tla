-------------------------- MODULE SessionPoolProofs --------------------------
(***************************************************************************)
(* Theorems about SessionPool, for every set of keys and calls, every      *)
(* capacity and any number of timeouts.                                    *)
(***************************************************************************)
EXTENDS SessionPool, SequenceTheorems, FiniteSetTheorems, WellFoundedInduction, TLAPS

-----------------------------------------------------------------------------
(* Lists without repetitions.                                                *)

LEMMA UpToIsFinite ==
  ASSUME NEW n \in Nat
  PROVE  IsFiniteSet(1..n) /\ Cardinality(1..n) = n
BY FS_Interval

(* The indices of a finite set are numbered from 1 on.                       *)
LEMMA RankNumbers ==
  ASSUME NEW I \in SUBSET Nat, IsFiniteSet(I)
  PROVE  /\ Cardinality(I) \in Nat
         /\ \A i \in I : Rank(I, i) \in 1..Cardinality(I)
         /\ \A i, j \in I : Rank(I, i) = Rank(I, j) => i = j
         /\ \A k \in 1..Cardinality(I) : \E i \in I : Rank(I, i) = k
<1> DEFINE Upto(i) == {j \in I : j <= i}
<1>1. \A i : /\ IsFiniteSet(Upto(i)) /\ Cardinality(Upto(i)) \in Nat
             /\ Cardinality(Upto(i)) <= Cardinality(I)
  <2> TAKE i
  <2>1. Upto(i) \in SUBSET I
    OBVIOUS
  <2> QED
    BY <2>1, FS_Subset, FS_CardinalityType
<1>2. Cardinality(I) \in Nat /\ IsFiniteSet(1..Cardinality(I)) /\ Cardinality(1..Cardinality(I)) = Cardinality(I)
  BY FS_CardinalityType, UpToIsFinite
<1>3. \A i \in I : Cardinality(Upto(i)) \in 1..Cardinality(I)
  <2> TAKE i \in I
  <2>1. Cardinality(Upto(i)) # 0
    <3>1. i \in Upto(i)
      OBVIOUS
    <3> QED
      BY <1>1, <3>1, FS_EmptySet
  <2>2. PICK x : x = Cardinality(Upto(i))
    OBVIOUS
  <2>3. PICK y : y = Cardinality(I)
    OBVIOUS
  <2>4. x \in Nat /\ y \in Nat /\ x <= y /\ x # 0
    BY <1>1, <1>2, <2>1, <2>2, <2>3
  <2>5. x \in 1..y
    BY <2>4
  <2> QED
    BY <2>2, <2>3, <2>5
<1>4. ASSUME NEW i \in I, NEW j \in I, i < j PROVE Cardinality(Upto(i)) < Cardinality(Upto(j))
  <2>1. Upto(i) \in SUBSET Upto(j) /\ j \in Upto(j) /\ j \notin Upto(i)
    <3>1. i \in Nat /\ j \in Nat /\ \A m \in I : m \in Nat
      OBVIOUS
    <3>2. \A m \in I : m <= i => m <= j
      BY <1>4, <3>1
    <3>3. j \in Upto(j) /\ j \notin Upto(i)
      BY <1>4, <3>1
    <3> QED
      BY <3>2, <3>3
  <2>2. Cardinality(Upto(i)) <= Cardinality(Upto(j)) /\ Cardinality(Upto(i)) # Cardinality(Upto(j))
    BY <1>1, <2>1, FS_Subset
  <2> QED
    BY <1>1, <2>2
<1>5. \A i, j \in I : Cardinality(Upto(i)) = Cardinality(Upto(j)) => i = j
  BY <1>1, <1>4
<1> DEFINE f == [i \in I |-> Cardinality(Upto(i))]
<1>6. f \in Injection(I, 1..Cardinality(I))
  BY <1>3, <1>5 DEF Injection, IsInjective
<1>7. f \in Surjection(I, 1..Cardinality(I))
  BY <1>2, <1>6, FS_Injection
<1>8. \A k \in 1..Cardinality(I) : \E i \in I : f[i] = k
  BY <1>7 DEF Surjection
<1> QED
  BY <1>2, <1>3, <1>5, <1>8 DEF Rank

(* A selection has the elements selected, each one once, and no other.       *)
LEMMA SelectionProperties ==
  ASSUME NEW S, NEW s \in Seq(S), NEW I \in SUBSET (1..Len(s))
  PROVE  /\ Selection(s, I) \in Seq(S)
         /\ Len(Selection(s, I)) <= Len(s)
         /\ {Selection(s, I)[k] : k \in 1..Len(Selection(s, I))} = {s[i] : i \in I}
         /\ (\A i, j \in I : s[i] = s[j] => i = j)
              => \A k, l \in 1..Len(Selection(s, I)) :
                   Selection(s, I)[k] = Selection(s, I)[l] => k = l
<1>0. /\ Len(s) \in Nat /\ IsFiniteSet(I) /\ I \in SUBSET Nat
      /\ Cardinality(I) \in Nat /\ Cardinality(I) <= Len(s)
  <2>1. Len(s) \in Nat
    BY LenProperties
  <2>2. IsFiniteSet(1..Len(s)) /\ Cardinality(1..Len(s)) = Len(s)
    BY <2>1, UpToIsFinite
  <2>3. IsFiniteSet(I) /\ Cardinality(I) <= Cardinality(1..Len(s)) /\ Cardinality(I) \in Nat
    BY <2>2, FS_Subset, FS_CardinalityType
  <2> QED
    BY <2>1, <2>2, <2>3
<1> DEFINE at(k) == CHOOSE i \in I : Rank(I, i) = k
           n == Cardinality(I)
<1>1. Len(s) \in Nat /\ IsFiniteSet(I) /\ n <= Len(s) /\ I \in SUBSET Nat
  BY <1>0
<1>2. n \in Nat /\ \A k \in 1..n : at(k) \in I /\ Rank(I, at(k)) = k
  BY <1>1, RankNumbers
<1>3. \A i \in I : Rank(I, i) \in 1..n /\ at(Rank(I, i)) = i
  BY <1>1, <1>2, RankNumbers
<1> HIDE DEF at, n
<1>4. \A i \in I : s[i] \in S
  BY ElementOfSeq
<1>5. Selection(s, I) = [k \in 1..n |-> s[at(k)]]
  BY DEF Selection, at, n
<1>6. Selection(s, I) \in [1..n -> S]
  BY <1>2, <1>4, <1>5
<1>7. Selection(s, I) \in Seq(S) /\ Len(Selection(s, I)) = n
  BY <1>2, <1>6, SeqDef, LenProperties
<1>8. {Selection(s, I)[k] : k \in 1..n} = {s[i] : i \in I}
  <2>1. \A k \in 1..n : \E i \in I : Selection(s, I)[k] = s[i]
    BY <1>2, <1>5
  <2>2. \A i \in I : \E k \in 1..n : Selection(s, I)[k] = s[i]
    BY <1>3, <1>5
  <2>3. {Selection(s, I)[k] : k \in 1..n} \subseteq {s[i] : i \in I}
    BY <2>1
  <2>4. {s[i] : i \in I} \subseteq {Selection(s, I)[k] : k \in 1..n}
    BY <2>2
  <2> QED
    BY <2>3, <2>4
<1>9. ASSUME \A i, j \in I : s[i] = s[j] => i = j, NEW k \in 1..n, NEW l \in 1..n,
             Selection(s, I)[k] = Selection(s, I)[l]
      PROVE  k = l
  BY <1>2, <1>5, <1>9
<1> QED
  BY <1>1, <1>7, <1>8, <1>9

(* A set of numbers that is not empty has a least element.                   *)
LEMMA LeastExists ==
  ASSUME NEW T \in SUBSET Nat, T # {}
  PROVE  \E x \in T : \A y \in T : x <= y
<1>1. PICK x \in T : \A y \in T : ~(<<y, x>> \in OpToRel(<, Nat))
  BY NatLessThanWellFounded, WFMin
<1>2. \A y \in T : ~(y < x)
  BY <1>1 DEF OpToRel
<1> QED
  BY <1>2

Elements(s) == {s[i] : i \in 1..Len(s)}
Distinct(s) == \A i, j \in 1..Len(s) : s[i] = s[j] => i = j

LEMMA AppendIsExact ==
  ASSUME NEW S, NEW s \in Seq(S), NEW x \in S, x \notin Elements(s), Distinct(s)
  PROVE  /\ Append(s, x) \in Seq(S)
         /\ Elements(Append(s, x)) = Elements(s) \union {x} /\ Distinct(Append(s, x))
<1>1. /\ Append(s, x) \in Seq(S) /\ Len(Append(s, x)) = Len(s) + 1 /\ Len(s) \in Nat
      /\ \A i \in 1..Len(s) : Append(s, x)[i] = s[i]
      /\ Append(s, x)[Len(s) + 1] = x
  BY AppendProperties, LenProperties
<1>2. 1..(Len(s) + 1) = 1..Len(s) \union {Len(s) + 1}
  BY <1>1
<1>3. Elements(Append(s, x)) = Elements(s) \union {x}
  BY <1>1, <1>2 DEF Elements
<1>4. Distinct(Append(s, x))
  BY <1>1, <1>2 DEF Distinct, Elements
<1> QED
  BY <1>1, <1>3, <1>4

(* The last part of a list has what the first part has not.                  *)
LEMMA RestIsExact ==
  ASSUME NEW S, NEW s \in Seq(S), NEW n \in 0..Len(s), Distinct(s)
  PROVE  /\ SubSeq(s, n + 1, Len(s)) \in Seq(S)
         /\ Elements(SubSeq(s, n + 1, Len(s))) = Elements(s) \ {s[i] : i \in 1..n}
         /\ Distinct(SubSeq(s, n + 1, Len(s)))
<1> DEFINE rest == SubSeq(s, n + 1, Len(s))
<1>1. Len(s) \in Nat /\ n \in Nat /\ n <= Len(s)
  BY LenProperties
<1>2. /\ rest \in Seq(S) /\ Len(rest) = Len(s) - n
      /\ \A i \in 1..(Len(s) - n) : rest[i] = s[n + i]
  <2>1. rest \in Seq(S)
    BY <1>1, SubSeqProperties
  <2>2. Len(rest) = Len(s) - n
    BY <1>1, SubSeqProperties
  <2>3. \A i \in 1..Len(rest) : rest[i] = s[n + 1 + i - 1]
    BY <1>1, SubSeqProperties
  <2>4. \A i \in 1..(Len(s) - n) : n + 1 + i - 1 = n + i
    BY <1>1
  <2> QED
    BY <2>1, <2>2, <2>3, <2>4
<1> HIDE DEF rest
<1>3. Elements(rest) \subseteq Elements(s) \ {s[i] : i \in 1..n}
  <2> SUFFICES ASSUME NEW k \in 1..(Len(s) - n)
               PROVE  s[n + k] \in Elements(s) /\ \A i \in 1..n : s[i] # s[n + k]
    BY <1>2 DEF Elements
  <2>1. n + k \in 1..Len(s) /\ \A i \in 1..n : i # n + k /\ i \in 1..Len(s)
    BY <1>1
  <2> QED
    BY <2>1 DEF Elements, Distinct
<1>4. Elements(s) \ {s[i] : i \in 1..n} \subseteq Elements(rest)
  <2> SUFFICES ASSUME NEW j \in 1..Len(s), s[j] \notin {s[i] : i \in 1..n}
               PROVE  s[j] \in Elements(rest)
    BY DEF Elements
  <2>1. j \notin 1..n
    OBVIOUS
  <2>2. j - n \in 1..(Len(s) - n) /\ n + (j - n) = j
    BY <1>1, <2>1
  <2>3. rest[j - n] = s[j]
    BY <1>2, <2>2
  <2> QED
    BY <1>2, <2>2, <2>3 DEF Elements
<1>5. ASSUME NEW k \in 1..Len(rest), NEW l \in 1..Len(rest), rest[k] = rest[l]
      PROVE  k = l
  <2>1. k \in 1..(Len(s) - n) /\ l \in 1..(Len(s) - n)
    BY <1>2
  <2>2. n + k \in 1..Len(s) /\ n + l \in 1..Len(s)
    BY <1>1, <2>1
  <2>3. s[n + k] = s[n + l]
    BY <1>2, <1>5, <2>1
  <2>4. n + k = n + l
    BY <2>2, <2>3 DEF Distinct
  <2> QED
    BY <1>1, <2>1, <2>4
<1>6. Distinct(rest)
  BY <1>5 DEF Distinct
<1> QED
  BY <1>2, <1>3, <1>4, <1>6 DEF rest

LEMMA SelectionIsExact ==
  ASSUME NEW S, NEW s \in Seq(S), NEW I \in SUBSET (1..Len(s)), Distinct(s)
  PROVE  /\ Selection(s, I) \in Seq(S) /\ Distinct(Selection(s, I))
         /\ Elements(Selection(s, I)) = {s[i] : i \in I}
<1>1. \A i, j \in I : s[i] = s[j] => i = j
  BY DEF Distinct
<1>2. /\ Selection(s, I) \in Seq(S)
      /\ {Selection(s, I)[k] : k \in 1..Len(Selection(s, I))} = {s[i] : i \in I}
      /\ \A k, l \in 1..Len(Selection(s, I)) : Selection(s, I)[k] = Selection(s, I)[l] => k = l
  BY <1>1, SelectionProperties
<1> HIDE DEF Selection
<1> QED
  BY <1>2 DEF Elements, Distinct

-----------------------------------------------------------------------------

USE ConstantsAssumption

(* The types, but for the LRU list: whatever the eviction picks, no session  *)
(* is forgotten.                                                             *)
Types ==
  /\ entries \in [Keys -> Gets \union {None}]
  /\ inflight \in [Keys -> Gets \union {None}]
  /\ own \in [Gets -> {"none", "opening", "open", "done"}]
  /\ cancelled \in SUBSET Gets /\ signal \in SUBSET Gets
  /\ ready \in [Gets -> Gets \union {None, Failed}]
  /\ pc \in [Calls -> PC]
  /\ key \in [Gets -> Keys \union {None}]
  /\ on \in [Gets -> Gets \union {None}]
  /\ todo \in [Calls -> SUBSET Gets]
  /\ cur \in [Calls -> Gets \union {None}]
  /\ timeouts \in Nat
  /\ ctx \in SUBSET Gets
  /\ res \in [Gets -> Gets \union {None, Failed}]

(* Where a call of GetSession is, and what it knows there.                   *)
CallInv ==
  \A c \in Gets :
    /\ pc[c] = "idle" => own[c] = "none"
    /\ pc[c] \notin {"idle", "returned"} => key[c] \in Keys /\ on[c] \in Gets
    /\ pc[c] \notin {"returned", "shut"} => res[c] = None
    /\ pc[c] = "shut" => res[c] \in {None, Failed}
    /\ on[c] = c => own[c] # "none"
    /\ pc[c] = "promote" => ready[c] \in Gets

(* An owner has reported its result once it is past the opening, and ends    *)
(* without having failed only when it was told to.                           *)
OwnerInv ==
  \A o \in Gets :
    /\ own[o] \in {"none", "opening"} => ready[o] = None
    /\ ready[o] = Failed => own[o] = "done"
    /\ own[o] = "done" => ready[o] = Failed \/ o \in signal
    /\ o \in signal => own[o] # "none"

(* A key is pooled or being created, not both, and its creator is told to    *)
(* close only by itself as long as it is registered.                         *)
InflightInv ==
  \A k \in Keys :
    /\ entries[k] # None => inflight[k] = None
    /\ inflight[k] # None =>
         LET o == inflight[k] IN
         key[o] = k /\ own[o] # "none" /\ (o \in signal => pc[o] = "abandon")

(* An owner that somebody is about to shut down has left the pool for good.  *)
TodoInv ==
  \A c \in Calls : \A o \in todo[c] :
    own[o] # "none" /\ \A k \in Keys : entries[k] # o /\ inflight[k] # o

(* A creator that has found itself removed closes its own session before it  *)
(* returns, unless the wait times out.                                       *)
TornDown ==
  \A c \in Gets :
    pc[c] = "shut" /\ res[c] = Failed /\ own[c] \in {"opening", "open"} =>
      c \in todo[c] \/ cur[c] = c \/ timeouts > 0

PoolInv == CallInv /\ OwnerInv /\ InflightInv /\ TodoInv /\ PooledIsOpen

(* Whatever the eviction picks, it moves sessions from the pool to the list  *)
(* of those its caller has to shut down, and does nothing else.              *)
LEMMA Evicts ==
  ASSUME Types, NEW c \in Calls, Evict(c)
  PROVE  /\ entries' \in [Keys -> Gets \union {None}]
         /\ todo' \in [Calls -> SUBSET Gets]
         /\ \A k \in Keys : entries'[k] \in {None, entries[k]}
         /\ \A k \in Keys :
              entries[k] # None => entries'[k] = entries[k] \/ entries[k] \in todo'[c]
         /\ \A o \in todo'[c] : \E k \in Keys : entries[k] = o /\ entries'[k] = None
         /\ \A d \in Calls : d # c => todo'[d] = todo[d]
<1> DEFINE S == Oldest(Excess)
<1>1. /\ entries' = [k \in Keys |-> IF k \in S THEN None ELSE entries[k]]
      /\ todo' = [todo EXCEPT ![c] = {entries[k] : k \in S \cap Pooled}]
  BY DEF Evict
<1> HIDE DEF S
<1>2. todo'[c] = {entries[k] : k \in S \cap Pooled}
  BY <1>1 DEF Types
<1>3. todo'[c] \subseteq Gets
  BY <1>2 DEF Types, Pooled
<1>4. \A k \in Keys : entries[k] # None => entries'[k] = entries[k] \/ entries[k] \in todo'[c]
  BY <1>1, <1>2 DEF Types, Pooled
<1>5. \A o \in todo'[c] : \E k \in Keys : entries[k] = o /\ entries'[k] = None
  BY <1>1, <1>2 DEF Types, Pooled
<1>6. /\ entries' \in [Keys -> Gets \union {None}]
      /\ \A k \in Keys : entries'[k] \in {None, entries[k]}
  BY <1>1 DEF Types
<1>7. /\ todo' \in [Calls -> SUBSET Gets]
      /\ \A d \in Calls : d # c => todo'[d] = todo[d]
  BY <1>1, <1>2, <1>3 DEF Types
<1> QED
  BY <1>4, <1>5, <1>6, <1>7

(* A close lists exactly sessions and creations it has removed.              *)
LEMMA Takes ==
  ASSUME Types, NEW c \in Closes, NEW K \in Closable, Close(c, K)
  PROVE  /\ entries' \in [Keys -> Gets \union {None}]
         /\ inflight' \in [Keys -> Gets \union {None}]
         /\ \A k \in Keys : entries'[k] \in {None, entries[k]} /\ inflight'[k] \in {None, inflight[k]}
         /\ todo' \in [Calls -> SUBSET Gets]
         /\ \A o \in todo'[c] : \E k \in Keys :
              (entries[k] = o \/ inflight[k] = o) /\ entries'[k] = None /\ inflight'[k] = None
         /\ \A d \in Calls : d # c => todo'[d] = todo[d]
<1> DEFINE T == ({entries[k] : k \in K} \union {inflight[k] : k \in K}) \ {None}
<1>1. K \subseteq Keys
  BY DEF Closable, Scoped, Served
<1>2. T \subseteq Gets
  BY <1>1 DEF Types
<1>3. todo' = [todo EXCEPT ![c] = T]
  BY DEF Close
<1>4. c \in Calls /\ todo \in [Calls -> SUBSET Gets]
  BY DEF Calls, Types
<1>5. \A o \in T : \E k \in Keys :
        (entries[k] = o \/ inflight[k] = o) /\ entries'[k] = None /\ inflight'[k] = None
  BY <1>1 DEF Close
<1>6. /\ entries' \in [Keys -> Gets \union {None}]
      /\ \A k \in Keys : entries'[k] \in {None, entries[k]}
  <2>1. entries' = [k \in Keys |-> IF k \in K THEN None ELSE entries[k]]
    BY DEF Close
  <2> QED
    BY <2>1 DEF Types
<1>7. /\ inflight' \in [Keys -> Gets \union {None}]
      /\ \A k \in Keys : inflight'[k] \in {None, inflight[k]}
  <2>1. inflight' = [k \in Keys |-> IF k \in K THEN None ELSE inflight[k]]
    BY DEF Close
  <2> QED
    BY <2>1 DEF Types
<1> HIDE DEF T
<1> QED
  BY <1>2, <1>3, <1>4, <1>5, <1>6, <1>7

(* Every step preserves the types.                                           *)
LEMMA TypesStep == Types /\ CallInv /\ [Next]_vars => Types'
<1> SUFFICES ASSUME Types, CallInv, [Next]_vars PROVE Types'
  OBVIOUS
<1> USE DEF poolVars, ownerVars, callVars, Calls, Pooled, Types, PC, CallInv
<1>1. ASSUME NEW c \in Gets, NEW k \in Keys, Hit(c, k) PROVE Types'
  BY <1>1 DEF Hit, Return, Goto
<1>2. ASSUME NEW c \in Gets, NEW k \in Keys, Join(c, k) PROVE Types'
  BY <1>2, Evicts DEF Join, Goto
<1>3. ASSUME NEW c \in Gets, NEW k \in Keys, BecomeCreator(c, k) PROVE Types'
  BY <1>3, Evicts DEF BecomeCreator, Goto
<1>4. ASSUME NEW c \in Closes, NEW K \in Closable, Close(c, K) PROVE Types'
  <2>1. /\ entries' \in [Keys -> Gets \union {None}]
        /\ inflight' \in [Keys -> Gets \union {None}]
        /\ todo' \in [Calls -> SUBSET Gets]
    BY <1>4, Takes
  <2>2. pc' \in [Calls -> PC] /\ UNCHANGED <<ownerVars, key, on, cur, ctx, res, timeouts>>
    BY <1>4 DEF Close, Goto
  <2> QED
    BY <2>1, <2>2
<1>5. ASSUME NEW c \in Calls, NEW o \in Gets, SignalNext(c, o) PROVE Types'
  BY <1>5 DEF SignalNext
<1>6. ASSUME NEW c \in Calls, ShutReturns(c) PROVE Types'
  BY <1>6 DEF ShutReturns
<1>7. ASSUME NEW c \in Calls, ShutDone(c) PROVE Types'
  BY <1>7 DEF ShutDone, Goto
<1>8. ASSUME NEW c \in Gets, GetsResult(c) PROVE Types'
  BY <1>8 DEF GetsResult, Return, Goto
<1>9. ASSUME NEW c \in Gets, NotReady(c) PROVE Types'
  BY <1>9 DEF NotReady, Goto
<1>10. ASSUME NEW c \in Gets, GivesUp(c) PROVE Types'
  BY <1>10 DEF GivesUp, Return, Goto
<1>11. ASSUME NEW c \in Gets, Withdraw(c) PROVE Types'
  BY <1>11 DEF Withdraw, Return, Goto
<1>12. ASSUME NEW c \in Gets, Promote(c) PROVE Types'
  BY <1>12 DEF Promote, Return, Goto
<1>13. ASSUME NEW c \in Gets, TearDown(c) PROVE Types'
  BY <1>13 DEF TearDown, Goto
<1>14. ASSUME NEW c \in Gets, CancelContext(c) PROVE Types'
  BY <1>14 DEF CancelContext
<1>15. ASSUME NEW o \in Gets, Open(o) PROVE Types'
  BY <1>15 DEF Open
<1>16. ASSUME NEW o \in Gets, CloseSession(o) PROVE Types'
  BY <1>16 DEF CloseSession
<1>17. CASE UNCHANGED vars
  BY <1>17 DEF vars
<1> QED
  BY <1>1, <1>2, <1>3, <1>4, <1>5, <1>6, <1>7, <1>8, <1>9, <1>10, <1>11, <1>12,
     <1>13, <1>14, <1>15, <1>16, <1>17
     DEF Next, ShutdownOwners, GetSession

(* Every step preserves what a call knows.                                   *)
LEMMA CallStep == Types /\ PoolInv /\ [Next]_vars => CallInv'
<1> SUFFICES ASSUME Types, PoolInv, [Next]_vars PROVE CallInv'
  OBVIOUS
<1> USE DEF poolVars, ownerVars, callVars, Calls, Pooled, Types, PC, PoolInv, CallInv,
            OwnerInv, InflightInv, PooledIsOpen
<1>1. ASSUME NEW c \in Gets, NEW k \in Keys, Hit(c, k) PROVE CallInv'
  BY <1>1 DEF Hit, Return, Goto
<1>2. ASSUME NEW c \in Gets, NEW k \in Keys, Join(c, k) PROVE CallInv'
  BY <1>2, Evicts DEF Join, Goto
<1>3. ASSUME NEW c \in Gets, NEW k \in Keys, BecomeCreator(c, k) PROVE CallInv'
  BY <1>3, Evicts DEF BecomeCreator, Goto
<1>4. ASSUME NEW c \in Closes, NEW K \in Closable, Close(c, K) PROVE CallInv'
  BY <1>4 DEF Close, Goto
<1>5. ASSUME NEW c \in Calls, NEW o \in Gets, SignalNext(c, o) PROVE CallInv'
  BY <1>5 DEF SignalNext
<1>6. ASSUME NEW c \in Calls, ShutReturns(c) PROVE CallInv'
  BY <1>6 DEF ShutReturns
<1>7. ASSUME NEW c \in Calls, ShutDone(c) PROVE CallInv'
  BY <1>7 DEF ShutDone, Goto
<1>8. ASSUME NEW c \in Gets, GetsResult(c) PROVE CallInv'
  BY <1>8 DEF GetsResult, Return, Goto
<1>9. ASSUME NEW c \in Gets, NotReady(c) PROVE CallInv'
  BY <1>9 DEF NotReady, Goto
<1>10. ASSUME NEW c \in Gets, GivesUp(c) PROVE CallInv'
  BY <1>10 DEF GivesUp, Return, Goto
<1>11. ASSUME NEW c \in Gets, Withdraw(c) PROVE CallInv'
  BY <1>11 DEF Withdraw, Return, Goto
<1>12. ASSUME NEW c \in Gets, Promote(c) PROVE CallInv'
  BY <1>12 DEF Promote, Return, Goto
<1>13. ASSUME NEW c \in Gets, TearDown(c) PROVE CallInv'
  BY <1>13 DEF TearDown, Goto
<1>14. ASSUME NEW c \in Gets, CancelContext(c) PROVE CallInv'
  BY <1>14 DEF CancelContext
<1>15. ASSUME NEW o \in Gets, Open(o) PROVE CallInv'
  BY <1>15 DEF Open
<1>16. ASSUME NEW o \in Gets, CloseSession(o) PROVE CallInv'
  BY <1>16 DEF CloseSession
<1>17. CASE UNCHANGED vars
  BY <1>17 DEF vars
<1> QED
  BY <1>1, <1>2, <1>3, <1>4, <1>5, <1>6, <1>7, <1>8, <1>9, <1>10, <1>11, <1>12,
     <1>13, <1>14, <1>15, <1>16, <1>17
     DEF Next, ShutdownOwners, GetSession

(* Every step preserves what an owner has reported.                          *)
LEMMA OwnerStep == Types /\ PoolInv /\ [Next]_vars => OwnerInv'
<1> SUFFICES ASSUME Types, PoolInv, [Next]_vars PROVE OwnerInv'
  OBVIOUS
<1> USE DEF poolVars, ownerVars, callVars, Calls, Pooled, Types, PC, PoolInv, CallInv,
            OwnerInv, TodoInv
<1>1. ASSUME NEW c \in Gets, NEW k \in Keys, Hit(c, k) PROVE OwnerInv'
  BY <1>1 DEF Hit, Return, Goto
<1>2. ASSUME NEW c \in Gets, NEW k \in Keys, Join(c, k) PROVE OwnerInv'
  BY <1>2, Evicts DEF Join, Goto
<1>3. ASSUME NEW c \in Gets, NEW k \in Keys, BecomeCreator(c, k) PROVE OwnerInv'
  BY <1>3, Evicts DEF BecomeCreator, Goto
<1>4. ASSUME NEW c \in Closes, NEW K \in Closable, Close(c, K) PROVE OwnerInv'
  BY <1>4 DEF Close, Goto
<1>5. ASSUME NEW c \in Calls, NEW o \in Gets, SignalNext(c, o) PROVE OwnerInv'
  BY <1>5 DEF SignalNext
<1>6. ASSUME NEW c \in Calls, ShutReturns(c) PROVE OwnerInv'
  BY <1>6 DEF ShutReturns
<1>7. ASSUME NEW c \in Calls, ShutDone(c) PROVE OwnerInv'
  BY <1>7 DEF ShutDone, Goto
<1>8. ASSUME NEW c \in Gets, GetsResult(c) PROVE OwnerInv'
  BY <1>8 DEF GetsResult, Return, Goto
<1>9. ASSUME NEW c \in Gets, NotReady(c) PROVE OwnerInv'
  BY <1>9 DEF NotReady, Goto
<1>10. ASSUME NEW c \in Gets, GivesUp(c) PROVE OwnerInv'
  BY <1>10 DEF GivesUp, Return, Goto
<1>11. ASSUME NEW c \in Gets, Withdraw(c) PROVE OwnerInv'
  BY <1>11 DEF Withdraw, Return, Goto
<1>12. ASSUME NEW c \in Gets, Promote(c) PROVE OwnerInv'
  BY <1>12 DEF Promote, Return, Goto
<1>13. ASSUME NEW c \in Gets, TearDown(c) PROVE OwnerInv'
  BY <1>13 DEF TearDown, Goto
<1>14. ASSUME NEW c \in Gets, CancelContext(c) PROVE OwnerInv'
  BY <1>14 DEF CancelContext
<1>15. ASSUME NEW o \in Gets, Open(o) PROVE OwnerInv'
  BY <1>15 DEF Open
<1>16. ASSUME NEW o \in Gets, CloseSession(o) PROVE OwnerInv'
  BY <1>16 DEF CloseSession
<1>17. CASE UNCHANGED vars
  BY <1>17 DEF vars
<1> QED
  BY <1>1, <1>2, <1>3, <1>4, <1>5, <1>6, <1>7, <1>8, <1>9, <1>10, <1>11, <1>12,
     <1>13, <1>14, <1>15, <1>16, <1>17
     DEF Next, ShutdownOwners, GetSession

(* Every step preserves that a registration is one of an open creation.      *)
LEMMA InflightStep == Types /\ PoolInv /\ [Next]_vars => InflightInv'
<1> SUFFICES ASSUME Types, PoolInv, [Next]_vars PROVE InflightInv'
  OBVIOUS
<1> USE DEF poolVars, ownerVars, callVars, Calls, Pooled, Types, PC, PoolInv, CallInv,
            OwnerInv, InflightInv, TodoInv
<1>1. ASSUME NEW c \in Gets, NEW k \in Keys, Hit(c, k) PROVE InflightInv'
  BY <1>1 DEF Hit, Return, Goto
<1>2. ASSUME NEW c \in Gets, NEW k \in Keys, Join(c, k) PROVE InflightInv'
  BY <1>2, Evicts DEF Join, Goto
<1>3. ASSUME NEW c \in Gets, NEW k \in Keys, BecomeCreator(c, k) PROVE InflightInv'
  BY <1>3, Evicts DEF BecomeCreator, Goto
<1>4. ASSUME NEW c \in Closes, NEW K \in Closable, Close(c, K) PROVE InflightInv'
  BY <1>4 DEF Close, Goto
<1>5. ASSUME NEW c \in Calls, NEW o \in Gets, SignalNext(c, o) PROVE InflightInv'
  BY <1>5 DEF SignalNext
<1>6. ASSUME NEW c \in Calls, ShutReturns(c) PROVE InflightInv'
  BY <1>6 DEF ShutReturns
<1>7. ASSUME NEW c \in Calls, ShutDone(c) PROVE InflightInv'
  BY <1>7 DEF ShutDone, Goto
<1>8. ASSUME NEW c \in Gets, GetsResult(c) PROVE InflightInv'
  BY <1>8 DEF GetsResult, Return, Goto
<1>9. ASSUME NEW c \in Gets, NotReady(c) PROVE InflightInv'
  BY <1>9 DEF NotReady, Goto
<1>10. ASSUME NEW c \in Gets, GivesUp(c) PROVE InflightInv'
  BY <1>10 DEF GivesUp, Return, Goto
<1>11. ASSUME NEW c \in Gets, Withdraw(c) PROVE InflightInv'
  BY <1>11 DEF Withdraw, Return, Goto
<1>12. ASSUME NEW c \in Gets, Promote(c) PROVE InflightInv'
  BY <1>12 DEF Promote, Return, Goto
<1>13. ASSUME NEW c \in Gets, TearDown(c) PROVE InflightInv'
  BY <1>13 DEF TearDown, Goto
<1>14. ASSUME NEW c \in Gets, CancelContext(c) PROVE InflightInv'
  BY <1>14 DEF CancelContext
<1>15. ASSUME NEW o \in Gets, Open(o) PROVE InflightInv'
  BY <1>15 DEF Open
<1>16. ASSUME NEW o \in Gets, CloseSession(o) PROVE InflightInv'
  BY <1>16 DEF CloseSession
<1>17. CASE UNCHANGED vars
  BY <1>17 DEF vars
<1> QED
  BY <1>1, <1>2, <1>3, <1>4, <1>5, <1>6, <1>7, <1>8, <1>9, <1>10, <1>11, <1>12,
     <1>13, <1>14, <1>15, <1>16, <1>17
     DEF Next, ShutdownOwners, GetSession

(* Every step preserves that who is shut down has left the pool.             *)
LEMMA TodoStep == Types /\ PoolInv /\ [Next]_vars => TodoInv'
<1> SUFFICES ASSUME Types, PoolInv, [Next]_vars PROVE TodoInv'
  OBVIOUS
<1> USE DEF poolVars, ownerVars, callVars, Calls, Pooled, Types, PC, PoolInv, CallInv,
            InflightInv, TodoInv, PooledIsOpen
<1>1. ASSUME NEW c \in Gets, NEW k \in Keys, Hit(c, k) PROVE TodoInv'
  BY <1>1 DEF Hit, Return, Goto
<1>2. ASSUME NEW c \in Gets, NEW k \in Keys, Join(c, k) PROVE TodoInv'
  <2> SUFFICES ASSUME NEW d \in Calls, NEW o \in todo'[d]
               PROVE  own'[o] # "none" /\ \A x \in Keys : entries'[x] # o /\ inflight'[x] # o
    BY DEF TodoInv
  <2>1. o \in Gets /\ \A x \in Keys : entries'[x] \in {None, entries[x]}
    BY <1>2, Evicts DEF Join
  <2>2. CASE d # c
    <3>1. o \in todo[d]
      BY <1>2, <2>2, Evicts DEF Join
    <3> QED
      BY <1>2, <2>1, <3>1 DEF Join
  <2>3. CASE d = c
    <3>1. PICK p \in Keys : entries[p] = o /\ entries'[p] = None
      BY <1>2, <2>3, Evicts DEF Join
    <3>2. own[o] # "none" /\ key[o] = p
      BY <2>1, <3>1
    <3> QED
      BY <1>2, <2>1, <3>1, <3>2 DEF Join
  <2> QED
    BY <2>2, <2>3
<1>3. ASSUME NEW c \in Gets, NEW k \in Keys, BecomeCreator(c, k) PROVE TodoInv'
  <2> SUFFICES ASSUME NEW d \in Calls, NEW o \in todo'[d]
               PROVE  own'[o] # "none" /\ \A x \in Keys : entries'[x] # o /\ inflight'[x] # o
    BY DEF TodoInv
  <2>1. o \in Gets /\ \A x \in Keys : entries'[x] \in {None, entries[x]}
    BY <1>3, Evicts DEF BecomeCreator
  <2>2. CASE d # c
    <3>1. o \in todo[d]
      BY <1>3, <2>2, Evicts DEF BecomeCreator
    <3> QED
      BY <1>3, <2>1, <3>1 DEF BecomeCreator
  <2>3. CASE d = c
    <3>1. PICK p \in Keys : entries[p] = o /\ entries'[p] = None
      BY <1>3, <2>3, Evicts DEF BecomeCreator
    <3>2. own[o] # "none" /\ key[o] = p
      BY <2>1, <3>1
    <3> QED
      BY <1>3, <2>1, <3>1, <3>2 DEF BecomeCreator
  <2> QED
    BY <2>2, <2>3
<1>4. ASSUME NEW c \in Closes, NEW K \in Closable, Close(c, K) PROVE TodoInv'
  <2> SUFFICES ASSUME NEW d \in Calls, NEW o \in todo'[d]
               PROVE  own'[o] # "none" /\ \A x \in Keys : entries'[x] # o /\ inflight'[x] # o
    BY DEF TodoInv
  <2>1. /\ \A x \in Keys : entries'[x] \in {None, entries[x]} /\ inflight'[x] \in {None, inflight[x]}
        /\ o \in Gets
    BY <1>4, Takes
  <2>2. own' = own
    BY <1>4 DEF Close
  <2>3. CASE d # c
    <3>1. o \in todo[d]
      BY <1>4, <2>3, Takes
    <3> QED
      BY <2>1, <2>2, <3>1
  <2>4. CASE d = c
    <3>1. PICK p \in Keys :
            (entries[p] = o \/ inflight[p] = o) /\ entries'[p] = None /\ inflight'[p] = None
      BY <1>4, <2>4, Takes
    <3>2. own[o] # "none" /\ key[o] = p
      BY <2>1, <2>2, <3>1
    <3> QED
      BY <2>1, <2>2, <3>1, <3>2
  <2> QED
    BY <2>3, <2>4
<1>5. ASSUME NEW c \in Calls, NEW o \in Gets, SignalNext(c, o) PROVE TodoInv'
  BY <1>5 DEF SignalNext
<1>6. ASSUME NEW c \in Calls, ShutReturns(c) PROVE TodoInv'
  BY <1>6 DEF ShutReturns
<1>7. ASSUME NEW c \in Calls, ShutDone(c) PROVE TodoInv'
  BY <1>7 DEF ShutDone, Goto
<1>8. ASSUME NEW c \in Gets, GetsResult(c) PROVE TodoInv'
  BY <1>8 DEF GetsResult, Return, Goto
<1>9. ASSUME NEW c \in Gets, NotReady(c) PROVE TodoInv'
  BY <1>9 DEF NotReady, Goto
<1>10. ASSUME NEW c \in Gets, GivesUp(c) PROVE TodoInv'
  BY <1>10 DEF GivesUp, Return, Goto
<1>11. ASSUME NEW c \in Gets, Withdraw(c) PROVE TodoInv'
  BY <1>11 DEF Withdraw, Return, Goto
<1>12. ASSUME NEW c \in Gets, Promote(c) PROVE TodoInv'
  BY <1>12 DEF Promote, Return, Goto
<1>13. ASSUME NEW c \in Gets, TearDown(c) PROVE TodoInv'
  <2> SUFFICES ASSUME NEW d \in Calls, NEW o \in todo'[d]
               PROVE  own'[o] # "none" /\ \A x \in Keys : entries'[x] # o /\ inflight'[x] # o
    BY DEF TodoInv
  <2>1. UNCHANGED <<own, entries, inflight>>
    BY <1>13 DEF TearDown
  <2>2. CASE d # c
    <3>1. o \in todo[d]
      BY <1>13, <2>2 DEF TearDown
    <3> QED
      BY <2>1, <3>1
  <2>3. CASE d = c
    <3>1. o = c
      BY <1>13, <2>3 DEF TearDown
    <3>2. /\ ready[c] \in Gets /\ res[c] = None /\ inflight[key[c]] # c
      BY <1>13 DEF TearDown
    <3>3. own[c] # "none"
      BY <3>2 DEF OwnerInv
    <3>4. \A x \in Keys : entries[x] # c /\ inflight[x] # c
      BY <3>2
    <3> QED
      BY <2>1, <3>1, <3>3, <3>4
  <2> QED
    BY <2>2, <2>3
<1>14. ASSUME NEW c \in Gets, CancelContext(c) PROVE TodoInv'
  BY <1>14 DEF CancelContext
<1>15. ASSUME NEW o \in Gets, Open(o) PROVE TodoInv'
  BY <1>15 DEF Open
<1>16. ASSUME NEW o \in Gets, CloseSession(o) PROVE TodoInv'
  BY <1>16 DEF CloseSession
<1>17. CASE UNCHANGED vars
  BY <1>17 DEF vars
<1> QED
  BY <1>1, <1>2, <1>3, <1>4, <1>5, <1>6, <1>7, <1>8, <1>9, <1>10, <1>11, <1>12,
     <1>13, <1>14, <1>15, <1>16, <1>17
     DEF Next, ShutdownOwners, GetSession

(* Every step preserves that pooled sessions are open.                       *)
LEMMA PooledStep == Types /\ PoolInv /\ [Next]_vars => PooledIsOpen'
<1> SUFFICES ASSUME Types, PoolInv, [Next]_vars PROVE PooledIsOpen'
  OBVIOUS
<1> USE DEF poolVars, ownerVars, callVars, Calls, Pooled, Types, PC, PoolInv, CallInv,
            OwnerInv, InflightInv, TodoInv, PooledIsOpen
<1>1. ASSUME NEW c \in Gets, NEW k \in Keys, Hit(c, k) PROVE PooledIsOpen'
  BY <1>1 DEF Hit, Return, Goto
<1>2. ASSUME NEW c \in Gets, NEW k \in Keys, Join(c, k) PROVE PooledIsOpen'
  BY <1>2, Evicts DEF Join, Goto
<1>3. ASSUME NEW c \in Gets, NEW k \in Keys, BecomeCreator(c, k) PROVE PooledIsOpen'
  BY <1>3, Evicts DEF BecomeCreator, Goto
<1>4. ASSUME NEW c \in Closes, NEW K \in Closable, Close(c, K) PROVE PooledIsOpen'
  BY <1>4 DEF Close, Goto
<1>5. ASSUME NEW c \in Calls, NEW o \in Gets, SignalNext(c, o) PROVE PooledIsOpen'
  BY <1>5 DEF SignalNext
<1>6. ASSUME NEW c \in Calls, ShutReturns(c) PROVE PooledIsOpen'
  BY <1>6 DEF ShutReturns
<1>7. ASSUME NEW c \in Calls, ShutDone(c) PROVE PooledIsOpen'
  BY <1>7 DEF ShutDone, Goto
<1>8. ASSUME NEW c \in Gets, GetsResult(c) PROVE PooledIsOpen'
  BY <1>8 DEF GetsResult, Return, Goto
<1>9. ASSUME NEW c \in Gets, NotReady(c) PROVE PooledIsOpen'
  BY <1>9 DEF NotReady, Goto
<1>10. ASSUME NEW c \in Gets, GivesUp(c) PROVE PooledIsOpen'
  BY <1>10 DEF GivesUp, Return, Goto
<1>11. ASSUME NEW c \in Gets, Withdraw(c) PROVE PooledIsOpen'
  BY <1>11 DEF Withdraw, Return, Goto
<1>12. ASSUME NEW c \in Gets, Promote(c) PROVE PooledIsOpen'
  BY <1>12 DEF Promote, Return, Goto
<1>13. ASSUME NEW c \in Gets, TearDown(c) PROVE PooledIsOpen'
  BY <1>13 DEF TearDown, Goto
<1>14. ASSUME NEW c \in Gets, CancelContext(c) PROVE PooledIsOpen'
  BY <1>14 DEF CancelContext
<1>15. ASSUME NEW o \in Gets, Open(o) PROVE PooledIsOpen'
  BY <1>15 DEF Open
<1>16. ASSUME NEW o \in Gets, CloseSession(o) PROVE PooledIsOpen'
  BY <1>16 DEF CloseSession
<1>17. CASE UNCHANGED vars
  BY <1>17 DEF vars
<1> QED
  BY <1>1, <1>2, <1>3, <1>4, <1>5, <1>6, <1>7, <1>8, <1>9, <1>10, <1>11, <1>12,
     <1>13, <1>14, <1>15, <1>16, <1>17
     DEF Next, ShutdownOwners, GetSession

(* Every step preserves that removed creators close their sessions.          *)
LEMMA TornStep == Types /\ CallInv /\ TornDown /\ [Next]_vars => TornDown'
<1> SUFFICES ASSUME Types, CallInv, TornDown, [Next]_vars PROVE TornDown'
  OBVIOUS
<1> USE DEF poolVars, ownerVars, callVars, Calls, Pooled, Types, PC, CallInv, TornDown
<1>1. ASSUME NEW c \in Gets, NEW k \in Keys, Hit(c, k) PROVE TornDown'
  BY <1>1 DEF Hit, Return, Goto
<1>2. ASSUME NEW c \in Gets, NEW k \in Keys, Join(c, k) PROVE TornDown'
  BY <1>2, Evicts DEF Join, Goto
<1>3. ASSUME NEW c \in Gets, NEW k \in Keys, BecomeCreator(c, k) PROVE TornDown'
  BY <1>3, Evicts DEF BecomeCreator, Goto
<1>4. ASSUME NEW c \in Closes, NEW K \in Closable, Close(c, K) PROVE TornDown'
  BY <1>4 DEF Close, Goto
<1>5. ASSUME NEW c \in Calls, NEW o \in Gets, SignalNext(c, o) PROVE TornDown'
  BY <1>5 DEF SignalNext
<1>6. ASSUME NEW c \in Calls, ShutReturns(c) PROVE TornDown'
  BY <1>6 DEF ShutReturns
<1>7. ASSUME NEW c \in Calls, ShutDone(c) PROVE TornDown'
  BY <1>7 DEF ShutDone, Goto
<1>8. ASSUME NEW c \in Gets, GetsResult(c) PROVE TornDown'
  BY <1>8 DEF GetsResult, Return, Goto
<1>9. ASSUME NEW c \in Gets, NotReady(c) PROVE TornDown'
  BY <1>9 DEF NotReady, Goto
<1>10. ASSUME NEW c \in Gets, GivesUp(c) PROVE TornDown'
  BY <1>10 DEF GivesUp, Return, Goto
<1>11. ASSUME NEW c \in Gets, Withdraw(c) PROVE TornDown'
  BY <1>11 DEF Withdraw, Return, Goto
<1>12. ASSUME NEW c \in Gets, Promote(c) PROVE TornDown'
  BY <1>12 DEF Promote, Return, Goto
<1>13. ASSUME NEW c \in Gets, TearDown(c) PROVE TornDown'
  BY <1>13 DEF TearDown, Goto
<1>14. ASSUME NEW c \in Gets, CancelContext(c) PROVE TornDown'
  BY <1>14 DEF CancelContext
<1>15. ASSUME NEW o \in Gets, Open(o) PROVE TornDown'
  BY <1>15 DEF Open
<1>16. ASSUME NEW o \in Gets, CloseSession(o) PROVE TornDown'
  BY <1>16 DEF CloseSession
<1>17. CASE UNCHANGED vars
  BY <1>17 DEF vars
<1> QED
  BY <1>1, <1>2, <1>3, <1>4, <1>5, <1>6, <1>7, <1>8, <1>9, <1>10, <1>11, <1>12,
     <1>13, <1>14, <1>15, <1>16, <1>17
     DEF Next, ShutdownOwners, GetSession

(* Every step preserves that somebody answers for each live session.         *)
LEMMA AnswerStep == Types /\ PoolInv /\ TornDown /\ AnsweredFor /\ [Next]_vars => AnsweredFor'
<1> SUFFICES ASSUME Types, PoolInv, TornDown, AnsweredFor, [Next]_vars PROVE AnsweredFor'
  OBVIOUS
<1> USE DEF poolVars, ownerVars, callVars, Calls, Pooled, Types, PC, PoolInv, CallInv,
            OwnerInv, InflightInv, TornDown, AnsweredFor
<1>1. ASSUME NEW c \in Gets, NEW k \in Keys, Hit(c, k) PROVE AnsweredFor'
  BY <1>1 DEF Hit, Return, Goto
<1>2. ASSUME NEW c \in Gets, NEW k \in Keys, Join(c, k) PROVE AnsweredFor'
  BY <1>2, Evicts DEF Join, Goto
<1>3. ASSUME NEW c \in Gets, NEW k \in Keys, BecomeCreator(c, k) PROVE AnsweredFor'
  <2> SUFFICES ASSUME NEW o \in Gets, own'[o] \in {"opening", "open"}
               PROVE  \/ \E x \in Keys : entries'[x] = o
                      \/ pc'[o] \in {"shut", "check", "select", "promote", "abandon"} /\ on'[o] = o
                      \/ \E d \in Calls : pc'[d] = "shut" /\ (o \in todo'[d] \/ cur'[d] = o)
                      \/ timeouts' > 0
    BY DEF AnsweredFor
  <2>1. /\ pc[c] = "idle"
        /\ pc' = [pc EXCEPT ![c] = "shut"] /\ on' = [on EXCEPT ![c] = c]
        /\ own' = [own EXCEPT ![c] = "opening"]
        /\ UNCHANGED <<cur, timeouts>>
    BY <1>3 DEF BecomeCreator, Goto
  <2>2. CASE o = c
    BY <2>1, <2>2
  <2>3. CASE o # c
    <3>1. own[o] \in {"opening", "open"} /\ pc'[c] = "shut"
      BY <2>1, <2>3
    <3>2. CASE \E x \in Keys : entries[x] = o
      BY <1>3, <3>1, <3>2, Evicts DEF BecomeCreator
    <3>3. CASE pc[o] \in {"shut", "check", "select", "promote", "abandon"} /\ on[o] = o
      BY <2>1, <2>3, <3>3
    <3>4. CASE \E d \in Calls : pc[d] = "shut" /\ (o \in todo[d] \/ cur[d] = o)
      <4>1. \A d \in Calls : d # c => todo'[d] = todo[d]
        BY <1>3, Evicts DEF BecomeCreator
      <4> QED
        BY <2>1, <3>4, <4>1
    <3>5. CASE timeouts > 0
      BY <2>1, <3>5
    <3> QED
      BY <3>1, <3>2, <3>3, <3>4, <3>5
  <2> QED
    BY <2>2, <2>3
<1>4. ASSUME NEW c \in Closes, NEW K \in Closable, Close(c, K) PROVE AnsweredFor'
  BY <1>4 DEF Close, Goto
<1>5. ASSUME NEW c \in Calls, NEW o \in Gets, SignalNext(c, o) PROVE AnsweredFor'
  BY <1>5 DEF SignalNext
<1>6. ASSUME NEW c \in Calls, ShutReturns(c) PROVE AnsweredFor'
  BY <1>6 DEF ShutReturns
<1>7. ASSUME NEW c \in Calls, ShutDone(c) PROVE AnsweredFor'
  BY <1>7 DEF ShutDone, Goto
<1>8. ASSUME NEW c \in Gets, GetsResult(c) PROVE AnsweredFor'
  BY <1>8 DEF GetsResult, Return, Goto
<1>9. ASSUME NEW c \in Gets, NotReady(c) PROVE AnsweredFor'
  BY <1>9 DEF NotReady, Goto
<1>10. ASSUME NEW c \in Gets, GivesUp(c) PROVE AnsweredFor'
  BY <1>10 DEF GivesUp, Return, Goto
<1>11. ASSUME NEW c \in Gets, Withdraw(c) PROVE AnsweredFor'
  BY <1>11 DEF Withdraw, Return, Goto
<1>12. ASSUME NEW c \in Gets, Promote(c) PROVE AnsweredFor'
  BY <1>12 DEF Promote, Return, Goto
<1>13. ASSUME NEW c \in Gets, TearDown(c) PROVE AnsweredFor'
  BY <1>13 DEF TearDown, Goto
<1>14. ASSUME NEW c \in Gets, CancelContext(c) PROVE AnsweredFor'
  BY <1>14 DEF CancelContext
<1>15. ASSUME NEW o \in Gets, Open(o) PROVE AnsweredFor'
  BY <1>15 DEF Open
<1>16. ASSUME NEW o \in Gets, CloseSession(o) PROVE AnsweredFor'
  BY <1>16 DEF CloseSession
<1>17. CASE UNCHANGED vars
  BY <1>17 DEF vars
<1> QED
  BY <1>1, <1>2, <1>3, <1>4, <1>5, <1>6, <1>7, <1>8, <1>9, <1>10, <1>11, <1>12,
     <1>13, <1>14, <1>15, <1>16, <1>17
     DEF Next, ShutdownOwners, GetSession

-----------------------------------------------------------------------------
(* The LRU list.                                                             *)

LruInv == order \in Seq(Keys) /\ Elements(order) = Pooled /\ Distinct(order)

LEMMA PooledIsFinite == LruInv => IsFiniteSet(Pooled)
<1> SUFFICES ASSUME LruInv PROVE IsFiniteSet(Pooled)
  OBVIOUS
<1>1. Pooled = {order[i] : i \in 1..Len(order)} /\ Len(order) \in Nat
  BY LenProperties DEF LruInv, Elements
<1>2. order \in [1..Len(order) -> Pooled]
  BY <1>1, LenProperties DEF LruInv
<1>3. order \in Surjection(1..Len(order), Pooled)
  BY <1>1, <1>2 DEF Surjection
<1> QED
  BY <1>1, <1>3, UpToIsFinite, FS_Surjection

(* The eviction stops before the list is exhausted, or with it, and leaves   *)
(* room for one more.                                                        *)
LEMMA EvictionEnds ==
  LruInv => Excess \in 0..Len(order) /\ Cardinality(Pooled \ Oldest(Excess)) < MaxSessions
<1> SUFFICES ASSUME LruInv
             PROVE  Excess \in 0..Len(order) /\ Cardinality(Pooled \ Oldest(Excess)) < MaxSessions
  OBVIOUS
<1> DEFINE Fits(n) == Cardinality(Pooled \ Oldest(n)) < MaxSessions
           T == {n \in 0..Len(order) : Fits(n)}
<1>1. Len(order) \in Nat
  BY LenProperties DEF LruInv
<1>2. \A n \in 0..Len(order) : Cardinality(Pooled \ Oldest(n)) \in Nat
  <2> TAKE n \in 0..Len(order)
  <2> QED
    BY PooledIsFinite, FS_Subset, FS_CardinalityType
<1>3. Len(order) \in T
  <2>1. Pooled \ Oldest(Len(order)) = {}
    BY DEF LruInv, Elements, Oldest
  <2> QED
    BY <1>1, <2>1, FS_EmptySet DEF ConstantsAssumption
<1>4. PICK n \in T : \A m \in T : n <= m
  <2>1. T # {}
    BY <1>3
  <2>2. T \in SUBSET Nat
    <3> HIDE DEF Fits
    <3> QED
      BY <1>1
  <2> HIDE DEF T
  <2> QED
    BY <2>1, <2>2, LeastExists
<1>5. \A m \in 0..(n - 1) : Cardinality(Pooled \ Oldest(m)) >= MaxSessions
  <2> TAKE m \in 0..(n - 1)
  <2>1. m \in 0..Len(order) /\ m \notin T
    BY <1>1, <1>4
  <2> QED
    BY <1>2, <2>1 DEF ConstantsAssumption
<1>6. n \in 0..Len(order) /\ Cardinality(Pooled \ Oldest(n)) < MaxSessions
  BY <1>4
<1> QED
  BY <1>5, <1>6 DEF Excess

LEMMA LruStep == Types /\ PoolInv /\ LruInv /\ [Next]_vars => LruInv'
<1> SUFFICES ASSUME Types, PoolInv, LruInv, [Next]_vars PROVE LruInv'
  OBVIOUS
<1>a. /\ order \in Seq(Keys) /\ Elements(order) = Pooled /\ Distinct(order)
      /\ Len(order) \in Nat /\ DOMAIN order = 1..Len(order)
  BY LenProperties DEF LruInv
<1>1. CASE UNCHANGED <<entries, order>>
  BY <1>1 DEF LruInv, Pooled
<1>2. ASSUME NEW c \in Gets, NEW k \in Keys, Hit(c, k) PROVE LruInv'
  <2> DEFINE at == {i \in DOMAIN order : order[i] = k}
             first == CHOOSE i \in at : \A j \in at : i <= j
             others == Selection(order, DOMAIN order \ {first})
  <2>1. entries' = entries /\ k \in Pooled
        /\ order' = IF at = {} THEN order ELSE Append(others, k)
    BY <1>2 DEF Hit, Touch
  <2>2. PICK i \in 1..Len(order) : order[i] = k
    BY <1>a, <2>1 DEF Elements
  <2>3. at = {i}
    BY <1>a, <2>2 DEF Distinct
  <2>4. first = i
    BY <1>a, <2>3
  <2>5. order' = Append(Selection(order, 1..Len(order) \ {i}), k)
    BY <1>a, <2>1, <2>3, <2>4
  <2> HIDE DEF at, first, others
  <2>6. /\ Selection(order, 1..Len(order) \ {i}) \in Seq(Keys)
        /\ Elements(Selection(order, 1..Len(order) \ {i})) = Pooled \ {k}
        /\ Distinct(Selection(order, 1..Len(order) \ {i}))
    <3>1. {order[j] : j \in 1..Len(order) \ {i}} = Pooled \ {k}
      BY <1>a, <2>2 DEF Elements, Distinct
    <3>2. 1..Len(order) \ {i} \in SUBSET (1..Len(order))
      OBVIOUS
    <3> QED
      BY <1>a, <3>1, <3>2, SelectionIsExact
  <2>7. /\ Append(Selection(order, 1..Len(order) \ {i}), k) \in Seq(Keys)
        /\ Elements(Append(Selection(order, 1..Len(order) \ {i}), k)) = (Pooled \ {k}) \union {k}
        /\ Distinct(Append(Selection(order, 1..Len(order) \ {i}), k))
    BY <2>6, AppendIsExact
  <2>8. (Pooled \ {k}) \union {k} = Pooled'
    BY <2>1 DEF Pooled
  <2> QED
    BY <2>5, <2>7, <2>8 DEF LruInv
<1>3. ASSUME NEW c \in Gets, Evict(c) PROVE LruInv'
  <2> DEFINE n == Excess
  <2>1. n \in 0..Len(order)
    BY EvictionEnds
  <2>2. /\ entries' = [k \in Keys |-> IF k \in Oldest(n) THEN None ELSE entries[k]]
        /\ order' = SubSeq(order, n + 1, Len(order))
    BY <1>3 DEF Evict
  <2> HIDE DEF n
  <2>3. /\ order' \in Seq(Keys) /\ Distinct(order')
        /\ Elements(order') = Pooled \ Oldest(n)
    BY <1>a, <2>1, <2>2, RestIsExact DEF Oldest
  <2>4. Pooled' = Pooled \ Oldest(n)
    BY <2>2 DEF Pooled
  <2> QED
    BY <2>3, <2>4 DEF LruInv
<1>4. ASSUME NEW c \in Closes, NEW K \in Closable, Close(c, K) PROVE LruInv'
  <2>1. /\ entries' = [k \in Keys |-> IF k \in K THEN None ELSE entries[k]]
        /\ order' = Selection(order, {i \in DOMAIN order : order[i] \notin K})
    BY <1>4 DEF Close, Without
  <2> DEFINE I == {i \in DOMAIN order : order[i] \notin K}
  <2>2. {order[i] : i \in I} = Pooled \ K
    BY <1>a DEF Elements
  <2>3. I \in SUBSET (1..Len(order))
    BY <1>a
  <2>4. order' \in Seq(Keys) /\ Distinct(order') /\ Elements(order') = {order[i] : i \in I}
    BY <1>a, <2>1, <2>3, SelectionIsExact
  <2>5. Pooled' = Pooled \ K
    BY <2>1 DEF Pooled
  <2> QED
    BY <2>2, <2>4, <2>5 DEF LruInv
<1>5. ASSUME NEW c \in Gets, Promote(c) PROVE LruInv'
  <2>1. /\ pc[c] = "promote" /\ inflight[key[c]] = c
        /\ entries' = [entries EXCEPT ![key[c]] = c] /\ order' = Append(order, key[c])
    BY <1>5 DEF Promote
  <2>2. key[c] \in Keys /\ c # None
    BY <2>1 DEF PoolInv, CallInv, ConstantsAssumption
  <2>3. key[c] \notin Pooled
    BY <2>1, <2>2 DEF PoolInv, InflightInv, Pooled
  <2>4. Pooled' = Pooled \union {key[c]}
    BY <2>1, <2>2 DEF Pooled, Types
  <2>5. /\ order' \in Seq(Keys) /\ Distinct(order')
        /\ Elements(order') = Pooled \union {key[c]}
    BY <1>a, <2>1, <2>2, <2>3, AppendIsExact
  <2> QED
    BY <2>4, <2>5 DEF LruInv
<1> QED
  BY <1>1, <1>2, <1>3, <1>4, <1>5 DEF Next, vars, poolVars, Join, BecomeCreator, ShutdownOwners, SignalNext,
     ShutReturns, ShutDone, GetSession, GetsResult, NotReady, GivesUp, Withdraw, TearDown, CancelContext,
     Open, CloseSession

-----------------------------------------------------------------------------
(* The capacity.                                                             *)

(* Without one more element, a finite set has one element less; with one     *)
(* more, it has one more.                                                    *)
LEMMA OneMoreOrLess ==
  ASSUME NEW S, IsFiniteSet(S), NEW x
  PROVE  /\ IsFiniteSet(S \ {x}) /\ IsFiniteSet(S \union {x})
         /\ x \in S => Cardinality(S \ {x}) = Cardinality(S) - 1
         /\ x \notin S => Cardinality(S \union {x}) = Cardinality(S) + 1
BY FS_AddElement, FS_RemoveElement

LEMMA SmallerSet ==
  ASSUME NEW S, IsFiniteSet(S), NEW T \in SUBSET S
  PROVE  IsFiniteSet(T) /\ Cardinality(T) \in Nat /\ Cardinality(S) \in Nat /\ Cardinality(T) <= Cardinality(S)
BY FS_Subset, FS_CardinalityType

BoundInv == peak \in Nat /\ IsFiniteSet(Creating) /\ PoolIsBounded

(* The room an eviction has made, the creations under way at that moment and *)
(* the peak add up.                                                          *)
LEMMA EvictionMakesRoom ==
  ASSUME LruInv, NEW c \in Gets, Evict(c)
  PROVE  /\ Cardinality(Pooled') \in Nat /\ Cardinality(Pooled') < MaxSessions
         /\ Cardinality(Pooled') <= Cardinality(Pooled) /\ Cardinality(Pooled) \in Nat
<1>1. Pooled' = Pooled \ Oldest(Excess)
  BY DEF Evict, Pooled
<1>2. Pooled \ Oldest(Excess) \in SUBSET Pooled
  OBVIOUS
<1> QED
  BY <1>1, <1>2, EvictionEnds, PooledIsFinite, SmallerSet

(* Every step preserves the bound.                                           *)
LEMMA BoundStep == Types /\ PoolInv /\ LruInv /\ BoundInv /\ [Next]_vars => BoundInv'
<1> SUFFICES ASSUME Types, PoolInv, LruInv, BoundInv, [Next]_vars PROVE BoundInv'
  OBVIOUS
<1>a. /\ IsFiniteSet(Pooled) /\ IsFiniteSet(Creating) /\ peak \in Nat /\ MaxSessions \in Nat
      /\ Cardinality(Pooled) \in Nat /\ Cardinality(Creating) \in Nat
      /\ Cardinality(Pooled) + Cardinality(Creating) < MaxSessions + peak
  BY PooledIsFinite, FS_CardinalityType DEF BoundInv, PoolIsBounded, ConstantsAssumption
<1>1. CASE UNCHANGED <<entries, inflight, peak>>
  BY <1>1 DEF BoundInv, PoolIsBounded, Pooled, Creating
<1>2. ASSUME NEW c \in Gets, NEW k \in Keys, Join(c, k) PROVE BoundInv'
  <2>1. Evict(c) /\ peak' = peak /\ inflight' = inflight
    BY <1>2 DEF Join
  <2>2. Creating' = Creating
    BY <2>1 DEF Creating
  <2> QED
    BY <1>a, <2>1, <2>2, EvictionMakesRoom DEF BoundInv, PoolIsBounded
<1>3. ASSUME NEW c \in Gets, NEW k \in Keys, BecomeCreator(c, k) PROVE BoundInv'
  <2>1. /\ Evict(c) /\ inflight' = [inflight EXCEPT ![k] = c]
        /\ peak' = IF Cardinality(Creating') > peak THEN Cardinality(Creating') ELSE peak
    BY <1>3 DEF BecomeCreator
  <2>2. Creating' = Creating \union {k}
    BY <2>1 DEF Creating, Types, ConstantsAssumption
  <2>3. IsFiniteSet(Creating') /\ Cardinality(Creating') \in Nat
    BY <1>a, <2>2, OneMoreOrLess, FS_CardinalityType
  <2>4. peak' \in Nat /\ Cardinality(Creating') <= peak'
    BY <1>a, <2>1, <2>3
  <2> QED
    BY <1>a, <2>1, <2>3, <2>4, EvictionMakesRoom DEF BoundInv, PoolIsBounded
<1>4. ASSUME NEW c \in Closes, NEW K \in Closable, Close(c, K) PROVE BoundInv'
  <2>1. /\ entries' = [k \in Keys |-> IF k \in K THEN None ELSE entries[k]]
        /\ inflight' = [k \in Keys |-> IF k \in K THEN None ELSE inflight[k]]
        /\ peak' = peak
    BY <1>4 DEF Close
  <2>2. Pooled' \in SUBSET Pooled /\ Creating' \in SUBSET Creating
    BY <2>1 DEF Pooled, Creating
  <2>3. /\ IsFiniteSet(Creating')
        /\ Cardinality(Pooled') \in Nat /\ Cardinality(Pooled') <= Cardinality(Pooled)
        /\ Cardinality(Creating') \in Nat /\ Cardinality(Creating') <= Cardinality(Creating)
    BY <1>a, <2>2, SmallerSet
  <2> QED
    BY <1>a, <2>1, <2>3 DEF BoundInv, PoolIsBounded
<1>5. ASSUME NEW c \in Gets, Withdraw(c) PROVE BoundInv'
  <2>1. /\ entries' = entries /\ peak' = peak
        /\ inflight' = IF inflight[key[c]] = c THEN [inflight EXCEPT ![key[c]] = None] ELSE inflight
    BY <1>5 DEF Withdraw
  <2>2. Pooled' = Pooled /\ Creating' \in SUBSET Creating
    BY <2>1 DEF Pooled, Creating, Types
  <2>3. /\ IsFiniteSet(Creating')
        /\ Cardinality(Creating') \in Nat /\ Cardinality(Creating') <= Cardinality(Creating)
    BY <1>a, <2>2, SmallerSet
  <2> QED
    BY <1>a, <2>1, <2>2, <2>3 DEF BoundInv, PoolIsBounded
<1>6. ASSUME NEW c \in Gets, Promote(c) PROVE BoundInv'
  <2>1. /\ pc[c] = "promote" /\ inflight[key[c]] = c /\ peak' = peak
        /\ entries' = [entries EXCEPT ![key[c]] = c]
        /\ inflight' = [inflight EXCEPT ![key[c]] = None]
    BY <1>6 DEF Promote
  <2>2. key[c] \in Keys /\ c # None
    BY <2>1 DEF PoolInv, CallInv, ConstantsAssumption
  <2>3. key[c] \notin Pooled /\ key[c] \in Creating
    BY <2>1, <2>2 DEF PoolInv, InflightInv, Pooled, Creating
  <2>4. Pooled' = Pooled \union {key[c]} /\ Creating' = Creating \ {key[c]}
    BY <2>1, <2>2 DEF Pooled, Creating, Types
  <2>5. /\ IsFiniteSet(Creating')
        /\ Cardinality(Pooled') = Cardinality(Pooled) + 1
        /\ Cardinality(Creating') = Cardinality(Creating) - 1
    BY <1>a, <2>3, <2>4, OneMoreOrLess
  <2> QED
    BY <1>a, <2>1, <2>5 DEF BoundInv, PoolIsBounded
<1> QED
  BY <1>1, <1>2, <1>3, <1>4, <1>5, <1>6 DEF Next, vars, poolVars, Hit, ShutdownOwners, SignalNext, ShutReturns,
     ShutDone, GetSession, GetsResult, NotReady, GivesUp, TearDown, CancelContext, Open, CloseSession

-----------------------------------------------------------------------------
(* The waits.                                                                *)

(* An owner past the opening has reported a result, the owner a call is on   *)
(* has been started, and who waits for the end of an owner has seen to it.   *)
WaitInv ==
  /\ \A o \in Gets : own[o] \in {"open", "done"} => ready[o] # None
  /\ \A c \in Gets :
       /\ pc[c] \notin {"idle", "returned"} => own[on[c]] # "none"
       /\ pc[c] \in {"abandon", "failed"} => own[c] # "none"
       /\ pc[c] = "abandon" => Ending(c)
       /\ pc[c] = "failed" => own[c] = "done"
  /\ \A c \in Calls : cur[c] # None => own[cur[c]] # "none" /\ Ending(cur[c])

(* Every step preserves that a wait will end.                                *)
LEMMA WaitStep == Types /\ PoolInv /\ WaitInv /\ [Next]_vars => WaitInv'
<1> SUFFICES ASSUME Types, PoolInv, WaitInv, [Next]_vars PROVE WaitInv'
  OBVIOUS
<1> USE DEF poolVars, ownerVars, callVars, Calls, Pooled, Types, PC, PoolInv, CallInv,
            OwnerInv, InflightInv, TodoInv, WaitInv, Ending
<1>1. ASSUME NEW c \in Gets, NEW k \in Keys, Hit(c, k) PROVE WaitInv'
  BY <1>1 DEF Hit, Return, Goto
<1>2. ASSUME NEW c \in Gets, NEW k \in Keys, Join(c, k) PROVE WaitInv'
  BY <1>2, Evicts DEF Join, Goto
<1>3. ASSUME NEW c \in Gets, NEW k \in Keys, BecomeCreator(c, k) PROVE WaitInv'
  BY <1>3, Evicts DEF BecomeCreator, Goto
<1>4. ASSUME NEW c \in Closes, NEW K \in Closable, Close(c, K) PROVE WaitInv'
  BY <1>4 DEF Close, Goto
<1>5. ASSUME NEW c \in Calls, NEW o \in Gets, SignalNext(c, o) PROVE WaitInv'
  BY <1>5 DEF SignalNext
<1>6. ASSUME NEW c \in Calls, ShutReturns(c) PROVE WaitInv'
  BY <1>6 DEF ShutReturns
<1>7. ASSUME NEW c \in Calls, ShutDone(c) PROVE WaitInv'
  BY <1>7 DEF ShutDone, Goto
<1>8. ASSUME NEW c \in Gets, GetsResult(c) PROVE WaitInv'
  BY <1>8 DEF GetsResult, Return, Goto
<1>9. ASSUME NEW c \in Gets, NotReady(c) PROVE WaitInv'
  BY <1>9 DEF NotReady, Goto
<1>10. ASSUME NEW c \in Gets, GivesUp(c) PROVE WaitInv'
  BY <1>10 DEF GivesUp, Return, Goto
<1>11. ASSUME NEW c \in Gets, Withdraw(c) PROVE WaitInv'
  BY <1>11 DEF Withdraw, Return, Goto
<1>12. ASSUME NEW c \in Gets, Promote(c) PROVE WaitInv'
  BY <1>12 DEF Promote, Return, Goto
<1>13. ASSUME NEW c \in Gets, TearDown(c) PROVE WaitInv'
  BY <1>13 DEF TearDown, Goto
<1>14. ASSUME NEW c \in Gets, CancelContext(c) PROVE WaitInv'
  BY <1>14 DEF CancelContext
<1>15. ASSUME NEW o \in Gets, Open(o) PROVE WaitInv'
  BY <1>15 DEF Open
<1>16. ASSUME NEW o \in Gets, CloseSession(o) PROVE WaitInv'
  BY <1>16 DEF CloseSession
<1>17. CASE UNCHANGED vars
  BY <1>17 DEF vars
<1> QED
  BY <1>1, <1>2, <1>3, <1>4, <1>5, <1>6, <1>7, <1>8, <1>9, <1>10, <1>11, <1>12,
     <1>13, <1>14, <1>15, <1>16, <1>17
     DEF Next, ShutdownOwners, GetSession

-----------------------------------------------------------------------------

Inv == Types /\ PoolInv /\ TornDown /\ AnsweredFor /\ LruInv /\ BoundInv /\ WaitInv

(* The inductive invariant.                                                  *)
THEOREM Invariant == Spec => []Inv
<1>1. Init => Inv
  <2> SUFFICES ASSUME Init PROVE Inv
    OBVIOUS
  <2>1. Types /\ PoolInv /\ TornDown /\ AnsweredFor /\ LruInv
    BY DEF Init, Types, PoolInv, CallInv, OwnerInv, InflightInv, TodoInv, PooledIsOpen,
           TornDown, AnsweredFor, Calls, Pooled, PC, LruInv, Elements, Distinct
  <2>2. BoundInv
    <3>1. Pooled = {} /\ Creating = {} /\ peak = 0
      BY DEF Init, Pooled, Creating
    <3> QED
      BY <3>1, FS_EmptySet DEF BoundInv, PoolIsBounded, ConstantsAssumption
  <2>3. WaitInv
    BY DEF Init, WaitInv, Calls
  <2> QED
    BY <2>1, <2>2, <2>3 DEF Inv
<1>2. Inv /\ [Next]_vars => Inv'
  BY TypesStep, CallStep, OwnerStep, InflightStep, TodoStep, PooledStep, TornStep, AnswerStep, LruStep,
     BoundStep, WaitStep DEF Inv, PoolInv
<1> QED
  BY <1>1, <1>2, PTL DEF Spec

(* PooledIsOpen (mcp.go 299-305, 372-385): a hit hands out a session that is *)
(* open and that nobody has asked to close.                                  *)
THEOREM PoolIsOpen == Spec => []PooledIsOpen
<1>1. Inv => PooledIsOpen
  BY DEF Inv, PoolInv
<1> QED
  BY <1>1, Invariant, PTL

(* NoSessionLeaks (mcp.go 268-503): when no call is under way, the live      *)
(* sessions are exactly the pooled ones, unless a wait was given up.         *)
THEOREM NothingLeaks == Spec => []NoSessionLeaks
<1>1. Inv => NoSessionLeaks
  <2> SUFFICES ASSUME Inv, \A c \in Calls : pc[c] \in {"idle", "returned"}, timeouts = 0,
                      NEW o \in Gets
               PROVE  own[o] \in {"opening", "open"} <=> \E k \in Keys : entries[k] = o
    BY DEF NoSessionLeaks
  <2>1. own[o] \in {"opening", "open"} => \E k \in Keys : entries[k] = o
    BY DEF Inv, AnsweredFor, Calls
  <2>2. (\E k \in Keys : entries[k] = o) => own[o] = "open"
    BY DEF Inv, PoolInv, PooledIsOpen, Pooled
  <2> QED
    BY <2>1, <2>2
<1> QED
  BY <1>1, Invariant, PTL

(* LiveIsPooled: the two together.                                           *)
THEOREM PoolIsLive == Spec => []LiveIsPooled
BY PoolIsOpen, NothingLeaks, PTL DEF LiveIsPooled

(* PoolIsExact (mcp.go 299-330, 372-411, 413-520): the LRU list holds the    *)
(* pooled keys, each one once, whatever order calls come in, so that the     *)
(* eviction loop always finds what it is to evict.                           *)
THEOREM BooksAreInOrder == Spec => []PoolIsExact
<1>1. Inv /\ timeouts \in 0..MaxTimeouts => PoolIsExact
  <2>1. Inv /\ timeouts \in 0..MaxTimeouts => TypeOK
    BY DEF Inv, Types, LruInv, BoundInv, TypeOK
  <2>2. Inv => LruIsExact
    BY DEF Inv, PoolInv, InflightInv, LruInv, LruIsExact, Elements, Distinct, Pooled
  <2> QED
    BY <2>1, <2>2 DEF PoolIsExact
<1>2. Init => timeouts \in 0..MaxTimeouts
  BY DEF Init
<1>3. timeouts \in 0..MaxTimeouts /\ [Next]_vars => (timeouts \in 0..MaxTimeouts)'
  BY DEF Next, vars, poolVars, ownerVars, callVars, Hit, Join, BecomeCreator, Close, ShutdownOwners, SignalNext,
     ShutReturns, ShutDone, GetSession, GetsResult, NotReady, GivesUp, Withdraw, Promote, TearDown,
     CancelContext, Open, CloseSession
<1> QED
  BY <1>1, <1>2, <1>3, Invariant, PTL DEF Spec

(* PoolIsBounded (mcp.go 140, 322-329, 372-381): the pool exceeds its        *)
(* capacity only by creations that overlapped, whatever the number of keys   *)
(* and calls.                                                                *)
THEOREM CapacityHolds == Spec => []PoolIsBounded
<1>1. Inv => PoolIsBounded
  BY DEF Inv, BoundInv
<1> QED
  BY <1>1, Invariant, PTL

(* WaitsEnd (mcp.go 334-371, 400-411): every wait in the pool is for an      *)
(* owner that has been told to end, or for a result that is there or to      *)
(* come.                                                                     *)
THEOREM EveryWaitEnds == Spec => []WaitsEnd
<1>1. Inv => WaitsEnd
  <2> SUFFICES ASSUME Inv, NEW c \in Gets, pc[c] \in {"check", "select"}
               PROVE  own[on[c]] = "opening" \/ ready[on[c]] # None
    BY DEF Inv, WaitInv, WaitsEnd
  <2>1. on[c] \in Gets /\ own[on[c]] # "none" /\ own[on[c]] \in {"none", "opening", "open", "done"}
    BY DEF Inv, Types, PoolInv, CallInv, WaitInv
  <2> QED
    BY <2>1 DEF Inv, WaitInv
<1> QED
  BY <1>1, Invariant, PTL
=============================================================================
