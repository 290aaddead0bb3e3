-------------------------- MODULE RunStreamProofs --------------------------
(***************************************************************************)
(* Theorems about the stream bridge, for every set of subscriptions, every *)
(* window and any number of events, streams and calls of Close; about the  *)
(* runs, for every set of runs, threads and agents; and about the two side *)
(* by side, as the runs of TLC check them.                                 *)
(***************************************************************************)
EXTENDS MCRunStream, SequenceTheorems, TLAPS

-----------------------------------------------------------------------------
(* The stream bridge.                                                        *)

IsEvent(e) == e \notin {SB!End, SB!Beat}

(* The streams: what is retained was published, streams that are not made    *)
(* yet are empty, and one worker publishes until it has published the end.   *)
StreamInv ==
  /\ cur <= made
  /\ \A g \in SB!Objects :
       /\ lo[g] <= hi[g] /\ hi[g] <= published
       /\ g > made => hi[g] = 0 /\ ~ended[g]
       /\ ended[g] => worker # "publishing"

(* Where a subscription is: what it has before it begins, and what deliver   *)
(* holds in its hand.                                                        *)
PlaceInv(s) ==
  /\ place[s] = "idle" => chan[s] = <<>> /\ got[s] = <<>> /\ s \notin gone /\ s \notin eof
  /\ place[s] # "idle" => obj[s] <= made
  /\ place[s] # "send" => hand[s] = SB!Beat

(* It has received what it is owed up to OwedNext, it is about to receive    *)
(* what lies between that and offset, which is not beyond the end of the log. *)
ReaderInv(s) ==
  place[s] # "idle" =>
    /\ SB!Owed(s) \in Nat /\ SB!Owed(s) <= SB!OwedNext(s)
    /\ SB!OwedNext(s) <= offset[s] /\ offset[s] <= hi[obj[s]]
    /\ \A i \in 1..Len(got[s]) : SB!Owed(s) <= got[s][i] /\ got[s][i] < SB!OwedNext(s)
    /\ \A k \in SB!Owed(s)..(SB!OwedNext(s) - 1) :
         k < lo[obj[s]] \/ \E i \in 1..Len(got[s]) : got[s][i] = k

(* The channel and the hand hold events in order, all that deliver has taken *)
(* and the consumer has not, but for those evicted.                          *)
PipeInv(s) ==
  place[s] # "idle" =>
    /\ \A i \in 1..Len(chan[s]) : IsEvent(chan[s][i]) =>
         SB!OwedNext(s) <= chan[s][i][2] /\ chan[s][i][2] < offset[s]
    /\ \A i, j \in 1..Len(chan[s]) : i < j /\ IsEvent(chan[s][i]) /\ IsEvent(chan[s][j]) =>
         chan[s][i][2] < chan[s][j][2]
    /\ IsEvent(hand[s]) =>
         /\ hand[s][2] = offset[s] - 1 /\ SB!OwedNext(s) <= hand[s][2]
         /\ \A i \in 1..Len(chan[s]) : IsEvent(chan[s][i]) => chan[s][i][2] < hand[s][2]
    /\ \A k \in SB!OwedNext(s)..(offset[s] - 1) :
         \/ k < lo[obj[s]]
         \/ IsEvent(hand[s]) /\ k = hand[s][2]
         \/ \E i \in 1..Len(chan[s]) : IsEvent(chan[s][i]) /\ k = chan[s][i][2]

(* __end__ is sent after the last event, and nothing after it.               *)
EndInv(s) ==
  /\ hand[s] = SB!End \/ s \in eof \/ (\E i \in 1..Len(chan[s]) : chan[s][i] = SB!End) =>
       ended[obj[s]] /\ offset[s] = hi[obj[s]]
  /\ \A i \in 1..Len(chan[s]) : chan[s][i] = SB!End => i = Len(chan[s]) /\ place[s] \in {"exit", "closed"}
  /\ s \in eof => chan[s] = <<>> /\ place[s] \in {"exit", "closed"}

StreamsInv ==
  /\ SB!ConstantsAssumption /\ SB!TypeOK /\ StreamInv
  /\ \A s \in Subs : PlaceInv(s) /\ ReaderInv(s) /\ PipeInv(s) /\ EndInv(s)

-----------------------------------------------------------------------------

(* The types, in parts.                                                      *)
StreamTypes ==
  /\ cur \in 0..MaxStreams /\ made \in 0..MaxStreams
  /\ lo \in [SB!Objects -> Nat] /\ hi \in [SB!Objects -> Nat] /\ ended \in [SB!Objects -> BOOLEAN]
  /\ published \in 0..MaxEvents
  /\ worker \in {"publishing", "finished", "cleaned"} /\ closes \in 0..MaxCloses

PlaceTypes ==
  /\ place \in [Subs -> {"idle", "drain", "send", "drained", "wait", "exit", "closed"}]
  /\ wake \in [Subs -> BOOLEAN]
  /\ eof \in SUBSET Subs /\ gone \in SUBSET Subs

OffsetTypes ==
  /\ obj \in [Subs -> SB!Objects] /\ last \in [Subs -> (0..MaxStreams) \X Nat]
  /\ from \in [Subs -> Nat] /\ offset \in [Subs -> Nat]

PipeTypes ==
  /\ hand \in [Subs -> SB!Items]
  /\ chan \in [Subs -> Seq(SB!Items)] /\ \A s \in Subs : Len(chan[s]) <= MaxSize
  /\ got \in [Subs -> Seq(0..MaxEvents)]

LEMMA TypeParts == SB!TypeOK <=> StreamTypes /\ PlaceTypes /\ OffsetTypes /\ PipeTypes
BY DEF SB!TypeOK, StreamTypes, PlaceTypes, OffsetTypes, PipeTypes

LEMMA ItemFacts ==
  /\ SB!End \in SB!Items /\ SB!Beat \in SB!Items /\ SB!End # SB!Beat
  /\ \A o \in 0..MaxEvents : SB!Event(o) \in SB!Items /\ IsEvent(SB!Event(o)) /\ SB!Event(o)[2] = o
  /\ \A e \in SB!Items : IsEvent(e) => e[2] \in 0..MaxEvents /\ e = SB!Event(e[2])
BY DEF SB!End, SB!Beat, SB!Event, SB!Items, IsEvent

(* What a client may send as its last id is an event of an object that was   *)
(* made, before the end of its log.                                          *)
LEMMA LastIdFacts ==
  ASSUME StreamsInv, NEW id \in SB!LastIds
  PROVE  /\ id \in (0..MaxStreams) \X Nat
         /\ id[1] # 0 => id[1] \in SB!Objects /\ id[1] <= made /\ id[2] < hi[id[1]]
<1>1. CASE id = SB!NoId
  BY <1>1 DEF SB!NoId, SB!Id, StreamsInv, SB!ConstantsAssumption
<1>2. ASSUME NEW p \in gone, got[p] # <<>>, id = SB!Id(obj[p], got[p][Len(got[p])])
      PROVE  /\ id \in (0..MaxStreams) \X Nat
             /\ id[1] # 0 => id[1] \in SB!Objects /\ id[1] <= made /\ id[2] < hi[id[1]]
  <2>1. p \in Subs /\ place[p] # "idle" /\ obj[p] \in SB!Objects /\ obj[p] <= made
    BY DEF StreamsInv, SB!TypeOK, PlaceInv
  <2>2. Len(got[p]) \in Nat \ {0} /\ got[p][Len(got[p])] \in 0..MaxEvents
    <3>1. got[p] \in Seq(0..MaxEvents) /\ got[p] # <<>>
      BY <1>2, <2>1 DEF StreamsInv, SB!TypeOK
    <3>2. Len(got[p]) \in Nat \ {0}
      BY <3>1, EmptySeq
    <3>3. Len(got[p]) \in 1..Len(got[p])
      BY <3>2
    <3> QED
      BY <3>1, <3>2, <3>3, ElementOfSeq
  <2>3. got[p][Len(got[p])] < SB!OwedNext(p) /\ SB!OwedNext(p) <= hi[obj[p]]
    <3>1. SB!OwedNext(p) <= offset[p] /\ offset[p] <= hi[obj[p]]
      BY <2>1 DEF StreamsInv, ReaderInv
    <3>2. offset[p] \in Nat /\ hi[obj[p]] \in Nat
      BY <2>1 DEF StreamsInv, SB!TypeOK
    <3>3. SB!OwedNext(p) = got[p][Len(got[p])] + 1
      BY <1>2 DEF SB!OwedNext
    <3>4. got[p][Len(got[p])] \in Nat
      BY <2>2
    <3> QED
      BY <3>1, <3>2, <3>3, <3>4
  <2>4. id[1] = obj[p] /\ id[2] = got[p][Len(got[p])] /\ id = <<id[1], id[2]>>
    BY <1>2 DEF SB!Id
  <2>5. id[2] \in Nat /\ id[1] \in 1..MaxStreams /\ hi[obj[p]] \in Nat /\ SB!OwedNext(p) \in Int
    <3>1. hi[obj[p]] \in Nat
      BY <2>1 DEF StreamsInv, SB!TypeOK
    <3>2. got[p][Len(got[p])] \in Nat
      BY <2>2
    <3>3. SB!OwedNext(p) = got[p][Len(got[p])] + 1
      BY <1>2 DEF SB!OwedNext
    <3> QED
      BY <2>1, <2>4, <3>1, <3>2, <3>3 DEF SB!Objects
  <2> QED
    BY <2>1, <2>3, <2>4, <2>5 DEF SB!Objects
<1> QED
  BY <1>1, <1>2 DEF SB!LastIds

LEMMA StreamTypeStep ==
  SB!ConstantsAssumption /\ StreamTypes /\ [SB!Next]_SB!vars => StreamTypes'
<1> SUFFICES ASSUME SB!ConstantsAssumption, StreamTypes, [SB!Next]_SB!vars PROVE StreamTypes'
  OBVIOUS
<1> USE DEF StreamTypes, SB!Objects, SB!Get, SB!streamVars, SB!workVars, SB!ConstantsAssumption
<1>a. ASSUME NEW g \in SB!Objects
      PROVE  (IF hi[g] + 1 - lo[g] > MaxSize THEN hi[g] + 1 - MaxSize ELSE lo[g]) \in Nat /\ hi[g] + 1 \in Nat
  BY SMTT(20)
<1>b. ASSUME NEW g \in SB!Objects, SB!Get(g)
      PROVE  cur' \in 0..MaxStreams /\ made' \in 0..MaxStreams
  BY <1>b
<1> HIDE DEF SB!Get
<1>1. CASE SB!Publish
  <2>1. PICK g \in SB!Objects :
          /\ published < MaxEvents /\ SB!Get(g)
          /\ hi' = [hi EXCEPT ![g] = @ + 1]
          /\ lo' = [lo EXCEPT ![g] = IF hi[g] + 1 - @ > MaxSize THEN hi[g] + 1 - MaxSize ELSE @]
          /\ published' = published + 1
          /\ UNCHANGED <<ended, worker, closes>>
    BY <1>1 DEF SB!Publish
  <2> DEFINE new == IF hi[g] + 1 - lo[g] > MaxSize THEN hi[g] + 1 - MaxSize ELSE lo[g]
  <2>2. new \in Nat /\ hi[g] + 1 \in Nat
    BY <1>a
  <2> HIDE DEF new
  <2>3. lo' = [lo EXCEPT ![g] = new]
    BY <2>1 DEF new
  <2>4. lo' \in [SB!Objects -> Nat] /\ hi' \in [SB!Objects -> Nat]
    BY <2>1, <2>2, <2>3
  <2>5. cur' \in 0..MaxStreams /\ made' \in 0..MaxStreams
    BY <1>b, <2>1
  <2>6. published' \in 0..MaxEvents
    BY <2>1
  <2> QED
    BY <2>1, <2>4, <2>5, <2>6
<1>2. CASE SB!PublishEnd
  <2>1. PICK g \in SB!Objects :
          /\ SB!Get(g) /\ ended' = [ended EXCEPT ![g] = TRUE] /\ worker' = "finished"
          /\ UNCHANGED <<lo, hi, published, closes>>
    BY <1>2 DEF SB!PublishEnd
  <2>2. cur' \in 0..MaxStreams /\ made' \in 0..MaxStreams
    BY <1>b, <2>1
  <2>3. ended' \in [SB!Objects -> BOOLEAN]
    BY <2>1
  <2> QED
    BY <2>1, <2>2, <2>3
<1>3. CASE SB!Cleanup \/ SB!Close
  BY <1>3 DEF SB!Cleanup, SB!Close
<1>4. ASSUME NEW s \in Subs, SB!Subscribe(s) PROVE StreamTypes'
  <2>1. PICK g \in SB!Objects : SB!Get(g) /\ UNCHANGED <<lo, hi, ended, SB!workVars>>
    BY <1>4 DEF SB!Subscribe
  <2>2. cur' \in 0..MaxStreams /\ made' \in 0..MaxStreams
    BY <1>b, <2>1
  <2> QED
    BY <2>1, <2>2
<1>5. CASE UNCHANGED <<SB!streamVars, SB!workVars>>
  BY <1>5
<1> QED
  BY <1>1, <1>2, <1>3, <1>4, <1>5
     DEF SB!Next, SB!Deliver, SB!Drain, SB!Send, SB!Park, SB!Wake, SB!Exit, SB!Tick, SB!Receive,
        SB!Leave, SB!vars

LEMMA PlaceTypeStep == PlaceTypes /\ [SB!Next]_SB!vars => PlaceTypes'
<1> SUFFICES ASSUME PlaceTypes, [SB!Next]_SB!vars PROVE PlaceTypes'
  OBVIOUS
<1> USE DEF PlaceTypes, SB!subVars
<1>1. CASE SB!Publish \/ SB!PublishEnd \/ SB!Cleanup \/ SB!Close
  BY <1>1 DEF SB!Publish, SB!PublishEnd, SB!Cleanup, SB!Close, SB!NotifyAll
<1>2. ASSUME NEW s \in Subs, SB!Subscribe(s) \/ SB!Send(s) \/ SB!Park(s) \/ SB!Wake(s) \/ SB!Exit(s) \/ SB!Tick(s)
      PROVE PlaceTypes'
  BY <1>2 DEF SB!Subscribe, SB!Send, SB!Park, SB!Wake, SB!Exit, SB!Tick
<1>3. ASSUME NEW s \in Subs, SB!Drain(s) PROVE PlaceTypes'
  BY <1>3 DEF SB!Drain
<1>4. ASSUME NEW s \in Subs, SB!Receive(s) \/ SB!Leave(s) PROVE PlaceTypes'
  BY <1>4 DEF SB!Receive, SB!Leave
<1>5. CASE UNCHANGED SB!vars
  BY <1>5 DEF SB!vars
<1> QED
  BY <1>1, <1>2, <1>3, <1>4, <1>5 DEF SB!Next, SB!Deliver

LEMMA OffsetTypeStep == StreamsInv /\ [SB!Next]_SB!vars => OffsetTypes'
<1> SUFFICES ASSUME StreamsInv, [SB!Next]_SB!vars PROVE OffsetTypes'
  OBVIOUS
<1>a. OffsetTypes /\ lo \in [SB!Objects -> Nat] /\ hi \in [SB!Objects -> Nat]
  BY TypeParts DEF StreamsInv, StreamTypes
<1>1. ASSUME NEW s \in Subs, SB!Subscribe(s) PROVE OffsetTypes'
  <2>1. PICK g \in SB!Objects, id \in SB!LastIds :
          /\ obj' = [obj EXCEPT ![s] = g] /\ last' = [last EXCEPT ![s] = id]
          /\ from' = [from EXCEPT ![s] = SB!StartAt(g, id)]
          /\ offset' = [offset EXCEPT ![s] = SB!StartAt(g, id)]
    BY <1>1 DEF SB!Subscribe
  <2>2. id \in (0..MaxStreams) \X Nat
    BY LastIdFacts
  <2>3. SB!StartAt(g, id) \in Nat
    BY <1>a, <2>2 DEF SB!StartAt
  <2> QED
    BY <1>a, <2>1, <2>2, <2>3 DEF OffsetTypes
<1>2. ASSUME NEW s \in Subs, SB!Drain(s) PROVE OffsetTypes'
  <2> DEFINE at == IF offset[s] < lo[obj[s]] THEN lo[obj[s]] ELSE offset[s]
  <2>1. at \in Nat
    BY <1>a DEF OffsetTypes
  <2> HIDE DEF at
  <2>2. /\ offset' = [offset EXCEPT ![s] = at + 1] \/ offset' = [offset EXCEPT ![s] = at]
        /\ UNCHANGED <<obj, last, from>>
    BY <1>2 DEF SB!Drain, at
  <2> QED
    BY <1>a, <2>1, <2>2 DEF OffsetTypes
<1>3. CASE UNCHANGED <<obj, last, from, offset>>
  BY <1>a, <1>3 DEF OffsetTypes
<1> QED
  BY <1>1, <1>2, <1>3 DEF SB!Next, SB!Publish, SB!PublishEnd, SB!Cleanup, SB!Close, SB!Deliver,
     SB!Send, SB!Park, SB!Wake, SB!Exit,
     SB!Tick, SB!Receive, SB!Leave, SB!vars, SB!subVars

(* A channel that has an item put at its end, or its first one taken.        *)
LEMMA Appending ==
  ASSUME NEW q \in Seq(SB!Items), NEW e \in SB!Items
  PROVE  /\ Append(q, e) \in Seq(SB!Items) /\ Len(q) \in Nat /\ Len(Append(q, e)) = Len(q) + 1
         /\ \A i \in 1..Len(q) : Append(q, e)[i] = q[i]
         /\ Append(q, e)[Len(q) + 1] = e
BY AppendProperties, LenProperties

LEMMA Taking ==
  ASSUME NEW q \in Seq(SB!Items), q # <<>>
  PROVE  /\ Head(q) \in SB!Items /\ Head(q) = q[1]
         /\ Len(q) \in Nat \ {0} /\ Tail(q) \in Seq(SB!Items) /\ Len(Tail(q)) = Len(q) - 1
         /\ \A i \in 1..(Len(q) - 1) : Tail(q)[i] = q[i + 1]
<1>1. Len(q) \in Nat \ {0}
  BY EmptySeq
<1>2. Head(q) = q[1]
  BY <1>1
<1> QED
  BY <1>1, <1>2, HeadTailProperties

LEMMA PipeTypeStep == StreamsInv /\ [SB!Next]_SB!vars => PipeTypes'
<1> SUFFICES ASSUME StreamsInv, [SB!Next]_SB!vars PROVE PipeTypes'
  OBVIOUS
<1>a. PipeTypes /\ MaxSize \in Nat /\ SB!Beat \in SB!Items /\ SB!End \in SB!Items
  BY TypeParts, ItemFacts DEF StreamsInv, SB!ConstantsAssumption
<1>1. ASSUME NEW s \in Subs, SB!Drain(s) PROVE PipeTypes'
  <2> DEFINE at == IF offset[s] < lo[obj[s]] THEN lo[obj[s]] ELSE offset[s]
  <2>1. at \in Nat /\ (at < hi[obj[s]] => at \in 0..MaxEvents)
    <3>1. /\ offset[s] \in Nat /\ obj[s] \in SB!Objects /\ lo[obj[s]] \in Nat /\ hi[obj[s]] \in Nat
          /\ published \in 0..MaxEvents /\ MaxEvents \in Nat
      BY TypeParts DEF StreamsInv, StreamTypes, OffsetTypes, SB!ConstantsAssumption
    <3>2. hi[obj[s]] <= published
      BY <3>1 DEF StreamsInv, StreamInv
    <3> QED
      BY <3>1, <3>2
  <2>2. at < hi[obj[s]] => SB!Event(at) \in SB!Items
    BY <2>1, ItemFacts
  <2> HIDE DEF at
  <2>3. /\ \/ hand' = hand \/ hand' = [hand EXCEPT ![s] = SB!End]
           \/ at < hi[obj[s]] /\ hand' = [hand EXCEPT ![s] = SB!Event(at)]
        /\ UNCHANGED <<chan, got>>
    BY <1>1 DEF SB!Drain, at
  <2> QED
    BY <1>a, <2>2, <2>3 DEF PipeTypes
<1>2. ASSUME NEW s \in Subs, SB!Send(s) PROVE PipeTypes'
  <2>1. chan[s] \in Seq(SB!Items) /\ hand[s] \in SB!Items
    BY <1>a DEF PipeTypes
  <2> DEFINE q == Append(chan[s], hand[s])
  <2>2. q \in Seq(SB!Items) /\ Len(q) = Len(chan[s]) + 1 /\ Len(chan[s]) \in Nat
    BY <2>1, Appending
  <2>3. /\ chan' = [chan EXCEPT ![s] = q] /\ Len(chan[s]) < MaxSize
        /\ hand' = [hand EXCEPT ![s] = SB!Beat] /\ UNCHANGED got
    BY <1>2 DEF SB!Send
  <2> HIDE DEF q
  <2> QED
    BY <1>a, <2>2, <2>3 DEF PipeTypes
<1>3. ASSUME NEW s \in Subs, SB!Tick(s) PROVE PipeTypes'
  <2>1. chan[s] \in Seq(SB!Items)
    BY <1>a DEF PipeTypes
  <2> DEFINE q == Append(chan[s], SB!Beat)
  <2>2. q \in Seq(SB!Items) /\ Len(q) = Len(chan[s]) + 1 /\ Len(chan[s]) \in Nat
    BY <1>a, <2>1, Appending
  <2>3. /\ chan' = chan \/ (Len(chan[s]) < MaxSize /\ chan' = [chan EXCEPT ![s] = q])
        /\ UNCHANGED <<hand, got>>
    BY <1>3 DEF SB!Tick
  <2> HIDE DEF q
  <2>4. CASE chan' = chan
    BY <1>a, <2>3, <2>4 DEF PipeTypes
  <2>5. CASE Len(chan[s]) < MaxSize /\ chan' = [chan EXCEPT ![s] = q]
    BY <1>a, <2>2, <2>3, <2>5 DEF PipeTypes
  <2> QED
    BY <2>3, <2>4, <2>5
<1>4. ASSUME NEW s \in Subs, SB!Receive(s) PROVE PipeTypes'
  <2>1. chan[s] \in Seq(SB!Items) /\ chan[s] # <<>> /\ got[s] \in Seq(0..MaxEvents)
    BY <1>4, <1>a DEF PipeTypes, SB!Receive
  <2> DEFINE q == Tail(chan[s])
             e == Head(chan[s])
             r == Append(got[s], e[2])
  <2>2. e \in SB!Items /\ q \in Seq(SB!Items) /\ Len(q) = Len(chan[s]) - 1 /\ Len(chan[s]) \in Nat
    BY <2>1, Taking
  <2>3. IsEvent(e) => r \in Seq(0..MaxEvents)
    <3>1. IsEvent(e) => e[2] \in 0..MaxEvents
      BY <2>2, ItemFacts
    <3> QED
      BY <2>1, <3>1, AppendProperties
  <2>4. /\ chan' = [chan EXCEPT ![s] = q]
        /\ got' = got \/ (IsEvent(e) /\ got' = [got EXCEPT ![s] = r])
        /\ UNCHANGED hand
    BY <1>4 DEF SB!Receive, IsEvent
  <2> HIDE DEF q, e, r
  <2>5. got' \in [Subs -> Seq(0..MaxEvents)] /\ hand' \in [Subs -> SB!Items]
    BY <1>a, <2>3, <2>4 DEF PipeTypes
  <2>6. chan' \in [Subs -> Seq(SB!Items)] /\ \A t \in Subs : Len(chan'[t]) <= MaxSize
    BY <1>a, <2>2, <2>4 DEF PipeTypes
  <2> QED
    BY <2>5, <2>6 DEF PipeTypes
<1>5. CASE UNCHANGED <<hand, chan, got>>
  BY <1>a, <1>5 DEF PipeTypes
<1> QED
  BY <1>1, <1>2, <1>3, <1>4, <1>5 DEF SB!Next, SB!Publish, SB!PublishEnd, SB!Cleanup, SB!Close,
     SB!Subscribe, SB!Deliver,
     SB!Park, SB!Wake, SB!Exit, SB!Leave, SB!vars, SB!subVars

LEMMA StreamsTypeStep == StreamsInv /\ [SB!Next]_SB!vars => SB!TypeOK'
<1> SUFFICES ASSUME StreamsInv, [SB!Next]_SB!vars PROVE SB!TypeOK'
  OBVIOUS
<1>1. StreamTypes' /\ PlaceTypes'
  BY StreamTypeStep, PlaceTypeStep, TypeParts DEF StreamsInv
<1>2. OffsetTypes' /\ PipeTypes'
  BY OffsetTypeStep, PipeTypeStep
<1> QED
  BY <1>1, <1>2 DEF SB!TypeOK, StreamTypes, PlaceTypes, OffsetTypes, PipeTypes

-----------------------------------------------------------------------------

(* Streams only grow, and one that has ended does not change any more.       *)
Grows ==
  /\ made <= made' /\ made' \in Nat
  /\ \A g \in SB!Objects :
       /\ lo[g] <= lo'[g] /\ lo'[g] \in Nat /\ hi[g] <= hi'[g] /\ hi'[g] \in Nat
       /\ ended[g] => ended'[g] /\ hi'[g] = hi[g]

LEMMA StreamStep == StreamsInv /\ [SB!Next]_SB!vars => StreamInv' /\ Grows
<1> SUFFICES ASSUME StreamsInv, [SB!Next]_SB!vars PROVE StreamInv' /\ Grows
  OBVIOUS
<1>a. StreamTypes /\ StreamTypes' /\ StreamInv /\ SB!ConstantsAssumption
  BY TypeParts, StreamTypeStep DEF StreamsInv
<1> USE DEF StreamTypes, StreamInv, Grows
<1>1. ASSUME NEW g \in SB!Objects, SB!Get(g) PROVE made' \in Nat /\ made <= made' /\ g <= made' /\ cur' <= made'
  BY <1>a, <1>1 DEF SB!Get, SB!Objects
<1>2. CASE SB!Publish
  <2>1. PICK g \in SB!Objects :
          /\ worker = "publishing" /\ SB!Get(g)
          /\ hi' = [hi EXCEPT ![g] = @ + 1]
          /\ lo' = [lo EXCEPT ![g] = IF hi[g] + 1 - @ > MaxSize THEN hi[g] + 1 - MaxSize ELSE @]
          /\ published' = published + 1
          /\ UNCHANGED <<ended, worker, closes>>
    BY <1>2 DEF SB!Publish
  <2> DEFINE new == IF hi[g] + 1 - lo[g] > MaxSize THEN hi[g] + 1 - MaxSize ELSE lo[g]
  <2>2. lo[g] <= new /\ new <= hi[g] + 1 /\ hi[g] + 1 <= published + 1
    BY <1>a DEF SB!ConstantsAssumption
  <2> HIDE DEF new
  <2>3. lo' = [lo EXCEPT ![g] = new]
    BY <2>1 DEF new
  <2>4. cur' <= made' /\ made <= made' /\ g <= made' /\ \A h \in SB!Objects : ~ended[h]
    BY <1>1, <1>a, <2>1
  <2>5. ASSUME NEW h \in SB!Objects
        PROVE  /\ lo[h] <= lo'[h] /\ hi[h] <= hi'[h]
               /\ lo'[h] <= hi'[h] /\ hi'[h] <= published'
               /\ h > made' => hi'[h] = 0 /\ ~ended'[h]
               /\ ended'[h] => FALSE
    <3>1. CASE h = g
      <4>1. lo'[h] = new /\ hi'[h] = hi[h] + 1
        BY <1>a, <2>1, <2>3, <3>1
      <4>2. ~(h > made') /\ ~ended'[h]
        BY <1>a, <2>1, <2>4, <3>1 DEF SB!Objects
      <4> QED
        BY <1>a, <2>1, <2>2, <3>1, <4>1, <4>2
    <3>2. CASE h # g
      <4>1. lo'[h] = lo[h] /\ hi'[h] = hi[h] /\ ended'[h] = ended[h]
        BY <1>a, <2>1, <2>3, <3>2
      <4>2. h > made' => h > made
        BY <1>a, <2>4 DEF SB!Objects
      <4> QED
        BY <1>a, <2>1, <2>4, <4>1, <4>2
    <3> QED
      BY <3>1, <3>2
  <2> QED
    BY <1>a, <2>1, <2>4, <2>5
<1>3. CASE SB!PublishEnd
  <2>1. PICK g \in SB!Objects :
          /\ SB!Get(g) /\ ended' = [ended EXCEPT ![g] = TRUE] /\ worker' = "finished"
          /\ UNCHANGED <<lo, hi, published>>
    BY <1>3 DEF SB!PublishEnd
  <2>2. cur' <= made' /\ made <= made' /\ g <= made' /\ made' \in Nat
    BY <1>1, <2>1
  <2>3. ASSUME NEW h \in SB!Objects
        PROVE  (ended[h] => ended'[h]) /\ (h > made' => ~ended'[h])
    BY <1>a, <2>1, <2>2 DEF SB!Objects
  <2>4. StreamInv'
    BY <1>a, <2>1, <2>2, <2>3 DEF SB!Objects
  <2>5. Grows
    BY <1>a, <2>1, <2>2, <2>3
  <2> QED
    BY <2>4, <2>5
<1>4. CASE SB!Cleanup \/ SB!Close
  BY <1>4, <1>a DEF SB!Cleanup, SB!Close
<1>5. ASSUME NEW s \in Subs, SB!Subscribe(s) PROVE StreamInv' /\ Grows
  <2>1. PICK g \in SB!Objects : SB!Get(g) /\ UNCHANGED <<lo, hi, ended, published, worker>>
    BY <1>5 DEF SB!Subscribe, SB!workVars
  <2>2. cur' <= made' /\ made <= made' /\ g <= made' /\ made' \in Nat
    BY <1>1, <2>1
  <2>3. StreamInv'
    BY <1>a, <2>1, <2>2 DEF SB!Objects
  <2>4. Grows
    BY <1>a, <2>1, <2>2
  <2> QED
    BY <2>3, <2>4
<1>6. CASE UNCHANGED <<SB!streamVars, SB!workVars>>
  BY <1>6, <1>a DEF SB!streamVars, SB!workVars
<1> QED
  BY <1>2, <1>3, <1>4, <1>5, <1>6 DEF SB!Next, SB!Deliver, SB!Drain, SB!Send, SB!Park, SB!Wake,
     SB!Exit, SB!Tick, SB!Receive, SB!Leave, SB!vars

(* What the types say of one subscription.                                   *)
LEMMA SubTypes ==
  ASSUME StreamsInv, NEW s \in Subs
  PROVE  /\ obj[s] \in SB!Objects /\ last[s] \in (0..MaxStreams) \X Nat
         /\ from[s] \in Nat /\ offset[s] \in Nat /\ SB!Owed(s) \in Nat /\ SB!OwedNext(s) \in Nat
         /\ lo[obj[s]] \in Nat /\ hi[obj[s]] \in Nat /\ lo[obj[s]] <= hi[obj[s]]
         /\ hi[obj[s]] <= MaxEvents
         /\ hand[s] \in SB!Items /\ (IsEvent(hand[s]) => hand[s][2] \in Nat)
         /\ chan[s] \in Seq(SB!Items) /\ Len(chan[s]) \in Nat
         /\ \A i \in 1..Len(chan[s]) :
              chan[s][i] \in SB!Items /\ (IsEvent(chan[s][i]) => chan[s][i][2] \in Nat)
         /\ got[s] \in Seq(0..MaxEvents) /\ Len(got[s]) \in Nat
         /\ \A i \in 1..Len(got[s]) : got[s][i] \in Nat
<1>1. /\ obj[s] \in SB!Objects /\ last[s] \in (0..MaxStreams) \X Nat
      /\ from[s] \in Nat /\ offset[s] \in Nat
  BY TypeParts DEF StreamsInv, OffsetTypes
<1>2. hand[s] \in SB!Items /\ chan[s] \in Seq(SB!Items) /\ got[s] \in Seq(0..MaxEvents)
  BY TypeParts DEF StreamsInv, PipeTypes
<1>3. /\ lo[obj[s]] \in Nat /\ hi[obj[s]] \in Nat /\ published \in 0..MaxEvents /\ MaxEvents \in Nat
  BY <1>1, TypeParts DEF StreamsInv, StreamTypes, SB!ConstantsAssumption
<1>4. lo[obj[s]] <= hi[obj[s]] /\ hi[obj[s]] <= MaxEvents
  BY <1>1, <1>3 DEF StreamsInv, StreamInv
<1>5. SB!Owed(s) \in Nat
  BY <1>1 DEF SB!Owed
<1>6. Len(chan[s]) \in Nat /\ Len(got[s]) \in Nat
  BY <1>2, LenProperties
<1>7. \A i \in 1..Len(chan[s]) : chan[s][i] \in SB!Items
  BY <1>2, ElementOfSeq
<1>8. \A i \in 1..Len(got[s]) : got[s][i] \in 0..MaxEvents
  BY <1>2, ElementOfSeq
<1>9. SB!OwedNext(s) \in Nat
  <2>1. CASE got[s] = <<>>
    BY <1>5, <2>1 DEF SB!OwedNext
  <2>2. CASE got[s] # <<>>
    <3>1. Len(got[s]) \in 1..Len(got[s])
      BY <1>2, <1>6, <2>2, EmptySeq
    <3> QED
      BY <1>3, <1>8, <2>2, <3>1 DEF SB!OwedNext
  <2> QED
    BY <2>1, <2>2
<1>10. \A e \in SB!Items : IsEvent(e) => e[2] \in Nat
  BY <1>3, ItemFacts
<1>11. /\ IsEvent(hand[s]) => hand[s][2] \in Nat
       /\ \A i \in 1..Len(chan[s]) : IsEvent(chan[s][i]) => chan[s][i][2] \in Nat
  BY <1>2, <1>7, <1>10
<1>12. \A i \in 1..Len(got[s]) : got[s][i] \in Nat
  BY <1>3, <1>8
<1> QED
  BY <1>1, <1>2, <1>3, <1>4, <1>5, <1>6, <1>7, <1>9, <1>11, <1>12

SubInv(s) == PlaceInv(s) /\ ReaderInv(s) /\ PipeInv(s) /\ EndInv(s)

SubUnchanged(s) ==
  /\ obj'[s] = obj[s] /\ last'[s] = last[s] /\ from'[s] = from[s] /\ offset'[s] = offset[s]
  /\ hand'[s] = hand[s] /\ chan'[s] = chan[s] /\ got'[s] = got[s] /\ (s \in eof' <=> s \in eof)

(* A subscription that does nothing itself, or no more than move from one    *)
(* place to another that holds nothing, or lose its consumer.                *)
Moves(s) ==
  \/ place'[s] = place[s] /\ (s \in gone' <=> s \in gone)
  \/ place'[s] = place[s] /\ place[s] # "idle"
  \/ place[s] \in {"drained", "wait"} /\ place'[s] \in {"wait", "drain"}
  \/ place[s] = "exit" /\ place'[s] = "closed"

LEMMA Untouched ==
  ASSUME StreamsInv, Grows, NEW s \in Subs, SubUnchanged(s), Moves(s)
  PROVE  SubInv(s)'
<1>a. /\ PlaceInv(s) /\ ReaderInv(s) /\ PipeInv(s) /\ EndInv(s)
  BY DEF StreamsInv
<1>b. SB!Owed(s)' = SB!Owed(s) /\ SB!OwedNext(s)' = SB!OwedNext(s)
  BY DEF SubUnchanged, SB!Owed, SB!OwedNext
<1>c. /\ obj[s] \in Nat /\ lo[obj[s]] \in Nat /\ hi[obj[s]] \in Nat /\ offset[s] \in Nat
      /\ SB!Owed(s) \in Nat /\ SB!OwedNext(s) \in Nat
  BY SubTypes DEF SB!Objects
<1>d. /\ made \in Nat /\ made' \in Nat /\ made <= made'
      /\ lo'[obj[s]] \in Nat /\ lo[obj[s]] <= lo'[obj[s]]
      /\ hi'[obj[s]] \in Nat /\ hi[obj[s]] <= hi'[obj[s]]
      /\ ended[obj[s]] => ended'[obj[s]] /\ hi'[obj[s]] = hi[obj[s]]
  <2>1. obj[s] \in SB!Objects /\ made \in Nat
    BY SubTypes, TypeParts DEF StreamsInv, StreamTypes
  <2> QED
    BY <2>1 DEF Grows
<1>e. place'[s] # "idle" => place[s] # "idle"
  BY DEF Moves
<1>1. PlaceInv(s)'
  BY <1>a, <1>c, <1>d DEF PlaceInv, SubUnchanged, Moves
<1>2. ReaderInv(s)'
  <2> SUFFICES ASSUME place'[s] # "idle" PROVE ReaderInv(s)'
    BY DEF ReaderInv
  <2>1. /\ SB!Owed(s) <= SB!OwedNext(s) /\ SB!OwedNext(s) <= offset[s] /\ offset[s] <= hi'[obj[s]]
        /\ \A i \in 1..Len(got[s]) : SB!Owed(s) <= got[s][i] /\ got[s][i] < SB!OwedNext(s)
        /\ \A k \in SB!Owed(s)..(SB!OwedNext(s) - 1) :
             k < lo'[obj[s]] \/ \E i \in 1..Len(got[s]) : got[s][i] = k
    <3>1. ASSUME NEW k \in SB!Owed(s)..(SB!OwedNext(s) - 1), k < lo[obj[s]] PROVE k < lo'[obj[s]]
      BY <1>c, <1>d, <3>1
    <3>2. offset[s] <= hi[obj[s]] => offset[s] <= hi'[obj[s]]
      BY <1>c, <1>d
    <3> QED
      BY <1>a, <1>e, <3>1, <3>2 DEF ReaderInv
  <2> QED
    BY <1>b, <1>c, <2>1 DEF ReaderInv, SubUnchanged
<1>3. PipeInv(s)'
  <2> SUFFICES ASSUME place'[s] # "idle" PROVE PipeInv(s)'
    BY DEF PipeInv
  <2>1. \A k \in SB!OwedNext(s)..(offset[s] - 1) :
         \/ k < lo'[obj[s]]
         \/ IsEvent(hand[s]) /\ k = hand[s][2]
         \/ \E i \in 1..Len(chan[s]) : IsEvent(chan[s][i]) /\ k = chan[s][i][2]
    <3>1. ASSUME NEW k \in SB!OwedNext(s)..(offset[s] - 1), k < lo[obj[s]] PROVE k < lo'[obj[s]]
      BY <1>c, <1>d, <3>1
    <3> QED
      BY <1>a, <1>e, <3>1 DEF PipeInv
  <2> QED
    BY <1>a, <1>b, <1>e, <2>1 DEF PipeInv, SubUnchanged
<1>4. EndInv(s)'
  BY <1>a, <1>d DEF EndInv, SubUnchanged, Moves
<1> QED
  BY <1>1, <1>2, <1>3, <1>4 DEF SubInv

-----------------------------------------------------------------------------
(* The steps of a subscription.                                              *)

LEMMA SubscribeStep ==
  ASSUME StreamsInv, Grows, NEW s \in Subs, SB!Subscribe(s)
  PROVE  SubInv(s)'
<1>1. PICK g \in SB!Objects, id \in SB!LastIds :
        /\ place[s] = "idle" /\ SB!Get(g)
        /\ obj' = [obj EXCEPT ![s] = g]
        /\ last' = [last EXCEPT ![s] = id]
        /\ from' = [from EXCEPT ![s] = SB!StartAt(g, id)]
        /\ offset' = [offset EXCEPT ![s] = SB!StartAt(g, id)]
        /\ place' = [place EXCEPT ![s] = "drain"]
        /\ UNCHANGED <<lo, hi, ended, hand, chan, got, eof, gone>>
  BY DEF SB!Subscribe
<1>2. /\ id \in (0..MaxStreams) \X Nat
      /\ id[1] # 0 => id[1] \in SB!Objects /\ id[1] <= made /\ id[2] < hi[id[1]]
  BY LastIdFacts
<1> DEFINE at == SB!StartAt(g, id)
<1>3. /\ chan[s] = <<>> /\ got[s] = <<>> /\ hand[s] = SB!Beat /\ s \notin gone /\ s \notin eof
  BY <1>1 DEF StreamsInv, PlaceInv
<1>4. /\ place'[s] = "drain" /\ obj'[s] = g /\ last'[s] = id /\ from'[s] = at /\ offset'[s] = at
      /\ chan'[s] = <<>> /\ got'[s] = <<>> /\ hand'[s] = SB!Beat /\ s \notin gone' /\ s \notin eof'
      /\ lo' = lo /\ hi' = hi
  BY <1>1, <1>3, TypeParts DEF StreamsInv, PlaceTypes, OffsetTypes
<1>5. lo[g] \in Nat /\ hi[g] \in Nat /\ lo[g] <= hi[g] /\ g \in Nat \ {0} /\ g <= made'
  BY <1>1, TypeParts DEF StreamsInv, StreamTypes, StreamInv, SB!Get, SB!Objects
<1>6. at \in Nat /\ at <= hi[g]
  BY <1>2, <1>5 DEF SB!StartAt
<1> DEFINE first == IF id[1] = g THEN id[2] + 1 ELSE at
<1>7. SB!Owed(s)' = first /\ SB!OwedNext(s)' = first
  BY <1>4 DEF SB!Owed, SB!OwedNext
<1>8. first \in Nat /\ first <= hi[g]
  <2>1. CASE id[1] = g
    <3>1. id[2] \in Nat /\ id[2] < hi[g]
      BY <1>2, <1>5, <2>1
    <3> QED
      BY <1>5, <2>1, <3>1
  <2>2. CASE id[1] # g
    BY <1>6, <2>2
  <2> QED
    BY <2>1, <2>2
<1>9. first <= at /\ \A k \in first..(at - 1) : k < lo[g]
  BY <1>2, <1>5, <1>8 DEF SB!StartAt
<1> HIDE DEF at, first
<1>10. PlaceInv(s)'
  BY <1>4, <1>5 DEF PlaceInv
<1>11. ReaderInv(s)'
  BY <1>4, <1>6, <1>7, <1>8, <1>9 DEF ReaderInv
<1>12. PipeInv(s)'
  <2>1. ~IsEvent(SB!Beat) /\ Len(<<>>) = 0
    BY DEF IsEvent
  <2> QED
    BY <1>4, <1>7, <1>9, <2>1 DEF PipeInv
<1>13. EndInv(s)'
  BY <1>4, ItemFacts DEF EndInv
<1> QED
  BY <1>10, <1>11, <1>12, <1>13 DEF SubInv

LEMMA DrainStep ==
  ASSUME StreamsInv, Grows, NEW s \in Subs, SB!Drain(s)
  PROVE  SubInv(s)'
<1> DEFINE low   == lo[obj[s]]
           high  == hi[obj[s]]
           at    == IF offset[s] < low THEN low ELSE offset[s]
           owed  == SB!Owed(s)
           next  == SB!OwedNext(s)
           items == chan[s]
           reads == got[s]
<1>1. /\ place[s] = "drain" /\ UNCHANGED <<obj, last, from, chan, got, eof, gone, lo, hi, ended, made>>
      /\ \/ /\ at < high /\ hand'[s] = SB!Event(at) /\ offset'[s] = at + 1 /\ place'[s] = "send"
         \/ /\ at >= high /\ offset'[s] = at
            /\ \/ ended[obj[s]] /\ hand'[s] = SB!End /\ place'[s] = "send"
               \/ hand'[s] = hand[s] /\ place'[s] = "drained"
  BY TypeParts DEF SB!Drain, StreamsInv, PlaceTypes, OffsetTypes, PipeTypes, SB!streamVars
<1>2. /\ low \in Nat /\ high \in Nat /\ low <= high /\ offset[s] \in Nat /\ high <= MaxEvents
      /\ MaxEvents \in Nat /\ owed \in Nat /\ next \in Nat
      /\ \A i \in 1..Len(items) : IsEvent(items[i]) => items[i][2] \in Nat
  BY SubTypes DEF StreamsInv, SB!ConstantsAssumption
<1>3. /\ hand[s] = SB!Beat /\ obj[s] <= made /\ s \notin eof
      /\ owed <= next /\ next <= offset[s] /\ offset[s] <= high
      /\ \A i \in 1..Len(items) : IsEvent(items[i]) => next <= items[i][2] /\ items[i][2] < offset[s]
      /\ \A i, j \in 1..Len(items) : i < j /\ IsEvent(items[i]) /\ IsEvent(items[j]) => items[i][2] < items[j][2]
      /\ \A i \in 1..Len(items) : items[i] # SB!End
      /\ \A k \in next..(offset[s] - 1) :
           k < low \/ \E i \in 1..Len(items) : IsEvent(items[i]) /\ k = items[i][2]
  <2>1. ~IsEvent(SB!Beat)
    BY DEF IsEvent
  <2> QED
    BY <1>1, <2>1 DEF StreamsInv, PlaceInv, ReaderInv, PipeInv, EndInv
<1>4. /\ \A i \in 1..Len(reads) : owed <= reads[i] /\ reads[i] < next
      /\ \A k \in owed..(next - 1) : k < low \/ \E i \in 1..Len(reads) : reads[i] = k
  BY <1>1 DEF StreamsInv, ReaderInv
<1>5. /\ SB!Owed(s)' = owed /\ SB!OwedNext(s)' = next /\ chan'[s] = items /\ got'[s] = reads
      /\ lo'[obj'[s]] = low /\ hi'[obj'[s]] = high
  BY <1>1 DEF SB!Owed, SB!OwedNext
<1>6. at \in Nat /\ offset[s] <= at /\ low <= at /\ at <= high /\ \A k \in offset[s]..(at - 1) : k < low
  BY <1>2, <1>3
<1>7. /\ SB!End # SB!Beat /\ ~IsEvent(SB!Beat) /\ ~IsEvent(SB!End)
      /\ at < high => IsEvent(SB!Event(at)) /\ SB!Event(at)[2] = at /\ SB!Event(at) # SB!End
  BY <1>2, <1>6, ItemFacts DEF IsEvent
<1> HIDE DEF low, high, at, owed, next, items, reads
<1>8. PlaceInv(s)'
  BY <1>1, <1>3 DEF PlaceInv
<1>9. offset'[s] \in Nat /\ at <= offset'[s] /\ offset'[s] <= high
  BY <1>1, <1>2, <1>6
<1>10. ReaderInv(s)'
  BY <1>2, <1>3, <1>4, <1>5, <1>6, <1>9 DEF ReaderInv
<1>11. PipeInv(s)'
  <2>1. \A i \in 1..Len(items) : IsEvent(items[i]) => next <= items[i][2] /\ items[i][2] < offset'[s]
    <3> SUFFICES ASSUME NEW i \in 1..Len(items), IsEvent(items[i])
                 PROVE  next <= items[i][2] /\ items[i][2] < offset'[s]
      OBVIOUS
    <3>1. items[i][2] \in Nat /\ next <= items[i][2] /\ items[i][2] < offset[s]
      BY <1>2, <1>3
    <3>2. offset[s] \in Nat /\ at \in Nat /\ offset[s] <= at
      BY <1>2, <1>6
    <3> QED
      BY <1>9, <3>1, <3>2
  <2>2. IsEvent(hand'[s]) =>
          /\ hand'[s][2] = offset'[s] - 1 /\ next <= hand'[s][2]
          /\ \A i \in 1..Len(items) : IsEvent(items[i]) => items[i][2] < hand'[s][2]
    <3> SUFFICES ASSUME IsEvent(hand'[s])
                 PROVE  /\ hand'[s][2] = offset'[s] - 1 /\ next <= hand'[s][2]
                        /\ \A i \in 1..Len(items) : IsEvent(items[i]) => items[i][2] < hand'[s][2]
      OBVIOUS
    <3>1. hand'[s][2] = at /\ offset'[s] = at + 1
      BY <1>1, <1>3, <1>7
    <3>2. at = offset'[s] - 1 /\ next <= at
      BY <1>2, <1>3, <1>6, <3>1
    <3>3. \A i \in 1..Len(items) : IsEvent(items[i]) => items[i][2] < at
      BY <1>2, <1>3, <1>6, SMTT(20)
    <3> QED
      BY <3>1, <3>2, <3>3
  <2>3. \A k \in next..(offset'[s] - 1) :
          \/ k < low
          \/ IsEvent(hand'[s]) /\ k = hand'[s][2]
          \/ \E i \in 1..Len(items) : IsEvent(items[i]) /\ k = items[i][2]
    <3> SUFFICES ASSUME NEW k \in next..(offset'[s] - 1), ~(k < low)
                 PROVE  \/ IsEvent(hand'[s]) /\ k = hand'[s][2]
                        \/ \E i \in 1..Len(items) : IsEvent(items[i]) /\ k = items[i][2]
      OBVIOUS
    <3>1. CASE k < offset[s]
      BY <1>2, <1>3, <1>9, <3>1
    <3>2. CASE k >= offset[s]
      <4>1. ~(k < at)
        BY <1>2, <1>6, <1>9, <3>2
      <4>2. at < high /\ hand'[s] = SB!Event(at) /\ k = at
        BY <1>1, <1>2, <1>6, <1>9, <4>1
      <4> QED
        BY <1>7, <4>2
    <3> QED
      BY <1>2, <1>9, <3>1, <3>2
  <2> QED
    BY <1>3, <1>5, <2>1, <2>2, <2>3 DEF PipeInv
<1>12. EndInv(s)'
  <2>1. ASSUME hand'[s] = SB!End PROVE ended'[obj'[s]] /\ offset'[s] = hi'[obj'[s]]
    <3>1. at >= high /\ offset'[s] = at /\ ended[obj[s]]
      BY <1>1, <1>3, <1>7, <2>1
    <3>2. at = high
      BY <1>2, <1>6, <3>1
    <3> QED
      BY <1>1, <1>5, <3>1, <3>2
  <2> QED
    BY <1>1, <1>3, <1>5, <2>1 DEF EndInv
<1> QED
  BY <1>8, <1>10, <1>11, <1>12 DEF SubInv

(* An item put at the end of the channel, when no __end__ is in it.          *)
LEMMA SendStep ==
  ASSUME StreamsInv, Grows, NEW s \in Subs, SB!Send(s)
  PROVE  SubInv(s)'
<1> DEFINE low   == lo[obj[s]]
           owed  == SB!Owed(s)
           next  == SB!OwedNext(s)
           items == chan[s]
           more  == Append(chan[s], hand[s])
           n     == Len(chan[s])
<1>1. /\ place[s] = "send" /\ UNCHANGED <<obj, last, from, offset, got, eof, gone, lo, hi, ended, made>>
      /\ chan'[s] = more /\ hand'[s] = SB!Beat
      /\ place'[s] = IF hand[s] = SB!End THEN "exit" ELSE "drain"
  BY TypeParts DEF SB!Send, StreamsInv, PlaceTypes, PipeTypes, SB!streamVars
<1>2. /\ low \in Nat /\ offset[s] \in Nat /\ next \in Nat /\ n \in Nat
      /\ \A i \in 1..n : IsEvent(items[i]) => items[i][2] \in Nat
      /\ IsEvent(hand[s]) => hand[s][2] \in Nat
  BY SubTypes
<1>3. /\ Len(more) = n + 1 /\ more[n + 1] = hand[s] /\ \A i \in 1..n : more[i] = items[i]
  BY SubTypes, Appending
<1>4. /\ obj[s] <= made /\ s \notin eof
      /\ \A i \in 1..n : IsEvent(items[i]) => next <= items[i][2] /\ items[i][2] < offset[s]
      /\ \A i, j \in 1..n : i < j /\ IsEvent(items[i]) /\ IsEvent(items[j]) => items[i][2] < items[j][2]
      /\ \A i \in 1..n : items[i] # SB!End
      /\ IsEvent(hand[s]) =>
           /\ hand[s][2] = offset[s] - 1 /\ next <= hand[s][2]
           /\ \A i \in 1..n : IsEvent(items[i]) => items[i][2] < hand[s][2]
      /\ \A k \in next..(offset[s] - 1) :
           \/ k < low
           \/ IsEvent(hand[s]) /\ k = hand[s][2]
           \/ \E i \in 1..n : IsEvent(items[i]) /\ k = items[i][2]
      /\ hand[s] = SB!End => ended[obj[s]] /\ offset[s] = hi[obj[s]]
  BY <1>1 DEF StreamsInv, PlaceInv, PipeInv, EndInv
<1>5. SB!Owed(s)' = owed /\ next = SB!OwedNext(s)' /\ ReaderInv(s)
  BY <1>1 DEF SB!Owed, SB!OwedNext, StreamsInv
<1>6. ~IsEvent(SB!Beat) /\ SB!Beat # SB!End
  BY ItemFacts DEF IsEvent
<1>7. ReaderInv(s)'
  BY <1>1, <1>5 DEF ReaderInv
<1> HIDE DEF low, owed, next, items, more, n
<1>8. PlaceInv(s)'
  BY <1>1, <1>4 DEF PlaceInv
<1>9. PipeInv(s)'
  <2>1. \A i \in 1..(n + 1) : i = n + 1 \/ (i \in 1..n /\ more[i] = items[i])
    BY <1>2, <1>3
  <2>2. \A i \in 1..(n + 1) : IsEvent(more[i]) => next <= more[i][2] /\ more[i][2] < offset[s]
    BY <1>2, <1>3, <1>4, <2>1
  <2>3. \A i, j \in 1..(n + 1) : i < j /\ IsEvent(more[i]) /\ IsEvent(more[j]) => more[i][2] < more[j][2]
    <3> SUFFICES ASSUME NEW i \in 1..(n + 1), NEW j \in 1..(n + 1), i < j, IsEvent(more[i]), IsEvent(more[j])
                 PROVE  more[i][2] < more[j][2]
      OBVIOUS
    <3>1. i \in 1..n /\ more[i] = items[i]
      BY <1>2, <2>1
    <3>2. CASE j = n + 1
      BY <1>3, <1>4, <3>1, <3>2
    <3>3. CASE j \in 1..n
      BY <1>3, <1>4, <3>1, <3>3
    <3> QED
      BY <2>1, <3>2, <3>3
  <2>4. \A k \in next..(offset[s] - 1) :
          k < low \/ \E i \in 1..(n + 1) : IsEvent(more[i]) /\ k = more[i][2]
    <3> SUFFICES ASSUME NEW k \in next..(offset[s] - 1), ~(k < low)
                 PROVE  \E i \in 1..(n + 1) : IsEvent(more[i]) /\ k = more[i][2]
      OBVIOUS
    <3>1. CASE IsEvent(hand[s]) /\ k = hand[s][2]
      <4>1. n + 1 \in 1..(n + 1)
        BY <1>2
      <4> QED
        BY <1>3, <3>1, <4>1
    <3>2. ASSUME NEW i \in 1..n, IsEvent(items[i]), k = items[i][2]
          PROVE  \E j \in 1..(n + 1) : IsEvent(more[j]) /\ k = more[j][2]
      <4>1. i \in 1..(n + 1) /\ more[i] = items[i]
        BY <1>2, <1>3
      <4> QED
        BY <3>2, <4>1
    <3> QED
      BY <1>4, <3>1, <3>2
  <2>5. chan'[s] = more /\ Len(more) = n + 1 /\ hand'[s] = SB!Beat /\ SB!OwedNext(s)' = next
        /\ offset'[s] = offset[s] /\ lo'[obj'[s]] = low
    BY <1>1, <1>3, <1>5 DEF low
  <2> QED
    BY <1>6, <2>2, <2>3, <2>4, <2>5 DEF PipeInv
<1>10. EndInv(s)'
  <2>1. \A i \in 1..(n + 1) : more[i] = SB!End => i = n + 1 /\ hand[s] = SB!End
    BY <1>2, <1>3, <1>4
  <2> QED
    BY <1>1, <1>3, <1>4, <1>6, <2>1 DEF EndInv
<1> QED
  BY <1>7, <1>8, <1>9, <1>10 DEF SubInv

LEMMA TickStep ==
  ASSUME StreamsInv, Grows, NEW s \in Subs, SB!Tick(s)
  PROVE  SubInv(s)'
<1> DEFINE items == chan[s]
           more  == Append(chan[s], SB!Beat)
           n     == Len(chan[s])
<1>1. /\ place[s] = "wait" /\ UNCHANGED <<obj, last, from, offset, hand, got, eof, gone, lo, hi, ended, made>>
      /\ place'[s] = "drain" /\ (chan' = chan \/ chan'[s] = more)
  BY TypeParts DEF SB!Tick, StreamsInv, PlaceTypes, PipeTypes, SB!streamVars
<1>2. CASE chan' = chan
  <2>1. SubUnchanged(s) /\ Moves(s)
    BY <1>1, <1>2 DEF SubUnchanged, Moves
  <2> QED
    BY <2>1, Untouched
<1>3. CASE chan'[s] = more
  <2>1. n \in Nat /\ Len(more) = n + 1 /\ more[n + 1] = SB!Beat /\ \A i \in 1..n : more[i] = items[i]
    BY SubTypes, Appending, ItemFacts
  <2>2. ~IsEvent(SB!Beat) /\ SB!Beat # SB!End
    BY ItemFacts DEF IsEvent
  <2>3. /\ obj[s] <= made /\ s \notin eof /\ hand[s] = SB!Beat /\ ReaderInv(s) /\ PipeInv(s)
        /\ \A i \in 1..n : items[i] # SB!End
    BY <1>1 DEF StreamsInv, PlaceInv, EndInv
  <2>4. SB!Owed(s)' = SB!Owed(s) /\ SB!OwedNext(s)' = SB!OwedNext(s)
    BY <1>1 DEF SB!Owed, SB!OwedNext
  <2> HIDE DEF items, more, n
  <2>5. /\ \A i \in 1..(n + 1) : IsEvent(more[i]) \/ more[i] = SB!End => i \in 1..n /\ more[i] = items[i]
        /\ \A i \in 1..n : i \in 1..(n + 1)
    BY <2>1, <2>2
  <2>6. PlaceInv(s)'
    BY <1>1, <2>3 DEF PlaceInv
  <2>7. ReaderInv(s)'
    BY <1>1, <2>3, <2>4 DEF ReaderInv
  <2>8. PipeInv(s)'
    <3>1. /\ \A i \in 1..n : IsEvent(items[i]) =>
               SB!OwedNext(s) <= items[i][2] /\ items[i][2] < offset[s]
          /\ \A i, j \in 1..n : i < j /\ IsEvent(items[i]) /\ IsEvent(items[j]) => items[i][2] < items[j][2]
          /\ \A k \in SB!OwedNext(s)..(offset[s] - 1) :
               k < lo[obj[s]] \/ \E i \in 1..n : IsEvent(items[i]) /\ k = items[i][2]
      BY <1>1, <2>2, <2>3 DEF PipeInv, items, n
    <3>2. /\ \A i \in 1..(n + 1) : IsEvent(more[i]) =>
               SB!OwedNext(s) <= more[i][2] /\ more[i][2] < offset[s]
          /\ \A i, j \in 1..(n + 1) : i < j /\ IsEvent(more[i]) /\ IsEvent(more[j]) => more[i][2] < more[j][2]
      BY <2>5, <3>1
    <3>3. \A k \in SB!OwedNext(s)..(offset[s] - 1) :
            k < lo[obj[s]] \/ \E i \in 1..(n + 1) : IsEvent(more[i]) /\ k = more[i][2]
      BY <2>1, <2>5, <3>1
    <3> QED
      BY <1>1, <1>3, <2>1, <2>2, <2>3, <2>4, <3>2, <3>3 DEF PipeInv
  <2>9. EndInv(s)'
    BY <1>1, <1>3, <2>1, <2>2, <2>3, <2>5 DEF EndInv
  <2> QED
    BY <2>6, <2>7, <2>8, <2>9 DEF SubInv
<1> QED
  BY <1>1, <1>2, <1>3

(* What the consumer takes from the channel is the next event it is owed     *)
(* that has not been evicted, or the end when there is none.                 *)
LEMMA HeadIsNext ==
  ASSUME StreamsInv, NEW s \in Subs, SB!Receive(s)
  PROVE  /\ place[s] # "idle" /\ s \notin eof
         /\ IsEvent(Head(chan[s])) =>
              /\ Head(chan[s])[2] \in SB!OwedNext(s)..(offset[s] - 1)
              /\ \A k \in SB!OwedNext(s)..(Head(chan[s])[2] - 1) : k < lo[obj[s]]
         /\ Head(chan[s]) = SB!End =>
              /\ Len(chan[s]) = 1 /\ place[s] \in {"exit", "closed"}
              /\ ended[obj[s]] /\ offset[s] = hi[obj[s]]
              /\ \A k \in SB!OwedNext(s)..(offset[s] - 1) : k < lo[obj[s]]
<1> DEFINE low   == lo[obj[s]]
           next  == SB!OwedNext(s)
           items == chan[s]
           n     == Len(chan[s])
<1>1. items # <<>> /\ s \notin gone
  BY DEF SB!Receive
<1>2. place[s] # "idle" /\ s \notin eof
  BY <1>1 DEF StreamsInv, PlaceInv, EndInv
<1>3. /\ low \in Nat /\ offset[s] \in Nat /\ next \in Nat /\ n \in Nat \ {0}
      /\ Head(items) = items[1] /\ 1 \in 1..n
      /\ \A i \in 1..n : IsEvent(items[i]) => items[i][2] \in Nat
      /\ IsEvent(hand[s]) => hand[s][2] \in Nat
  BY <1>1, SubTypes, Taking
<1>4. /\ \A i \in 1..n : IsEvent(items[i]) => next <= items[i][2] /\ items[i][2] < offset[s]
      /\ \A i, j \in 1..n : i < j /\ IsEvent(items[i]) /\ IsEvent(items[j]) => items[i][2] < items[j][2]
      /\ IsEvent(hand[s]) => \A i \in 1..n : IsEvent(items[i]) => items[i][2] < hand[s][2]
      /\ \A k \in next..(offset[s] - 1) :
           \/ k < low
           \/ IsEvent(hand[s]) /\ k = hand[s][2]
           \/ \E i \in 1..n : IsEvent(items[i]) /\ k = items[i][2]
      /\ place[s] # "send" => hand[s] = SB!Beat
      /\ \A i \in 1..n : items[i] = SB!End => i = n /\ place[s] \in {"exit", "closed"}
      /\ (\E i \in 1..n : items[i] = SB!End) => ended[obj[s]] /\ offset[s] = hi[obj[s]]
  BY <1>2 DEF StreamsInv, PlaceInv, PipeInv, EndInv
<1> HIDE DEF low, next, items, n
<1>5. ASSUME IsEvent(items[1])
      PROVE  /\ items[1][2] \in next..(offset[s] - 1)
             /\ \A k \in next..(items[1][2] - 1) : k < low
  <2>1. items[1][2] \in next..(offset[s] - 1)
    BY <1>3, <1>4, <1>5
  <2>2. ASSUME NEW k \in next..(items[1][2] - 1) PROVE k < low
    <3>1. k \in next..(offset[s] - 1) /\ k < items[1][2]
      BY <1>3, <2>1
    <3>2. ~(IsEvent(hand[s]) /\ k = hand[s][2])
      BY <1>3, <1>4, <1>5, <3>1
    <3>3. ASSUME NEW i \in 1..n, IsEvent(items[i]), k = items[i][2] PROVE FALSE
      <4>1. i = 1 \/ 1 < i
        BY <1>3
      <4>2. CASE i = 1
        BY <1>3, <3>1, <3>3, <4>2
      <4>3. CASE 1 < i
        <5>1. items[1][2] < items[i][2]
          BY <1>3, <1>4, <1>5, <3>3, <4>3
        <5> QED
          BY <1>3, <1>5, <3>1, <3>3, <5>1
      <4> QED
        BY <4>1, <4>2, <4>3
    <3> QED
      BY <1>4, <3>1, <3>2, <3>3
  <2> QED
    BY <2>1, <2>2
<1>6. ASSUME items[1] = SB!End
      PROVE  /\ n = 1 /\ place[s] \in {"exit", "closed"}
             /\ ended[obj[s]] /\ offset[s] = hi[obj[s]]
             /\ \A k \in next..(offset[s] - 1) : k < low
  <2>1. n = 1 /\ place[s] \in {"exit", "closed"} /\ ended[obj[s]] /\ offset[s] = hi[obj[s]]
    BY <1>3, <1>4, <1>6
  <2>2. hand[s] = SB!Beat /\ ~IsEvent(SB!Beat) /\ ~IsEvent(SB!End)
    BY <1>4, <2>1 DEF IsEvent
  <2>3. \A i \in 1..n : items[i] = SB!End
    BY <1>6, <2>1
  <2> QED
    BY <1>4, <2>1, <2>2, <2>3
<1> QED
  BY <1>2, <1>3, <1>5, <1>6 DEF low, next, items, n

LEMMA ReceiveStep ==
  ASSUME StreamsInv, Grows, NEW s \in Subs, SB!Receive(s)
  PROVE  SubInv(s)'
<1> DEFINE low   == lo[obj[s]]
           owed  == SB!Owed(s)
           next  == SB!OwedNext(s)
           e     == Head(chan[s])
           items == chan[s]
           rest  == Tail(chan[s])
           n     == Len(chan[s])
           reads == got[s]
           m     == Len(got[s])
           then  == IF IsEvent(e) THEN e[2] + 1 ELSE next
           reads1 == IF IsEvent(e) THEN Append(got[s], e[2]) ELSE got[s]
<1>1. /\ s \notin gone /\ chan[s] # <<>>
      /\ UNCHANGED <<place, obj, last, from, offset, hand, gone, lo, hi, ended, made>>
      /\ chan'[s] = rest /\ got'[s] = reads1
      /\ (s \in eof' <=> s \in eof \/ e = SB!End)
  BY TypeParts DEF SB!Receive, StreamsInv, PipeTypes, SB!streamVars, IsEvent
<1>2. /\ low \in Nat /\ offset[s] \in Nat /\ owed \in Nat /\ next \in Nat /\ n \in Nat \ {0} /\ m \in Nat
      /\ e \in SB!Items /\ e = items[1] /\ Len(rest) = n - 1 /\ \A i \in 1..(n - 1) : rest[i] = items[i + 1]
      /\ \A i \in 1..n : IsEvent(items[i]) => items[i][2] \in Nat
      /\ IsEvent(hand[s]) => hand[s][2] \in Nat
      /\ \A i \in 1..m : reads[i] \in Nat
  BY <1>1, SubTypes, Taking
<1>3. /\ place[s] # "idle" /\ s \notin eof
      /\ IsEvent(e) => e[2] \in next..(offset[s] - 1) /\ \A k \in next..(e[2] - 1) : k < low
      /\ e = SB!End => n = 1 /\ place[s] \in {"exit", "closed"} /\ ended[obj[s]] /\ offset[s] = hi[obj[s]]
  BY HeadIsNext
<1>4. /\ obj[s] <= made /\ (place[s] # "send" => hand[s] = SB!Beat)
      /\ owed <= next /\ next <= offset[s] /\ offset[s] <= hi[obj[s]]
      /\ \A i \in 1..m : owed <= reads[i] /\ reads[i] < next
      /\ \A k \in owed..(next - 1) : k < low \/ \E i \in 1..m : reads[i] = k
  BY <1>3 DEF StreamsInv, PlaceInv, ReaderInv
<1>5. /\ \A i \in 1..n : IsEvent(items[i]) => next <= items[i][2] /\ items[i][2] < offset[s]
      /\ \A i, j \in 1..n : i < j /\ IsEvent(items[i]) /\ IsEvent(items[j]) => items[i][2] < items[j][2]
      /\ IsEvent(hand[s]) =>
           /\ hand[s][2] = offset[s] - 1 /\ next <= hand[s][2]
           /\ \A i \in 1..n : IsEvent(items[i]) => items[i][2] < hand[s][2]
      /\ \A k \in next..(offset[s] - 1) :
           \/ k < low
           \/ IsEvent(hand[s]) /\ k = hand[s][2]
           \/ \E i \in 1..n : IsEvent(items[i]) /\ k = items[i][2]
  BY <1>3 DEF StreamsInv, PipeInv
<1>6. /\ hand[s] = SB!End \/ (\E i \in 1..n : items[i] = SB!End) => ended[obj[s]] /\ offset[s] = hi[obj[s]]
      /\ \A i \in 1..n : items[i] = SB!End => i = n /\ place[s] \in {"exit", "closed"}
  BY DEF StreamsInv, EndInv
<1>7. /\ IsEvent(e) => /\ Len(reads1) = m + 1 /\ reads1[m + 1] = e[2] /\ e[2] \in Nat
                       /\ \A i \in 1..m : reads1[i] = reads[i]
      /\ ~IsEvent(e) => reads1 = reads
  <2>1. IsEvent(e) => e[2] \in 0..MaxEvents /\ MaxEvents \in Nat
    BY <1>2, ItemFacts DEF StreamsInv, SB!ConstantsAssumption
  <2>2. got[s] \in Seq(0..MaxEvents)
    BY SubTypes
  <2> QED
    BY <2>1, <2>2, AppendProperties
<1>8. SB!Owed(s)' = owed
  BY <1>1 DEF SB!Owed
<1>9. SB!OwedNext(s)' = then
  <2>1. CASE IsEvent(e)
    <3> HIDE DEF reads1, m, e
    <3>1. got'[s] # <<>> /\ Len(got'[s]) = m + 1 /\ got'[s][m + 1] = e[2]
      <4>1. Len(got'[s]) = m + 1 /\ got'[s][m + 1] = e[2] /\ m + 1 # 0
        BY <1>1, <1>2, <1>7, <2>1
      <4>2. Len(<<>>) = 0
        OBVIOUS
      <4> QED
        BY <4>1, <4>2
    <3> QED
      BY <2>1, <3>1 DEF SB!OwedNext
  <2>2. CASE ~IsEvent(e)
    BY <1>1, <1>7, <1>8, <2>2 DEF SB!OwedNext
  <2> QED
    BY <2>1, <2>2
<1>10. then \in Nat /\ next <= then /\ then <= offset[s]
  <2> HIDE DEF next, e
  <2>1. CASE IsEvent(e)
    <3>1. e[2] \in next..(offset[s] - 1)
      BY <1>3, <2>1
    <3> HIDE DEF low, owed, items, rest, n, reads, m
    <3> QED
      BY <1>2, <2>1, <3>1
  <2>2. CASE ~IsEvent(e)
    BY <1>2, <1>4, <2>2
  <2> QED
    BY <2>1, <2>2
<1>11. \A i \in 1..(n - 1) : i + 1 \in 1..n /\ rest[i] = items[i + 1] /\ 1 < i + 1
  BY <1>2
<1>12. IsEvent(SB!End) = FALSE /\ IsEvent(SB!Beat) = FALSE
  BY DEF IsEvent
<1>13. PlaceInv(s)'
  BY <1>1, <1>3, <1>4 DEF PlaceInv
<1>14. ReaderInv(s)'
  <2>1. CASE IsEvent(e)
    <3>1. \A i \in 1..(m + 1) : i = m + 1 \/ i \in 1..m
      BY <1>2
    <3>2. m + 1 \in 1..(m + 1) /\ \A i \in 1..m : i \in 1..(m + 1)
      BY <1>2
    <3>3. then = e[2] + 1 /\ next <= e[2] /\ e[2] \in Nat
      BY <1>2, <1>3, <1>7, <2>1
    <3>a. Len(reads1) = m + 1 /\ reads1[m + 1] = e[2] /\ \A i \in 1..m : reads1[i] = reads[i]
      BY <1>7, <2>1
    <3>b. \A k \in next..(e[2] - 1) : k < low
      BY <1>3, <2>1
    <3> HIDE DEF low, owed, next, e, items, rest, n, reads, m, then, reads1
    <3>4. \A i \in 1..(m + 1) : owed <= reads1[i] /\ reads1[i] < then
      <4>1. \A i \in 1..m : owed <= reads1[i] /\ reads1[i] < then
        <5> SUFFICES ASSUME NEW i \in 1..m PROVE owed <= reads1[i] /\ reads1[i] < then
          OBVIOUS
        <5>1. reads1[i] = reads[i] /\ reads[i] \in Nat /\ owed <= reads[i] /\ reads[i] < next
          BY <1>2, <1>4, <3>a
        <5> QED
          BY <1>2, <1>10, <5>1
      <4>2. owed <= reads1[m + 1] /\ reads1[m + 1] < then
        BY <1>2, <1>4, <3>3, <3>a
      <4> QED
        BY <3>1, <4>1, <4>2
    <3>5. ASSUME NEW k \in owed..(then - 1), ~(k < low)
          PROVE  \E i \in 1..(m + 1) : reads1[i] = k
      <4>1. CASE k < next
        <5>1. PICK i \in 1..m : reads[i] = k
          BY <1>2, <1>4, <3>5, <4>1
        <5> QED
          BY <3>2, <3>a, <5>1
      <4>2. CASE ~(k < next)
        <5>1. k = e[2]
          BY <1>2, <3>3, <3>b, <3>5, <4>2
        <5> QED
          BY <3>2, <3>a, <5>1
      <4> QED
        BY <4>1, <4>2
    <3>6. lo'[obj'[s]] = low /\ hi'[obj'[s]] = hi[obj[s]] /\ offset'[s] = offset[s]
      BY <1>1 DEF low
    <3>7. owed <= then
      BY <1>2, <1>4, <1>10
    <3> QED
      BY <1>1, <1>2, <1>4, <1>8, <1>9, <1>10, <3>a, <3>4, <3>5, <3>6, <3>7 DEF ReaderInv
  <2>2. CASE ~IsEvent(e)
    <3>1. got'[s] = got[s] /\ SB!OwedNext(s)' = SB!OwedNext(s)
      BY <1>1, <1>7, <1>9, <2>2
    <3>2. ReaderInv(s)
      BY DEF StreamsInv
    <3> QED
      BY <1>1, <1>8, <3>1, <3>2 DEF ReaderInv
  <2> QED
    BY <2>1, <2>2
<1>15. PipeInv(s)'
  <2> HIDE DEF low, owed, next, e, items, rest, n, reads, m, then, reads1
  <2>1. \A i \in 1..(n - 1) : IsEvent(rest[i]) => then <= rest[i][2] /\ rest[i][2] < offset[s]
    <3> SUFFICES ASSUME NEW i \in 1..(n - 1), IsEvent(rest[i])
                 PROVE  then <= rest[i][2] /\ rest[i][2] < offset[s]
      OBVIOUS
    <3>1. i + 1 \in 1..n /\ rest[i] = items[i + 1] /\ 1 < i + 1 /\ 1 \in 1..n
      BY <1>2, <1>11
    <3>2. next <= rest[i][2] /\ rest[i][2] < offset[s] /\ rest[i][2] \in Nat
      BY <1>2, <1>5, <3>1
    <3>3. IsEvent(e) => e[2] < rest[i][2]
      BY <1>2, <1>5, <3>1
    <3> QED
      BY <1>2, <1>7, <3>2, <3>3 DEF then
  <2>2. \A i, j \in 1..(n - 1) : i < j /\ IsEvent(rest[i]) /\ IsEvent(rest[j]) => rest[i][2] < rest[j][2]
    <3> SUFFICES ASSUME NEW i \in 1..(n - 1), NEW j \in 1..(n - 1), i < j, IsEvent(rest[i]), IsEvent(rest[j])
                 PROVE  rest[i][2] < rest[j][2]
      OBVIOUS
    <3>1. i + 1 < j + 1
      BY <1>2
    <3> QED
      BY <1>5, <1>11, <3>1
  <2>3. IsEvent(hand[s]) =>
          then <= hand[s][2] /\ \A i \in 1..(n - 1) : IsEvent(rest[i]) => rest[i][2] < hand[s][2]
    <3> SUFFICES ASSUME IsEvent(hand[s])
                 PROVE  then <= hand[s][2] /\ \A i \in 1..(n - 1) : IsEvent(rest[i]) => rest[i][2] < hand[s][2]
      OBVIOUS
    <3>1. IsEvent(e) => e[2] < hand[s][2]
      BY <1>2, <1>5
    <3>2. then <= hand[s][2]
      BY <1>2, <1>5, <1>7, <3>1 DEF then
    <3> QED
      BY <1>5, <1>11, <3>2
  <2>4. \A k \in then..(offset[s] - 1) :
          \/ k < low
          \/ IsEvent(hand[s]) /\ k = hand[s][2]
          \/ \E i \in 1..(n - 1) : IsEvent(rest[i]) /\ k = rest[i][2]
    <3> SUFFICES ASSUME NEW k \in then..(offset[s] - 1), ~(k < low), ~(IsEvent(hand[s]) /\ k = hand[s][2])
                 PROVE  \E i \in 1..(n - 1) : IsEvent(rest[i]) /\ k = rest[i][2]
      OBVIOUS
    <3>1. k \in next..(offset[s] - 1)
      BY <1>2, <1>10
    <3>2. PICK j \in 1..n : IsEvent(items[j]) /\ k = items[j][2]
      BY <1>5, <3>1
    <3>3. j # 1
      BY <1>2, <1>7, <1>10, <3>2 DEF then
    <3>4. j - 1 \in 1..(n - 1) /\ j = (j - 1) + 1
      BY <1>2, <3>3
    <3> QED
      BY <1>2, <3>2, <3>4
  <2>5. /\ chan'[s] = rest /\ Len(rest) = n - 1 /\ hand'[s] = hand[s] /\ offset'[s] = offset[s]
        /\ lo'[obj'[s]] = low
    BY <1>1, <1>2 DEF low
  <2>6. IsEvent(hand[s]) => hand[s][2] = offset[s] - 1
    BY <1>5
  <2> QED
    BY <1>9, <2>1, <2>2, <2>3, <2>4, <2>5, <2>6 DEF PipeInv
<1>16. EndInv(s)'
  <2>1. e = SB!End => rest = <<>>
    <3>1. rest \in Seq(SB!Items)
      BY <1>1, SubTypes, Taking
    <3>2. e = SB!End => Len(rest) = 0
      BY <1>2, <1>3
    <3> HIDE DEF rest
    <3> QED
      BY <3>1, <3>2, EmptySeq
  <2> HIDE DEF items, rest, n, e
  <2>2. \A i \in 1..(n - 1) : rest[i] = SB!End => i = n - 1 /\ e # SB!End /\ \E j \in 1..n : items[j] = SB!End
    <3> SUFFICES ASSUME NEW i \in 1..(n - 1), rest[i] = SB!End
                 PROVE  i = n - 1 /\ e # SB!End /\ \E j \in 1..n : items[j] = SB!End
      OBVIOUS
    <3>1. i + 1 \in 1..n /\ items[i + 1] = SB!End /\ n # 1
      BY <1>2, <1>11
    <3>2. i + 1 = n /\ e # SB!End
      BY <1>3, <1>6, <3>1
    <3> QED
      BY <1>2, <3>1, <3>2
  <2> QED
    BY <1>1, <1>2, <1>3, <1>6, <1>11, <2>1, <2>2 DEF EndInv
<1> QED
  BY <1>13, <1>14, <1>15, <1>16 DEF SubInv

-----------------------------------------------------------------------------
(* The invariant.                                                            *)

(* A step changes a subscription by one of its own five steps that move      *)
(* events, or not in a way that matters.                                     *)
LEMMA WhoChanges ==
  ASSUME StreamsInv, [SB!Next]_SB!vars, NEW s \in Subs
  PROVE  \/ SubUnchanged(s) /\ Moves(s)
         \/ SB!Subscribe(s) \/ SB!Drain(s) \/ SB!Send(s) \/ SB!Tick(s) \/ SB!Receive(s)
<1> USE DEF SubUnchanged, Moves
<1>a. PlaceTypes /\ OffsetTypes /\ PipeTypes
  BY TypeParts DEF StreamsInv
<1>1. CASE SB!Publish \/ SB!PublishEnd \/ SB!Cleanup \/ SB!Close \/ UNCHANGED SB!vars
  BY <1>1 DEF SB!Publish, SB!PublishEnd, SB!Cleanup, SB!Close, SB!vars, SB!subVars
<1>2. ASSUME NEW t \in Subs, t # s, SB!Subscribe(t) \/ SB!Deliver(t) \/ SB!Tick(t) \/ SB!Receive(t) \/ SB!Leave(t)
      PROVE  SubUnchanged(s) /\ Moves(s)
  <2>1. CASE SB!Subscribe(t) \/ SB!Leave(t)
    BY <1>2, <1>a, <2>1 DEF SB!Subscribe, SB!Leave, PlaceTypes, OffsetTypes
  <2>2. CASE SB!Drain(t)
    BY <1>2, <1>a, <2>2 DEF SB!Drain, PlaceTypes, OffsetTypes, PipeTypes
  <2>3. CASE SB!Send(t) \/ SB!Tick(t)
    BY <1>2, <1>a, <2>3 DEF SB!Send, SB!Tick, PlaceTypes, PipeTypes
  <2>4. CASE SB!Park(t) \/ SB!Wake(t) \/ SB!Exit(t)
    BY <1>2, <1>a, <2>4 DEF SB!Park, SB!Wake, SB!Exit, PlaceTypes
  <2>5. CASE SB!Receive(t)
    BY <1>2, <1>a, <2>5 DEF SB!Receive, PlaceTypes, PipeTypes
  <2> QED
    BY <1>2, <2>1, <2>2, <2>3, <2>4, <2>5 DEF SB!Deliver
<1>3. CASE SB!Park(s) \/ SB!Wake(s) \/ SB!Exit(s)
  BY <1>3, <1>a DEF SB!Park, SB!Wake, SB!Exit, PlaceTypes
<1>4. CASE SB!Leave(s)
  BY <1>4, <1>a DEF SB!Leave, PlaceTypes
<1> QED
  BY <1>1, <1>2, <1>3, <1>4 DEF SB!Next, SB!Deliver

LEMMA StreamsInit == SB!ConstantsAssumption /\ SB!Init => StreamsInv
<1> SUFFICES ASSUME SB!ConstantsAssumption, SB!Init PROVE StreamsInv
  OBVIOUS
<1> USE DEF SB!Init
<1>1. StreamTypes /\ StreamInv
  BY DEF StreamTypes, StreamInv, SB!ConstantsAssumption, SB!Objects
<1>2. PlaceTypes /\ OffsetTypes
  BY DEF PlaceTypes, OffsetTypes, SB!ConstantsAssumption, SB!Objects, SB!NoId, SB!Id
<1>3. <<>> \in Seq(SB!Items) /\ <<>> \in Seq(0..MaxEvents) /\ Len(<<>>) = 0
  OBVIOUS
<1>4. PipeTypes
  BY <1>3, ItemFacts DEF PipeTypes, SB!ConstantsAssumption
<1>5. ASSUME NEW s \in Subs PROVE PlaceInv(s) /\ ReaderInv(s) /\ PipeInv(s) /\ EndInv(s)
  BY <1>3, <1>5, ItemFacts DEF PlaceInv, ReaderInv, PipeInv, EndInv
<1> QED
  BY <1>1, <1>2, <1>4, <1>5, TypeParts DEF StreamsInv

LEMMA StreamsNext == StreamsInv /\ [SB!Next]_SB!vars => StreamsInv'
<1> SUFFICES ASSUME StreamsInv, [SB!Next]_SB!vars PROVE StreamsInv'
  OBVIOUS
<1>1. SB!TypeOK' /\ StreamInv' /\ Grows
  BY StreamsTypeStep, StreamStep
<1>2. SB!ConstantsAssumption'
  BY DEF StreamsInv, SB!ConstantsAssumption
<1>3. ASSUME NEW s \in Subs PROVE SubInv(s)'
  BY <1>1, WhoChanges, Untouched, SubscribeStep, DrainStep, SendStep, TickStep, ReceiveStep
<1> QED
  BY <1>1, <1>2, <1>3 DEF StreamsInv, SubInv

(* What is known of the streams and of each subscription holds always.       *)
THEOREM StreamsInvariant == SB!ConstantsAssumption /\ SB!Spec => []StreamsInv
BY StreamsInit, StreamsNext, PTL DEF SB!Spec

-----------------------------------------------------------------------------
(* What follows from it.                                                     *)

(* A subscriber is woken by whatever it has not read yet.                    *)
WakeInv(s) == place[s] \in {"drained", "wait"} /\ ~wake[s] => offset[s] = hi[obj[s]] /\ ~ended[obj[s]]

(* Only the worker changes a stream that somebody reads, and it leaves a     *)
(* token; only Drain lets a subscriber go to sleep, and only Wake takes the  *)
(* token from one that has not ended.                                        *)
LEMMA WakeStep ==
  ASSUME StreamsInv, [SB!Next]_SB!vars, NEW s \in Subs, WakeInv(s)
  PROVE  WakeInv(s)'
<1> USE DEF WakeInv
<1>a. StreamTypes /\ PlaceTypes /\ OffsetTypes
  BY TypeParts DEF StreamsInv
<1>1. CASE SB!Publish \/ SB!PublishEnd
  <2>1. place' = place /\ obj' = obj /\ offset' = offset
    BY <1>1 DEF SB!Publish, SB!PublishEnd
  <2>2. PICK g \in SB!Objects : SB!NotifyAll(g) /\ \A f \in SB!Objects : f # g => hi'[f] = hi[f] /\ ended'[f] = ended[f]
    BY <1>1, <1>a DEF SB!Publish, SB!PublishEnd, StreamTypes
  <2>3. wake'[s] = (wake[s] \/ (obj[s] = g /\ place[s] \notin {"idle", "closed"}))
    BY <2>2 DEF SB!NotifyAll
  <2>4. obj[s] \in SB!Objects
    BY <1>a DEF OffsetTypes
  <2> QED
    BY <2>1, <2>2, <2>3, <2>4
<1>2. CASE SB!Cleanup \/ SB!Close \/ UNCHANGED SB!vars
  BY <1>2 DEF SB!Cleanup, SB!Close, SB!vars, SB!streamVars, SB!subVars
<1>3. ASSUME NEW t \in Subs, SB!Subscribe(t) PROVE WakeInv(s)'
  BY <1>3, <1>a DEF SB!Subscribe, PlaceTypes, OffsetTypes
<1>4. ASSUME NEW t \in Subs, SB!Drain(t) PROVE WakeInv(s)'
  <2>1. hi' = hi /\ ended' = ended /\ obj' = obj /\ wake' = wake
    BY <1>4 DEF SB!Drain, SB!streamVars
  <2>2. CASE t # s
    BY <1>4, <1>a, <2>1, <2>2 DEF SB!Drain, PlaceTypes, OffsetTypes
  <2>3. CASE t = s
    <3>1. PICK g : g = obj[s] /\ g \in SB!Objects
      BY <1>a DEF OffsetTypes
    <3>2. place[s] = "drain" /\ offset[s] <= hi[g] /\ lo[g] <= hi[g] /\ hi[g] \in Nat /\ lo[g] \in Nat /\ offset[s] \in Nat
      BY <1>4, <1>a, <2>3, <3>1 DEF SB!Drain, StreamsInv, StreamInv, ReaderInv, StreamTypes, OffsetTypes
    <3>3. PICK at : at = IF offset[s] < lo[g] THEN lo[g] ELSE offset[s]
      OBVIOUS
    <3>4. \/ place'[s] = "send"
          \/ at >= hi[g] /\ offset'[s] = at /\ place'[s] = (IF ended[g] THEN "send" ELSE "drained")
      BY <1>4, <1>a, <2>3, <3>1, <3>3 DEF SB!Drain, PlaceTypes, OffsetTypes
    <3>5. at <= hi[g] /\ at \in Nat
      BY <3>2, <3>3
    <3> QED
      BY <2>1, <3>1, <3>2, <3>4, <3>5
  <2> QED
    BY <2>2, <2>3
<1>5. ASSUME NEW t \in Subs, SB!Send(t) \/ SB!Park(t) \/ SB!Tick(t) PROVE WakeInv(s)'
  BY <1>5, <1>a DEF SB!Send, SB!Park, SB!Tick, SB!streamVars, PlaceTypes
<1>6. ASSUME NEW t \in Subs, SB!Wake(t) \/ SB!Exit(t) PROVE WakeInv(s)'
  BY <1>6, <1>a DEF SB!Wake, SB!Exit, SB!streamVars, PlaceTypes
<1>7. ASSUME NEW t \in Subs, SB!Receive(t) \/ SB!Leave(t) PROVE WakeInv(s)'
  BY <1>7 DEF SB!Receive, SB!Leave, SB!streamVars
<1> QED
  BY <1>1, <1>2, <1>3, <1>4, <1>5, <1>6, <1>7 DEF SB!Next, SB!Deliver

(* Nobody sleeps through an event or the end of its stream: the safety that  *)
(* EventsAreDelivered rests on (stream.go 92-126, 186-199).                  *)
THEOREM WakeupsAreKept == SB!ConstantsAssumption /\ SB!Spec => []SB!NoWakeupIsLost
<1>1. SB!Init => \A s \in Subs : WakeInv(s)
  BY DEF SB!Init, WakeInv
<1>2. StreamsInv /\ (\A s \in Subs : WakeInv(s)) /\ [SB!Next]_SB!vars => (\A s \in Subs : WakeInv(s))'
  BY WakeStep
<1>3. (\A s \in Subs : WakeInv(s)) => SB!NoWakeupIsLost
  BY DEF WakeInv, SB!NoWakeupIsLost
<1> QED
  BY <1>1, <1>2, <1>3, StreamsInvariant, PTL DEF SB!Spec

LEMMA InvReads == StreamsInv /\ SB!NoWakeupIsLost => SB!ReadsInOrder
<1> SUFFICES ASSUME StreamsInv, SB!NoWakeupIsLost PROVE SB!ReadsInOrder
  OBVIOUS
<1>1. ASSUME NEW s \in Subs, place[s] # "idle", NEW o \in SB!Owed(s)..(offset[s] - 1), ~(o < lo[obj[s]])
      PROVE  o \in SB!Received(s) \union SB!InTransit(s)
  <2>a. SB!Owed(s) \in Nat /\ SB!OwedNext(s) \in Nat /\ offset[s] \in Nat
    BY SubTypes
  <2>1. CASE o < SB!OwedNext(s)
    <3>1. o \in SB!Owed(s)..(SB!OwedNext(s) - 1)
      BY <2>a, <2>1
    <3>2. \E i \in 1..Len(got[s]) : got[s][i] = o
      BY <1>1, <3>1 DEF StreamsInv, ReaderInv
    <3> QED
      BY <3>2 DEF SB!Received
  <2>2. CASE ~(o < SB!OwedNext(s))
    <3>1. o \in SB!OwedNext(s)..(offset[s] - 1)
      BY <2>a, <2>2
    <3>2. \/ IsEvent(hand[s]) /\ o = hand[s][2]
          \/ \E i \in 1..Len(chan[s]) : IsEvent(chan[s][i]) /\ o = chan[s][i][2]
      BY <1>1, <3>1 DEF StreamsInv, PipeInv
    <3> QED
      BY <3>2 DEF SB!InTransit, SB!Offsets, IsEvent
  <2> QED
    BY <2>1, <2>2
<1>2. SB!OnlyEvictionLoses
  BY <1>1 DEF SB!OnlyEvictionLoses
<1>3. SB!EndIsLast
  BY DEF StreamsInv, EndInv, SB!EndIsLast
<1>4. SB!NoReplay
  <2> SUFFICES ASSUME NEW s \in Subs, last[s][1] = obj[s], NEW o \in SB!Received(s) \union SB!InTransit(s)
               PROVE  o > last[s][2]
    BY DEF SB!NoReplay
  <2>1. last[s][2] \in Nat /\ SB!Owed(s) = last[s][2] + 1 /\ SB!OwedNext(s) \in Nat
    BY SubTypes DEF SB!Owed
  <2>2. place[s] # "idle"
    <3> SUFFICES ASSUME place[s] = "idle" PROVE SB!Received(s) = {} /\ SB!InTransit(s) = {}
      OBVIOUS
    <3>1. chan[s] = <<>> /\ got[s] = <<>> /\ hand[s] = SB!Beat
      BY DEF StreamsInv, PlaceInv
    <3> QED
      BY <3>1 DEF SB!Received, SB!InTransit, SB!Offsets
  <2>3. CASE o \in SB!Received(s)
    <3>1. PICK i \in 1..Len(got[s]) : o = got[s][i]
      BY <2>3 DEF SB!Received
    <3>2. o \in Nat /\ SB!Owed(s) <= o
      BY <2>2, <3>1, SubTypes DEF StreamsInv, ReaderInv
    <3> QED
      BY <2>1, <3>2
  <2>4. CASE o \in SB!InTransit(s)
    <3>1. \/ IsEvent(hand[s]) /\ o = hand[s][2]
          \/ \E i \in 1..Len(chan[s]) : IsEvent(chan[s][i]) /\ o = chan[s][i][2]
      BY <2>4 DEF SB!InTransit, SB!Offsets, IsEvent
    <3>2. o \in Nat /\ SB!OwedNext(s) <= o /\ SB!Owed(s) <= SB!OwedNext(s)
      BY <2>2, <3>1, SubTypes DEF StreamsInv, ReaderInv, PipeInv
    <3> QED
      BY <2>1, <3>2
  <2> QED
    BY <2>3, <2>4
<1> QED
  BY <1>2, <1>3, <1>4 DEF SB!ReadsInOrder, StreamsInv

(* Whatever the worker, deliver, the consumers and the cleanup do, a         *)
(* subscriber misses only what the window has dropped, gets nothing twice    *)
(* and the end last, and is woken for it (stream.go 135-227).                *)
THEOREM ReadersAreServed == SB!ConstantsAssumption /\ SB!Spec => []SB!ReadsInOrder
BY StreamsInvariant, WakeupsAreKept, InvReads, PTL

-----------------------------------------------------------------------------
(* The bridge implements EventLog.                                           *)

Feed == [s \in Subs |-> IF place[s] = "idle" THEN 0 ELSE obj[s]]
NextOwed == [s \in Subs |-> IF place[s] = "idle" THEN 0 ELSE SB!OwedNext(s)]

LEMMA LogInit == SB!Init => SB!Log!Init
BY DEF SB!Init, SB!Log!Init

LEMMA LogStep == StreamsInv /\ StreamsInv' /\ [SB!Next]_SB!vars => [SB!Log!Next]_SB!Log!vars
<1> SUFFICES ASSUME StreamsInv, StreamsInv', [SB!Next]_SB!vars PROVE SB!Log!Next \/ UNCHANGED SB!Log!vars
  OBVIOUS
<1>a. /\ DOMAIN Feed = Subs /\ DOMAIN NextOwed = Subs /\ DOMAIN Feed' = Subs /\ DOMAIN NextOwed' = Subs
      /\ Feed = [t \in Subs |-> Feed[t]] /\ NextOwed = [t \in Subs |-> NextOwed[t]]
      /\ Feed' = [t \in Subs |-> Feed'[t]] /\ NextOwed' = [t \in Subs |-> NextOwed'[t]]
  BY DEF Feed, NextOwed
<1>b. StreamTypes /\ StreamInv /\ SB!ConstantsAssumption
  BY TypeParts DEF StreamsInv
<1>1. CASE SB!Publish
  <2>1. PICK g \in SB!Objects :
          /\ worker = "publishing"
          /\ hi' = [hi EXCEPT ![g] = @ + 1]
          /\ lo' = [lo EXCEPT ![g] = IF hi[g] + 1 - @ > MaxSize THEN hi[g] + 1 - MaxSize ELSE @]
          /\ UNCHANGED <<ended, place, obj, last, from, got, eof>>
    BY <1>1 DEF SB!Publish
  <2> DEFINE new == IF hi[g] + 1 - lo[g] > MaxSize THEN hi[g] + 1 - MaxSize ELSE lo[g]
  <2>2. new \in lo[g]..hi[g] /\ lo' = [lo EXCEPT ![g] = new] /\ ~ended[g]
    BY <1>b, <2>1 DEF StreamTypes, StreamInv, SB!ConstantsAssumption
  <2> HIDE DEF new
  <2>3. UNCHANGED <<Feed, NextOwed>>
    BY <2>1 DEF Feed, NextOwed, SB!OwedNext, SB!Owed
  <2>4. SB!Log!Append(g)
    BY <2>1, <2>2, <2>3 DEF SB!Log!Append, Feed, NextOwed
  <2> QED
    BY <2>4 DEF SB!Log!Next
<1>2. CASE SB!PublishEnd
  <2>1. PICK g \in SB!Objects :
          /\ worker = "publishing" /\ ended' = [ended EXCEPT ![g] = TRUE]
          /\ UNCHANGED <<lo, hi, place, obj, last, from, got, eof>>
    BY <1>2 DEF SB!PublishEnd
  <2>2. ~ended[g]
    BY <1>b, <2>1 DEF StreamInv
  <2>3. UNCHANGED <<Feed, NextOwed>>
    BY <2>1 DEF Feed, NextOwed, SB!OwedNext, SB!Owed
  <2>4. SB!Log!CloseLog(g)
    BY <2>1, <2>2, <2>3 DEF SB!Log!CloseLog, Feed, NextOwed
  <2> QED
    BY <2>4 DEF SB!Log!Next
<1>3. CASE SB!Cleanup \/ SB!Close \/ UNCHANGED SB!vars
  <2>1. UNCHANGED <<lo, hi, ended, place, obj, last, from, got, eof>>
    BY <1>3 DEF SB!Cleanup, SB!Close, SB!vars, SB!subVars, SB!streamVars
  <2>2. UNCHANGED <<Feed, NextOwed>>
    BY <2>1 DEF Feed, NextOwed, SB!OwedNext, SB!Owed
  <2> QED
    BY <2>1, <2>2 DEF SB!Log!vars, Feed, NextOwed
<1>4. ASSUME NEW s \in Subs, SB!Subscribe(s) PROVE SB!Log!Next
  <2>1. PICK g \in SB!Objects :
          /\ place[s] = "idle" /\ place' = [place EXCEPT ![s] = "drain"]
          /\ obj' = [obj EXCEPT ![s] = g]
          /\ \E id \in SB!LastIds : last' = [last EXCEPT ![s] = id]
          /\ \E n : from' = [from EXCEPT ![s] = n]
          /\ UNCHANGED <<lo, hi, ended, got, eof>>
    BY <1>4 DEF SB!Subscribe
  <2>2. place'[s] = "drain" /\ obj'[s] = g
    BY <2>1, TypeParts DEF StreamsInv, PlaceTypes, OffsetTypes
  <2>3. SB!OwedNext(s)' \in 0..hi[g]
    <3>1. /\ place'[s] # "idle" => SB!OwedNext(s)' <= offset'[s] /\ offset'[s] <= hi'[obj'[s]]
                                    /\ SB!Owed(s)' <= SB!OwedNext(s)' /\ SB!Owed(s)' \in Nat
      BY DEF StreamsInv, ReaderInv
    <3>2. got'[s] = <<>>
      BY <2>1 DEF StreamsInv, PlaceInv
    <3>3. SB!OwedNext(s)' = SB!Owed(s)'
      BY <3>2 DEF SB!OwedNext
    <3>4. offset'[s] \in Nat /\ hi[g] \in Nat
      BY <1>b, TypeParts DEF StreamsInv, SB!TypeOK, StreamTypes
    <3>5. SB!Owed(s)' \in Nat /\ SB!Owed(s)' <= offset'[s] /\ offset'[s] <= hi[g]
      BY <2>1, <2>2, <3>1, <3>3
    <3> QED
      BY <3>3, <3>4, <3>5
  <2>4. Feed[s] = 0 /\ Feed'[s] = g /\ NextOwed'[s] = SB!OwedNext(s)'
    BY <2>1, <2>2 DEF Feed, NextOwed
  <2>5. ASSUME NEW t \in Subs, t # s PROVE Feed'[t] = Feed[t] /\ NextOwed'[t] = NextOwed[t]
    BY <2>1, <2>5, TypeParts DEF Feed, NextOwed, SB!OwedNext, SB!Owed, StreamsInv, PlaceTypes,
       OffsetTypes
  <2>6. Feed' = [Feed EXCEPT ![s] = g] /\ NextOwed' = [NextOwed EXCEPT ![s] = SB!OwedNext(s)']
    BY <1>a, <2>4, <2>5
  <2>7. SB!Log!Attach(s, g)
    BY <2>1, <2>3, <2>4, <2>6 DEF SB!Log!Attach, Feed, NextOwed
  <2> QED
    BY <2>7 DEF SB!Log!Next
<1>5. ASSUME NEW s \in Subs, SB!Deliver(s) \/ SB!Tick(s) \/ SB!Leave(s) PROVE UNCHANGED SB!Log!vars
  <2>1. /\ UNCHANGED <<lo, hi, ended, obj, last, from, got, eof>>
        /\ place[s] # "idle" /\ \/ place' = place
                                \/ \E p \in {"drain", "send", "drained", "wait", "exit", "closed"} :
                                     place' = [place EXCEPT ![s] = p]
    BY <1>5 DEF SB!Deliver, SB!Drain, SB!Send, SB!Park, SB!Wake, SB!Exit, SB!Tick, SB!Leave,
       SB!streamVars
  <2>2. \A t \in Subs : place'[t] = "idle" <=> place[t] = "idle"
    BY <2>1, TypeParts DEF StreamsInv, PlaceTypes
  <2>3. UNCHANGED <<Feed, NextOwed>>
    BY <2>1, <2>2 DEF Feed, NextOwed, SB!OwedNext, SB!Owed
  <2> QED
    BY <2>1, <2>3 DEF SB!Log!vars, Feed, NextOwed
<1>6. ASSUME NEW s \in Subs, SB!Receive(s) PROVE SB!Log!Next \/ UNCHANGED SB!Log!vars
  <2> DEFINE e == Head(chan[s])
  <2>1. /\ place[s] # "idle" /\ s \notin eof
        /\ IsEvent(e) => /\ e[2] \in SB!OwedNext(s)..(offset[s] - 1)
                         /\ \A k \in SB!OwedNext(s)..(e[2] - 1) : k < lo[obj[s]]
        /\ e = SB!End => /\ ended[obj[s]] /\ offset[s] = hi[obj[s]]
                      /\ \A k \in SB!OwedNext(s)..(offset[s] - 1) : k < lo[obj[s]]
    BY <1>6, HeadIsNext
  <2>2. /\ UNCHANGED <<lo, hi, ended, place, obj, last, from>>
        /\ got' = IF IsEvent(e) THEN [got EXCEPT ![s] = Append(@, e[2])] ELSE got
        /\ eof' = IF e = SB!End THEN eof \union {s} ELSE eof
    BY <1>6 DEF SB!Receive, IsEvent, SB!streamVars
  <2>3. Feed[s] = obj[s] /\ NextOwed[s] = SB!OwedNext(s) /\ obj[s] \in SB!Objects /\ obj[s] # 0 /\ UNCHANGED Feed
    BY <2>1, <2>2, SubTypes DEF Feed, NextOwed, SB!Objects
  <2>4. offset[s] \in Nat /\ offset[s] <= hi[obj[s]] /\ hi[obj[s]] \in Nat /\ SB!OwedNext(s) \in Nat
    BY <2>1, SubTypes DEF StreamsInv, ReaderInv
  <2> HIDE DEF e
  <2>5. CASE IsEvent(e)
    <3>1. e # SB!End /\ got' = [got EXCEPT ![s] = Append(@, e[2])]
      BY <2>2, <2>5 DEF IsEvent
    <3>2. /\ got'[s] = Append(got[s], e[2]) /\ \A t \in Subs : t # s => got'[t] = got[t]
          /\ got[s] \in Seq(0..MaxEvents) /\ e[2] \in 0..MaxEvents
      <4>1. e[2] \in 0..MaxEvents
        <5>1. hi[obj[s]] <= MaxEvents /\ MaxEvents \in Nat
          BY SubTypes DEF StreamsInv, SB!ConstantsAssumption
        <5> QED
          BY <2>1, <2>4, <2>5, <5>1
      <4> QED
        BY <3>1, <4>1, SubTypes, TypeParts DEF StreamsInv, PipeTypes
    <3>3. /\ Len(got'[s]) = Len(got[s]) + 1 /\ got'[s][Len(got[s]) + 1] = e[2]
          /\ Len(got[s]) \in Nat
      BY <3>2, AppendProperties, LenProperties
    <3>4. SB!OwedNext(s)' = e[2] + 1
      <4>1. got'[s] # <<>>
        BY <3>3
      <4> QED
        BY <3>3, <4>1 DEF SB!OwedNext
    <3>5. NextOwed'[s] = e[2] + 1 /\ \A t \in Subs : t # s => NextOwed'[t] = NextOwed[t]
      BY <2>1, <2>2, <3>2, <3>4 DEF NextOwed, SB!OwedNext, SB!Owed
    <3>6. NextOwed' = [NextOwed EXCEPT ![s] = e[2] + 1]
      BY <1>a, <3>5
    <3>7. e[2] \in NextOwed[s]..(hi[Feed[s]] - 1) /\ \A k \in NextOwed[s]..(e[2] - 1) : k < lo[Feed[s]]
      BY <2>1, <2>3, <2>4, <2>5
    <3>8. SB!Log!Read(s)
      BY <2>1, <2>2, <2>3, <3>1, <3>6, <3>7 DEF SB!Log!Read, SB!Log!Dropped, Feed, NextOwed
    <3> QED
      BY <3>8 DEF SB!Log!Next
  <2>6. CASE e = SB!End
    <3>1. got' = got /\ eof' = eof \union {s}
      BY <2>2, <2>6 DEF IsEvent
    <3>2. UNCHANGED NextOwed
      BY <2>2, <3>1 DEF NextOwed, SB!OwedNext, SB!Owed
    <3>3. SB!Log!Finish(s)
      BY <2>1, <2>2, <2>3, <2>6, <3>1, <3>2 DEF SB!Log!Finish, SB!Log!Dropped, Feed, NextOwed
    <3> QED
      BY <3>3 DEF SB!Log!Next
  <2>7. CASE ~IsEvent(e) /\ e # SB!End
    <3>1. UNCHANGED <<lo, hi, ended, place, obj, last, from, got, eof>>
      BY <2>2, <2>7
    <3>2. UNCHANGED <<Feed, NextOwed>>
      BY <3>1 DEF Feed, NextOwed, SB!OwedNext, SB!Owed
    <3> QED
      BY <3>1, <3>2 DEF SB!Log!vars, Feed, NextOwed
  <2> QED
    BY <2>5, <2>6, <2>7
<1> QED
  BY <1>1, <1>2, <1>3, <1>4, <1>5, <1>6 DEF SB!Next

(* Seen from outside, deliver, its channels and the window are a reader of   *)
(* an append-only log that retains a suffix: each step of the bridge is a    *)
(* step of EventLog or none (stream.go 100-250).                             *)
THEOREM BridgeImplementsLog == SB!ConstantsAssumption /\ SB!Spec => SB!ImplementsEventLog
<1>1. SB!Init => SB!Log!Init
  BY LogInit
<1>2. StreamsInv /\ StreamsInv' /\ [SB!Next]_SB!vars => [SB!Log!Next]_SB!Log!vars
  BY LogStep
<1> QED
  BY <1>1, <1>2, StreamsInvariant, PTL DEF SB!Spec, SB!ImplementsEventLog, SB!Log!Spec

-----------------------------------------------------------------------------
(* The runs.                                                                 *)

USE ConstantsAssumption

(* What FinalStatusSticks says of one step. *)
Sticks ==
  \A r \in Runs : mem[r] \in {"success", "error"} => mem'[r] \in {mem[r], "absent"}

(* Every step preserves the type invariant. *)
LEMMA TypeStep == TypeOK /\ OutcomeInv /\ [Next]_vars => TypeOK'
<1> SUFFICES ASSUME TypeOK, OutcomeInv, [Next]_vars PROVE TypeOK'
  OBVIOUS
<1> USE DEF TypeOK, OutcomeInv, recordVars, workerVars, turnVars, storeVars, procVars,
            Inflight, Terminal, Status, PC, Early, Opening, Turn, Settle, Outcome, Events
<1>1. ASSUME NEW r \in Runs, CreateReject(r) PROVE TypeOK'
  BY <1>1 DEF CreateReject, Insert
<1>2. ASSUME NEW r \in Runs, NEW s \in Actions, CreateReplacing(r, s) PROVE TypeOK'
  BY <1>2 DEF CreateReplacing, Insert, AbortAll
<1>3. ASSUME NEW r \in Runs, CreateFails(r) PROVE TypeOK'
  BY <1>3 DEF CreateFails
<1>4. ASSUME NEW r \in Runs, Create(r) PROVE TypeOK'
  BY <1>4 DEF Create, Insert
<1>5. ASSUME NEW r \in Runs, NEW s \in Actions, Cancel(r, s) PROVE TypeOK'
  BY <1>5 DEF Cancel, AbortAll
<1>6. ASSUME NEW r \in Runs, Start(r) PROVE TypeOK'
  BY <1>6 DEF Start, Goto
<1>7. ASSUME NEW r \in Runs, Check(r) PROVE TypeOK'
  BY <1>7 DEF Check, Goto
<1>8. ASSUME NEW r \in Runs, EarlyStatus(r) PROVE TypeOK'
  BY <1>8 DEF EarlyStatus, SetMemory, Goto
<1>9. ASSUME NEW r \in Runs, MarkRunning(r) PROVE TypeOK'
  BY <1>9 DEF MarkRunning, SetMemory, Goto
<1>10. ASSUME NEW r \in Runs, StoreStatus(r) PROVE TypeOK'
  <2>1. /\ store' \in [Runs -> Status \union {"absent"}]
        /\ faults' \in 0 .. MaxFaults
    BY <1>10 DEF StoreStatus, UpdateStatus, Final
  <2>2. \E p \in {"end", "snapshot", "after"} : pc' = [pc EXCEPT ![r] = p]
    BY <1>10 DEF StoreStatus, Goto
  <2>3. UNCHANGED <<recordVars, out, steps, preRun, header, prev, turnVars, late, procVars>>
    BY <1>10 DEF StoreStatus
  <2> QED
    BY <2>1, <2>2, <2>3
<1>11. ASSUME NEW r \in Runs, Snapshot(r) PROVE TypeOK'
  BY <1>11 DEF Snapshot, Publish, Goto, Meet, Rivals
<1>12. ASSUME NEW r \in Runs, ReadMessages(r) PROVE TypeOK'
  BY <1>12 DEF ReadMessages, Goto
<1>13. ASSUME NEW r \in Runs, AppendUser(r) PROVE TypeOK'
  BY <1>13 DEF AppendUser, WriteMessages, Goto
<1>14. ASSUME NEW r \in Runs, AppendStep(r) PROVE TypeOK'
  BY <1>14 DEF AppendStep, WriteMessages, Notify, Publish, Goto
<1>15. ASSUME NEW r \in Runs, Step(r) PROVE TypeOK'
  <2>1. steps' \in [Runs -> 0..MaxSteps]
    <3>1. steps[r] \in 0..MaxSteps /\ MaxSteps \in Nat
      OBVIOUS
    <3>2. steps[r] + 1 \in 0..MaxSteps
      BY <1>15, <3>1 DEF Step
    <3> QED
      BY <1>15, <3>2 DEF Step
  <2>2. /\ pc' \in [Runs -> PC] /\ out' \in [Runs -> Outcome]
        /\ UNCHANGED <<recordVars, preRun, header, prev, turnVars, storeVars, procVars>>
    <3>1. CASE \E o \in {"more", "success"} : out' = [out EXCEPT ![r] = o] /\ Goto(r, "read")
      BY <1>15, <3>1 DEF Step, Goto
    <3>2. CASE out' = [out EXCEPT ![r] = "error"] /\ Goto(r, "settle")
      BY <1>15, <3>2 DEF Step, Goto
    <3> QED
      BY <1>15, <3>1, <3>2 DEF Step
  <2> QED
    BY <2>1, <2>2
<1>16. ASSUME NEW r \in Runs, StepFails(r) PROVE TypeOK'
  BY <1>16 DEF StepFails, Goto
<1>17. ASSUME NEW r \in Runs, Decide(r) PROVE TypeOK'
  BY <1>17 DEF Decide, Goto
<1>18. ASSUME NEW r \in Runs, SetFinal(r) PROVE TypeOK'
  BY <1>18 DEF SetFinal, SetMemory, Final, Goto
<1>19. ASSUME NEW r \in Runs, After(r) PROVE TypeOK'
  <2>1. messages' \in [Threads -> SUBSET Runs]
    BY <1>19 DEF After
  <2>2. stream' \in [Runs -> SUBSET Events]
    BY <1>19 DEF After, Publish
  <2> QED
    BY <1>19, <2>1, <2>2 DEF After, Goto
<1>20. ASSUME NEW r \in Runs, PublishEnd(r) PROVE TypeOK'
  BY <1>20 DEF PublishEnd, Publish, Goto
<1>21. ASSUME NEW r \in Runs, BridgeAbort(r) PROVE TypeOK'
  BY <1>21 DEF BridgeAbort
<1>22. ASSUME NEW r \in Runs, LateWrite(r) PROVE TypeOK'
  BY <1>22 DEF LateWrite, UpdateStatus
<1>23. ASSUME Shutdown PROVE TypeOK'
  BY <1>23 DEF Shutdown, AbortAll
<1>24. ASSUME ReconcileList PROVE TypeOK'
  BY <1>24 DEF ReconcileList
<1>25. ASSUME ReconcileDone PROVE TypeOK'
  BY <1>25 DEF ReconcileDone
<1>26. ASSUME NEW r \in Runs, ReconcileCheck(r) PROVE TypeOK'
  BY <1>26 DEF ReconcileCheck
<1>27. ASSUME NEW r \in Runs, ReconcileMark(r) PROVE TypeOK'
  BY <1>27 DEF ReconcileMark, UpdateStatus
<1>28. ASSUME Restart PROVE TypeOK'
  BY <1>28 DEF Restart
<1>29. CASE UNCHANGED vars
  BY <1>29 DEF vars
<1> QED
  BY <1>1, <1>2, <1>3, <1>4, <1>5, <1>6, <1>7, <1>8, <1>9, <1>10, <1>11,
     <1>12, <1>13, <1>14, <1>15, <1>16, <1>17, <1>18, <1>19, <1>20, <1>21,
     <1>22, <1>23, <1>24, <1>25, <1>26, <1>27, <1>28, <1>29
     DEF Next, Request, Worker, Reconcile

(* What is known of an outcome at each position is preserved. *)
LEMMA OutcomeStep == TypeOK /\ OutcomeInv /\ [Next]_vars => OutcomeInv'
<1> SUFFICES ASSUME TypeOK, OutcomeInv, [Next]_vars PROVE OutcomeInv'
  OBVIOUS
<1> USE DEF TypeOK, OutcomeInv, recordVars, workerVars, turnVars, storeVars, procVars,
            Inflight, Terminal, Status, PC, Early, Opening, Turn, Settle, Outcome
<1>1. ASSUME NEW r \in Runs, CreateReject(r) PROVE OutcomeInv'
  BY <1>1 DEF CreateReject, Insert
<1>2. ASSUME NEW r \in Runs, NEW s \in Actions, CreateReplacing(r, s) PROVE OutcomeInv'
  BY <1>2 DEF CreateReplacing, Insert, AbortAll
<1>3. ASSUME NEW r \in Runs, CreateFails(r) PROVE OutcomeInv'
  BY <1>3 DEF CreateFails
<1>4. ASSUME NEW r \in Runs, Create(r) PROVE OutcomeInv'
  BY <1>4 DEF Create, Insert
<1>5. ASSUME NEW r \in Runs, NEW s \in Actions, Cancel(r, s) PROVE OutcomeInv'
  BY <1>5 DEF Cancel, AbortAll
<1>6. ASSUME NEW r \in Runs, Start(r) PROVE OutcomeInv'
  BY <1>6 DEF Start, Goto
<1>7. ASSUME NEW r \in Runs, Check(r) PROVE OutcomeInv'
  BY <1>7 DEF Check, Goto
<1>8. ASSUME NEW r \in Runs, EarlyStatus(r) PROVE OutcomeInv'
  BY <1>8 DEF EarlyStatus, SetMemory, Goto
<1>9. ASSUME NEW r \in Runs, MarkRunning(r) PROVE OutcomeInv'
  BY <1>9 DEF MarkRunning, SetMemory, Goto
<1>10. ASSUME NEW r \in Runs, StoreStatus(r) PROVE OutcomeInv'
  BY <1>10 DEF StoreStatus, UpdateStatus, Final, Goto
<1>11. ASSUME NEW r \in Runs, Snapshot(r) PROVE OutcomeInv'
  BY <1>11 DEF Snapshot, Publish, Goto
<1>12. ASSUME NEW r \in Runs, ReadMessages(r) PROVE OutcomeInv'
  BY <1>12 DEF ReadMessages, Goto
<1>13. ASSUME NEW r \in Runs, AppendUser(r) PROVE OutcomeInv'
  BY <1>13 DEF AppendUser, WriteMessages, Goto
<1>14. ASSUME NEW r \in Runs, AppendStep(r) PROVE OutcomeInv'
  BY <1>14 DEF AppendStep, WriteMessages, Notify, Publish, Goto
<1>15. ASSUME NEW r \in Runs, Step(r) PROVE OutcomeInv'
  BY <1>15 DEF Step, Goto
<1>16. ASSUME NEW r \in Runs, StepFails(r) PROVE OutcomeInv'
  BY <1>16 DEF StepFails, Goto
<1>17. ASSUME NEW r \in Runs, Decide(r) PROVE OutcomeInv'
  BY <1>17 DEF Decide, Goto
<1>18. ASSUME NEW r \in Runs, SetFinal(r) PROVE OutcomeInv'
  BY <1>18 DEF SetFinal, SetMemory, Final, Goto
<1>19. ASSUME NEW r \in Runs, After(r) PROVE OutcomeInv'
  BY <1>19 DEF After, Publish, Goto
<1>20. ASSUME NEW r \in Runs, PublishEnd(r) PROVE OutcomeInv'
  BY <1>20 DEF PublishEnd, Publish, Goto
<1>21. ASSUME NEW r \in Runs, BridgeAbort(r) PROVE OutcomeInv'
  BY <1>21 DEF BridgeAbort
<1>22. ASSUME NEW r \in Runs, LateWrite(r) PROVE OutcomeInv'
  BY <1>22 DEF LateWrite, UpdateStatus
<1>23. ASSUME Shutdown PROVE OutcomeInv'
  BY <1>23 DEF Shutdown, AbortAll
<1>24. ASSUME ReconcileList PROVE OutcomeInv'
  BY <1>24 DEF ReconcileList
<1>25. ASSUME ReconcileDone PROVE OutcomeInv'
  BY <1>25 DEF ReconcileDone
<1>26. ASSUME NEW r \in Runs, ReconcileCheck(r) PROVE OutcomeInv'
  BY <1>26 DEF ReconcileCheck
<1>27. ASSUME NEW r \in Runs, ReconcileMark(r) PROVE OutcomeInv'
  BY <1>27 DEF ReconcileMark, UpdateStatus
<1>28. ASSUME Restart PROVE OutcomeInv'
  BY <1>28 DEF Restart
<1>29. CASE UNCHANGED vars
  BY <1>29 DEF vars
<1> QED
  BY <1>1, <1>2, <1>3, <1>4, <1>5, <1>6, <1>7, <1>8, <1>9, <1>10, <1>11,
     <1>12, <1>13, <1>14, <1>15, <1>16, <1>17, <1>18, <1>19, <1>20, <1>21,
     <1>22, <1>23, <1>24, <1>25, <1>26, <1>27, <1>28, <1>29
     DEF Next, Request, Worker, Reconcile

(* What is known of a record at each position is preserved. *)
LEMMA RecordStep == TypeOK /\ OutcomeInv /\ RecordInv /\ [Next]_vars => RecordInv'
<1> SUFFICES ASSUME TypeOK, OutcomeInv, RecordInv, [Next]_vars PROVE RecordInv'
  OBVIOUS
<1> USE DEF TypeOK, OutcomeInv, RecordInv, recordVars, workerVars, turnVars, storeVars, procVars,
            Inflight, Terminal, Status, PC, Early, Opening, Turn, Settle, Outcome
<1>1. ASSUME NEW r \in Runs, CreateReject(r) PROVE RecordInv'
  BY <1>1 DEF CreateReject, Insert
<1>2. ASSUME NEW r \in Runs, NEW s \in Actions, CreateReplacing(r, s) PROVE RecordInv'
  <2>1. /\ pc' = [pc EXCEPT ![r] = "idle"]
        /\ mem'[r] = "pending"
        /\ \A q \in Runs : aborted[q] => aborted'[q]
        /\ \A q \in Runs \ {r} :
             mem'[q] = mem[q] \/ (mem'[q] = "interrupted" /\ aborted'[q])
    BY <1>2 DEF CreateReplacing, Insert, AbortAll
  <2> QED
    BY <2>1
<1>3. ASSUME NEW r \in Runs, CreateFails(r) PROVE RecordInv'
  BY <1>3 DEF CreateFails
<1>4. ASSUME NEW r \in Runs, Create(r) PROVE RecordInv'
  BY <1>4 DEF Create, Insert
<1>5. ASSUME NEW r \in Runs, NEW s \in Actions, Cancel(r, s) PROVE RecordInv'
  <2>1. pc' = pc
    BY <1>5 DEF Cancel
  <2>2. mem'[r] = "interrupted" /\ \A q \in Runs \ {r} : mem'[q] = mem[q]
    BY <1>5 DEF Cancel
  <2>3. aborted'[r] /\ \A q \in Runs : aborted[q] => aborted'[q]
    BY <1>5 DEF Cancel, AbortAll
  <2> QED
    BY <2>1, <2>2, <2>3
<1>6. ASSUME NEW r \in Runs, Start(r) PROVE RecordInv'
  BY <1>6 DEF Start, Goto
<1>7. ASSUME NEW r \in Runs, Check(r) PROVE RecordInv'
  BY <1>7 DEF Check, Goto
<1>8. ASSUME NEW r \in Runs, EarlyStatus(r) PROVE RecordInv'
  BY <1>8 DEF EarlyStatus, SetMemory, Goto
<1>9. ASSUME NEW r \in Runs, MarkRunning(r) PROVE RecordInv'
  BY <1>9 DEF MarkRunning, SetMemory, Goto
<1>10. ASSUME NEW r \in Runs, StoreStatus(r) PROVE RecordInv'
  <2>1. UNCHANGED <<mem, aborted>>
    BY <1>10 DEF StoreStatus
  <2>2. \/ pc[r] = "early_store" /\ pc' = [pc EXCEPT ![r] = "end"]
        \/ pc[r] = "mark_store" /\ pc' = [pc EXCEPT ![r] = "snapshot"]
        \/ pc[r] = "set_store" /\ pc' = [pc EXCEPT ![r] = "after"]
    BY <1>10 DEF StoreStatus, Goto
  <2> QED
    BY <2>1, <2>2
<1>11. ASSUME NEW r \in Runs, Snapshot(r) PROVE RecordInv'
  BY <1>11 DEF Snapshot, Publish, Goto
<1>12. ASSUME NEW r \in Runs, ReadMessages(r) PROVE RecordInv'
  BY <1>12 DEF ReadMessages, Goto
<1>13. ASSUME NEW r \in Runs, AppendUser(r) PROVE RecordInv'
  BY <1>13 DEF AppendUser, WriteMessages, Goto
<1>14. ASSUME NEW r \in Runs, AppendStep(r) PROVE RecordInv'
  BY <1>14 DEF AppendStep, WriteMessages, Notify, Publish, Goto
<1>15. ASSUME NEW r \in Runs, Step(r) PROVE RecordInv'
  BY <1>15, SMTT(20) DEF Step, Goto
<1>16. ASSUME NEW r \in Runs, StepFails(r) PROVE RecordInv'
  BY <1>16 DEF StepFails, Goto
<1>17. ASSUME NEW r \in Runs, Decide(r) PROVE RecordInv'
  BY <1>17 DEF Decide, Goto
<1>18. ASSUME NEW r \in Runs, SetFinal(r) PROVE RecordInv'
  BY <1>18 DEF SetFinal, SetMemory, Final, Goto
<1>19. ASSUME NEW r \in Runs, After(r) PROVE RecordInv'
  BY <1>19 DEF After, Publish, Goto
<1>20. ASSUME NEW r \in Runs, PublishEnd(r) PROVE RecordInv'
  BY <1>20 DEF PublishEnd, Publish, Goto
<1>21. ASSUME NEW r \in Runs, BridgeAbort(r) PROVE RecordInv'
  BY <1>21 DEF BridgeAbort
<1>22. ASSUME NEW r \in Runs, LateWrite(r) PROVE RecordInv'
  BY <1>22 DEF LateWrite, UpdateStatus
<1>23. ASSUME Shutdown PROVE RecordInv'
  BY <1>23 DEF Shutdown, AbortAll
<1>24. ASSUME ReconcileList PROVE RecordInv'
  BY <1>24 DEF ReconcileList
<1>25. ASSUME ReconcileDone PROVE RecordInv'
  BY <1>25 DEF ReconcileDone
<1>26. ASSUME NEW r \in Runs, ReconcileCheck(r) PROVE RecordInv'
  BY <1>26 DEF ReconcileCheck
<1>27. ASSUME NEW r \in Runs, ReconcileMark(r) PROVE RecordInv'
  BY <1>27 DEF ReconcileMark, UpdateStatus
<1>28. ASSUME Restart PROVE RecordInv'
  BY <1>28 DEF Restart
<1>29. CASE UNCHANGED vars
  BY <1>29 DEF vars
<1> QED
  BY <1>1, <1>2, <1>3, <1>4, <1>5, <1>6, <1>7, <1>8, <1>9, <1>10, <1>11,
     <1>12, <1>13, <1>14, <1>15, <1>16, <1>17, <1>18, <1>19, <1>20, <1>21,
     <1>22, <1>23, <1>24, <1>25, <1>26, <1>27, <1>28, <1>29
     DEF Next, Request, Worker, Reconcile

(* What is known of a row at each position is preserved. *)
LEMMA StoreStep == TypeOK /\ OutcomeInv /\ StoreInv /\ [Next]_vars => StoreInv'
<1> SUFFICES ASSUME TypeOK, OutcomeInv, StoreInv, [Next]_vars PROVE StoreInv'
  OBVIOUS
<1> USE DEF TypeOK, OutcomeInv, StoreInv, recordVars, workerVars, turnVars, storeVars, procVars,
            Inflight, Terminal, Status, PC, Early, Opening, Turn, Settle, Outcome
<1>1. ASSUME NEW r \in Runs, CreateReject(r) PROVE StoreInv'
  BY <1>1 DEF CreateReject, Insert
<1>2. ASSUME NEW r \in Runs, NEW s \in Actions, CreateReplacing(r, s) PROVE StoreInv'
  BY <1>2 DEF CreateReplacing, Insert, AbortAll
<1>3. ASSUME NEW r \in Runs, CreateFails(r) PROVE StoreInv'
  BY <1>3 DEF CreateFails
<1>4. ASSUME NEW r \in Runs, Create(r) PROVE StoreInv'
  BY <1>4 DEF Create, Insert
<1>5. ASSUME NEW r \in Runs, NEW s \in Actions, Cancel(r, s) PROVE StoreInv'
  BY <1>5 DEF Cancel, AbortAll
<1>6. ASSUME NEW r \in Runs, Start(r) PROVE StoreInv'
  BY <1>6 DEF Start, Goto
<1>7. ASSUME NEW r \in Runs, Check(r) PROVE StoreInv'
  BY <1>7 DEF Check, Goto
<1>8. ASSUME NEW r \in Runs, EarlyStatus(r) PROVE StoreInv'
  BY <1>8 DEF EarlyStatus, SetMemory, Goto
<1>9. ASSUME NEW r \in Runs, MarkRunning(r) PROVE StoreInv'
  BY <1>9 DEF MarkRunning, SetMemory, Goto
<1>10. ASSUME NEW r \in Runs, StoreStatus(r) PROVE StoreInv'
  BY <1>10 DEF StoreStatus, UpdateStatus, Final, Goto
<1>11. ASSUME NEW r \in Runs, Snapshot(r) PROVE StoreInv'
  BY <1>11 DEF Snapshot, Publish, Goto
<1>12. ASSUME NEW r \in Runs, ReadMessages(r) PROVE StoreInv'
  BY <1>12 DEF ReadMessages, Goto
<1>13. ASSUME NEW r \in Runs, AppendUser(r) PROVE StoreInv'
  BY <1>13 DEF AppendUser, WriteMessages, Goto
<1>14. ASSUME NEW r \in Runs, AppendStep(r) PROVE StoreInv'
  BY <1>14 DEF AppendStep, WriteMessages, Notify, Publish, Goto
<1>15. ASSUME NEW r \in Runs, Step(r) PROVE StoreInv'
  BY <1>15 DEF Step, Goto
<1>16. ASSUME NEW r \in Runs, StepFails(r) PROVE StoreInv'
  BY <1>16 DEF StepFails, Goto
<1>17. ASSUME NEW r \in Runs, Decide(r) PROVE StoreInv'
  BY <1>17 DEF Decide, Goto
<1>18. ASSUME NEW r \in Runs, SetFinal(r) PROVE StoreInv'
  BY <1>18 DEF SetFinal, SetMemory, Final, Goto
<1>19. ASSUME NEW r \in Runs, After(r) PROVE StoreInv'
  BY <1>19 DEF After, Publish, Goto
<1>20. ASSUME NEW r \in Runs, PublishEnd(r) PROVE StoreInv'
  BY <1>20 DEF PublishEnd, Publish, Goto
<1>21. ASSUME NEW r \in Runs, BridgeAbort(r) PROVE StoreInv'
  BY <1>21 DEF BridgeAbort
<1>22. ASSUME NEW r \in Runs, LateWrite(r) PROVE StoreInv'
  BY <1>22 DEF LateWrite, UpdateStatus
<1>23. ASSUME Shutdown PROVE StoreInv'
  BY <1>23 DEF Shutdown, AbortAll
<1>24. ASSUME ReconcileList PROVE StoreInv'
  BY <1>24 DEF ReconcileList
<1>25. ASSUME ReconcileDone PROVE StoreInv'
  BY <1>25 DEF ReconcileDone
<1>26. ASSUME NEW r \in Runs, ReconcileCheck(r) PROVE StoreInv'
  BY <1>26 DEF ReconcileCheck
<1>27. ASSUME NEW r \in Runs, ReconcileMark(r) PROVE StoreInv'
  BY <1>27 DEF ReconcileMark, UpdateStatus
<1>28. ASSUME Restart PROVE StoreInv'
  BY <1>28 DEF Restart
<1>29. CASE UNCHANGED vars
  BY <1>29 DEF vars
<1> QED
  BY <1>1, <1>2, <1>3, <1>4, <1>5, <1>6, <1>7, <1>8, <1>9, <1>10, <1>11,
     <1>12, <1>13, <1>14, <1>15, <1>16, <1>17, <1>18, <1>19, <1>20, <1>21,
     <1>22, <1>23, <1>24, <1>25, <1>26, <1>27, <1>28, <1>29
     DEF Next, Request, Worker, Reconcile

(* A step leaves at most one run of a thread inflight and not aborted. *)
LEMMA LiveStep == TypeOK /\ OutcomeInv /\ RecordInv /\ AtMostOneLive /\ [Next]_vars => AtMostOneLive'
<1> SUFFICES ASSUME TypeOK, OutcomeInv, RecordInv, AtMostOneLive, [Next]_vars PROVE AtMostOneLive'
  OBVIOUS
<1> USE DEF TypeOK, OutcomeInv, RecordInv, AtMostOneLive, recordVars, workerVars, turnVars, storeVars, procVars,
            Inflight, Terminal, Status, PC, Early, Opening, Turn, Settle, Outcome
<1>1. ASSUME NEW r \in Runs, CreateReject(r) PROVE AtMostOneLive'
  BY <1>1 DEF CreateReject, Insert, ThreadInflight
<1>2. ASSUME NEW r \in Runs, NEW s \in Actions, CreateReplacing(r, s) PROVE AtMostOneLive'
  <2> DEFINE hit == ThreadInflight(thread[r])
  <2>1. \A q \in hit : q # r => mem'[q] = "interrupted"
    BY <1>2 DEF CreateReplacing, Insert, ThreadInflight
  <2>2. \A q \in Runs : q \notin hit /\ q # r => mem'[q] = mem[q] /\ aborted'[q] = aborted[q]
    BY <1>2 DEF CreateReplacing, Insert, AbortAll, ThreadInflight
  <2>3. thread' = thread
    BY <1>2 DEF CreateReplacing, Insert
  <2>4. \A q \in Runs : thread[q] = thread[r] /\ mem'[q] \in Inflight => q = r
    BY <2>1, <2>2 DEF ThreadInflight
  <2> QED
    BY <2>1, <2>2, <2>3, <2>4
<1>3. ASSUME NEW r \in Runs, CreateFails(r) PROVE AtMostOneLive'
  BY <1>3 DEF CreateFails
<1>4. ASSUME NEW r \in Runs, Create(r) PROVE AtMostOneLive'
  BY <1>4 DEF Create, Insert
<1>5. ASSUME NEW r \in Runs, NEW s \in Actions, Cancel(r, s) PROVE AtMostOneLive'
  BY <1>5 DEF Cancel, AbortAll
<1>6. ASSUME NEW r \in Runs, Start(r) PROVE AtMostOneLive'
  BY <1>6 DEF Start, Goto
<1>7. ASSUME NEW r \in Runs, Check(r) PROVE AtMostOneLive'
  BY <1>7 DEF Check, Goto
<1>8. ASSUME NEW r \in Runs, EarlyStatus(r) PROVE AtMostOneLive'
  BY <1>8 DEF EarlyStatus, SetMemory, Goto
<1>9. ASSUME NEW r \in Runs, MarkRunning(r) PROVE AtMostOneLive'
  BY <1>9 DEF MarkRunning, SetMemory, Goto
<1>10. ASSUME NEW r \in Runs, StoreStatus(r) PROVE AtMostOneLive'
  BY <1>10 DEF StoreStatus, UpdateStatus, Final, Goto
<1>11. ASSUME NEW r \in Runs, Snapshot(r) PROVE AtMostOneLive'
  BY <1>11 DEF Snapshot, Publish, Goto
<1>12. ASSUME NEW r \in Runs, ReadMessages(r) PROVE AtMostOneLive'
  BY <1>12 DEF ReadMessages, Goto
<1>13. ASSUME NEW r \in Runs, AppendUser(r) PROVE AtMostOneLive'
  BY <1>13 DEF AppendUser, WriteMessages, Goto
<1>14. ASSUME NEW r \in Runs, AppendStep(r) PROVE AtMostOneLive'
  BY <1>14 DEF AppendStep, WriteMessages, Notify, Publish, Goto
<1>15. ASSUME NEW r \in Runs, Step(r) PROVE AtMostOneLive'
  BY <1>15 DEF Step, Goto
<1>16. ASSUME NEW r \in Runs, StepFails(r) PROVE AtMostOneLive'
  BY <1>16 DEF StepFails, Goto
<1>17. ASSUME NEW r \in Runs, Decide(r) PROVE AtMostOneLive'
  BY <1>17 DEF Decide, Goto
<1>18. ASSUME NEW r \in Runs, SetFinal(r) PROVE AtMostOneLive'
  BY <1>18, SMTT(20) DEF SetFinal, SetMemory, Final, Goto
<1>19. ASSUME NEW r \in Runs, After(r) PROVE AtMostOneLive'
  BY <1>19 DEF After, Publish, Goto
<1>20. ASSUME NEW r \in Runs, PublishEnd(r) PROVE AtMostOneLive'
  BY <1>20 DEF PublishEnd, Publish, Goto
<1>21. ASSUME NEW r \in Runs, BridgeAbort(r) PROVE AtMostOneLive'
  BY <1>21 DEF BridgeAbort
<1>22. ASSUME NEW r \in Runs, LateWrite(r) PROVE AtMostOneLive'
  BY <1>22 DEF LateWrite, UpdateStatus
<1>23. ASSUME Shutdown PROVE AtMostOneLive'
  BY <1>23 DEF Shutdown, AbortAll
<1>24. ASSUME ReconcileList PROVE AtMostOneLive'
  BY <1>24 DEF ReconcileList
<1>25. ASSUME ReconcileDone PROVE AtMostOneLive'
  BY <1>25 DEF ReconcileDone
<1>26. ASSUME NEW r \in Runs, ReconcileCheck(r) PROVE AtMostOneLive'
  BY <1>26 DEF ReconcileCheck
<1>27. ASSUME NEW r \in Runs, ReconcileMark(r) PROVE AtMostOneLive'
  BY <1>27 DEF ReconcileMark, UpdateStatus
<1>28. ASSUME Restart PROVE AtMostOneLive'
  BY <1>28 DEF Restart
<1>29. CASE UNCHANGED vars
  BY <1>29 DEF vars
<1> QED
  BY <1>1, <1>2, <1>3, <1>4, <1>5, <1>6, <1>7, <1>8, <1>9, <1>10, <1>11,
     <1>12, <1>13, <1>14, <1>15, <1>16, <1>17, <1>18, <1>19, <1>20, <1>21,
     <1>22, <1>23, <1>24, <1>25, <1>26, <1>27, <1>28, <1>29
     DEF Next, Request, Worker, Reconcile

(* A step leaves a final status alone. *)
LEMMA StickStep == TypeOK /\ OutcomeInv /\ RecordInv /\ [Next]_vars => Sticks
<1> SUFFICES ASSUME TypeOK, OutcomeInv, RecordInv, [Next]_vars PROVE Sticks
  OBVIOUS
<1> USE DEF TypeOK, OutcomeInv, RecordInv, Sticks, recordVars, workerVars, turnVars, storeVars, procVars,
            Inflight, Terminal, Status, PC, Early, Opening, Turn, Settle, Outcome
<1>1. ASSUME NEW r \in Runs, CreateReject(r) PROVE Sticks
  BY <1>1 DEF CreateReject, Insert, Fresh
<1>2. ASSUME NEW r \in Runs, NEW s \in Actions, CreateReplacing(r, s) PROVE Sticks
  BY <1>2 DEF CreateReplacing, Insert, Fresh, ThreadInflight
<1>3. ASSUME NEW r \in Runs, CreateFails(r) PROVE Sticks
  BY <1>3 DEF CreateFails
<1>4. ASSUME NEW r \in Runs, Create(r) PROVE Sticks
  BY <1>4 DEF Create, Insert, Fresh
<1>5. ASSUME NEW r \in Runs, NEW s \in Actions, Cancel(r, s) PROVE Sticks
  BY <1>5 DEF Cancel, AbortAll
<1>6. ASSUME NEW r \in Runs, Start(r) PROVE Sticks
  BY <1>6 DEF Start, Goto
<1>7. ASSUME NEW r \in Runs, Check(r) PROVE Sticks
  BY <1>7 DEF Check, Goto
<1>8. ASSUME NEW r \in Runs, EarlyStatus(r) PROVE Sticks
  BY <1>8, SMTT(20) DEF EarlyStatus, SetMemory, Goto
<1>9. ASSUME NEW r \in Runs, MarkRunning(r) PROVE Sticks
  BY <1>9, SMTT(20) DEF MarkRunning, SetMemory, Goto
<1>10. ASSUME NEW r \in Runs, StoreStatus(r) PROVE Sticks
  BY <1>10 DEF StoreStatus, UpdateStatus, Final, Goto
<1>11. ASSUME NEW r \in Runs, Snapshot(r) PROVE Sticks
  BY <1>11 DEF Snapshot, Publish, Goto
<1>12. ASSUME NEW r \in Runs, ReadMessages(r) PROVE Sticks
  BY <1>12 DEF ReadMessages, Goto
<1>13. ASSUME NEW r \in Runs, AppendUser(r) PROVE Sticks
  BY <1>13 DEF AppendUser, WriteMessages, Goto
<1>14. ASSUME NEW r \in Runs, AppendStep(r) PROVE Sticks
  BY <1>14 DEF AppendStep, WriteMessages, Notify, Publish, Goto
<1>15. ASSUME NEW r \in Runs, Step(r) PROVE Sticks
  BY <1>15 DEF Step, Goto
<1>16. ASSUME NEW r \in Runs, StepFails(r) PROVE Sticks
  BY <1>16 DEF StepFails, Goto
<1>17. ASSUME NEW r \in Runs, Decide(r) PROVE Sticks
  BY <1>17 DEF Decide, Goto
<1>18. ASSUME NEW r \in Runs, SetFinal(r) PROVE Sticks
  BY <1>18 DEF SetFinal, SetMemory, Final, Goto
<1>19. ASSUME NEW r \in Runs, After(r) PROVE Sticks
  BY <1>19 DEF After, Publish, Goto
<1>20. ASSUME NEW r \in Runs, PublishEnd(r) PROVE Sticks
  BY <1>20 DEF PublishEnd, Publish, Goto
<1>21. ASSUME NEW r \in Runs, BridgeAbort(r) PROVE Sticks
  BY <1>21 DEF BridgeAbort
<1>22. ASSUME NEW r \in Runs, LateWrite(r) PROVE Sticks
  BY <1>22 DEF LateWrite, UpdateStatus
<1>23. ASSUME Shutdown PROVE Sticks
  BY <1>23 DEF Shutdown, AbortAll
<1>24. ASSUME ReconcileList PROVE Sticks
  BY <1>24 DEF ReconcileList
<1>25. ASSUME ReconcileDone PROVE Sticks
  BY <1>25 DEF ReconcileDone
<1>26. ASSUME NEW r \in Runs, ReconcileCheck(r) PROVE Sticks
  BY <1>26 DEF ReconcileCheck
<1>27. ASSUME NEW r \in Runs, ReconcileMark(r) PROVE Sticks
  BY <1>27 DEF ReconcileMark, UpdateStatus
<1>28. ASSUME Restart PROVE Sticks
  BY <1>28 DEF Restart
<1>29. CASE UNCHANGED vars
  BY <1>29 DEF vars
<1> QED
  BY <1>1, <1>2, <1>3, <1>4, <1>5, <1>6, <1>7, <1>8, <1>9, <1>10, <1>11,
     <1>12, <1>13, <1>14, <1>15, <1>16, <1>17, <1>18, <1>19, <1>20, <1>21,
     <1>22, <1>23, <1>24, <1>25, <1>26, <1>27, <1>28, <1>29
     DEF Next, Request, Worker, Reconcile

(* The error and end events on a stream are there whatever else a run has    *)
(* published, on this stream or another.                                     *)
LEMMA OtherEvents ==
  ASSUME NEW r \in Runs, NEW kind \in {"values", "error"},
         \A q \in Runs : \/ stream'[q] = stream[q]
                         \/ stream'[q] = stream[q] \union {<<kind, r>>}
  PROVE  \A q \in Runs :
           /\ kind = "values" =>
                (<<"error", q>> \in stream'[q] <=> <<"error", q>> \in stream[q])
           /\ <<"end", q>> \in stream'[q] <=> <<"end", q>> \in stream[q]
<1> TAKE q \in Runs
<1>1. <<"end", q>> # <<kind, r>> /\ (kind = "values" => <<"error", q>> # <<kind, r>>)
  OBVIOUS
<1> HIDE DEF ConstantsAssumption
<1>2. CASE stream'[q] = stream[q]
  BY <1>2
<1>3. CASE stream'[q] = stream[q] \union {<<kind, r>>}
  BY <1>1, <1>3
<1> QED
  BY <1>2, <1>3

(* EventInv, for run r. *)
EventInvOf(r) ==
  /\ pc[r] \in {"set_store", "after"} => mem[r] = Final(r)
  /\ pc[r] \in {"set", "set_store", "after"} /\ out[r] = "rollback" => aborted[r]
  /\ <<"error", r>> \in stream[r] => pc[r] \in {"end", "done"} /\ mem[r] = "error"
  /\ pc[r] \in {"end", "done"} /\ mem[r] = "error" /\ ~aborted[r]
       => <<"error", r>> \in stream[r]
  /\ <<"end", r>> \in stream[r] => pc[r] = "done"

(* What is known of the events of a run at each position is preserved. *)
LEMMA EventStep ==
  TypeOK /\ OutcomeInv /\ RecordInv /\ EventInv /\ [Next]_vars => EventInv'
<1> SUFFICES ASSUME TypeOK, OutcomeInv, RecordInv, EventInv, [Next]_vars PROVE EventInv'
  OBVIOUS
<1>a. /\ DOMAIN mem = Runs /\ DOMAIN pc = Runs /\ DOMAIN out = Runs
      /\ DOMAIN aborted = Runs /\ DOMAIN stream = Runs
      /\ aborted \in [Runs -> BOOLEAN]
  BY DEF TypeOK
<1>b. \A r \in Runs : mem[r] = "error" => pc[r] \in {"set_store", "after", "end", "done"}
  BY DEF RecordInv
<1>c. \A r \in Runs : pc[r] = "settle" => out[r] \in {"success", "error"}
  BY DEF OutcomeInv
<1>d. \A r \in Runs : pc[r] \in {"set", "set_store"} => out[r] # "user"
  BY DEF OutcomeInv, Outcome
<1>e. \A r \in Runs : Final(r) \notin Inflight
  BY DEF TypeOK, Final, Outcome, Inflight
<1> USE <1>a, <1>b, <1>c, <1>d
    DEF EventInv, Final, recordVars, workerVars, turnVars, storeVars, procVars, Inflight
<1>1. ASSUME NEW r \in Runs, CreateReject(r) PROVE EventInv'
  BY <1>1 DEF CreateReject, Insert, Fresh
<1>2. ASSUME NEW r \in Runs, NEW s \in Actions, CreateReplacing(r, s) PROVE EventInv'
  <2>1. /\ pc[r] = "none" /\ pc' = [pc EXCEPT ![r] = "idle"]
        /\ UNCHANGED <<out, stream>>
        /\ \A q \in Runs : aborted[q] => aborted'[q]
    BY <1>2 DEF CreateReplacing, Insert, AbortAll, Fresh
  <2>2. \A q \in Runs \ {r} :
          mem'[q] = mem[q] \/ (mem[q] \in Inflight /\ mem'[q] = "interrupted")
    BY <1>2 DEF CreateReplacing, Insert, ThreadInflight
  <2> QED
    <3> SUFFICES ASSUME NEW q \in Runs PROVE EventInvOf(q)'
      BY DEF EventInvOf
    <3>1. CASE q = r
      <4>1. pc'[q] = "idle" /\ out'[q] = out[q] /\ stream'[q] = stream[q]
        BY <2>1, <3>1
      <4>2. <<"error", q>> \notin stream[q] /\ <<"end", q>> \notin stream[q]
        BY <2>1, <3>1
      <4> QED
        BY <4>1, <4>2 DEF EventInvOf
    <3>2. CASE q # r
      <4>1. pc'[q] = pc[q] /\ out'[q] = out[q] /\ stream'[q] = stream[q] /\ (aborted[q] => aborted'[q])
        BY <2>1, <3>2
      <4>2. mem'[q] = mem[q] \/ (mem[q] \in Inflight /\ mem'[q] = "interrupted")
        BY <2>2, <3>2
      <4>3. Final(q)' = Final(q) /\ Final(q) \notin Inflight
        BY <1>e, <4>1
      <4> QED
        BY <4>1, <4>2, <4>3 DEF EventInvOf
    <3> QED
      BY <3>1, <3>2
<1>3. ASSUME NEW r \in Runs, CreateFails(r) PROVE EventInv'
  BY <1>3 DEF CreateFails
<1>4. ASSUME NEW r \in Runs, Create(r) PROVE EventInv'
  BY <1>4 DEF Create, Insert, Fresh
<1>5. ASSUME NEW r \in Runs, NEW s \in Actions, Cancel(r, s) PROVE EventInv'
  <2>1. UNCHANGED <<pc, out, stream>> /\ \A q \in Runs : aborted[q] => aborted'[q]
    BY <1>5 DEF Cancel, AbortAll
  <2>2. \A q \in Runs :
          mem'[q] = mem[q] \/ (mem[q] \in Inflight /\ mem'[q] = "interrupted")
    BY <1>5 DEF Cancel
  <2> QED
    BY <1>e, <2>1, <2>2
<1>6. ASSUME NEW r \in Runs, Start(r) PROVE EventInv'
  BY <1>6 DEF Start, Goto
<1>7. ASSUME NEW r \in Runs, Check(r) PROVE EventInv'
  BY <1>7 DEF Check, Goto
<1>8. ASSUME NEW r \in Runs, EarlyStatus(r) PROVE EventInv'
  BY <1>8 DEF EarlyStatus, SetMemory, Goto
<1>9. ASSUME NEW r \in Runs, MarkRunning(r) PROVE EventInv'
  BY <1>9 DEF MarkRunning, SetMemory, Goto
<1>10. ASSUME NEW r \in Runs, StoreStatus(r) PROVE EventInv'
  <2>1. UNCHANGED <<mem, out, stream, aborted>>
    BY <1>10 DEF StoreStatus
  <2>2. \/ pc[r] = "early_store" /\ pc' = [pc EXCEPT ![r] = "end"]
        \/ pc[r] = "mark_store" /\ pc' = [pc EXCEPT ![r] = "snapshot"]
        \/ pc[r] = "set_store" /\ pc' = [pc EXCEPT ![r] = "after"]
    BY <1>10 DEF StoreStatus, Goto
  <2> SUFFICES ASSUME NEW q \in Runs PROVE EventInvOf(q)'
    BY DEF EventInvOf
  <2>3. Final(q)' = Final(q)
    BY <2>1
  <2>4. \/ pc'[q] = pc[q]
        \/ pc[q] = "early_store" /\ pc'[q] = "end"
        \/ pc[q] = "mark_store" /\ pc'[q] = "snapshot"
        \/ pc[q] = "set_store" /\ pc'[q] = "after"
    BY <2>2
  <2>5. EventInvOf(q)
    BY DEF EventInvOf
  <2> QED
    BY <2>1, <2>3, <2>4, <2>5 DEF EventInvOf
<1>11. ASSUME NEW r \in Runs, Snapshot(r) PROVE EventInv'
  BY <1>11 DEF Snapshot, Publish, Goto
<1>12. ASSUME NEW r \in Runs, ReadMessages(r) PROVE EventInv'
  BY <1>12 DEF ReadMessages, Goto
<1>13. ASSUME NEW r \in Runs, AppendUser(r) PROVE EventInv'
  BY <1>13 DEF AppendUser, WriteMessages, Goto
<1>14. ASSUME NEW r \in Runs, AppendStep(r) PROVE EventInv'
  <2>1. /\ UNCHANGED <<mem, aborted, out>>
        /\ pc[r] = "write" /\ \E p \in {"loop", "settle"} : pc' = [pc EXCEPT ![r] = p]
    BY <1>14 DEF AppendStep, Goto
  <2>2. \A q \in Runs : \/ stream'[q] = stream[q]
                        \/ stream'[q] = stream[q] \union {<<"values", r>>}
    BY <1>14 DEF AppendStep, Notify, Publish
  <2>3. \A q \in Runs : /\ <<"error", q>> \in stream'[q] <=> <<"error", q>> \in stream[q]
                        /\ <<"end", q>> \in stream'[q] <=> <<"end", q>> \in stream[q]
    BY <2>2, OtherEvents
  <2> QED
    BY <2>1, <2>3
<1>15. ASSUME NEW r \in Runs, Step(r) PROVE EventInv'
  <2>1. /\ UNCHANGED <<mem, aborted, stream>> /\ pc[r] = "loop"
        /\ \E p \in {"read", "settle"} : pc' = [pc EXCEPT ![r] = p]
        /\ \E o : out' = [out EXCEPT ![r] = o]
    BY <1>15 DEF Step, Goto
  <2> QED
    BY <2>1
<1>16. ASSUME NEW r \in Runs, StepFails(r) PROVE EventInv'
  BY <1>16 DEF StepFails, Goto
<1>17. ASSUME NEW r \in Runs, Decide(r) PROVE EventInv'
  BY <1>17 DEF Decide, Goto
<1>18. ASSUME NEW r \in Runs, SetFinal(r) PROVE EventInv'
  BY <1>18 DEF SetFinal, SetMemory, Goto
<1>19. ASSUME NEW r \in Runs, After(r) PROVE EventInv'
  <2>1. /\ UNCHANGED <<mem, aborted>>
        /\ pc[r] = "after" /\ pc' = [pc EXCEPT ![r] = "end"]
        /\ out' = [out EXCEPT ![r] = "user"]
    BY <1>19 DEF After, Goto
  <2>2. \A q \in Runs : \/ stream'[q] = stream[q]
                        \/ stream'[q] = stream[q] \union {<<"error", r>>}
    BY <1>19 DEF After, Publish
  <2>3. \A q \in Runs : <<"end", q>> \in stream'[q] <=> <<"end", q>> \in stream[q]
    BY <2>2, OtherEvents
  <2>4. /\ out[r] = "error" => <<"error", r>> \in stream'[r]
        /\ out[r] # "error" => stream' = stream
        /\ \A q \in Runs \ {r} : stream'[q] = stream[q]
    BY <1>19 DEF After, Publish
  <2>5. mem[r] = Final(r)
    BY <2>1
  <2> QED
    BY <2>1, <2>3, <2>4, <2>5
<1>20. ASSUME NEW r \in Runs, PublishEnd(r) PROVE EventInv'
  BY <1>20 DEF PublishEnd, Publish, Goto
<1>21. ASSUME NEW r \in Runs, BridgeAbort(r) PROVE EventInv'
  BY <1>21 DEF BridgeAbort
<1>22. ASSUME NEW r \in Runs, LateWrite(r) PROVE EventInv'
  BY <1>22 DEF LateWrite, UpdateStatus
<1>23. ASSUME Shutdown PROVE EventInv'
  BY <1>23 DEF Shutdown, AbortAll
<1>24. ASSUME ReconcileList PROVE EventInv'
  BY <1>24 DEF ReconcileList
<1>25. ASSUME ReconcileDone PROVE EventInv'
  BY <1>25 DEF ReconcileDone
<1>26. ASSUME NEW r \in Runs, ReconcileCheck(r) PROVE EventInv'
  BY <1>26 DEF ReconcileCheck
<1>27. ASSUME NEW r \in Runs, ReconcileMark(r) PROVE EventInv'
  BY <1>27 DEF ReconcileMark, UpdateStatus
<1>28. ASSUME Restart PROVE EventInv'
  BY <1>28 DEF Restart
<1>29. CASE UNCHANGED vars
  BY <1>29 DEF vars
<1> QED
  BY <1>1, <1>2, <1>3, <1>4, <1>5, <1>6, <1>7, <1>8, <1>9, <1>10, <1>11,
     <1>12, <1>13, <1>14, <1>15, <1>16, <1>17, <1>18, <1>19, <1>20, <1>21,
     <1>22, <1>23, <1>24, <1>25, <1>26, <1>27, <1>28, <1>29
     DEF Next, Request, Worker, Reconcile

-----------------------------------------------------------------------------
(* What does not change of a run when another one moves.                     *)
Same(q) ==
  /\ InTurn(q)' <=> InTurn(q)
  /\ Unwritten(q)' <=> Unwritten(q)
  /\ Observing(q)' <=> Observing(q)
  /\ Counts(q)' <=> Counts(q)
  /\ RolledBack(q)' <=> RolledBack(q)
  /\ Answered(q)' <=> Answered(q)
  /\ pc'[q] = "write" <=> pc[q] = "write"

LEMMA SameRun ==
  ASSUME NEW q \in Runs, pc'[q] = pc[q], out'[q] = out[q], mem'[q] = mem[q],
         <<"error", q>> \in stream'[q] <=> <<"error", q>> \in stream[q]
  PROVE  Same(q)
BY DEF Same, InTurn, Unwritten, Before, Asking, Observing, Answering, Counts, Succeeded, RolledBack, Answered

(* What stays true of a run that moves outside of its turn, or within it but *)
(* away from the messages and the observer.                                  *)
Drifts(q) ==
  /\ InTurn(q)' <=> InTurn(q)
  /\ Unwritten(q)' => Unwritten(q)
  /\ Observing(q)' <=> Observing(q)
  /\ Counts(q)' => Counts(q)
  /\ RolledBack(q)' => RolledBack(q)
  /\ Answered(q)' => Answered(q)
  /\ pc'[q] = "write" <=> pc[q] = "write"

Aside ==
  /\ UNCHANGED <<thread, messages, observer, met, preRun, header, prev>>
  /\ \A q \in Runs : Drifts(q)
  /\ \A q, x \in Runs : <<"values", x>> \in stream'[q] <=> <<"values", x>> \in stream[q]

Turns(r) ==
  Snapshot(r) \/ ReadMessages(r) \/ AppendUser(r) \/ AppendStep(r) \/ Decide(r) \/ After(r)

(* The moves that only drift: of the position, of the outcome, of the record. *)
Moved(q) ==
  \/ pc'[q] = pc[q] /\ out'[q] = out[q]
  \/ /\ <<pc[q], pc'[q]>> \in {<<"none", "idle">>, <<"idle", "check">>, <<"check", "early">>,
          <<"check", "mark">>, <<"early", "early_store">>, <<"mark", "mark_store">>,
          <<"mark_store", "snapshot">>, <<"set", "set_store">>, <<"set_store", "after">>}
     /\ out'[q] = out[q]
  \/ pc[q] = "early_store" /\ pc'[q] = "end" /\ out'[q] = out[q] /\ mem'[q] \notin {"success", "error"}
  \/ pc[q] = "end" /\ pc'[q] = "done" /\ out'[q] = out[q]
  \/ pc[q] = "loop" /\ pc'[q] = "read" /\ out'[q] \in {"more", "success"}
  \/ pc[q] = "loop" /\ pc'[q] = "settle" /\ out'[q] = "error"

LEMMA MovedDrifts ==
  ASSUME NEW q \in Runs, Moved(q),
         mem'[q] = mem[q] \/ mem'[q] = "interrupted" \/ pc'[q] \notin {"end", "done"},
         <<"error", q>> \in stream'[q] <=> <<"error", q>> \in stream[q]
  PROVE  Drifts(q)
<1> USE DEF Drifts, InTurn, Settle, Unwritten, Before, Early, Asking, Observing, Answering, Counts, Succeeded,
            RolledBack, Answered
<1>1. CASE pc'[q] = pc[q] /\ out'[q] = out[q]
  BY <1>1
<1>2. CASE /\ <<pc[q], pc'[q]>> \in {<<"none", "idle">>, <<"idle", "check">>, <<"check", "early">>,
                <<"check", "mark">>, <<"early", "early_store">>, <<"mark", "mark_store">>,
                <<"mark_store", "snapshot">>, <<"set", "set_store">>, <<"set_store", "after">>}
           /\ out'[q] = out[q]
  BY <1>2
<1>3. CASE pc[q] = "early_store" /\ pc'[q] = "end" /\ out'[q] = out[q] /\ mem'[q] \notin {"success", "error"}
  BY <1>3
<1>4. CASE pc[q] = "end" /\ pc'[q] = "done" /\ out'[q] = out[q]
  BY <1>4
<1>5. CASE pc[q] = "loop" /\ pc'[q] = "read" /\ out'[q] \in {"more", "success"}
  BY <1>5
<1>6. CASE pc[q] = "loop" /\ pc'[q] = "settle" /\ out'[q] = "error"
  BY <1>6
<1> QED
  BY <1>1, <1>2, <1>3, <1>4, <1>5, <1>6 DEF Moved

(* What such a step does.                                                    *)
AsideFacts ==
  /\ UNCHANGED <<thread, messages, observer, met, preRun, header, prev>>
  /\ \A q \in Runs :
       /\ Moved(q)
       /\ mem'[q] = mem[q] \/ mem'[q] = "interrupted" \/ pc'[q] \notin {"end", "done"}
       /\ stream'[q] = stream[q] \/ stream'[q] = stream[q] \union {<<"end", q>>}

(* A step is one of a turn, or leaves every turn alone.                      *)
LEMMA WhoTurns ==
  TypeOK /\ RecordInv /\ [Next]_vars => Restart \/ Aside \/ \E r \in Runs : Turns(r)
<1> SUFFICES ASSUME TypeOK, RecordInv, [Next]_vars, ~Restart, ~\E r \in Runs : Turns(r)
             PROVE  Aside
  OBVIOUS
<1>1. AsideFacts
  <2> USE DEF TypeOK, recordVars, workerVars, turnVars, Moved, AsideFacts
  <2>1. ASSUME NEW r \in Runs, NEW hit \in SUBSET Runs, Fresh(r), Insert(r, hit), UNCHANGED turnVars
        PROVE  AsideFacts
    BY <2>1 DEF Fresh, Insert
  <2>2. ASSUME NEW r \in Runs, CreateFails(r) \/ BridgeAbort(r) \/ LateWrite(r) \/ ReconcileCheck(r) \/ ReconcileMark(r)
        PROVE  AsideFacts
    BY <2>2 DEF CreateFails, BridgeAbort, LateWrite, ReconcileCheck, ReconcileMark
  <2>3. ASSUME NEW r \in Runs, NEW s \in Actions, Cancel(r, s) PROVE AsideFacts
    BY <2>3 DEF Cancel
  <2>4. ASSUME NEW r \in Runs, Start(r) \/ Check(r) PROVE AsideFacts
    BY <2>4 DEF Start, Check, Goto
  <2>5. ASSUME NEW r \in Runs, EarlyStatus(r) \/ MarkRunning(r) \/ SetFinal(r) PROVE AsideFacts
    BY <2>5 DEF EarlyStatus, MarkRunning, SetFinal, SetMemory, Goto
  <2>6. ASSUME NEW r \in Runs, StoreStatus(r) PROVE AsideFacts
    <3>1. UNCHANGED <<mem, thread, out, messages, observer, stream, met, preRun, header, prev>>
      BY <2>6 DEF StoreStatus
    <3>2. \/ pc[r] = "early_store" /\ pc' = [pc EXCEPT ![r] = "end"]
          \/ pc[r] = "mark_store" /\ pc' = [pc EXCEPT ![r] = "snapshot"]
          \/ pc[r] = "set_store" /\ pc' = [pc EXCEPT ![r] = "after"]
      BY <2>6 DEF StoreStatus, Goto
    <3>3. pc[r] = "early_store" => mem[r] \notin {"success", "error"}
      BY DEF RecordInv
    <3> QED
      BY <3>1, <3>2, <3>3
  <2>7. ASSUME NEW r \in Runs, Step(r) PROVE AsideFacts
    <3>1. /\ UNCHANGED <<mem, thread, messages, observer, stream, met, preRun, header, prev>>
          /\ pc[r] = "loop"
          /\ \/ \E o \in {"more", "success"} : out' = [out EXCEPT ![r] = o] /\ pc' = [pc EXCEPT ![r] = "read"]
             \/ out' = [out EXCEPT ![r] = "error"] /\ pc' = [pc EXCEPT ![r] = "settle"]
      BY <2>7 DEF Step, Goto
    <3> QED
      BY <3>1
  <2>8. ASSUME NEW r \in Runs, StepFails(r) PROVE AsideFacts
    BY <2>8 DEF StepFails, Goto
  <2>9. ASSUME NEW r \in Runs, PublishEnd(r) PROVE AsideFacts
    BY <2>9 DEF PublishEnd, Publish, Goto
  <2>10. CASE Shutdown \/ ReconcileList \/ ReconcileDone \/ UNCHANGED vars
    BY <2>10 DEF Shutdown, ReconcileList, ReconcileDone, vars
  <2>11. ASSUME NEW r \in Runs, CreateReject(r) \/ Create(r) \/ \E s \in Actions : CreateReplacing(r, s)
         PROVE  \E hit \in SUBSET Runs : Fresh(r) /\ Insert(r, hit) /\ UNCHANGED turnVars
    BY <2>11 DEF CreateReject, Create, CreateReplacing, ThreadInflight
  <2> QED
    BY <2>1, <2>2, <2>3, <2>4, <2>5, <2>6, <2>7, <2>8, <2>9, <2>10, <2>11
       DEF Next, Request, Worker, Reconcile, Turns
<1>2. \A q \in Runs : <<"error", q>> \in stream'[q] <=> <<"error", q>> \in stream[q]
  BY <1>1 DEF AsideFacts
<1>3. \A q, x \in Runs : <<"values", x>> \in stream'[q] <=> <<"values", x>> \in stream[q]
  BY <1>1 DEF AsideFacts
<1> QED
  BY <1>1, <1>2, <1>3, MovedDrifts DEF Aside, AsideFacts

(* In a step of r's turn the other runs stay where they are.                 *)
LEMMA OthersStay ==
  ASSUME TypeOK, NEW r \in Runs, Turns(r)
  PROVE  /\ thread' = thread /\ mem' = mem
         /\ \A q \in Runs \ {r} : pc'[q] = pc[q] /\ out'[q] = out[q] /\ Same(q)
<1> USE DEF recordVars, workerVars, turnVars, TypeOK
<1>1. thread' = thread /\ mem' = mem
  BY DEF Turns, Snapshot, ReadMessages, AppendUser, AppendStep, Decide, After
<1>2. \A q \in Runs \ {r} : pc'[q] = pc[q] /\ out'[q] = out[q]
  BY DEF Turns, Snapshot, ReadMessages, AppendUser, AppendStep, Decide, After, Goto
<1>3. \A q \in Runs : \/ stream'[q] = stream[q]
                      \/ stream'[q] = stream[q] \union {<<"metadata", r>>}
                      \/ stream'[q] = stream[q] \union {<<"values", r>>}
                      \/ stream'[q] = stream[q] \union {<<"error", r>>}
  BY DEF Turns, Snapshot, ReadMessages, AppendUser, AppendStep, Decide, After, Publish, Notify
<1>4. \A q \in Runs \ {r} : <<"error", q>> \in stream'[q] <=> <<"error", q>> \in stream[q]
  <2> SUFFICES ASSUME NEW q \in Runs \ {r}
               PROVE  <<"error", q>> \in stream'[q] <=> <<"error", q>> \in stream[q]
    OBVIOUS
  <2>1. /\ <<"error", q>> # <<"metadata", r>> /\ <<"error", q>> # <<"values", r>>
        /\ <<"error", q>> # <<"error", r>>
    OBVIOUS
  <2>2. \/ stream'[q] = stream[q]
        \/ stream'[q] = stream[q] \union {<<"metadata", r>>}
        \/ stream'[q] = stream[q] \union {<<"values", r>>}
        \/ stream'[q] = stream[q] \union {<<"error", r>>}
    BY <1>3
  <2> QED
    BY <2>1, <2>2
<1> QED
  BY <1>1, <1>2, <1>4, SameRun

(* Two turns that overlap are of different threads and Agents, or have met.  *)
LEMMA MetBoth ==
  ASSUME MeetInv, NEW r \in Runs, NEW q \in Runs \ {r}, InTurn(r), InTurn(q),
         thread[r] = thread[q] \/ AgentOf[r] = AgentOf[q]
  PROVE  r \in met /\ q \in met
BY DEF MeetInv, Rivals

LEMMA InTurnFacts ==
  ASSUME NEW r \in Runs
  PROVE  /\ Observing(r) => InTurn(r) /\ Counts(r)
         /\ pc[r] = "write" => InTurn(r)
         /\ Counts(r) /\ ~Succeeded(r) => InTurn(r)
         /\ RolledBack(r) \/ Succeeded(r) => ~InTurn(r)
         /\ Unwritten(r) => ~Counts(r) /\ ~Observing(r) /\ ~RolledBack(r) /\ ~Answered(r)
         /\ Counts(r) => ~RolledBack(r)
BY DEF InTurn, Settle, Unwritten, Before, Early, Asking, Observing, Answering, Counts, Succeeded, RolledBack, Answered


(* What the worker of r does to its own turn, action by action.              *)
LEMMA SnapshotFacts ==
  ASSUME TypeOK, NEW r \in Runs, Snapshot(r)
  PROVE  /\ Unwritten(r) /\ ~InTurn(r)
         /\ InTurn(r)' /\ ~Counts(r)' /\ ~Observing(r)' /\ ~RolledBack(r)' /\ ~Answered(r)'
         /\ pc'[r] # "write"
         /\ UNCHANGED <<messages, header, prev, observer>>
         /\ preRun' = [preRun EXCEPT ![r] = messages[thread[r]]]
         /\ met \subseteq met'
         /\ \A q \in Rivals(r) : InTurn(q) => q \in met' /\ r \in met'
         /\ \A q, x \in Runs : <<"values", x>> \in stream'[q] <=> <<"values", x>> \in stream[q]
<1>1. pc[r] = "snapshot" /\ pc'[r] = "read" /\ out'[r] = "user"
  BY DEF Snapshot, Goto, TypeOK
<1>2. /\ Unwritten(r) /\ ~InTurn(r)
      /\ InTurn(r)' /\ ~Counts(r)' /\ ~Observing(r)' /\ ~RolledBack(r)' /\ ~Answered(r)'
  BY <1>1 DEF InTurn, Settle, Unwritten, Before, Early, Asking, Observing, Answering, Counts, Succeeded,
              RolledBack, Answered
<1>3. met \subseteq met' /\ \A q \in Rivals(r) : InTurn(q) => q \in met' /\ r \in met'
  BY DEF Snapshot, Meet
<1>4. \A q, x \in Runs : <<"values", x>> \in stream'[q] <=> <<"values", x>> \in stream[q]
  BY DEF Snapshot, Publish, TypeOK
<1> QED
  BY <1>1, <1>2, <1>3, <1>4 DEF Snapshot

LEMMA ReadFacts ==
  ASSUME TypeOK, NEW r \in Runs, ReadMessages(r)
  PROVE  /\ InTurn(r) /\ InTurn(r)' /\ ~RolledBack(r)' /\ ~Answered(r)'
         /\ Unwritten(r)' => Unwritten(r)
         /\ Counts(r)' => Counts(r)
         /\ Observing(r)' <=> Observing(r)
         /\ header' = [header EXCEPT ![r] = messages[thread[r]]]
         /\ UNCHANGED <<messages, preRun, prev, observer, stream, met>>
<1>1. pc[r] = "read" /\ pc'[r] = "write" /\ out'[r] = out[r]
  BY DEF ReadMessages, Goto, TypeOK
<1>2. /\ InTurn(r) /\ InTurn(r)' /\ ~RolledBack(r)' /\ ~Answered(r)'
      /\ Unwritten(r)' => Unwritten(r)
      /\ Counts(r)' => Counts(r)
      /\ Observing(r)' <=> Observing(r)
  BY <1>1 DEF InTurn, Settle, Unwritten, Before, Early, Asking, Observing, Answering, Counts, Succeeded,
              RolledBack, Answered
<1> QED
  BY <1>2 DEF ReadMessages, turnVars

(* The two appends: the run counts from now on. *)
LEMMA AppendFacts ==
  ASSUME TypeOK, NEW r \in Runs, AppendUser(r) \/ AppendStep(r)
  PROVE  /\ InTurn(r) /\ pc[r] = "write"
         /\ InTurn(r)' /\ Counts(r)' /\ Observing(r)' /\ ~Unwritten(r)' /\ ~RolledBack(r)'
         /\ pc'[r] # "write"
         /\ messages' = [messages EXCEPT ![thread[r]] = header[r] \union {r}]
         /\ header' = [header EXCEPT ![r] = {}]
         /\ UNCHANGED <<preRun, met>>
<1>1. pc[r] = "write" /\ pc'[r] \in {"loop", "settle"}
  BY DEF AppendUser, AppendStep, Goto, TypeOK
<1>2. /\ InTurn(r)
      /\ InTurn(r)' /\ Counts(r)' /\ Observing(r)' /\ ~Unwritten(r)' /\ ~RolledBack(r)'
  BY <1>1 DEF InTurn, Settle, Unwritten, Before, Early, Asking, Observing, Answering, Counts, Succeeded,
              RolledBack, Answered
<1> QED
  BY <1>1, <1>2 DEF AppendUser, AppendStep, WriteMessages

LEMMA AppendUserFacts ==
  ASSUME TypeOK, NEW r \in Runs, AppendUser(r)
  PROVE  /\ Unwritten(r) /\ ~Answered(r)'
         /\ prev' = [prev EXCEPT ![r] = observer[AgentOf[r]]]
         /\ observer' = [observer EXCEPT ![AgentOf[r]] = r]
         /\ UNCHANGED stream
<1>1. pc[r] = "write" /\ out[r] = "user" /\ pc'[r] = "loop"
  BY DEF AppendUser, Goto, TypeOK
<1>2. Unwritten(r) /\ ~Answered(r)'
  BY <1>1 DEF Settle, Unwritten, Before, Early, Asking, Succeeded, Answered
<1> QED
  BY <1>2 DEF AppendUser

LEMMA AppendStepFacts ==
  ASSUME TypeOK, NEW r \in Runs, AppendStep(r)
  PROVE  /\ Observing(r) /\ Counts(r)
         /\ UNCHANGED <<prev, observer>>
         /\ Notify(r)
<1>1. pc[r] = "write" /\ out[r] # "user"
  BY DEF AppendStep
<1>2. Observing(r) /\ Counts(r)
  BY <1>1 DEF Observing, Answering, Counts
<1> QED
  BY <1>2 DEF AppendStep

LEMMA DecideFacts ==
  ASSUME TypeOK, NEW r \in Runs, Decide(r)
  PROVE  /\ InTurn(r) /\ Observing(r) /\ Counts(r)
         /\ InTurn(r)' /\ ~Observing(r)' /\ ~Unwritten(r)' /\ ~RolledBack(r)'
         /\ Answered(r)' => Answered(r)
         /\ pc'[r] # "write" /\ pc[r] # "write"
         /\ observer' = [observer EXCEPT ![AgentOf[r]] = prev[r]]
         /\ prev' = [prev EXCEPT ![r] = NoRun]
         /\ UNCHANGED <<messages, header, preRun, stream, met>>
<1>1. /\ pc[r] = "settle" /\ pc'[r] = "set"
      /\ out'[r] \in {out[r], "rollback", "interrupted"}
  BY DEF Decide, Goto, TypeOK
<1>2. /\ InTurn(r) /\ Observing(r) /\ Counts(r)
      /\ InTurn(r)' /\ ~Observing(r)' /\ ~Unwritten(r)' /\ ~RolledBack(r)'
      /\ Answered(r)' => Answered(r)
  BY <1>1 DEF InTurn, Settle, Unwritten, Before, Early, Asking, Observing, Answering, Counts, Succeeded,
              RolledBack, Answered
<1> QED
  BY <1>1, <1>2 DEF Decide

LEMMA AfterFacts ==
  ASSUME TypeOK, EventInv, NEW r \in Runs, After(r)
  PROVE  /\ InTurn(r) /\ Counts(r) /\ ~Observing(r)
         /\ ~InTurn(r)' /\ ~Observing(r)' /\ ~Unwritten(r)'
         /\ Counts(r)' => out[r] # "rollback"
         /\ RolledBack(r)' => out[r] = "rollback"
         /\ Answered(r)' => Answered(r)
         /\ pc'[r] # "write" /\ pc[r] # "write"
         /\ messages' = IF out[r] = "rollback"
                        THEN [messages EXCEPT ![thread[r]] = preRun[r]] ELSE messages
         /\ preRun' = [preRun EXCEPT ![r] = {}]
         /\ UNCHANGED <<header, prev, observer, met>>
         /\ \A q, x \in Runs : <<"values", x>> \in stream'[q] <=> <<"values", x>> \in stream[q]
<1>1. /\ pc[r] = "after" /\ pc'[r] = "end" /\ mem' = mem /\ mem[r] = Final(r)
  BY DEF After, Goto, TypeOK, recordVars, EventInv
<1>2. out[r] = "error" => <<"error", r>> \in stream'[r]
  BY DEF After, Publish, TypeOK
<1>3. \A q, x \in Runs : <<"values", x>> \in stream'[q] <=> <<"values", x>> \in stream[q]
  BY DEF After, Publish, TypeOK
<1>4. /\ InTurn(r) /\ Counts(r) /\ ~Observing(r)
      /\ ~InTurn(r)' /\ ~Observing(r)' /\ ~Unwritten(r)'
      /\ Counts(r)' => out[r] # "rollback"
      /\ RolledBack(r)' => out[r] = "rollback"
      /\ Answered(r)' => Answered(r)
  BY <1>1, <1>2 DEF InTurn, Settle, Unwritten, Before, Early, Asking, Observing, Answering, Counts, Succeeded,
                    RolledBack, Answered, Final
<1> QED
  BY <1>1, <1>3, <1>4 DEF After

(* After a restart nothing is left of any turn.                              *)
LEMMA RestartFacts ==
  ASSUME TypeOK, Restart, NEW r \in Runs
  PROVE  /\ ~InTurn(r)' /\ ~Counts(r)' /\ ~Observing(r)' /\ ~RolledBack(r)' /\ ~Answered(r)'
         /\ preRun'[r] = {} /\ header'[r] = {} /\ prev'[r] = NoRun /\ stream'[r] = {}
         /\ \A t \in Threads : messages'[t] = {}
         /\ \A a \in Agents : observer'[a] = NoRun
<1>1. pc'[r] \in {"none", "dead"}
  BY DEF Restart
<1>2. ~InTurn(r)' /\ ~Counts(r)' /\ ~Observing(r)' /\ ~RolledBack(r)' /\ ~Answered(r)'
  BY <1>1 DEF InTurn, Settle, Observing, Answering, Counts, Succeeded, RolledBack, Answered
<1> QED
  BY <1>2 DEF Restart

LEMMA MeetStep ==
  TypeOK /\ RecordInv /\ EventInv /\ MeetInv /\ [Next]_vars => MeetInv'
<1> SUFFICES ASSUME TypeOK, RecordInv, EventInv, MeetInv, [Next]_vars PROVE MeetInv'
  OBVIOUS
<1>1. CASE Restart
  BY <1>1, RestartFacts DEF MeetInv
<1>2. CASE Aside
  BY <1>2 DEF Aside, Drifts, MeetInv, Rivals
<1>3. ASSUME NEW r \in Runs, Turns(r) PROVE MeetInv'
  <2> USE OthersStay, <1>3
  <2>1. CASE Snapshot(r)
    <3> SUFFICES ASSUME NEW x \in Runs, NEW q \in Rivals(x), InTurn(x)', InTurn(q)'
                 PROVE  x \in met'
      BY DEF MeetInv, Rivals
    <3>1. CASE x = r
      BY <3>1, <2>1, SnapshotFacts DEF Rivals, Same
    <3>2. CASE q = r
      BY <3>2, <2>1, SnapshotFacts DEF Rivals, Same
    <3>3. CASE x # r /\ q # r
      BY <3>3, <2>1, SnapshotFacts DEF Rivals, Same, MeetInv
    <3> QED
      BY <3>1, <3>2, <3>3
  <2>2. CASE ~Snapshot(r)
    <3>1. met' = met /\ InTurn(r)
      BY <2>2, ReadFacts, AppendFacts, DecideFacts, AfterFacts DEF Turns
    <3> QED
      BY <3>1 DEF MeetInv, Rivals, Same
  <2> QED
    BY <2>1, <2>2
<1> QED
  BY <1>1, <1>2, <1>3, WhoTurns

(* CopyInv without its quantifiers over the threads and the runs.            *)
CopyOf(r) ==
  /\ \A q \in header[r] : thread[q] = thread[r]
  /\ \A q \in preRun[r] : thread[q] = thread[r]
  /\ pc[r] # "write" => header[r] = {}
  /\ ~InTurn(r) => preRun[r] = {}
  /\ r \notin preRun[r]

LEMMA CopyParts ==
  CopyInv <=> (\A t \in Threads : \A q \in messages[t] : thread[q] = t) /\ \A r \in Runs : CopyOf(r)
BY DEF CopyInv, CopyOf

LEMMA CopyStep ==
  TypeOK /\ RecordInv /\ EventInv /\ ThreadInv /\ CopyInv /\ [Next]_vars => CopyInv'
<1> SUFFICES ASSUME TypeOK, RecordInv, EventInv, ThreadInv, CopyInv, [Next]_vars PROVE CopyInv'
  OBVIOUS
<1>1. CASE Restart
  <2>1. \A t \in Threads : messages'[t] = {}
    BY <1>1 DEF Restart
  <2>2. \A x \in Runs : header'[x] = {} /\ preRun'[x] = {}
    BY <1>1, RestartFacts
  <2> QED
    BY <2>1, <2>2 DEF CopyInv
<1>2. CASE Aside
  BY <1>2 DEF Aside, Drifts, CopyInv
<1>3. ASSUME NEW r \in Runs, Turns(r) PROVE CopyInv'
  <2>1. thread' = thread /\ \A q \in Runs \ {r} : Same(q)
    BY <1>3, OthersStay
  <2>2. ASSUME \A q \in Runs \ {r} : header'[q] = header[q] /\ preRun'[q] = preRun[q]
        PROVE  \A q \in Runs \ {r} : CopyOf(q)'
    BY <2>1, <2>2 DEF CopyInv, CopyOf, Same
  <2>3. (\A t \in Threads : \A q \in messages[t] : thread[q] = t) /\ CopyOf(r)
    BY CopyParts
  <2>4. thread[r] \in Threads
    BY DEF TypeOK
  <2> DEFINE Kept == /\ \A t \in Threads : \A q \in messages'[t] : thread[q] = t
                     /\ \A q \in Runs \ {r} : header'[q] = header[q] /\ preRun'[q] = preRun[q]
                     /\ CopyOf(r)'
  <2>5. ASSUME Snapshot(r) PROVE Kept
    <3>1. /\ messages' = messages /\ header' = header
          /\ preRun' = [preRun EXCEPT ![r] = messages[thread[r]]]
          /\ Unwritten(r) /\ ~InTurn(r) /\ InTurn(r)' /\ pc'[r] # "write"
      BY <2>5, SnapshotFacts
    <3>2. header[r] = {}
      BY <3>1, <2>3 DEF CopyOf, InTurn
    <3>3. preRun'[r] = messages[thread[r]] /\ r \notin messages[thread[r]]
      BY <3>1, <2>4 DEF ThreadInv, Nowhere, TypeOK
    <3> QED
      BY <2>1, <2>3, <2>4, <3>1, <3>2, <3>3 DEF CopyOf
  <2>6. ASSUME ReadMessages(r) PROVE Kept
    <3>1. /\ messages' = messages /\ preRun' = preRun
          /\ header' = [header EXCEPT ![r] = messages[thread[r]]]
          /\ InTurn(r) /\ InTurn(r)' /\ pc'[r] = "write"
      BY <2>6, ReadFacts DEF ReadMessages, Goto, TypeOK
    <3>2. header'[r] = messages[thread[r]]
      BY <3>1 DEF TypeOK
    <3> QED
      BY <2>1, <2>3, <2>4, <3>1, <3>2 DEF CopyOf
  <2>7. ASSUME AppendUser(r) \/ AppendStep(r) PROVE Kept
    <3>1. /\ messages' = [messages EXCEPT ![thread[r]] = header[r] \union {r}]
          /\ header' = [header EXCEPT ![r] = {}] /\ preRun' = preRun
          /\ InTurn(r) /\ InTurn(r)' /\ pc'[r] # "write"
      BY <2>7, AppendFacts
    <3>2. \A t \in Threads : messages'[t] = IF t = thread[r] THEN header[r] \union {r} ELSE messages[t]
      BY <3>1 DEF TypeOK
    <3>3. \A q \in Runs : header'[q] = IF q = r THEN {} ELSE header[q]
      BY <3>1 DEF TypeOK
    <3> QED
      BY <2>1, <2>3, <3>1, <3>2, <3>3 DEF CopyOf
  <2>8. ASSUME Decide(r) PROVE Kept
    <3>1. /\ UNCHANGED <<messages, header, preRun>>
          /\ InTurn(r) /\ InTurn(r)' /\ pc[r] # "write" /\ pc'[r] # "write"
      BY <2>8, DecideFacts
    <3> QED
      BY <2>1, <2>3, <3>1 DEF CopyOf
  <2>9. ASSUME After(r) PROVE Kept
    <3>1. /\ messages' = IF out[r] = "rollback"
                         THEN [messages EXCEPT ![thread[r]] = preRun[r]] ELSE messages
          /\ preRun' = [preRun EXCEPT ![r] = {}] /\ header' = header
          /\ pc[r] # "write" /\ pc'[r] # "write"
      BY <2>9, AfterFacts
    <3>2. \A t \in Threads : messages'[t] = messages[t] \/ (t = thread[r] /\ messages'[t] = preRun[r])
      BY <3>1 DEF TypeOK
    <3>3. \A q \in Runs : preRun'[q] = IF q = r THEN {} ELSE preRun[q]
      BY <3>1 DEF TypeOK
    <3> QED
      BY <2>1, <2>3, <3>1, <3>2, <3>3 DEF CopyOf
  <2>10. Kept
    BY <1>3, <2>5, <2>6, <2>7, <2>8, <2>9 DEF Turns
  <2> QED
    BY <2>1, <2>2, <2>10, CopyParts DEF CopyInv, CopyOf
<1> QED
  BY <1>1, <1>2, <1>3, WhoTurns

(* A message that is nowhere does not come from another run's turn.          *)
LEMMA NowhereStays ==
  ASSUME TypeOK, EventInv, NEW r \in Runs, Turns(r), NEW q \in Runs, Nowhere(q),
         q # r \/ ~(AppendUser(r) \/ AppendStep(r))
  PROVE  Nowhere(q)'
<1> USE DEF TypeOK, Nowhere
<1>1. CASE Snapshot(r)
  BY <1>1, SnapshotFacts
<1>2. CASE ReadMessages(r)
  BY <1>2, ReadFacts
<1>3. CASE q # r /\ (AppendUser(r) \/ AppendStep(r))
  <2>1. /\ messages' = [messages EXCEPT ![thread[r]] = header[r] \union {r}]
        /\ header' = [header EXCEPT ![r] = {}] /\ preRun' = preRun
    BY <1>3, AppendFacts
  <2> QED
    BY <1>3, <2>1
<1>4. CASE Decide(r)
  BY <1>4, DecideFacts
<1>5. CASE After(r)
  <2>1. /\ messages' = IF out[r] = "rollback"
                       THEN [messages EXCEPT ![thread[r]] = preRun[r]] ELSE messages
        /\ preRun' = [preRun EXCEPT ![r] = {}] /\ header' = header
    BY <1>5 DEF After
  <2> QED
    BY <2>1
<1> QED
  BY <1>1, <1>2, <1>3, <1>4, <1>5 DEF Turns

(* The messages of another run that everybody has stay with everybody.       *)
LEMMA EverywhereStays ==
  ASSUME TypeOK, EventInv, CopyInv, NEW r \in Runs, Turns(r), NEW q \in Runs \ {r}, Everywhere(q)
  PROVE  Everywhere(q)'
<1> USE DEF TypeOK
<1>0. thread' = thread /\ \A x \in Runs \ {r} : Same(x)
  BY OthersStay
<1>1. CASE Snapshot(r)
  BY <1>1, <1>0, SnapshotFacts DEF Everywhere, Same
<1>2. CASE ReadMessages(r)
  BY <1>2, <1>0, ReadFacts DEF Everywhere, Same
<1>3. CASE AppendUser(r) \/ AppendStep(r)
  BY <1>3, <1>0, AppendFacts DEF Everywhere, Same
<1>4. CASE Decide(r)
  BY <1>4, <1>0, DecideFacts DEF Everywhere, Same
<1>5. CASE After(r)
  <2>1. InTurn(r) /\ ~InTurn(r)' /\ pc'[r] # "write"
    BY <1>5, AfterFacts
  <2>2. q \in messages'[thread[q]]
    BY <1>5, <2>1, AfterFacts DEF Everywhere
  <2>3. \A x \in Runs \ {r} : preRun'[x] = preRun[x] /\ header'[x] = header[x]
    BY <1>5 DEF After
  <2> QED
    BY <2>1, <2>2, <2>3, <1>0 DEF Everywhere, Same
<1> QED
  BY <1>1, <1>2, <1>3, <1>4, <1>5 DEF Turns

(* Nobody else holds a copy of the thread while a run that has met no rival  *)
(* is in its turn.                                                           *)
LEMMA AloneInTurn ==
  ASSUME MeetInv, CopyInv, NEW r \in Runs \ met, InTurn(r), NEW x \in Runs \ {r}
  PROVE  /\ thread[x] = thread[r] => ~InTurn(x) /\ pc[x] # "write"
         /\ AgentOf[x] = AgentOf[r] => ~InTurn(x)
         /\ r \notin header[x] /\ r \notin preRun[x]
<1>1. (thread[x] = thread[r] => ~InTurn(x)) /\ (AgentOf[x] = AgentOf[r] => ~InTurn(x))
  BY MetBoth
<1>2. pc[x] = "write" => InTurn(x)
  BY DEF InTurn
<1>3. r \in header[x] \/ r \in preRun[x] => thread[x] = thread[r] /\ InTurn(x)
  BY <1>2 DEF CopyInv
<1> QED
  BY <1>1, <1>2, <1>3

LEMMA ThreadStep ==
  TypeOK /\ RecordInv /\ EventInv /\ MeetInv /\ CopyInv /\ ThreadInv /\ [Next]_vars => ThreadInv'
<1> SUFFICES ASSUME TypeOK, RecordInv, EventInv, MeetInv, CopyInv, ThreadInv, [Next]_vars
             PROVE  ThreadInv'
  OBVIOUS
<1>1. CASE Restart
  BY <1>1, RestartFacts DEF ThreadInv, Nowhere
<1>2. CASE Aside
  <2>1. /\ \A q \in Runs : Nowhere(q)' <=> Nowhere(q)
        /\ \A q \in Runs : Everywhere(q)' <=> Everywhere(q)
    BY <1>2 DEF Aside, Drifts, Nowhere, Everywhere
  <2> QED
    BY <1>2, <2>1 DEF Aside, Drifts, ThreadInv
<1>3. ASSUME NEW r \in Runs, Turns(r) PROVE ThreadInv'
  <2>1. met \subseteq met'
    BY <1>3, SnapshotFacts, ReadFacts, AppendFacts, DecideFacts, AfterFacts DEF Turns
  <2>2. ASSUME NEW q \in Runs \ {r}
        PROVE  /\ Unwritten(q)' => Nowhere(q)'
               /\ q \notin met' /\ RolledBack(q)' => Nowhere(q)'
               /\ q \notin met' /\ Counts(q)' => Everywhere(q)'
    BY <1>3, <2>1, OthersStay, NowhereStays, EverywhereStays DEF Same, ThreadInv
  <2>3. Unwritten(r)' => Nowhere(r)'
    <3>1. Unwritten(r)' => Unwritten(r) /\ ~(AppendUser(r) \/ AppendStep(r))
      BY <1>3, SnapshotFacts, ReadFacts, AppendFacts, DecideFacts, AfterFacts DEF Turns
    <3> QED
      BY <3>1, <1>3, NowhereStays DEF ThreadInv
  <2>4. ASSUME r \notin met', RolledBack(r)' PROVE Nowhere(r)'
    <3>1. After(r) /\ out[r] = "rollback"
      BY <1>3, <2>4, SnapshotFacts, ReadFacts, AppendFacts, DecideFacts, AfterFacts DEF Turns
    <3>2. r \notin met /\ InTurn(r)
      BY <3>1, <2>1, <2>4, AfterFacts
    <3>3. r \notin preRun[r] /\ header[r] = {}
      BY <3>1, AfterFacts DEF CopyInv
    <3>4. /\ messages' = [messages EXCEPT ![thread[r]] = preRun[r]]
          /\ preRun' = [preRun EXCEPT ![r] = {}] /\ header' = header
      BY <3>1 DEF After
    <3>5. \A t \in Threads \ {thread[r]} : r \notin messages[t]
      BY DEF CopyInv
    <3>6. \A t \in Threads : r \notin messages'[t]
      BY <3>3, <3>4, <3>5 DEF TypeOK
    <3>7. \A x \in Runs \ {r} : r \notin header[x] /\ r \notin preRun[x]
      BY <3>2, AloneInTurn
    <3>8. \A x \in Runs : r \notin header'[x] /\ r \notin preRun'[x]
      BY <3>3, <3>4, <3>7 DEF TypeOK
    <3> QED
      BY <3>6, <3>8 DEF Nowhere
  <2>5. ASSUME r \notin met', Counts(r)' PROVE Everywhere(r)'
    <3>1. ~Snapshot(r) /\ InTurn(r) /\ r \notin met
      BY <1>3, <2>1, <2>5, SnapshotFacts, ReadFacts, AppendFacts, DecideFacts, AfterFacts DEF Turns
    <3>2. r \in messages'[thread[r]]
      <4>1. CASE AppendUser(r) \/ AppendStep(r)
        BY <4>1, AppendFacts DEF TypeOK
      <4>2. CASE ReadMessages(r)
        BY <4>2, <2>5, <3>1, ReadFacts DEF ThreadInv, Everywhere
      <4>3. CASE Decide(r)
        BY <4>3, <2>5, <3>1, DecideFacts DEF ThreadInv, Everywhere
      <4>4. CASE After(r)
        BY <4>4, <2>5, <3>1, AfterFacts DEF ThreadInv, Everywhere
      <4> QED
        BY <1>3, <3>1, <4>1, <4>2, <4>3, <4>4 DEF Turns
    <3>3. ASSUME NEW x \in Runs \ {r}, thread[x] = thread[r]
          PROVE  pc'[x] # "write" /\ ~InTurn(x)'
      BY <1>3, <3>1, <3>3, AloneInTurn, OthersStay DEF Same
    <3> QED
      BY <1>3, <3>2, <3>3, OthersStay DEF Everywhere
  <2> QED
    BY <2>2, <2>3, <2>4, <2>5 DEF ThreadInv
<1> QED
  BY <1>1, <1>2, <1>3, WhoTurns

LEMMA ObserverStep ==
  TypeOK /\ RecordInv /\ EventInv /\ MeetInv /\ CopyInv /\ ObserverInv /\ [Next]_vars => ObserverInv'
<1> SUFFICES ASSUME TypeOK, RecordInv, EventInv, MeetInv, CopyInv, ObserverInv, [Next]_vars
             PROVE  ObserverInv'
  OBVIOUS
<1>1. CASE Restart
  BY <1>1, RestartFacts DEF ObserverInv
<1>2. CASE Aside
  BY <1>2 DEF Aside, Drifts, ObserverInv
<1>3. ASSUME NEW r \in Runs, Turns(r) PROVE ObserverInv'
  <2> USE OthersStay, <1>3 DEF TypeOK
  <2>1. CASE Snapshot(r)
    BY <2>1, SnapshotFacts, InTurnFacts DEF ObserverInv, Same
  <2>2. CASE ReadMessages(r)
    BY <2>2, ReadFacts DEF ObserverInv, Same
  <2>3. CASE AppendStep(r)
    BY <2>3, AppendFacts, AppendStepFacts DEF ObserverInv, Same
  <2>4. CASE After(r)
    BY <2>4, AfterFacts DEF ObserverInv, Same
  <2>5. CASE AppendUser(r)
    <3>1. ASSUME NEW q \in Runs, observer[AgentOf[r]] = q
          PROVE  q \in met /\ AgentOf[q] = AgentOf[r]
      BY <3>1, <2>5, AppendFacts, AppendUserFacts, MetBoth, InTurnFacts DEF ObserverInv
    <3>2. \A a \in Agents, q \in Runs :
            observer'[a] = q => AgentOf[q] = a /\ (q \in met' \/ Observing(q)')
      <4> TAKE a \in Agents, q \in Runs
      <4>1. CASE a = AgentOf[r]
        BY <4>1, <2>5, AppendFacts, AppendUserFacts
      <4>2. CASE a # AgentOf[r]
        <5>1. observer'[a] = observer[a] /\ (observer[a] = q => q # r)
          BY <4>2, <2>5, AppendUserFacts DEF ObserverInv
        <5>2. met' = met /\ \A x \in Runs \ {r} : Observing(x)' <=> Observing(x)
          BY <2>5, AppendFacts DEF Same
        <5> QED
          BY <5>1, <5>2 DEF ObserverInv
      <4> QED
        BY <4>1, <4>2
    <3>3. \A q \in Runs : prev'[q] # NoRun => prev'[q] \in met' /\ AgentOf[prev'[q]] = AgentOf[q]
      BY <3>1, <2>5, AppendFacts, AppendUserFacts DEF ObserverInv
    <3>4. ASSUME NEW q \in Runs \ {r}, q \notin met', Observing(q)' PROVE observer'[AgentOf[q]] = q
      <4>1. AgentOf[q] # AgentOf[r]
        BY <3>4, <2>5, AppendFacts, MetBoth, InTurnFacts DEF Same
      <4> QED
        BY <4>1, <3>4, <2>5, AppendFacts, AppendUserFacts DEF ObserverInv, Same
    <3>5. observer'[AgentOf[r]] = r
      BY <2>5, AppendUserFacts
    <3> QED
      BY <3>2, <3>3, <3>4, <3>5 DEF ObserverInv
  <2>6. CASE Decide(r)
    <3>1. \A a \in Agents, q \in Runs :
            observer'[a] = q => AgentOf[q] = a /\ (q \in met' \/ Observing(q)')
      <4> SUFFICES ASSUME NEW a \in Agents, NEW q \in Runs, observer'[a] = q
                   PROVE  AgentOf[q] = a /\ (q \in met' \/ Observing(q)')
        OBVIOUS
      <4>1. met' = met /\ observer' = [observer EXCEPT ![AgentOf[r]] = prev[r]]
        BY <2>6, DecideFacts
      <4>2. CASE a = AgentOf[r]
        BY <4>1, <4>2 DEF ObserverInv
      <4>3. CASE a # AgentOf[r]
        BY <4>1, <4>3 DEF ObserverInv, Same
      <4> QED
        BY <4>2, <4>3
    <3>2. \A q \in Runs : prev'[q] # NoRun => prev'[q] \in met' /\ AgentOf[prev'[q]] = AgentOf[q]
      BY <2>6, DecideFacts DEF ObserverInv
    <3>3. ASSUME NEW q \in Runs \ met', Observing(q)' PROVE observer'[AgentOf[q]] = q
      <4>1. q # r /\ Observing(q)
        BY <2>6, <3>3, DecideFacts DEF Same
      <4>2. AgentOf[q] # AgentOf[r]
        BY <4>1, <3>3, <2>6, DecideFacts, MetBoth, InTurnFacts
      <4> QED
        BY <4>1, <4>2, <3>3, <2>6, DecideFacts DEF ObserverInv
    <3> QED
      BY <3>1, <3>2, <3>3 DEF ObserverInv
  <2> QED
    BY <2>1, <2>2, <2>3, <2>4, <2>5, <2>6 DEF Turns
<1> QED
  BY <1>1, <1>2, <1>3, WhoTurns

LEMMA ValuesStep ==
  TypeOK /\ RecordInv /\ EventInv /\ MeetInv /\ ObserverInv /\ ValuesInv /\ [Next]_vars => ValuesInv'
<1> SUFFICES ASSUME TypeOK, RecordInv, EventInv, MeetInv, ObserverInv, ValuesInv, [Next]_vars
             PROVE  ValuesInv'
  OBVIOUS
<1>1. CASE Restart
  BY <1>1, RestartFacts DEF ValuesInv
<1>2. CASE Aside
  BY <1>2 DEF Aside, Drifts, ValuesInv
<1>3. ASSUME NEW r \in Runs, Turns(r) PROVE ValuesInv'
  <2> USE OthersStay, <1>3
  <2>1. CASE Snapshot(r)
    BY <2>1, SnapshotFacts DEF ValuesInv, Same
  <2>2. CASE ReadMessages(r)
    BY <2>2, ReadFacts DEF ValuesInv, Same
  <2>3. CASE AppendUser(r)
    BY <2>3, AppendFacts, AppendUserFacts DEF ValuesInv, Same
  <2>4. CASE Decide(r)
    BY <2>4, DecideFacts DEF ValuesInv, Same
  <2>5. CASE After(r)
    BY <2>5, AfterFacts DEF ValuesInv, Same
  <2>6. CASE AppendStep(r)
    <3> DEFINE o == observer[AgentOf[r]]
    <3>1. met' = met /\ InTurn(r) /\ Observing(r)
      BY <2>6, AppendFacts, AppendStepFacts
    <3>2. r \notin met => o = r
      BY <3>1 DEF ObserverInv
    <3>3. o \in Runs \ {r} => o \in met /\ r \in met
      BY <3>1, <3>2, MetBoth, InTurnFacts DEF ObserverInv
    <3>4. \/ o \notin Runs /\ stream' = stream
          \/ o \in Runs /\ stream' = [stream EXCEPT ![o] = @ \union {<<"values", r>>}]
      BY <2>6, AppendStepFacts DEF Notify, Publish, TypeOK
    <3>5. \A q \in Runs : stream'[q] = IF q = o THEN stream[q] \union {<<"values", r>>} ELSE stream[q]
      <4>1. stream = [q \in Runs |-> stream[q]]
        BY DEF TypeOK
      <4>2. CASE o \notin Runs /\ stream' = stream
        BY <4>2
      <4>3. CASE o \in Runs /\ stream' = [stream EXCEPT ![o] = @ \union {<<"values", r>>}]
        BY <4>1, <4>3
      <4> QED
        BY <3>4, <4>2, <4>3
    <3>6. /\ \A q, x \in Runs : <<"values", x>> \in stream[q] => <<"values", x>> \in stream'[q]
          /\ \A q, x \in Runs : <<"values", x>> \in stream'[q] =>
               <<"values", x>> \in stream[q] \/ (x = r /\ q = o)
          /\ o = r => <<"values", r>> \in stream'[r]
      <4>1. ASSUME NEW q \in Runs, NEW x \in Runs
            PROVE  /\ <<"values", x>> \in stream[q] => <<"values", x>> \in stream'[q]
                   /\ <<"values", x>> \in stream'[q] =>
                        <<"values", x>> \in stream[q] \/ (x = r /\ q = o)
        <5>1. CASE q = o
          <6>1. stream'[q] = stream[q] \union {<<"values", r>>}
            BY <3>5, <5>1
          <6>2. <<"values", x>> = <<"values", r>> => x = r
            OBVIOUS
          <6> QED
            BY <5>1, <6>1, <6>2
        <5>2. CASE q # o
          BY <3>5, <5>2
        <5> QED
          BY <5>1, <5>2
      <4>2. o = r => stream'[r] = stream[r] \union {<<"values", r>>}
        BY <3>5
      <4> QED
        BY <4>1, <4>2
    <3>7. \A x \in Runs : \A q \in Runs \ {x} : <<"values", q>> \in stream'[x] => q \in met' /\ x \in met'
      BY <3>1, <3>3, <3>6 DEF ValuesInv
    <3>8. \A x \in Runs \ met' : Answered(x)' => <<"values", x>> \in stream'[x]
      BY <3>1, <3>2, <3>6 DEF ValuesInv, Same
    <3> QED
      BY <3>7, <3>8 DEF ValuesInv
  <2> QED
    BY <2>1, <2>2, <2>3, <2>4, <2>5, <2>6 DEF Turns
<1> QED
  BY <1>1, <1>2, <1>3, WhoTurns

LEMMA TurnStart == Init => TurnInv
<1> SUFFICES ASSUME Init PROVE TurnInv
  OBVIOUS
<1>1. /\ \A r \in Runs : pc[r] = "none" /\ header[r] = {} /\ preRun[r] = {} /\ prev[r] = NoRun /\ stream[r] = {}
      /\ \A t \in Threads : messages[t] = {}
      /\ \A a \in Agents : observer[a] = NoRun
  BY DEF Init
<1>2. \A r \in Runs : ~InTurn(r) /\ ~Counts(r) /\ ~Observing(r) /\ ~RolledBack(r) /\ ~Answered(r)
  BY <1>1 DEF InTurn, Settle, Observing, Answering, Counts, Succeeded, RolledBack, Answered
<1> QED
  BY <1>1, <1>2 DEF TurnInv, MeetInv, CopyInv, ThreadInv, Nowhere, ObserverInv, ValuesInv

LEMMA TurnIsExact == TypeOK /\ TurnInv => LoneTurnsAreExact
<1> SUFFICES ASSUME TypeOK, TurnInv PROVE LoneTurnsAreExact
  OBVIOUS
<1>1. ASSUME NEW r \in Runs \ met, pc[r] = "done"
      PROVE  /\ mem[r] = "success" => r \in messages[thread[r]]
             /\ mem[r] = "error" /\ <<"error", r>> \notin stream[r] => \A t \in Threads : r \notin messages[t]
             /\ mem[r] = "success" => <<"values", r>> \in stream[r]
  <2>1. mem[r] = "success" => Counts(r) /\ Answered(r)
    BY <1>1 DEF Counts, Answered, Succeeded
  <2>2. mem[r] = "error" /\ <<"error", r>> \notin stream[r] => RolledBack(r)
    BY <1>1 DEF RolledBack
  <2> QED
    BY <2>1, <2>2 DEF TurnInv, ThreadInv, ValuesInv, Everywhere, Nowhere
<1>2. \A r \in Runs : \A q \in Runs \ {r} : <<"values", q>> \in stream[r] => {q, r} \subseteq met
  BY DEF TurnInv, ValuesInv
<1> QED
  BY <1>1, <1>2 DEF LoneTurnsAreExact, LoneTurnsStay, LoneStreamsAreOwn

(* What WorkersAdvance says of one step. *)
Advances ==
  \A r \in Runs : pc[r] # "none" /\ <<pc'[r], steps'[r]>> # <<pc[r], steps[r]>> => Way(r)' < Way(r)

(* How far a worker has to go at each position. *)
WayFacts ==
  \A r \in Runs :
    LET left == 3 * (MaxSteps - steps[r]) IN
    /\ pc[r] = "idle"  => Way(r) = 14 + left
    /\ pc[r] = "check" => Way(r) = 13 + left
    /\ pc[r] = "mark"  => Way(r) = 12 + left
    /\ pc[r] = "mark_store" => Way(r) = 11 + left
    /\ pc[r] = "snapshot" => Way(r) = 10 + left
    /\ pc[r] = "read"  => Way(r) = 9 + left
    /\ pc[r] = "write" => Way(r) = 8 + left
    /\ pc[r] = "loop"  => Way(r) = 7 + left
    /\ pc[r] = "settle" => Way(r) = 6
    /\ pc[r] \in {"set", "early"} => Way(r) = 5
    /\ pc[r] \in {"set_store", "early_store"} => Way(r) = 4
    /\ pc[r] = "after" => Way(r) = 3
    /\ pc[r] = "end"   => Way(r) = 2
    /\ pc[r] = "done"  => Way(r) = 1
    /\ pc[r] = "dead"  => Way(r) = 0

LEMMA WayIs == TypeOK => WayFacts
<1> SUFFICES ASSUME TypeOK PROVE WayFacts
  OBVIOUS
<1>1. ASSUME NEW r \in Runs, NEW p \in PC \ {"none"}, pc[r] = p
      PROVE  Way(r) = IF p \in DOMAIN ToLoop
                      THEN 7 + 3 * (MaxSteps - steps[r]) + ToLoop[p] ELSE ToEnd[p]
  BY <1>1 DEF Way, ToLoop, ToEnd, PC, Early, Opening, Turn, Settle
<1>2. ASSUME NEW r \in Runs PROVE 3 * (MaxSteps - steps[r]) \in Nat
  <2>1. steps[r] \in 0..MaxSteps /\ MaxSteps \in Nat
    BY DEF TypeOK
  <2> QED
    BY <2>1
<1> QED
  BY <1>1, <1>2 DEF WayFacts, ToLoop, ToEnd, PC, Early, Opening, Turn, Settle

LEMMA WayWillBe == TypeOK' => WayFacts'
BY WayIs, PTL

(* A lost worker starts no turn. *)
DeadInv == \A r \in Runs : pc[r] = "dead" => steps[r] = 0

(* The moves of a worker. *)
Hops(r) ==
  \/ pc'[r] = pc[r] /\ steps'[r] = steps[r]
  \/ /\ <<pc[r], pc'[r]>> \in {<<"none", "idle">>, <<"idle", "check">>, <<"check", "early">>,
          <<"check", "mark">>, <<"early", "early_store">>, <<"early_store", "end">>,
          <<"mark", "mark_store">>, <<"mark_store", "snapshot">>, <<"snapshot", "read">>,
          <<"read", "write">>, <<"write", "loop">>, <<"write", "settle">>, <<"loop", "settle">>,
          <<"set", "set_store">>, <<"set_store", "after">>, <<"after", "end">>, <<"end", "done">>}
     /\ steps'[r] = steps[r]
  \/ pc[r] = "loop" /\ pc'[r] \in {"read", "settle"} /\ steps'[r] = steps[r] + 1
  \/ pc[r] = "settle" /\ pc'[r] = "set" /\ steps'[r] = 0
  \/ pc[r] = "none" /\ pc'[r] = "none"
  \/ pc[r] # "none" /\ pc'[r] = "dead" /\ steps'[r] = 0

LEMMA AllHop == TypeOK /\ [Next]_vars => \A r \in Runs : Hops(r)
<1> SUFFICES ASSUME TypeOK, [Next]_vars PROVE \A r \in Runs : Hops(r)
  OBVIOUS
<1> USE DEF TypeOK, recordVars, workerVars, Goto, Hops
<1>1. ASSUME NEW r \in Runs, NEW hit \in SUBSET Runs, Fresh(r), Insert(r, hit)
      PROVE  \A q \in Runs : Hops(q)
  BY <1>1 DEF Fresh, Insert
<1>2. ASSUME NEW r \in Runs,
             Start(r) \/ Check(r) \/ EarlyStatus(r) \/ MarkRunning(r) \/ Snapshot(r) \/ ReadMessages(r)
      PROVE  \A q \in Runs : Hops(q)
  BY <1>2 DEF Start, Check, EarlyStatus, MarkRunning, Snapshot, ReadMessages
<1>3. ASSUME NEW r \in Runs,
             AppendUser(r) \/ AppendStep(r) \/ StepFails(r) \/ SetFinal(r) \/ After(r) \/ PublishEnd(r)
      PROVE  \A q \in Runs : Hops(q)
  BY <1>3 DEF AppendUser, AppendStep, StepFails, SetFinal, After, PublishEnd
<1>4. ASSUME NEW r \in Runs, StoreStatus(r) PROVE \A q \in Runs : Hops(q)
  BY <1>4 DEF StoreStatus
<1>5. ASSUME NEW r \in Runs, Step(r) PROVE \A q \in Runs : Hops(q)
  BY <1>5 DEF Step
<1>6. ASSUME NEW r \in Runs, Decide(r) PROVE \A q \in Runs : Hops(q)
  BY <1>6 DEF Decide
<1>7. CASE Restart
  BY <1>7 DEF Restart
<1>8. ASSUME UNCHANGED <<pc, steps>> PROVE \A q \in Runs : Hops(q)
  BY <1>8
<1>9. ASSUME NEW r \in Runs, CreateReject(r) \/ Create(r) \/ \E s \in Actions : CreateReplacing(r, s)
      PROVE  \E hit \in SUBSET Runs : Fresh(r) /\ Insert(r, hit)
  BY <1>9 DEF CreateReject, Create, CreateReplacing, ThreadInflight
<1>10. ASSUME NEW r \in Runs, \/ CreateFails(r) \/ BridgeAbort(r) \/ LateWrite(r) \/ ReconcileCheck(r)
                              \/ ReconcileMark(r) \/ \E s \in Actions : Cancel(r, s)
       PROVE  UNCHANGED <<pc, steps>>
  BY <1>10 DEF CreateFails, BridgeAbort, LateWrite, ReconcileCheck, ReconcileMark, Cancel
<1>11. CASE Shutdown \/ ReconcileList \/ ReconcileDone \/ UNCHANGED vars
  BY <1>8, <1>11 DEF Shutdown, ReconcileList, ReconcileDone, vars
<1> QED
  BY <1>1, <1>2, <1>3, <1>4, <1>5, <1>6, <1>7, <1>8, <1>9, <1>10, <1>11
     DEF Next, Request, Worker, Reconcile

LEMMA AdvanceStep == TypeOK /\ TypeOK' /\ DeadInv /\ [Next]_vars => Advances /\ DeadInv'
<1> SUFFICES ASSUME TypeOK, TypeOK', DeadInv, [Next]_vars PROVE Advances /\ DeadInv'
  OBVIOUS
<1>1. ASSUME NEW r \in Runs
      PROVE  /\ pc[r] # "none" /\ <<pc'[r], steps'[r]>> # <<pc[r], steps[r]>> => Way(r)' < Way(r)
             /\ pc'[r] = "dead" => steps'[r] = 0
  <2>1. /\ MaxSteps \in Nat /\ steps[r] \in Nat /\ steps'[r] \in Nat
        /\ steps[r] <= MaxSteps /\ steps'[r] <= MaxSteps /\ pc[r] \in PC
    BY DEF TypeOK
  <2>2. Hops(r)
    BY AllHop
  <2>3. pc[r] = "dead" => steps[r] = 0
    BY DEF DeadInv
  <2>4. WayFacts /\ WayFacts'
    BY WayIs, WayWillBe
  <2>5. pc'[r] = "dead" => Way(r)' = 0
    BY <2>4 DEF WayFacts
  <2>6. pc[r] \notin {"none", "dead"} => Way(r) > 0
    BY <2>1, <2>4 DEF WayFacts, PC, Early, Opening, Turn, Settle
  <2> QED
    BY <2>1, <2>2, <2>3, <2>4, <2>5, <2>6 DEF Hops, WayFacts
<1> QED
  BY <1>1 DEF Advances, DeadInv

-----------------------------------------------------------------------------
Inv == TypeOK /\ PositionInv

(* The inductive invariant: the types, and what holds at each position of a  *)
(* worker.                                                                   *)
THEOREM Invariant == Spec => []Inv
<1>1. Init => Inv
  BY DEF Init, Inv, PositionInv, TypeOK, OutcomeInv, RecordInv, StoreInv, EventInv,
         Inflight, Terminal, Status, PC, Early, Opening, Turn, Settle, Outcome
<1>2. Inv /\ [Next]_vars => Inv'
  BY TypeStep, OutcomeStep, RecordStep, StoreStep, EventStep DEF Inv, PositionInv
<1> QED
  BY <1>1, <1>2, PTL DEF Spec

(* Every variable keeps its type. *)
THEOREM TypeCorrect == Spec => []TypeOK
<1>1. Inv => TypeOK
  BY DEF Inv
<1> QED
  BY <1>1, Invariant, PTL

(* However requests, cancels and workers interleave, a thread has at most    *)
(* one inflight run that nobody has aborted (agent.go 390-439).              *)
THEOREM OneLiveRun == Spec => []AtMostOneLive
<1>1. Init => AtMostOneLive
  BY DEF Init, AtMostOneLive, Inflight
<1>2. Inv /\ AtMostOneLive /\ [Next]_vars => AtMostOneLive'
  BY LiveStep DEF Inv, PositionInv
<1> QED
  BY <1>1, <1>2, Invariant, PTL DEF Spec

(* success and error are final while the process lives (agent.go 342-359).   *)
THEOREM FinalIsFinal == Spec => FinalStatusSticks
<1>1. Inv /\ [Next]_vars => [Sticks]_vars
  BY StickStep DEF Inv, PositionInv
<1> QED
  BY <1>1, Invariant, PTL DEF Spec, FinalStatusSticks, Sticks

(* A worker that is through leaves a terminal row, whatever writes are still *)
(* to come (agent.go 342-359, 433-437, 464-467).                             *)
THEOREM TerminalRows == Spec => []SettledRowIsTerminal
<1>1. Inv => SettledRowIsTerminal
  BY DEF Inv, PositionInv, StoreInv, SettledRowIsTerminal
<1> QED
  BY <1>1, Invariant, PTL

(* An error event tells the status, and a run that failed by itself has      *)
(* published one, whoever cancels meanwhile (loop.go 238-256).               *)
THEOREM EventsTellTheStatus == Spec => []ErrorEventMatchesStatus
<1>1. Inv => ErrorEventMatchesStatus
  BY DEF Inv, PositionInv, EventInv, ErrorEventMatchesStatus
<1> QED
  BY <1>1, Invariant, PTL

(* The inductive invariant of the turns: who holds a message of whom, and to *)
(* whose stream an Agent publishes.                                          *)
THEOREM TurnsInvariant == Spec => []TurnInv
<1>1. Inv /\ TurnInv /\ [Next]_vars => TurnInv'
  BY MeetStep, CopyStep, ThreadStep, ObserverStep, ValuesStep DEF Inv, PositionInv, TurnInv
<1> QED
  BY <1>1, TurnStart, Invariant, PTL DEF Spec

(* A turn that met no rival keeps its messages if it succeeded, loses them   *)
(* if it was rolled back, and shows its values on its own stream and on no   *)
(* other, for any threads and Agents the runs share (agent.go 26, 166;       *)
(* loop.go 142-148, 212-247).                                                *)
THEOREM LoneTurns == Spec => []LoneTurnsAreExact
<1>1. Inv /\ TurnInv => LoneTurnsAreExact
  BY TurnIsExact DEF Inv
<1> QED
  BY <1>1, Invariant, TurnsInvariant, PTL

(* Every move of a worker brings it nearer to its end, whatever requests and *)
(* store writes come between: with weak fairness of the workers that is why  *)
(* a run settles (loop.go 52-58, 139, 195-257).                              *)
THEOREM WorkersMoveOn == Spec => WorkersAdvance
<1>1. Init => DeadInv
  BY DEF Init, DeadInv
<1>2. Inv => TypeOK
  BY DEF Inv
<1>3. TypeOK /\ TypeOK' /\ DeadInv /\ [Next]_vars => DeadInv' /\ [Advances]_vars
  BY AdvanceStep
<1> QED
  BY <1>1, <1>2, <1>3, Invariant, PTL DEF Spec, WorkersAdvance, Advances

(* A run that is through has left a terminal row and a stream that tells     *)
(* what became of it (agent.go 342-359, loop.go 238-256).                    *)
THEOREM EndsAreTold == Spec => []RunsEndAsTold
BY TerminalRows, EventsTellTheStatus, PTL DEF RunsEndAsTold

(* A run has the steps it has on its own when a stream goes on beside it.    *)
LEMMA RunPart == BothSpec => Spec
<1>1. BothInit => Init
  BY DEF BothInit
<1>2. [BothNext]_bothVars => [Next]_vars
  BY DEF BothNext, bothVars, Running, Streaming
<1> QED
  BY <1>1, <1>2, PTL DEF BothSpec, Spec

(* The bridge has the steps it has on its own when a run goes on beside it.  *)
LEMMA StreamPart == BothSpec => SB!Spec
<1>1. BothInit => SB!Init
  BY DEF BothInit
<1>2. [BothNext]_bothVars => [SB!Next]_SB!vars
  BY DEF BothNext, bothVars, Running, Streaming, sbVars, SB!vars, SB!streamVars, SB!workVars,
     SB!subVars
<1> QED
  BY <1>1, <1>2, PTL DEF BothSpec, SB!Spec

(* A reader misses evicted events only, gets nothing twice and the end last  *)
(* (stream.go 135-227).                                                      *)
THEOREM StreamReads == BothSpec => []ReadsInOrder
BY StreamPart, StreamAssumption, ReadersAreServed, PTL DEF ReadsInOrder

(* The bridge implements an EventLog per stream object (stream.go 100-250).  *)
THEOREM StreamImplementsLog == BothSpec => ImplementsEventLog
BY StreamPart, StreamAssumption, BridgeImplementsLog, PTL DEF ImplementsEventLog

(* Side by side, too, a thread has one live run, its rows end up terminal,   *)
(* its events tell the status and its lone turns are exact (agent.go         *)
(* 342-439, loop.go 212-256).                                                *)
THEOREM RunsBesideStreams ==
  BothSpec => [](AtMostOneLive /\ RunsEndAsTold /\ LoneTurnsAreExact)
BY RunPart, OneLiveRun, EndsAreTold, LoneTurns, PTL
=============================================================================
