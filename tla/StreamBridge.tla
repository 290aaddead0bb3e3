---------------------------- MODULE StreamBridge ----------------------------
(***************************************************************************)
(* runtime/stream.go: the event log of one run id, the worker that         *)
(* publishes to it and its subscribers, each one a consumer and the        *)
(* goroutine `deliver` that feeds the consumer's channel.                  *)
(*                                                                         *)
(* Streams are created lazily and deleted by Cleanup and Close, so that    *)
(* several stream objects may carry the same run id one after the other;   *)
(* a subscriber keeps the object it has found.  Event number o of an       *)
(* object is the one at absolute offset o; the retained ones are those     *)
(* from lo to hi - 1.                                                      *)
(***************************************************************************)
EXTENDS Naturals, Sequences, FiniteSets

CONSTANTS
  Subs,         \* subscriptions, each one used once
  MaxSize,      \* StreamBridge.maxsize: retained events, and cap(sub.out)
  MaxEvents,    \* bound: events the worker publishes
  MaxStreams,   \* bound: stream objects created for the run id
  MaxCloses     \* bound: calls of Close

ConstantsAssumption ==
  /\ MaxSize \in Nat \ {0}
  /\ MaxEvents \in Nat
  /\ MaxStreams \in Nat \ {0}
  /\ MaxCloses \in Nat

VARIABLES
  cur,       \* the stream object in b.streams, 0 if there is none
  made,      \* stream objects created so far
  lo,        \* object -> startOffset
  hi,        \* object -> seq, the next offset
  ended,     \* object -> publish_end was called
  published, \* events the worker has published
  worker,    \* "publishing", "finished" (PublishEnd), "cleaned" (Cleanup ran)
  closes,    \* calls of Close so far
  place,     \* subscription -> where its deliver goroutine is
  obj,       \* subscription -> the object it is attached to, once it is not idle
  last,      \* subscription -> the last event id its client sent
  from,      \* subscription -> the offset it started at
  offset,    \* subscription -> the next offset to read
  hand,      \* subscription -> the item deliver is about to send
  wake,      \* subscription -> a token is in its wake channel
  chan,      \* subscription -> its channel
  got,       \* subscription -> the offsets its consumer has received
  eof,       \* subscriptions whose consumer has received __end__
  gone       \* subscriptions whose consumer has stopped reading

streamVars == <<cur, made, lo, hi, ended>>
workVars   == <<published, worker, closes>>
subVars    == <<place, obj, last, from, offset, hand, wake, chan, got, eof, gone>>
vars == <<streamVars, workVars, subVars>>

Objects == 1..MaxStreams

(* An event id is unique to its object: the pair of object and offset.       *)
Id(g, o) == <<g, o>>
NoId == Id(0, 0)

Event(o) == <<"event", o>>
End  == <<"end", 0>>
Beat == <<"heartbeat", 0>>
Items == {Event(o) : o \in 0..MaxEvents} \union {End, Beat}

TypeOK ==
  /\ cur \in 0..MaxStreams /\ made \in 0..MaxStreams
  /\ lo \in [Objects -> Nat] /\ hi \in [Objects -> Nat]
  /\ ended \in [Objects -> BOOLEAN]
  /\ published \in 0..MaxEvents
  /\ worker \in {"publishing", "finished", "cleaned"}
  /\ closes \in 0..MaxCloses
  /\ place \in [Subs -> {"idle", "drain", "send", "drained", "wait", "exit", "closed"}]
  /\ obj \in [Subs -> Objects]
  /\ last \in [Subs -> (0..MaxStreams) \X Nat]
  /\ from \in [Subs -> Nat] /\ offset \in [Subs -> Nat]
  /\ hand \in [Subs -> Items]
  /\ wake \in [Subs -> BOOLEAN]
  /\ chan \in [Subs -> Seq(Items)] /\ \A s \in Subs : Len(chan[s]) <= MaxSize
  /\ got \in [Subs -> Seq(0..MaxEvents)]
  /\ eof \in SUBSET Subs /\ gone \in SUBSET Subs

Init ==
  /\ cur = 0 /\ made = 0
  /\ lo = [g \in Objects |-> 0] /\ hi = [g \in Objects |-> 0]
  /\ ended = [g \in Objects |-> FALSE]
  /\ published = 0 /\ worker = "publishing" /\ closes = 0
  /\ place = [s \in Subs |-> "idle"]
  /\ obj = [s \in Subs |-> 1]
  /\ last = [s \in Subs |-> NoId]
  /\ from = [s \in Subs |-> 0] /\ offset = [s \in Subs |-> 0]
  /\ hand = [s \in Subs |-> Beat]
  /\ wake = [s \in Subs |-> FALSE]
  /\ chan = [s \in Subs |-> <<>>] /\ got = [s \in Subs |-> <<>>]
  /\ eof = {} /\ gone = {}

-----------------------------------------------------------------------------
(* b.get(runID): the object of the run id, created if there is none.         *)
Get(g) ==
  \/ cur # 0 /\ g = cur /\ UNCHANGED <<cur, made>>
  \/ cur = 0 /\ made < MaxStreams /\ g = made + 1 /\ cur' = g /\ made' = g

(* Faulty: the wake channel has no buffer, so that only a subscriber in its  *)
(* select gets the token.                                                    *)
NotifyWaiting(g) == wake' = [s \in Subs |-> wake[s] \/ (obj[s] = g /\ place[s] = "wait")]

(* notifySub for every subscriber registered with object g.                  *)
NotifyAll(g) ==
  wake' = [s \in Subs |-> wake[s] \/ (obj[s] = g /\ place[s] \notin {"idle", "closed"})]

(* The worker of the run.  An overflow drops the oldest event.  A worker of  *)
(* another run that publishes here by a swapped observer (loop.go 226), even *)
(* after the end, is a matter of RunManager.                                 *)
Publish ==
  \E g \in Objects :
    /\ worker = "publishing" /\ published < MaxEvents
    /\ Get(g)
    /\ hi' = [hi EXCEPT ![g] = @ + 1]
    /\ lo' = [lo EXCEPT ![g] = IF hi[g] + 1 - @ > MaxSize THEN hi[g] + 1 - MaxSize ELSE @]
    /\ NotifyAll(g)
    /\ published' = published + 1
    /\ UNCHANGED <<ended, worker, closes, place, obj, last, from, offset, hand, chan, got, eof, gone>>

PublishEnd ==
  \E g \in Objects :
    /\ worker = "publishing"
    /\ Get(g)
    /\ ended' = [ended EXCEPT ![g] = TRUE]
    /\ NotifyAll(g)
    /\ worker' = "finished"
    /\ UNCHANGED <<lo, hi, published, closes, place, obj, last, from, offset, hand, chan, got, eof, gone>>

(* The timer that RunAgent arms with CleanupAfter once the run has ended.    *)
Cleanup ==
  /\ worker = "finished"
  /\ worker' = "cleaned"
  /\ cur' = 0
  /\ UNCHANGED <<made, lo, hi, ended, published, closes, subVars>>

Close ==
  /\ closes < MaxCloses
  /\ closes' = closes + 1
  /\ cur' = 0
  /\ UNCHANGED <<made, lo, hi, ended, published, worker, subVars>>

-----------------------------------------------------------------------------
(* SubscribeHeartbeat.  The offset after lastEventID, if that event is still *)
(* retained by this object; otherwise the oldest retained one.               *)

StartAt(g, id) ==
  IF id[1] = g /\ id[2] \in lo[g]..(hi[g] - 1) THEN id[2] + 1 ELSE lo[g]

(* What a client can send: nothing, or the last id it received on a          *)
(* connection it has lost.                                                   *)
LastIds == {NoId} \union {Id(obj[p], got[p][Len(got[p])]) : p \in {q \in gone : got[q] # <<>>}}

Subscribe(s) ==
  \E g \in Objects, id \in LastIds :
    /\ place[s] = "idle"
    /\ Get(g)
    /\ obj' = [obj EXCEPT ![s] = g]
    /\ last' = [last EXCEPT ![s] = id]
    /\ from' = [from EXCEPT ![s] = StartAt(g, id)]
    /\ offset' = [offset EXCEPT ![s] = StartAt(g, id)]
    /\ place' = [place EXCEPT ![s] = "drain"]
    /\ UNCHANGED <<lo, hi, ended, workVars, hand, wake, chan, got, eof, gone>>

-----------------------------------------------------------------------------
(* The goroutine deliver.                                                    *)

(* Faulty: the end is looked at before the events that are left. *)
DrainEndFirst(s) ==
  LET g  == obj[s]
      at == IF offset[s] < lo[g] THEN lo[g] ELSE offset[s] IN
  /\ place[s] = "drain"
  /\ IF ended[g] \/ at >= hi[g]
     THEN /\ hand' = IF ended[g] THEN [hand EXCEPT ![s] = End] ELSE hand
          /\ offset' = [offset EXCEPT ![s] = at]
          /\ place' = [place EXCEPT ![s] = IF ended[g] THEN "send" ELSE "drained"]
     ELSE /\ hand' = [hand EXCEPT ![s] = Event(at)]
          /\ offset' = [offset EXCEPT ![s] = at + 1]
          /\ place' = [place EXCEPT ![s] = "send"]
  /\ UNCHANGED <<streamVars, workVars, obj, last, from, wake, chan, got, eof, gone>>

(* One round of drainAvailable under the lock: skip what was evicted, take   *)
(* the next retained event, or learn that the stream has ended or is idle.   *)
Drain(s) ==
  LET g  == obj[s]
      at == IF offset[s] < lo[g] THEN lo[g] ELSE offset[s] IN
  /\ place[s] = "drain"
  /\ \/ /\ at < hi[g]
        /\ hand' = [hand EXCEPT ![s] = Event(at)]
        /\ offset' = [offset EXCEPT ![s] = at + 1]
        /\ place' = [place EXCEPT ![s] = "send"]
     \/ /\ at >= hi[g]
        /\ hand' = IF ended[g] THEN [hand EXCEPT ![s] = End] ELSE hand
        /\ offset' = [offset EXCEPT ![s] = at]
        /\ place' = [place EXCEPT ![s] = IF ended[g] THEN "send" ELSE "drained"]
  /\ UNCHANGED <<streamVars, workVars, obj, last, from, wake, chan, got, eof, gone>>

(* Faulty: an item that finds the channel full is dropped. *)
SendOrDrop(s) ==
  /\ place[s] = "send"
  /\ chan' = IF Len(chan[s]) < MaxSize THEN [chan EXCEPT ![s] = Append(@, hand[s])] ELSE chan
  /\ hand' = [hand EXCEPT ![s] = Beat]
  /\ place' = [place EXCEPT ![s] = IF hand[s] = End THEN "exit" ELSE "drain"]
  /\ UNCHANGED <<streamVars, workVars, obj, last, from, offset, wake, got, eof, gone>>

(* sub.out <- e, which blocks while the channel is full.                     *)
Send(s) ==
  /\ place[s] = "send"
  /\ Len(chan[s]) < MaxSize
  /\ chan' = [chan EXCEPT ![s] = Append(@, hand[s])]
  /\ hand' = [hand EXCEPT ![s] = Beat]
  /\ place' = [place EXCEPT ![s] = IF hand[s] = End THEN "exit" ELSE "drain"]
  /\ UNCHANGED <<streamVars, workVars, obj, last, from, offset, wake, got, eof, gone>>

(* The deferred unregister and close(sub.out).                               *)
Exit(s) ==
  /\ place[s] = "exit"
  /\ place' = [place EXCEPT ![s] = "closed"]
  /\ wake' = [wake EXCEPT ![s] = FALSE]
  /\ UNCHANGED <<streamVars, workVars, obj, last, from, offset, hand, chan, got, eof, gone>>

(* From the unlock in drainAvailable to the select.                          *)
Park(s) ==
  /\ place[s] = "drained"
  /\ place' = [place EXCEPT ![s] = "wait"]
  /\ UNCHANGED <<streamVars, workVars, obj, last, from, offset, hand, wake, chan, got, eof, gone>>

Wake(s) ==
  /\ place[s] = "wait" /\ wake[s]
  /\ wake' = [wake EXCEPT ![s] = FALSE]
  /\ place' = [place EXCEPT ![s] = "drain"]
  /\ UNCHANGED <<streamVars, workVars, obj, last, from, offset, hand, chan, got, eof, gone>>

(* The ticker fired: a heartbeat if there is room, then look again.          *)
Tick(s) ==
  /\ place[s] = "wait"
  /\ chan' = IF Len(chan[s]) < MaxSize THEN [chan EXCEPT ![s] = Append(@, Beat)] ELSE chan
  /\ place' = [place EXCEPT ![s] = "drain"]
  /\ UNCHANGED <<streamVars, workVars, obj, last, from, offset, hand, wake, got, eof, gone>>

-----------------------------------------------------------------------------
(* The consumer.                                                             *)

Receive(s) ==
  /\ s \notin gone
  /\ chan[s] # <<>>
  /\ chan' = [chan EXCEPT ![s] = Tail(@)]
  /\ LET e == Head(chan[s]) IN
       /\ got' = IF e \in {End, Beat} THEN got ELSE [got EXCEPT ![s] = Append(@, e[2])]
       /\ eof' = IF e = End THEN eof \union {s} ELSE eof
  /\ UNCHANGED <<streamVars, workVars, place, obj, last, from, offset, hand, wake, gone>>

(* The connection breaks: the bridge has no unsubscribe, the consumer just   *)
(* stops reading.                                                            *)
Leave(s) ==
  /\ place[s] # "idle" /\ s \notin gone /\ s \notin eof
  /\ gone' = gone \union {s}
  /\ UNCHANGED <<streamVars, workVars, place, obj, last, from, offset, hand, wake, chan, got, eof>>

-----------------------------------------------------------------------------
Deliver(s) == Drain(s) \/ Send(s) \/ Park(s) \/ Wake(s) \/ Exit(s)

Next ==
  \/ Publish \/ PublishEnd \/ Cleanup \/ Close
  \/ \E s \in Subs : Subscribe(s) \/ Deliver(s) \/ Tick(s) \/ Receive(s) \/ Leave(s)

Spec == Init /\ [][Next]_vars

(* deliver goroutines run and a connected consumer goes on reading; nothing  *)
(* is assumed of the ticker, of clients, or of the worker.                   *)
Fairness == \A s \in Subs : WF_vars(Deliver(s)) /\ WF_vars(Receive(s))

FairSpec == Spec /\ Fairness

-----------------------------------------------------------------------------
(* Safety.                                                                   *)

Offsets(q) == {q[i][2] : i \in {j \in 1..Len(q) : q[j] \notin {End, Beat}}}
InTransit(s) == Offsets(chan[s]) \union (IF hand[s] \in {End, Beat} THEN {} ELSE {hand[s][2]})
Received(s)  == {got[s][i] : i \in 1..Len(got[s])}

(* The first event a subscriber is owed: the one after the id its client     *)
(* sent, or the oldest one retained when it subscribed.                      *)
Owed(s) == IF last[s][1] = obj[s] THEN last[s][2] + 1 ELSE from[s]

(* From there up to the event deliver reads next, every event was received,  *)
(* is on its way or was evicted before deliver came to it: reconnection, the *)
(* wake tokens, the channel and the window reset lose nothing else           *)
(* (stream.go 135-227).                                                      *)
OnlyEvictionLoses ==
  \A s \in Subs : place[s] # "idle" =>
    \A o \in Owed(s)..(offset[s] - 1) :
      o \in Received(s) \union InTransit(s) \/ o < lo[obj[s]]

(* __end__ is the last thing sent, and nobody gets it with a retained event  *)
(* of the run still to come (stream.go 219-225).                             *)
EndIsLast ==
  \A s \in Subs :
    s \in eof \/ End \in {chan[s][i] : i \in 1..Len(chan[s])} =>
      ended[obj[s]] /\ offset[s] = hi[obj[s]]

(* A client that reconnects to the same stream with the last id it saw gets  *)
(* none of the events it has already had (stream.go 142-160).                *)
NoReplay ==
  \A s \in Subs :
    last[s][1] = obj[s] => \A o \in Received(s) \union InTransit(s) : o > last[s][2]

(* deliver sleeps, or is about to, without a token only when it has read all *)
(* of a stream that has not ended: what is published between its last look   *)
(* and its select leaves a token (stream.go 92-126, 186-199).                *)
NoWakeupIsLost ==
  \A s \in Subs :
    place[s] \in {"drained", "wait"} /\ ~wake[s] => offset[s] = hi[obj[s]] /\ ~ended[obj[s]]

(* A reader is served like that all the time: only eviction loses events,    *)
(* the end comes last, nothing comes twice, and nobody sleeps through what   *)
(* is published, in well-typed states.                                       *)
ReadsInOrder == TypeOK /\ OnlyEvictionLoses /\ EndIsLast /\ NoReplay /\ NoWakeupIsLost

(* Refinement: seen from outside, deliver and its channels are a reader of   *)
(* an EventLog per stream object.                                            *)

OwedNext(s) == IF got[s] = <<>> THEN Owed(s) ELSE got[s][Len(got[s])] + 1

Log == INSTANCE EventLog WITH
  Logs    <- Objects,
  Readers <- Subs,
  length  <- hi,
  floor   <- lo,
  closed  <- ended,
  feed    <- [s \in Subs |-> IF place[s] = "idle" THEN 0 ELSE obj[s]],
  next    <- [s \in Subs |-> IF place[s] = "idle" THEN 0 ELSE OwedNext(s)],
  done    <- eof

(* A consumer reads one log forward, misses only evicted events, and gets    *)
(* __end__ after the last one, whatever deliver, the worker and the cleanup  *)
(* timer do in between (stream.go 100-250).                                  *)
ImplementsEventLog == Log!Spec

(* Liveness.                                                                 *)

(* No wakeup is lost: an event of the object a subscriber is attached to     *)
(* reaches its consumer or falls out of the window, without the help of a    *)
(* heartbeat (stream.go 92-115, 174-201).                                    *)
PublishedIsDelivered ==
  \A s \in Subs : \A o \in 0..(MaxEvents - 1) :
    place[s] # "idle" /\ from[s] <= o /\ o < hi[obj[s]]
      ~> o \in Received(s) \/ o < lo[obj[s]] \/ s \in gone

(* A subscriber attached to a stream that has ended gets __end__ and its     *)
(* goroutine exits, also when the stream is cleaned up meanwhile (stream.go  *)
(* 118-126, 205-227).                                                        *)
EndIsDelivered ==
  \A s \in Subs :
    place[s] # "idle" /\ ended[obj[s]] ~> (s \in eof /\ place[s] = "closed") \/ s \in gone

(* A subscriber that stays is served to the end.                             *)
EventsAreDelivered == PublishedIsDelivered /\ EndIsDelivered

=============================================================================
