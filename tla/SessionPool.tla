----------------------------- MODULE SessionPool -----------------------------
(***************************************************************************)
(* The pool of persistent MCP sessions of mcp/mcp.go (136-520).  A call of *)
(* GetSession reuses the session of its key, joins the call that is        *)
(* creating one, or becomes the creator: it publishes itself in inflight,  *)
(* starts an owner goroutine that opens the session, and promotes it once  *)
(* it is ready.  Calls of CloseScope, CloseServer and CloseAll, evictions  *)
(* and cancelled contexts take sessions away at any moment in between; the *)
(* pool's mutex covers the maps, never a wait.                             *)
(*                                                                         *)
(* An owner and the session it opens are named by the call that created    *)
(* them.                                                                   *)
(***************************************************************************)
EXTENDS Naturals, Sequences, FiniteSets, Selection

CONSTANTS
  Servers, Scopes,
  Gets,         \* calls of GetSession, each one made once
  Closes,       \* calls of CloseScope, CloseServer and CloseAll
  None, Failed, \* no result yet; a result with an error
  MaxSessions,  \* SessionPool.max
  MaxTimeouts   \* bound: waits that SessionCloseTimeout ends

ASSUME ConstantsAssumption ==
  /\ MaxSessions \in Nat \ {0} /\ MaxTimeouts \in Nat
  /\ {None, Failed} \cap (Gets \union Closes) = {} /\ None # Failed
  /\ Gets \cap Closes = {}

Keys  == Servers \X Scopes
Calls == Gets \union Closes

VARIABLES
  \* the pool, under p.mu
  entries,    \* key -> the owner of the pooled session, None if there is none
  order,      \* keys, least recently used first
  inflight,   \* key -> the call that is creating its session, or None
  peak,       \* history: the most creations that were under way at a time
  \* the owner goroutine runSession of each creator
  own,        \* "none", "opening", "open", "done"
  cancelled,  \* its context is cancelled
  signal,     \* closeCh is closed
  ready,      \* what readySignal holds: None, Failed or the session
  \* the calls
  pc,         \* call -> where it is
  key,        \* call -> the key it asks for, None before the call
  on,         \* call -> the owner it waits for
  todo,       \* call -> owners it has still to shut down
  cur,        \* call -> the owner whose end it awaits in shutdownOwner, or None
  ctx,        \* calls whose context is cancelled
  res,        \* call -> what it returns
  timeouts    \* waits of shutdownOwner given up so far

poolVars  == <<entries, order, inflight, peak>>
ownerVars == <<own, cancelled, signal, ready>>
callVars  == <<pc, key, on, todo, cur, ctx, res, timeouts>>
vars == <<poolVars, ownerVars, callVars>>

Pooled   == {k \in Keys : entries[k] # None}
Creating == {k \in Keys : inflight[k] # None}

PC == {"idle", "shut", "check", "select", "promote", "abandon", "failed", "returned"}

TypeOK ==
  /\ entries \in [Keys -> Gets \union {None}]
  /\ order \in Seq(Keys)
  /\ inflight \in [Keys -> Gets \union {None}]
  /\ peak \in Nat
  /\ own \in [Gets -> {"none", "opening", "open", "done"}]
  /\ cancelled \in SUBSET Gets /\ signal \in SUBSET Gets
  /\ ready \in [Gets -> Gets \union {None, Failed}]
  /\ pc \in [Calls -> PC]
  /\ key \in [Gets -> Keys \union {None}]
  /\ on \in [Gets -> Gets \union {None}]
  /\ todo \in [Calls -> SUBSET Gets]
  /\ cur \in [Calls -> Gets \union {None}]
  /\ timeouts \in 0..MaxTimeouts
  /\ ctx \in SUBSET Gets
  /\ res \in [Gets -> Gets \union {None, Failed}]

Init ==
  /\ entries = [k \in Keys |-> None] /\ order = <<>>
  /\ inflight = [k \in Keys |-> None] /\ peak = 0
  /\ own = [c \in Gets |-> "none"]
  /\ cancelled = {} /\ signal = {}
  /\ ready = [c \in Gets |-> None]
  /\ pc = [c \in Calls |-> "idle"]
  /\ key = [c \in Gets |-> None]
  /\ on = [c \in Gets |-> None]
  /\ todo = [c \in Calls |-> {}] /\ cur = [c \in Calls |-> None]
  /\ timeouts = 0
  /\ ctx = {}
  /\ res = [c \in Gets |-> None]

Goto(c, at) == pc' = [pc EXCEPT ![c] = at]
Without(K)  == Selection(order, {i \in DOMAIN order : order[i] \notin K})

Return(c, r) == Goto(c, "returned") /\ res' = [res EXCEPT ![c] = r]

-----------------------------------------------------------------------------
(* GetSession, phase 1, one critical section.                                *)

(* The first entry of a key moves to the end of the list.                    *)
Touch(k) ==
  LET at == {i \in DOMAIN order : order[i] = k}
      first == CHOOSE i \in at : \A j \in at : i <= j IN
  order' = IF at = {} THEN order ELSE Append(Selection(order, DOMAIN order \ {first}), k)

Hit(c, k) ==
  /\ pc[c] = "idle" /\ k \in Pooled
  /\ key' = [key EXCEPT ![c] = k]
  /\ Touch(k)
  /\ Return(c, entries[k])
  /\ UNCHANGED <<entries, inflight, peak, ownerVars, on, todo, cur, ctx, timeouts>>

(* The eviction loop takes the oldest keys until there is room.              *)
Oldest(n) == {order[i] : i \in 1..n}

(* Faulty: the loop stops at the capacity, where the next one has no room. *)
ExcessLate ==
  CHOOSE n \in 0..Len(order) :
    /\ Cardinality(Pooled \ Oldest(n)) <= MaxSessions
    /\ \A m \in 0..(n - 1) : Cardinality(Pooled \ Oldest(m)) > MaxSessions

Excess ==
  CHOOSE n \in 0..Len(order) :
    /\ Cardinality(Pooled \ Oldest(n)) < MaxSessions
    /\ \A m \in 0..(n - 1) : Cardinality(Pooled \ Oldest(m)) >= MaxSessions

(* Faulty: the evicted keys stay in the list. *)
EvictEntriesOnly(c) ==
  LET n == Excess IN
  /\ entries' = [k \in Keys |-> IF k \in Oldest(n) THEN None ELSE entries[k]]
  /\ todo' = [todo EXCEPT ![c] = {entries[k] : k \in Oldest(n) \cap Pooled}]
  /\ UNCHANGED order

Evict(c) ==
  LET n == Excess IN
  /\ entries' = [k \in Keys |-> IF k \in Oldest(n) THEN None ELSE entries[k]]
  /\ order' = SubSeq(order, n + 1, Len(order))
  /\ todo' = [todo EXCEPT ![c] = {entries[k] : k \in Oldest(n) \cap Pooled}]

Join(c, k) ==
  /\ pc[c] = "idle" /\ k \notin Pooled /\ inflight[k] # None
  /\ key' = [key EXCEPT ![c] = k]
  /\ on' = [on EXCEPT ![c] = inflight[k]]
  /\ Evict(c)
  /\ Goto(c, "shut")
  /\ UNCHANGED <<inflight, peak, ownerVars, cur, ctx, res, timeouts>>

BecomeCreator(c, k) ==
  /\ pc[c] = "idle" /\ k \notin Pooled /\ inflight[k] = None
  /\ key' = [key EXCEPT ![c] = k]
  /\ on' = [on EXCEPT ![c] = c]
  /\ inflight' = [inflight EXCEPT ![k] = c]
  /\ peak' = IF Cardinality(Creating') > peak THEN Cardinality(Creating') ELSE peak
  /\ own' = [own EXCEPT ![c] = "opening"]
  /\ Evict(c)
  /\ Goto(c, "shut")
  /\ UNCHANGED <<cancelled, signal, ready, cur, ctx, res, timeouts>>

-----------------------------------------------------------------------------
(* CloseScope, CloseServer and CloseAll take everything with a key of K out  *)
(* of the pool and shut it down afterwards.                                  *)

Scoped(u) == {k \in Keys : k[2] = u}
Served(s) == {k \in Keys : k[1] = s}
Closable  == {Scoped(u) : u \in Scopes} \union {Served(s) : s \in Servers} \union {Keys}

Close(c, K) ==
  /\ pc[c] = "idle"
  /\ entries' = [k \in Keys |-> IF k \in K THEN None ELSE entries[k]]
  /\ inflight' = [k \in Keys |-> IF k \in K THEN None ELSE inflight[k]]
  /\ order' = Without(K)
  /\ todo' = [todo EXCEPT ![c] = ({entries[k] : k \in K} \union {inflight[k] : k \in K}) \ {None}]
  /\ Goto(c, "shut")
  /\ UNCHANGED <<peak, ownerVars, key, on, cur, ctx, res, timeouts>>

-----------------------------------------------------------------------------
(* shutdownOwner for every owner of todo: signal, then wait for its end or   *)
(* for SessionCloseTimeout.  cancel() is passed for owners found in flight   *)
(* only, and means nothing to one that has opened its session.               *)

SignalNext(c, o) ==
  /\ pc[c] = "shut" /\ cur[c] = None /\ o \in todo[c]
  /\ signal' = signal \union {o}
  /\ cancelled' = IF own[o] = "opening" THEN cancelled \union {o} ELSE cancelled
  /\ todo' = [todo EXCEPT ![c] = @ \ {o}]
  /\ cur' = [cur EXCEPT ![c] = o]
  /\ UNCHANGED <<poolVars, own, ready, pc, key, on, ctx, res, timeouts>>

ShutReturns(c) ==
  /\ pc[c] = "shut" /\ cur[c] # None
  /\ \/ own[cur[c]] = "done" /\ UNCHANGED timeouts
     \/ own[cur[c]] # "done" /\ timeouts < MaxTimeouts /\ timeouts' = timeouts + 1
  /\ cur' = [cur EXCEPT ![c] = None]
  /\ UNCHANGED <<poolVars, ownerVars, pc, key, on, todo, ctx, res>>

(* Everything is shut down: a Close call, or a creator that has found itself *)
(* removed, returns; otherwise GetSession goes on to wait.                   *)
ShutDone(c) ==
  /\ pc[c] = "shut" /\ cur[c] = None /\ todo[c] = {}
  /\ Goto(c, IF c \in Closes \/ res[c] = Failed THEN "returned" ELSE "check")
  /\ UNCHANGED <<poolVars, ownerVars, key, on, todo, cur, ctx, res, timeouts>>

-----------------------------------------------------------------------------
(* readySignal.wait, by a joiner (phase 2b) or by the creator (phase 3).     *)

GetsResult(c) ==
  LET r == ready[on[c]] IN
  /\ pc[c] \in {"check", "select"} /\ r # None
  /\ IF on[c] # c THEN Return(c, r)
     ELSE Goto(c, IF r = Failed THEN "failed" ELSE "promote") /\ UNCHANGED res
  /\ UNCHANGED <<poolVars, ownerVars, key, on, todo, cur, ctx, timeouts>>

NotReady(c) ==
  /\ pc[c] = "check" /\ ready[on[c]] = None
  /\ Goto(c, "select")
  /\ UNCHANGED <<poolVars, ownerVars, key, on, todo, cur, ctx, res, timeouts>>

(* Faulty: the context of the owner is cancelled, but it is not told to close. *)
GivesUpSilently(c) ==
  /\ pc[c] = "select" /\ c \in ctx
  /\ IF on[c] # c THEN Return(c, Failed) /\ UNCHANGED cancelled
     ELSE cancelled' = cancelled \union {c} /\ Goto(c, "abandon") /\ UNCHANGED res
  /\ UNCHANGED <<poolVars, own, signal, ready, key, on, todo, cur, ctx, timeouts>>

(* The creator takes its owner down with it; a joiner just leaves.           *)
GivesUp(c) ==
  /\ pc[c] = "select" /\ c \in ctx
  /\ IF on[c] # c THEN Return(c, Failed) /\ UNCHANGED <<cancelled, signal>>
     ELSE /\ cancelled' = cancelled \union {c}
          /\ signal' = signal \union {c}
          /\ Goto(c, "abandon") /\ UNCHANGED res
  /\ UNCHANGED <<poolVars, own, ready, key, on, todo, cur, ctx, timeouts>>

(* <-mine.owner.done, without a timeout; the record goes if it is still ours *)
Withdraw(c) ==
  /\ pc[c] \in {"abandon", "failed"} /\ own[c] = "done"
  /\ inflight' = IF inflight[key[c]] = c THEN [inflight EXCEPT ![key[c]] = None] ELSE inflight
  /\ Return(c, Failed)
  /\ UNCHANGED <<entries, order, peak, ownerVars, key, on, todo, cur, ctx, timeouts>>

(* Faulty: a creation that was closed meanwhile is pooled all the same. *)
PromoteAnyway(c) ==
  /\ pc[c] = "promote"
  /\ inflight' = [inflight EXCEPT ![key[c]] = None]
  /\ entries' = [entries EXCEPT ![key[c]] = c]
  /\ order' = Append(Without({key[c]}), key[c])
  /\ Return(c, c)
  /\ UNCHANGED <<peak, ownerVars, key, on, todo, cur, ctx, timeouts>>

(* Phase 4.                                                                  *)
Promote(c) ==
  /\ pc[c] = "promote" /\ inflight[key[c]] = c
  /\ inflight' = [inflight EXCEPT ![key[c]] = None]
  /\ entries' = [entries EXCEPT ![key[c]] = c]
  /\ order' = Append(order, key[c])
  /\ Return(c, c)
  /\ UNCHANGED <<peak, ownerVars, key, on, todo, cur, ctx, timeouts>>

TearDown(c) ==
  /\ pc[c] = "promote" /\ inflight[key[c]] # c
  /\ todo' = [todo EXCEPT ![c] = {c}]
  /\ res' = [res EXCEPT ![c] = Failed]
  /\ Goto(c, "shut")
  /\ UNCHANGED <<poolVars, ownerVars, key, on, cur, ctx, timeouts>>

(* The context is looked at in the select only, so an earlier cancellation   *)
(* is one that comes as soon as the call is there.                           *)
CancelContext(c) ==
  /\ pc[c] = "select" /\ c \notin ctx
  /\ ctx' = ctx \union {c}
  /\ UNCHANGED <<poolVars, ownerVars, pc, key, on, todo, cur, res, timeouts>>

-----------------------------------------------------------------------------
(* The owner goroutine runSession.                                           *)

(* factory.Open, which may succeed although its context was just cancelled.  *)
Open(o) ==
  /\ own[o] = "opening"
  /\ \/ own' = [own EXCEPT ![o] = "open"] /\ ready' = [ready EXCEPT ![o] = o]
     \/ own' = [own EXCEPT ![o] = "done"] /\ ready' = [ready EXCEPT ![o] = Failed]
  /\ UNCHANGED <<poolVars, cancelled, signal, callVars>>

(* <-o.closeCh, factory.Close, close(o.done) *)
CloseSession(o) ==
  /\ own[o] = "open" /\ o \in signal
  /\ own' = [own EXCEPT ![o] = "done"]
  /\ UNCHANGED <<poolVars, cancelled, signal, ready, callVars>>

-----------------------------------------------------------------------------
ShutdownOwners(c) == (\E o \in Gets : SignalNext(c, o)) \/ ShutReturns(c) \/ ShutDone(c)

GetSession(c) ==
  GetsResult(c) \/ NotReady(c) \/ GivesUp(c) \/ Withdraw(c) \/ Promote(c) \/ TearDown(c)

Next ==
  \/ \E c \in Gets, k \in Keys : Hit(c, k) \/ Join(c, k) \/ BecomeCreator(c, k)
  \/ \E c \in Closes, K \in Closable : Close(c, K)
  \/ \E c \in Calls : ShutdownOwners(c)
  \/ \E c \in Gets : GetSession(c) \/ CancelContext(c) \/ Open(c) \/ CloseSession(c)

Spec == Init /\ [][Next]_vars

(* Calls and owners run, Close returns, and Open returns once its context is *)
(* cancelled, as SessionFactory asks; an Open nobody cancels may hang.       *)
Fairness ==
  /\ \A c \in Calls : WF_vars(ShutdownOwners(c))
  /\ \A c \in Gets : WF_vars(GetSession(c))
  /\ \A o \in Gets : WF_vars(CloseSession(o)) /\ WF_vars(o \in cancelled /\ Open(o))

FairSpec == Spec /\ Fairness

-----------------------------------------------------------------------------
(* Safety.                                                                   *)

(* The LRU list holds exactly the pooled keys, each one once, and no key is  *)
(* pooled and being created at a time: the eviction loop never runs off the  *)
(* list, and a promotion never overwrites a session (mcp.go 299-330,         *)
(* 372-381, 413-503).                                                        *)
LruIsExact ==
  /\ {order[i] : i \in 1..Len(order)} = Pooled
  /\ \A i, j \in 1..Len(order) : order[i] = order[j] => i = j
  /\ \A k \in Pooled : inflight[k] = None

(* The books of the pool are in order, and every variable has its type.      *)
PoolIsExact == TypeOK /\ LruIsExact

(* What the pool hands out on a hit is open and nobody has asked its owner   *)
(* to close it: a creation that was overtaken by a Close is never revived    *)
(* (mcp.go 299-305, 372-385).                                                *)
PooledIsOpen ==
  \A k \in Pooled :
    LET o == entries[k] IN own[o] = "open" /\ o \notin signal /\ key[o] = k /\ res[o] = o

(* A session is only as alive as somebody answers for it: it is pooled, its  *)
(* creator has still to decide about it, or somebody is shutting it down.    *)
AnsweredFor ==
  \A o \in Gets :
    own[o] \in {"opening", "open"} =>
      \/ \E k \in Keys : entries[k] = o
      \/ pc[o] \in {"shut", "check", "select", "promote", "abandon"} /\ on[o] = o
      \/ \E c \in Calls : pc[c] = "shut" /\ (o \in todo[c] \/ cur[c] = o)
      \/ timeouts > 0

(* When no call is under way and no shutdown has timed out, the live         *)
(* sessions are exactly the pooled ones: no order of creations, joins,       *)
(* evictions, closes and cancelled contexts leaks a session or its owner     *)
(* goroutine (mcp.go 268-503).                                               *)
NoSessionLeaks ==
  (\A c \in Calls : pc[c] \in {"idle", "returned"}) /\ timeouts = 0 =>
    \A o \in Gets : own[o] \in {"opening", "open"} <=> \E k \in Keys : entries[k] = o

(* A live session is in the pool, and what is in the pool is a live session: *)
(* none is lost, and none is handed out that is going (mcp.go 268-503).      *)
LiveIsPooled == PooledIsOpen /\ NoSessionLeaks

(* The room for a session is made before it is opened, so creations that     *)
(* overlap each find room and together fill the pool beyond MaxSessions: by  *)
(* less than the most creations that ever overlapped, and not at all as long *)
(* as they come one at a time (mcp.go 140, 322-329, 372-381).                *)
PoolIsBounded == Cardinality(Pooled) + Cardinality(Creating) < MaxSessions + peak

(* Nobody waits for an owner that has no reason to go on: who waits for its  *)
(* end has told it to close, and has cancelled its context if it was still   *)
(* opening; who waits for its result finds one or will be sent one; and a    *)
(* creator whose session failed finds its owner ended (mcp.go 334-371,       *)
(* 400-411).                                                                 *)
Ending(o) == own[o] = "done" \/ (o \in signal /\ (own[o] = "opening" => o \in cancelled))

WaitsEnd ==
  /\ \A c \in Calls : cur[c] # None => own[cur[c]] # "none" /\ Ending(cur[c])
  /\ \A c \in Gets :
       /\ pc[c] \in {"check", "select"} => own[on[c]] = "opening" \/ ready[on[c]] # None
       /\ pc[c] = "abandon" => Ending(c)
       /\ pc[c] = "failed" => own[c] = "done"

(* Liveness.                                                                 *)

(* Neither a Close nor a GetSession with a cancelled context hangs, although *)
(* they wait for owners that wait for them (mcp.go 346-400, 413-503).        *)
CallsReturn ==
  /\ \A c \in Closes : pc[c] # "idle" ~> pc[c] = "returned"
  /\ \A c \in Gets : pc[c] # "idle" /\ c \in ctx ~> pc[c] = "returned"

=============================================================================
