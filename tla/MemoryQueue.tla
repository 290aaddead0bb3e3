---------------------------- MODULE MemoryQueue -----------------------------
(***************************************************************************)
(* The debounced update queue of harness/memory.go (375-560): callers add  *)
(* conversations, one timer starts processQueue in a goroutine, and Flush  *)
(* runs it in the caller's.  A timer that is stopped before it fires is    *)
(* gone; one that has fired is a goroutine which nothing can stop any more *)
(* and which may be anywhere before the lock.                              *)
(*                                                                         *)
(* A conversation is abstracted to the number of the Add that brought it,  *)
(* so that newer ones have larger numbers, and its two signal flags, which *)
(* the code treats alike, to one.                                          *)
(***************************************************************************)
EXTENDS Naturals, FiniteSets

CONSTANTS
  Keys,       \* (thread, user, agent) triples
  Workers,    \* goroutines that can be inside processQueue at a time
  MaxAdds,    \* bound: conversations added
  MaxFlushes, \* bound: calls of Flush and FlushNowait
  MaxClears   \* bound: calls of Clear

ASSUME ConstantsAssumption ==
  /\ MaxAdds \in Nat
  /\ MaxFlushes \in Nat
  /\ MaxClears \in Nat

VARIABLES
  queue,      \* key -> the conversation queued for it, 0 if there is none
  signal,     \* key -> Correction/Reinforcement of the queued conversation
  timer,      \* q.timer: "none" (nil, or it has fired), "debounce", "zero"
  stray,      \* timers that are armed but that q.timer has forgotten
  processing, \* q.processing
  enabled,    \* q.enabled
  pc,         \* worker -> "idle", "called", "processing", "processed"
  batch,      \* worker -> key -> the conversation it has taken, or 0
  adds, flushes, clears,
  \* history
  processed,  \* key -> the newest conversation processed
  heard       \* key -> a signal was added that no batch has carried yet

queueVars == <<queue, signal, timer, stray, processing, enabled>>
workVars  == <<pc, batch>>
countVars == <<adds, flushes, clears>>
histVars  == <<processed, heard>>
vars == <<queueVars, workVars, countVars, histVars>>

Numbers == 0..MaxAdds
Nothing == [k \in Keys |-> 0]
Queued  == {k \in Keys : queue[k] # 0}
Busy(w) == pc[w] \in {"processing", "processed"}

TypeOK ==
  /\ queue \in [Keys -> Numbers]
  /\ signal \in [Keys -> BOOLEAN]
  /\ timer \in {"none", "debounce", "zero"}
  /\ stray \in Nat
  /\ processing \in BOOLEAN /\ enabled \in BOOLEAN
  /\ pc \in [Workers -> {"idle", "called", "processing", "processed"}]
  /\ batch \in [Workers -> [Keys -> Numbers]]
  /\ adds \in Numbers /\ flushes \in 0..MaxFlushes /\ clears \in 0..MaxClears
  /\ processed \in [Keys -> Numbers]
  /\ heard \in [Keys -> BOOLEAN]

Init ==
  /\ queue = Nothing
  /\ signal = [k \in Keys |-> FALSE]
  /\ timer = "none" /\ stray = 0
  /\ processing = FALSE /\ enabled = TRUE
  /\ pc = [w \in Workers |-> "idle"]
  /\ batch = [w \in Workers |-> Nothing]
  /\ adds = 0 /\ flushes = 0 /\ clears = 0
  /\ processed = Nothing
  /\ heard = [k \in Keys |-> FALSE]

-----------------------------------------------------------------------------
(* Callers.                                                                  *)

(* Faulty: the newer conversation's signal replaces the older one's. *)
EnqueueReplacing(k, sig) ==
  /\ adds < MaxAdds
  /\ adds' = adds + 1
  /\ queue' = [queue EXCEPT ![k] = adds + 1]
  /\ signal' = [signal EXCEPT ![k] = sig]
  /\ heard' = [heard EXCEPT ![k] = @ \/ sig]

(* enqueueLocked: the newer conversation replaces the older, the signals are *)
(* or-ed.                                                                    *)
Enqueue(k, sig) ==
  /\ adds < MaxAdds
  /\ adds' = adds + 1
  /\ queue' = [queue EXCEPT ![k] = adds + 1]
  /\ signal' = [signal EXCEPT ![k] = sig \/ (queue[k] # 0 /\ @)]
  /\ heard' = [heard EXCEPT ![k] = @ \/ sig]

(* scheduleTimerLocked: the timer q.timer knows of is replaced.              *)
Schedule(delay) == timer' = delay

(* Add re-arms the debounce window; AddNowait arms a timer without delay.    *)
Add(k, sig) ==
  /\ enabled
  /\ Enqueue(k, sig)
  /\ Schedule("debounce")
  /\ UNCHANGED <<stray, processing, enabled, workVars, flushes, clears, processed>>

AddNowait(k, sig) ==
  /\ enabled
  /\ Enqueue(k, sig)
  /\ Schedule("zero")
  /\ UNCHANGED <<stray, processing, enabled, workVars, flushes, clears, processed>>

FlushNowait ==
  /\ flushes < MaxFlushes
  /\ flushes' = flushes + 1
  /\ Schedule("zero")
  /\ UNCHANGED <<queue, signal, stray, processing, enabled, workVars, adds, clears, histVars>>

(* Flush stops the timer in one critical section and runs processQueue,      *)
(* which is the next one.                                                    *)
Flush(w) ==
  /\ flushes < MaxFlushes
  /\ flushes' = flushes + 1
  /\ pc[w] = "idle"
  /\ timer' = "none"
  /\ pc' = [pc EXCEPT ![w] = "called"]
  /\ UNCHANGED <<queue, signal, stray, processing, enabled, batch, adds, clears,
                 processed, heard>>

(* Clear also resets the flag of a batch that is still being processed.      *)
Clear ==
  /\ clears < MaxClears
  /\ clears' = clears + 1
  /\ timer' = "none"
  /\ queue' = Nothing
  /\ signal' = [k \in Keys |-> FALSE]
  /\ processing' = FALSE
  /\ heard' = [k \in Keys |-> FALSE]
  /\ UNCHANGED <<stray, enabled, workVars, adds, flushes, processed>>

SetEnabled(b) ==
  /\ enabled' = b
  /\ UNCHANGED <<queue, signal, timer, stray, processing, workVars, countVars, histVars>>

-----------------------------------------------------------------------------
(* A timer fires: processQueue is called in a goroutine of its own.          *)

Fire(w) ==
  /\ pc[w] = "idle"
  /\ \/ timer # "none" /\ timer' = "none" /\ UNCHANGED stray
     \/ stray > 0 /\ stray' = stray - 1 /\ UNCHANGED timer
  /\ pc' = [pc EXCEPT ![w] = "called"]
  /\ UNCHANGED <<queue, signal, processing, enabled, batch, countVars, histVars>>

Return(w) == pc' = [pc EXCEPT ![w] = "idle"]

(* Faulty: a call that finds a batch in progress just returns. *)
YieldUnscheduled(w) ==
  /\ pc[w] = "called" /\ processing
  /\ Return(w)
  /\ UNCHANGED <<queueVars, batch, countVars, histVars>>

(* processQueue, its first critical section.                                 *)
Yield(w) ==
  /\ pc[w] = "called" /\ processing
  /\ Schedule("zero")
  /\ Return(w)
  /\ UNCHANGED <<queue, signal, stray, processing, enabled, batch, countVars, histVars>>

FindEmpty(w) ==
  /\ pc[w] = "called" /\ ~processing /\ Queued = {}
  /\ Return(w)
  /\ UNCHANGED <<queueVars, batch, countVars, histVars>>

(* Faulty: processing is not looked at. *)
TakeUnguarded(w) ==
  /\ pc[w] = "called" /\ Queued # {}
  /\ processing' = TRUE
  /\ batch' = [batch EXCEPT ![w] = queue]
  /\ queue' = Nothing
  /\ timer' = "none"
  /\ heard' = [k \in Keys |-> heard[k] /\ ~signal[k]]
  /\ signal' = [k \in Keys |-> FALSE]
  /\ pc' = [pc EXCEPT ![w] = "processing"]
  /\ UNCHANGED <<stray, enabled, countVars, processed>>

(* q.timer = nil forgets a timer that was armed since this call was started. *)
Take(w) ==
  /\ pc[w] = "called" /\ ~processing /\ Queued # {}
  /\ processing' = TRUE
  /\ batch' = [batch EXCEPT ![w] = queue]
  /\ queue' = Nothing
  /\ stray' = IF timer = "none" THEN stray ELSE stray + 1
  /\ timer' = "none"
  /\ heard' = [k \in Keys |-> heard[k] /\ ~signal[k]]
  /\ signal' = [k \in Keys |-> FALSE]
  /\ pc' = [pc EXCEPT ![w] = "processing"]
  /\ UNCHANGED <<enabled, countVars, processed>>

(* q.process(batch), outside the lock.                                       *)
Process(w) ==
  /\ pc[w] = "processing"
  /\ processed' = [k \in Keys |-> IF batch[w][k] = 0 THEN processed[k] ELSE batch[w][k]]
  /\ batch' = [batch EXCEPT ![w] = Nothing]
  /\ pc' = [pc EXCEPT ![w] = "processed"]
  /\ UNCHANGED <<queueVars, countVars, heard>>

Finish(w) ==
  /\ pc[w] = "processed"
  /\ processing' = FALSE
  /\ Return(w)
  /\ UNCHANGED <<queue, signal, timer, stray, enabled, batch, countVars, histVars>>

-----------------------------------------------------------------------------
ProcessQueue(w) == Yield(w) \/ FindEmpty(w) \/ Take(w) \/ Process(w) \/ Finish(w)

Next ==
  \/ \E k \in Keys, sig \in BOOLEAN : Add(k, sig) \/ AddNowait(k, sig)
  \/ FlushNowait \/ Clear
  \/ \E b \in BOOLEAN : SetEnabled(b)
  \/ \E w \in Workers : Flush(w) \/ Fire(w) \/ ProcessQueue(w)

Spec == Init /\ [][Next]_vars

(* Armed timers fire, goroutines run, and a batch is processed in the end.   *)
Fairness ==
  /\ WF_vars(\E w \in Workers : Fire(w))
  /\ \A w \in Workers : WF_vars(ProcessQueue(w))

FairSpec == Spec /\ Fairness

-----------------------------------------------------------------------------
(* Safety.                                                                   *)

(* Queued work always has something under way that will look at it: a timer  *)
(* armed or a goroutine before the lock.  No order of adds, flushes, stopped *)
(* timers and late callbacks strands a conversation (memory.go 445-557).     *)
Triggered ==
  Queued # {} => timer # "none" \/ stray > 0 \/ \E w \in Workers : pc[w] = "called"

(* Without Clear, at most one batch is processed at a time, and processing   *)
(* says whether there is one (memory.go 497-527).                            *)
OneProcessor ==
  clears = 0 =>
    /\ \A v, w \in Workers : Busy(v) /\ Busy(w) => v = w
    /\ processing <=> \E w \in Workers : Busy(w)

(* A signal seen on any conversation of the window is still on the queued    *)
(* one, or a batch has taken it along (memory.go 473-481).                   *)
SignalIsKept == \A k \in Keys : heard[k] => queue[k] # 0 /\ signal[k]

(* Without Clear, a key's conversations are processed oldest first: memory   *)
(* is never updated from an older state of a conversation (memory.go         *)
(* 473-527).                                                                 *)
NewestLast == [][clears = 0 => \A k \in Keys : processed'[k] >= processed[k]]_vars

(* What makes NewestLast inductive: numbers grow from memory over the batch  *)
(* in progress to the queue.                                                 *)
OrderInv ==
  clears = 0 =>
    \A k \in Keys :
      /\ processed[k] <= adds /\ queue[k] <= adds
      /\ queue[k] # 0 => queue[k] > processed[k]
      /\ \A w \in Workers : batch[w][k] # 0 =>
           /\ pc[w] = "processing"
           /\ batch[w][k] > processed[k] /\ batch[w][k] <= adds
           /\ queue[k] # 0 => queue[k] > batch[w][k]

(* Liveness.                                                                 *)

(* Every conversation added is processed, itself or a newer one of its key,  *)
(* once the adds cease (memory.go 489-527).                                  *)
EveryAddIsProcessed ==
  \A k \in Keys, n \in 1..MaxAdds : queue[k] = n ~> processed[k] >= n \/ clears > 0

=============================================================================
