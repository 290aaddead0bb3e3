-------------------------- MODULE MemoryQueueProofs -------------------------
(***************************************************************************)
(* Theorems about MemoryQueue, for every set of keys and goroutines.       *)
(***************************************************************************)
EXTENDS MemoryQueue, TLAPS

USE ConstantsAssumption

(* What NewestLast says of one step. *)
Newest == clears = 0 => \A k \in Keys : processed'[k] >= processed[k]

(* Every step preserves the type invariant.                                  *)
LEMMA TypeStep == TypeOK /\ [Next]_vars => TypeOK'
<1> SUFFICES ASSUME TypeOK, [Next]_vars PROVE TypeOK'
  OBVIOUS
<1> USE DEF TypeOK, Numbers, Nothing, queueVars, workVars, countVars, histVars
<1>1. ASSUME NEW k \in Keys, NEW sig \in BOOLEAN, Add(k, sig) PROVE TypeOK'
  BY <1>1 DEF Add, Enqueue, Schedule
<1>2. ASSUME NEW k \in Keys, NEW sig \in BOOLEAN, AddNowait(k, sig) PROVE TypeOK'
  BY <1>2 DEF AddNowait, Enqueue, Schedule
<1>3. ASSUME FlushNowait PROVE TypeOK'
  BY <1>3 DEF FlushNowait, Schedule
<1>4. ASSUME Clear PROVE TypeOK'
  <2>1. queue' \in [Keys -> Numbers] /\ signal' \in [Keys -> BOOLEAN] /\ heard' \in [Keys -> BOOLEAN]
    BY <1>4 DEF Clear
  <2>2. clears' \in 0..MaxClears
    BY <1>4 DEF Clear
  <2> QED
    BY <1>4, <2>1, <2>2 DEF Clear
<1>5. ASSUME NEW b \in BOOLEAN, SetEnabled(b) PROVE TypeOK'
  BY <1>5 DEF SetEnabled
<1>6. ASSUME NEW w \in Workers, Flush(w) PROVE TypeOK'
  BY <1>6 DEF Flush
<1>7. ASSUME NEW w \in Workers, Fire(w) PROVE TypeOK'
  BY <1>7 DEF Fire
<1>8. ASSUME NEW w \in Workers, Yield(w) PROVE TypeOK'
  BY <1>8 DEF Yield, Return, Schedule
<1>9. ASSUME NEW w \in Workers, FindEmpty(w) PROVE TypeOK'
  BY <1>9 DEF FindEmpty, Return
<1>10. ASSUME NEW w \in Workers, Take(w) PROVE TypeOK'
  <2>1. queue' \in [Keys -> Numbers] /\ batch' \in [Workers -> [Keys -> Numbers]]
    BY <1>10 DEF Take
  <2>2. signal' \in [Keys -> BOOLEAN] /\ heard' \in [Keys -> BOOLEAN]
    BY <1>10 DEF Take
  <2>3. timer' \in {"none", "debounce", "zero"} /\ stray' \in Nat
    BY <1>10 DEF Take
  <2>4. pc' \in [Workers -> {"idle", "called", "processing", "processed"}]
    BY <1>10 DEF Take
  <2> QED
    BY <1>10, <2>1, <2>2, <2>3, <2>4 DEF Take
<1>11. ASSUME NEW w \in Workers, Process(w) PROVE TypeOK'
  BY <1>11 DEF Process
<1>12. ASSUME NEW w \in Workers, Finish(w) PROVE TypeOK'
  BY <1>12 DEF Finish, Return
<1>13. CASE UNCHANGED vars
  BY <1>13 DEF vars
<1> QED
  BY <1>1, <1>2, <1>3, <1>4, <1>5, <1>6, <1>7, <1>8, <1>9, <1>10, <1>11,
     <1>12, <1>13 DEF Next, ProcessQueue

(* No step leaves queued work without a timer or a goroutine that will look  *)
(* at it.                                                                    *)
LEMMA TriggeredStep == TypeOK /\ Triggered /\ [Next]_vars => Triggered'
<1> SUFFICES ASSUME TypeOK, Triggered, [Next]_vars PROVE Triggered'
  OBVIOUS
<1> USE DEF TypeOK, Triggered, Numbers, Nothing, Queued, queueVars, workVars,
            countVars, histVars
<1>1. ASSUME NEW k \in Keys, NEW sig \in BOOLEAN, Add(k, sig) PROVE Triggered'
  BY <1>1 DEF Add, Enqueue, Schedule
<1>2. ASSUME NEW k \in Keys, NEW sig \in BOOLEAN, AddNowait(k, sig) PROVE Triggered'
  BY <1>2 DEF AddNowait, Enqueue, Schedule
<1>3. ASSUME FlushNowait PROVE Triggered'
  BY <1>3 DEF FlushNowait, Schedule
<1>4. ASSUME Clear PROVE Triggered'
  BY <1>4 DEF Clear
<1>5. ASSUME NEW b \in BOOLEAN, SetEnabled(b) PROVE Triggered'
  BY <1>5 DEF SetEnabled
<1>6. ASSUME NEW w \in Workers, Flush(w) PROVE Triggered'
  BY <1>6 DEF Flush
<1>7. ASSUME NEW w \in Workers, Fire(w) PROVE Triggered'
  BY <1>7 DEF Fire
<1>8. ASSUME NEW w \in Workers, Yield(w) PROVE Triggered'
  BY <1>8 DEF Yield, Return, Schedule
<1>9. ASSUME NEW w \in Workers, FindEmpty(w) PROVE Triggered'
  BY <1>9 DEF FindEmpty, Return
<1>10. ASSUME NEW w \in Workers, Take(w) PROVE Triggered'
  BY <1>10 DEF Take
<1>11. ASSUME NEW w \in Workers, Process(w) PROVE Triggered'
  BY <1>11 DEF Process
<1>12. ASSUME NEW w \in Workers, Finish(w) PROVE Triggered'
  BY <1>12 DEF Finish, Return
<1>13. CASE UNCHANGED vars
  BY <1>13 DEF vars
<1> QED
  BY <1>1, <1>2, <1>3, <1>4, <1>5, <1>6, <1>7, <1>8, <1>9, <1>10, <1>11,
     <1>12, <1>13 DEF Next, ProcessQueue

(* No step but Clear lets a second batch in.                                 *)
LEMMA ProcessorStep == TypeOK /\ OneProcessor /\ [Next]_vars => OneProcessor'
<1> SUFFICES ASSUME TypeOK, OneProcessor, [Next]_vars PROVE OneProcessor'
  OBVIOUS
<1> USE DEF TypeOK, OneProcessor, Busy, queueVars, workVars, countVars,
            histVars
<1>1. ASSUME NEW k \in Keys, NEW sig \in BOOLEAN, Add(k, sig) PROVE OneProcessor'
  BY <1>1 DEF Add, Enqueue, Schedule
<1>2. ASSUME NEW k \in Keys, NEW sig \in BOOLEAN, AddNowait(k, sig) PROVE OneProcessor'
  BY <1>2 DEF AddNowait, Enqueue, Schedule
<1>3. ASSUME FlushNowait PROVE OneProcessor'
  BY <1>3 DEF FlushNowait, Schedule
<1>4. ASSUME Clear PROVE OneProcessor'
  BY <1>4 DEF Clear
<1>5. ASSUME NEW b \in BOOLEAN, SetEnabled(b) PROVE OneProcessor'
  BY <1>5 DEF SetEnabled
<1>6. ASSUME NEW w \in Workers, Flush(w) PROVE OneProcessor'
  BY <1>6 DEF Flush
<1>7. ASSUME NEW w \in Workers, Fire(w) PROVE OneProcessor'
  BY <1>7 DEF Fire
<1>8. ASSUME NEW w \in Workers, Yield(w) PROVE OneProcessor'
  BY <1>8 DEF Yield, Return, Schedule
<1>9. ASSUME NEW w \in Workers, FindEmpty(w) PROVE OneProcessor'
  BY <1>9 DEF FindEmpty, Return
<1>10. ASSUME NEW w \in Workers, Take(w) PROVE OneProcessor'
  BY <1>10 DEF Take
<1>11. ASSUME NEW w \in Workers, Process(w) PROVE OneProcessor'
  BY <1>11 DEF Process
<1>12. ASSUME NEW w \in Workers, Finish(w) PROVE OneProcessor'
  BY <1>12 DEF Finish, Return
<1>13. CASE UNCHANGED vars
  BY <1>13 DEF vars
<1> QED
  BY <1>1, <1>2, <1>3, <1>4, <1>5, <1>6, <1>7, <1>8, <1>9, <1>10, <1>11,
     <1>12, <1>13 DEF Next, ProcessQueue

(* No step drops a signal that has not been processed.                       *)
LEMMA SignalStep == TypeOK /\ SignalIsKept /\ [Next]_vars => SignalIsKept'
<1> SUFFICES ASSUME TypeOK, SignalIsKept, [Next]_vars PROVE SignalIsKept'
  OBVIOUS
<1> USE DEF TypeOK, SignalIsKept, Numbers, Nothing, queueVars, workVars,
            countVars, histVars
<1>1. ASSUME NEW k \in Keys, NEW sig \in BOOLEAN, Add(k, sig) PROVE SignalIsKept'
  BY <1>1 DEF Add, Enqueue, Schedule
<1>2. ASSUME NEW k \in Keys, NEW sig \in BOOLEAN, AddNowait(k, sig) PROVE SignalIsKept'
  BY <1>2 DEF AddNowait, Enqueue, Schedule
<1>3. ASSUME FlushNowait PROVE SignalIsKept'
  BY <1>3 DEF FlushNowait, Schedule
<1>4. ASSUME Clear PROVE SignalIsKept'
  BY <1>4 DEF Clear
<1>5. ASSUME NEW b \in BOOLEAN, SetEnabled(b) PROVE SignalIsKept'
  BY <1>5 DEF SetEnabled
<1>6. ASSUME NEW w \in Workers, Flush(w) PROVE SignalIsKept'
  BY <1>6 DEF Flush
<1>7. ASSUME NEW w \in Workers, Fire(w) PROVE SignalIsKept'
  BY <1>7 DEF Fire
<1>8. ASSUME NEW w \in Workers, Yield(w) PROVE SignalIsKept'
  BY <1>8 DEF Yield, Return, Schedule
<1>9. ASSUME NEW w \in Workers, FindEmpty(w) PROVE SignalIsKept'
  BY <1>9 DEF FindEmpty, Return
<1>10. ASSUME NEW w \in Workers, Take(w) PROVE SignalIsKept'
  BY <1>10 DEF Take
<1>11. ASSUME NEW w \in Workers, Process(w) PROVE SignalIsKept'
  BY <1>11 DEF Process
<1>12. ASSUME NEW w \in Workers, Finish(w) PROVE SignalIsKept'
  BY <1>12 DEF Finish, Return
<1>13. CASE UNCHANGED vars
  BY <1>13 DEF vars
<1> QED
  BY <1>1, <1>2, <1>3, <1>4, <1>5, <1>6, <1>7, <1>8, <1>9, <1>10, <1>11,
     <1>12, <1>13 DEF Next, ProcessQueue

(* The order of the numbers in memory, batch and queue is preserved.         *)
LEMMA OrderStep == TypeOK /\ OneProcessor /\ OrderInv /\ [Next]_vars => OrderInv'
<1> SUFFICES ASSUME TypeOK, OneProcessor, OrderInv, [Next]_vars PROVE OrderInv'
  OBVIOUS
<1> USE DEF TypeOK, OneProcessor, OrderInv, Numbers, Nothing, Busy, queueVars,
            workVars, countVars, histVars
<1>1. ASSUME NEW k \in Keys, NEW sig \in BOOLEAN, Add(k, sig) PROVE OrderInv'
  BY <1>1 DEF Add, Enqueue, Schedule
<1>2. ASSUME NEW k \in Keys, NEW sig \in BOOLEAN, AddNowait(k, sig) PROVE OrderInv'
  BY <1>2 DEF AddNowait, Enqueue, Schedule
<1>3. ASSUME FlushNowait PROVE OrderInv'
  BY <1>3 DEF FlushNowait, Schedule
<1>4. ASSUME Clear PROVE OrderInv'
  BY <1>4 DEF Clear
<1>5. ASSUME NEW b \in BOOLEAN, SetEnabled(b) PROVE OrderInv'
  BY <1>5 DEF SetEnabled
<1>6. ASSUME NEW w \in Workers, Flush(w) PROVE OrderInv'
  BY <1>6 DEF Flush
<1>7. ASSUME NEW w \in Workers, Fire(w) PROVE OrderInv'
  BY <1>7 DEF Fire
<1>8. ASSUME NEW w \in Workers, Yield(w) PROVE OrderInv'
  BY <1>8 DEF Yield, Return, Schedule
<1>9. ASSUME NEW w \in Workers, FindEmpty(w) PROVE OrderInv'
  BY <1>9 DEF FindEmpty, Return
<1>10. ASSUME NEW w \in Workers, Take(w) PROVE OrderInv'
  BY <1>10 DEF Take
<1>11. ASSUME NEW w \in Workers, Process(w) PROVE OrderInv'
  BY <1>11 DEF Process
<1>12. ASSUME NEW w \in Workers, Finish(w) PROVE OrderInv'
  BY <1>12 DEF Finish, Return
<1>13. CASE UNCHANGED vars
  BY <1>13 DEF vars
<1> QED
  BY <1>1, <1>2, <1>3, <1>4, <1>5, <1>6, <1>7, <1>8, <1>9, <1>10, <1>11,
     <1>12, <1>13 DEF Next, ProcessQueue

(* No step processes an older conversation after a newer one.                *)
LEMMA NewestStep == TypeOK /\ OrderInv /\ [Next]_vars => Newest
<1> SUFFICES ASSUME TypeOK, OrderInv, [Next]_vars PROVE Newest
  OBVIOUS
<1> USE DEF TypeOK, OrderInv, Newest, Numbers, Nothing, queueVars, workVars,
            countVars, histVars
<1>1. ASSUME NEW k \in Keys, NEW sig \in BOOLEAN, Add(k, sig) PROVE Newest
  BY <1>1 DEF Add, Enqueue, Schedule
<1>2. ASSUME NEW k \in Keys, NEW sig \in BOOLEAN, AddNowait(k, sig) PROVE Newest
  BY <1>2 DEF AddNowait, Enqueue, Schedule
<1>3. ASSUME FlushNowait PROVE Newest
  BY <1>3 DEF FlushNowait, Schedule
<1>4. ASSUME Clear PROVE Newest
  BY <1>4 DEF Clear
<1>5. ASSUME NEW b \in BOOLEAN, SetEnabled(b) PROVE Newest
  BY <1>5 DEF SetEnabled
<1>6. ASSUME NEW w \in Workers, Flush(w) PROVE Newest
  BY <1>6 DEF Flush
<1>7. ASSUME NEW w \in Workers, Fire(w) PROVE Newest
  BY <1>7 DEF Fire
<1>8. ASSUME NEW w \in Workers, Yield(w) PROVE Newest
  BY <1>8 DEF Yield, Return, Schedule
<1>9. ASSUME NEW w \in Workers, FindEmpty(w) PROVE Newest
  BY <1>9 DEF FindEmpty, Return
<1>10. ASSUME NEW w \in Workers, Take(w) PROVE Newest
  BY <1>10 DEF Take
<1>11. ASSUME NEW w \in Workers, Process(w) PROVE Newest
  BY <1>11 DEF Process
<1>12. ASSUME NEW w \in Workers, Finish(w) PROVE Newest
  BY <1>12 DEF Finish, Return
<1>13. CASE UNCHANGED vars
  BY <1>13 DEF vars
<1> QED
  BY <1>1, <1>2, <1>3, <1>4, <1>5, <1>6, <1>7, <1>8, <1>9, <1>10, <1>11,
     <1>12, <1>13 DEF Next, ProcessQueue

-----------------------------------------------------------------------------
Inv == TypeOK /\ Triggered /\ OneProcessor /\ SignalIsKept /\ OrderInv

(* The inductive invariant.                                                  *)
THEOREM Invariant == Spec => []Inv
<1>1. ASSUME Init PROVE Inv
  <2>1. TypeOK
    <3>1. 0 \in Numbers /\ Nothing \in [Keys -> Numbers]
      BY DEF Numbers, Nothing
    <3>2. signal \in [Keys -> BOOLEAN] /\ heard \in [Keys -> BOOLEAN]
      BY <1>1 DEF Init
    <3>3. 0 \in 0..MaxFlushes /\ 0 \in 0..MaxClears
      OBVIOUS
    <3> QED
      BY <1>1, <3>1, <3>2, <3>3 DEF Init, TypeOK
  <2>2. Triggered /\ OneProcessor /\ SignalIsKept
    BY <1>1 DEF Init, Triggered, OneProcessor, SignalIsKept, Nothing, Queued, Busy
  <2>3. OrderInv
    BY <1>1 DEF Init, OrderInv, Nothing
  <2> QED
    BY <2>1, <2>2, <2>3 DEF Inv
<1>2. Inv /\ [Next]_vars => Inv'
  BY TypeStep, TriggeredStep, ProcessorStep, SignalStep, OrderStep DEF Inv
<1> QED
  BY <1>1, <1>2, PTL DEF Spec

(* Queued work always has a timer armed or a goroutine before the lock       *)
(* (memory.go 445-557), for any number of keys, goroutines and calls.        *)
THEOREM NothingStranded == Spec => []Triggered
<1>1. Inv => Triggered
  BY DEF Inv
<1> QED
  BY <1>1, Invariant, PTL

(* Without Clear at most one batch is processed at a time (memory.go         *)
(* 497-527).                                                                 *)
THEOREM SingleProcessor == Spec => []OneProcessor
<1>1. Inv => OneProcessor
  BY DEF Inv
<1> QED
  BY <1>1, Invariant, PTL

(* A signal stays on the queued conversation until a batch takes it along    *)
(* (memory.go 473-481).                                                      *)
THEOREM SignalsKept == Spec => []SignalIsKept
<1>1. Inv => SignalIsKept
  BY DEF Inv
<1> QED
  BY <1>1, Invariant, PTL

(* Without Clear a key's conversations are processed oldest first            *)
(* (memory.go 473-527).                                                      *)
THEOREM OldestFirst == Spec => NewestLast
<1>1. Inv /\ [Next]_vars => [Newest]_vars
  BY NewestStep DEF Inv
<1> QED
  BY <1>1, Invariant, PTL DEF Spec, NewestLast, Newest
=============================================================================
