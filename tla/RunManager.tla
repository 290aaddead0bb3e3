----------------------------- MODULE RunManager -----------------------------
(***************************************************************************)
(* The run registry of harness/agent.go and the background worker RunAgent *)
(* of harness/loop.go, with the RunStore that outlives the process.        *)
(*                                                                         *)
(* A run is created by a request (CreateOrReject), executed by a goroutine *)
(* of its own (the worker) and may be aborted at any moment by a Cancel    *)
(* request, by a newer run of the same thread or by Shutdown.  RunManager  *)
(* holds its mutex while it changes a record, but writes the store after   *)
(* it has released the mutex, and nobody waits for an aborted worker: the  *)
(* interleavings of those three parties are what this module is about.     *)
(***************************************************************************)
EXTENDS Naturals, FiniteSets

CONSTANTS
  Runs,                   \* run ids
  Threads,                \* conversation threads
  Agents,                 \* Agent objects
  AgentOf,                \* the Agent each run is executed with
  NoRun,                  \* "no StepObserver installed"
  Actions,                \* the abort actions clients ask for
  MaxSteps,               \* Agent.MaxSteps, the recursion limit
  MaxFaults,              \* bound: store calls that fail
  MaxRestarts,            \* bound: process restarts
  UnguardedCreate,        \* whether the plain Create is used at all
  ReconcileWhileServing   \* whether requests are served during reconciliation

ASSUME ConstantsAssumption ==
  /\ AgentOf \in [Runs -> Agents]
  /\ NoRun \notin Runs
  /\ Actions \subseteq {"interrupt", "rollback"}
  /\ MaxSteps \in Nat \ {0}
  /\ MaxFaults \in Nat
  /\ MaxRestarts \in Nat
  /\ UnguardedCreate \in BOOLEAN
  /\ ReconcileWhileServing \in BOOLEAN

VARIABLES
  \* RunManager.runs and the fields of each RunRecord
  mem,        \* Status of the record, "absent" when it is not in memory
  thread,     \* ThreadID
  aborted,    \* abortCh is closed
  action,     \* AbortAction
  ctx,        \* the worker's context is cancelled
  \* RunAgent, one worker per run
  pc,         \* where the worker is
  out,        \* what its turn has come to
  steps,      \* steps of runSteps taken
  preRun,     \* the messages it copied before the turn
  header,     \* thread.Messages as it read them for an append
  prev,       \* the StepObserver it replaced
  \* the conversation and what is shown of it
  messages,   \* thread -> the runs with a message in Thread.Messages
  observer,   \* agent -> the run its StepObserver publishes to
  stream,     \* run -> the events on its stream
  met,        \* history: runs whose turn has overlapped that of a rival
  \* persistence
  store,      \* status column of the store, "absent" when there is no row
  late,       \* run -> interrupted writes that canceller goroutines still owe
  faults,     \* failed store calls so far
  \* the process
  rows,       \* rows ReconcileOrphanedInflightRuns has still to look at
  orphans,    \* rows it found without a live record and is about to mark
  recon,      \* "todo", "running", "done"
  restarts    \* restarts so far

recordVars == <<mem, thread, aborted, action, ctx>>
workerVars == <<pc, out, steps, preRun, header, prev>>
turnVars   == <<messages, observer, stream, met>>
storeVars  == <<store, late, faults>>
procVars   == <<rows, orphans, recon, restarts>>
vars == <<recordVars, workerVars, turnVars, storeVars, procVars>>

Inflight == {"pending", "running"}
Terminal == {"success", "error", "interrupted"}
Status   == Inflight \union Terminal

(* Worker positions, in the order of RunAgent.  "none": no worker; "idle":   *)
(* `go RunAgent` is scheduled; a position named ..._store has set the status *)
(* in memory and owes the store write; "dead": lost in a restart.            *)
Early   == {"early", "early_store"}
Opening == {"idle", "check", "mark", "mark_store"}
Turn    == {"snapshot", "read", "write", "loop"}
Settle  == {"settle", "set", "set_store", "after"}
PC      == {"none", "end", "done", "dead"} \union Early \union Opening \union Turn \union Settle
Outcome == {"user", "more", "success", "error", "interrupted", "rollback"}
Events  == {"metadata", "values", "error", "end"} \X Runs   \* kind, publisher

Busy(r)  == pc[r] \notin {"none", "done", "dead"}
Bound(r) == pc[r] \notin {"none", "idle", "dead"}   \* rec.cancel is set
Serving  == recon = "done" \/ ReconcileWhileServing

TypeOK ==
  /\ mem \in [Runs -> Status \union {"absent"}]
  /\ thread \in [Runs -> Threads]
  /\ aborted \in [Runs -> BOOLEAN]
  /\ action \in [Runs -> Actions \union {"interrupt"}]
  /\ ctx \in [Runs -> BOOLEAN]
  /\ pc \in [Runs -> PC]
  /\ out \in [Runs -> Outcome]
  /\ steps \in [Runs -> 0..MaxSteps]
  /\ preRun \in [Runs -> SUBSET Runs]
  /\ header \in [Runs -> SUBSET Runs]
  /\ prev \in [Runs -> Runs \union {NoRun}]
  /\ messages \in [Threads -> SUBSET Runs]
  /\ observer \in [Agents -> Runs \union {NoRun}]
  /\ stream \in [Runs -> SUBSET Events]
  /\ met \in SUBSET Runs
  /\ store \in [Runs -> Status \union {"absent"}]
  /\ late \in [Runs -> Nat]
  /\ faults \in 0..MaxFaults
  /\ rows \in SUBSET Runs
  /\ orphans \in SUBSET Runs
  /\ recon \in {"todo", "running", "done"}
  /\ restarts \in 0..MaxRestarts

Init ==
  /\ mem = [r \in Runs |-> "absent"]
  /\ thread \in [Runs -> Threads]
  /\ aborted = [r \in Runs |-> FALSE]
  /\ action = [r \in Runs |-> "interrupt"]
  /\ ctx = [r \in Runs |-> FALSE]
  /\ pc = [r \in Runs |-> "none"]
  /\ out = [r \in Runs |-> "user"]
  /\ steps = [r \in Runs |-> 0]
  /\ preRun = [r \in Runs |-> {}]
  /\ header = [r \in Runs |-> {}]
  /\ prev = [r \in Runs |-> NoRun]
  /\ messages = [t \in Threads |-> {}]
  /\ observer = [a \in Agents |-> NoRun]
  /\ stream = [r \in Runs |-> {}] /\ met = {}
  /\ store = [r \in Runs |-> "absent"]
  /\ late = [r \in Runs |-> 0]
  /\ faults = 0
  /\ rows = {} /\ orphans = {} /\ recon = "todo"
  /\ restarts = 0

-----------------------------------------------------------------------------
(* Persistence.  UpdateStatus touches existing rows only, and its error is   *)
(* dropped by every caller.                                                  *)

UpdateStatus(r, s) ==
  \/ /\ store' = [store EXCEPT ![r] = IF @ = "absent" THEN @ ELSE s]
     /\ UNCHANGED faults
  \/ /\ faults < MaxFaults
     /\ faults' = faults + 1
     /\ UNCHANGED store

-----------------------------------------------------------------------------
(* Requests, each one critical section of RunManager.mu.                     *)

(* Faulty: a pending run does not count as inflight. *)
ThreadRunning(t) == {q \in Runs : thread[q] = t /\ mem[q] = "running"}

ThreadInflight(t) == {q \in Runs : thread[q] = t /\ mem[q] \in Inflight}

(* newRunRecord + insertion + store.Put under the lock.                      *)
Insert(r, hit) ==
  /\ mem' = [q \in Runs |-> IF q = r THEN "pending"
                            ELSE IF q \in hit THEN "interrupted" ELSE mem[q]]
  /\ store' = [store EXCEPT ![r] = "pending"]
  /\ pc' = [pc EXCEPT ![r] = "idle"]
  /\ UNCHANGED <<thread, out, steps, preRun, header, prev>>

(* r.AbortAction = act; r.Abort(); r.Cancel() for every run of hit.          *)
AbortAll(hit, act) ==
  /\ aborted' = [q \in Runs |-> aborted[q] \/ q \in hit]
  /\ action' = [q \in Runs |-> IF q \in hit THEN act ELSE action[q]]
  /\ ctx' = [q \in Runs |-> ctx[q] \/ (q \in hit /\ Bound(q))]

Fresh(r) == pc[r] = "none" /\ mem[r] = "absent" /\ store[r] = "absent"

CreateReject(r) ==
  /\ Serving /\ Fresh(r)
  /\ ThreadInflight(thread[r]) = {}
  /\ Insert(r, {})
  /\ UNCHANGED <<aborted, action, ctx, late, faults, turnVars, procVars>>

CreateReplacing(r, strategy) ==
  LET hit == ThreadInflight(thread[r]) IN
  /\ Serving /\ Fresh(r)
  /\ Insert(r, hit)
  /\ AbortAll(hit, strategy)
  /\ late' = [q \in Runs |-> IF q \in hit THEN late[q] + 1 ELSE late[q]]
  /\ UNCHANGED <<faults, turnVars, procVars>>

(* Put fails: the record is taken out again and the inflight runs are spared. *)
CreateFails(r) ==
  /\ Serving /\ Fresh(r)
  /\ faults < MaxFaults
  /\ faults' = faults + 1
  /\ UNCHANGED <<recordVars, workerVars, turnVars, store, late, procVars>>

(* RunManager.Create: no inflight check at all. *)
Create(r) ==
  /\ UnguardedCreate
  /\ Serving /\ Fresh(r)
  /\ Insert(r, {})
  /\ UNCHANGED <<aborted, action, ctx, late, faults, turnVars, procVars>>

(* Faulty: a run that has ended can be cancelled. *)
CancelAnyStatus(r, act) ==
  /\ mem[r] # "absent"
  /\ mem' = [mem EXCEPT ![r] = "interrupted"]
  /\ AbortAll({r}, act)
  /\ late' = [late EXCEPT ![r] = @ + 1]
  /\ UNCHANGED <<thread, workerVars, turnVars, store, faults, procVars>>

Cancel(r, act) ==
  /\ mem[r] \in Inflight
  /\ mem' = [mem EXCEPT ![r] = "interrupted"]
  /\ AbortAll({r}, act)
  /\ late' = [late EXCEPT ![r] = @ + 1]
  /\ UNCHANGED <<thread, workerVars, turnVars, store, faults, procVars>>

(* The store write a canceller makes after it has released the lock. *)
LateWrite(r) ==
  /\ late[r] > 0
  /\ late' = [late EXCEPT ![r] = @ - 1]
  /\ UpdateStatus(r, "interrupted")
  /\ UNCHANGED <<recordVars, workerVars, turnVars, procVars>>

(* Shutdown aborts and returns: it neither sets a status nor waits. *)
Shutdown ==
  /\ AbortAll({q \in Runs : mem[q] \in Inflight}, "interrupt")
  /\ UNCHANGED <<mem, thread, workerVars, turnVars, storeVars, procVars>>

-----------------------------------------------------------------------------
(* The worker: RunAgent.                                                     *)

Goto(r, at) == pc' = [pc EXCEPT ![r] = at]

(* rec.cancel = cancel; go func() { <-rec.abortCh; cancel() }() *)
Start(r) ==
  /\ pc[r] = "idle"
  /\ Goto(r, "check")
  /\ UNCHANGED <<recordVars, out, steps, preRun, header, prev, turnVars, storeVars, procVars>>

(* The goroutine that ties abortCh to the context. *)
BridgeAbort(r) ==
  /\ Bound(r) /\ aborted[r] /\ ~ctx[r]
  /\ ctx' = [ctx EXCEPT ![r] = TRUE]
  /\ UNCHANGED <<mem, thread, aborted, action, workerVars, turnVars, storeVars, procVars>>

Check(r) ==
  /\ pc[r] = "check"
  /\ Goto(r, IF aborted[r] THEN "early" ELSE "mark")
  /\ UNCHANGED <<recordVars, out, steps, preRun, header, prev, turnVars, storeVars, procVars>>

(* SetStatus, first half: the record, whatever its status was. *)
SetMemory(r, s) == mem' = [mem EXCEPT ![r] = s]

EarlyStatus(r) ==
  /\ pc[r] = "early"
  /\ SetMemory(r, "interrupted")
  /\ Goto(r, "early_store")
  /\ UNCHANGED <<thread, aborted, action, ctx, out, steps, preRun, header, prev,
                 turnVars, storeVars, procVars>>

MarkRunning(r) ==
  /\ pc[r] = "mark"
  /\ SetMemory(r, "running")
  /\ Goto(r, "mark_store")
  /\ UNCHANGED <<thread, aborted, action, ctx, out, steps, preRun, header, prev,
                 turnVars, storeVars, procVars>>

(* Faulty: the abort state is read again when the status is set. *)
FinalRereads(r) == IF aborted[r] THEN "interrupted" ELSE out[r]

(* The status the final switch settles on; a rollback counts as an error. *)
Final(r) == IF out[r] = "rollback" THEN "error" ELSE out[r]

(* SetStatus, second half: the store, after the lock. *)
StoreStatus(r) ==
  /\ \/ pc[r] = "early_store" /\ UpdateStatus(r, "interrupted") /\ Goto(r, "end")
     \/ pc[r] = "mark_store" /\ UpdateStatus(r, "running") /\ Goto(r, "snapshot")
     \/ pc[r] = "set_store" /\ UpdateStatus(r, Final(r)) /\ Goto(r, "after")
  /\ UNCHANGED <<recordVars, out, steps, preRun, header, prev, turnVars, late, procVars>>

(* Run r's worker publishes an event of this kind on the stream of q.        *)
Publish(q, kind, r) == stream' = [stream EXCEPT ![q] = @ \union {<<kind, r>>}]

(* The runs whose turns are under way in the same conversation or with the   *)
(* same Agent: nothing in RunAgent keeps them apart.                         *)
InTurn(r) == pc[r] \in {"read", "write", "loop"} \union Settle
Rivals(r) == {q \in Runs \ {r} : thread[q] = thread[r] \/ AgentOf[q] = AgentOf[r]}

(* A turn begins, and meets the turns of its rivals.                         *)
Meet(r) ==
  LET others == {q \in Rivals(r) : InTurn(q)} IN
  met' = IF others = {} THEN met ELSE met \union others \union {r}

Snapshot(r) ==
  /\ pc[r] = "snapshot"
  /\ Meet(r)
  /\ preRun' = [preRun EXCEPT ![r] = messages[thread[r]]]
  /\ Publish(r, "metadata", r)
  /\ out' = [out EXCEPT ![r] = "user"]
  /\ Goto(r, "read")
  /\ UNCHANGED <<recordVars, steps, header, prev, messages, observer, storeVars, procVars>>

(* thread.Messages = append(thread.Messages, m) is a read and a write of a   *)
(* slice header that two workers of one thread share without a lock.         *)
ReadMessages(r) ==
  /\ pc[r] = "read"
  /\ header' = [header EXCEPT ![r] = messages[thread[r]]]
  /\ Goto(r, "write")
  /\ UNCHANGED <<recordVars, out, steps, preRun, prev, turnVars, storeVars, procVars>>

WriteMessages(r) ==
  /\ messages' = [messages EXCEPT ![thread[r]] = header[r] \union {r}]
  /\ header' = [header EXCEPT ![r] = {}]

(* The user message; then the observer is swapped. *)
AppendUser(r) ==
  LET a == AgentOf[r] IN
  /\ pc[r] = "write" /\ out[r] = "user"
  /\ WriteMessages(r)
  /\ prev' = [prev EXCEPT ![r] = observer[a]]
  /\ observer' = [observer EXCEPT ![a] = r]
  /\ Goto(r, "loop")
  /\ UNCHANGED <<recordVars, out, steps, preRun, stream, met, storeVars, procVars>>

(* notifyStep publishes to whatever observer the Agent has by now. *)
Notify(r) ==
  LET q == observer[AgentOf[r]] IN
  IF q = NoRun THEN UNCHANGED stream ELSE Publish(q, "values", r)

(* A step's messages, then notifyStep; the step was the last one or not. *)
AppendStep(r) ==
  /\ pc[r] = "write" /\ out[r] # "user"
  /\ WriteMessages(r)
  /\ Notify(r)
  /\ Goto(r, IF out[r] = "more" THEN "loop" ELSE "settle")
  /\ UNCHANGED <<recordVars, out, steps, preRun, prev, observer, met, storeVars, procVars>>

(* One turn of runSteps: the context check, the model call and its tools.    *)
Step(r) ==
  /\ pc[r] = "loop"
  /\ ~ctx[r] /\ steps[r] < MaxSteps
  /\ steps' = [steps EXCEPT ![r] = @ + 1]
  /\ \/ \E o \in {"more", "success"} : out' = [out EXCEPT ![r] = o] /\ Goto(r, "read")
     \/ out' = [out EXCEPT ![r] = "error"] /\ Goto(r, "settle")
  /\ UNCHANGED <<recordVars, preRun, header, prev, turnVars, storeVars, procVars>>

(* Faulty: a cancelled context does not end the loop. *)
StepFailsAtLimit(r) ==
  /\ pc[r] = "loop" /\ steps[r] = MaxSteps
  /\ out' = [out EXCEPT ![r] = "error"]
  /\ Goto(r, "settle")
  /\ UNCHANGED <<recordVars, steps, preRun, header, prev, turnVars, storeVars, procVars>>

(* ctx.Err() or recursion_limit. *)
StepFails(r) ==
  /\ pc[r] = "loop"
  /\ ctx[r] \/ steps[r] = MaxSteps
  /\ out' = [out EXCEPT ![r] = "error"]
  /\ Goto(r, "settle")
  /\ UNCHANGED <<recordVars, steps, preRun, header, prev, turnVars, storeVars, procVars>>

(* Faulty: the final switch does not look at the abort state. *)
DecideIgnoresAbort(r) ==
  /\ pc[r] = "settle"
  /\ observer' = [observer EXCEPT ![AgentOf[r]] = prev[r]]
  /\ prev' = [prev EXCEPT ![r] = NoRun]
  /\ steps' = [steps EXCEPT ![r] = 0]
  /\ Goto(r, "set")
  /\ UNCHANGED <<recordVars, out, preRun, header, messages, stream, met, storeVars, procVars>>

(* agent.StepObserver = prev, and the final switch reads the abort state. *)
Decide(r) ==
  /\ pc[r] = "settle"
  /\ observer' = [observer EXCEPT ![AgentOf[r]] = prev[r]]
  /\ prev' = [prev EXCEPT ![r] = NoRun]
  /\ steps' = [steps EXCEPT ![r] = 0]
  /\ out' = [out EXCEPT ![r] = IF ~aborted[r] THEN @
                               ELSE IF action[r] = "rollback" THEN "rollback"
                               ELSE "interrupted"]
  /\ Goto(r, "set")
  /\ UNCHANGED <<recordVars, preRun, header, messages, stream, met, storeVars, procVars>>

SetFinal(r) ==
  /\ pc[r] = "set"
  /\ SetMemory(r, Final(r))
  /\ Goto(r, "set_store")
  /\ UNCHANGED <<thread, aborted, action, ctx, out, steps, preRun, header, prev,
                 turnVars, storeVars, procVars>>

(* Faulty: a rollback empties the thread. *)
AfterForgets(r) ==
  /\ pc[r] = "after"
  /\ messages' = IF out[r] = "rollback" THEN [messages EXCEPT ![thread[r]] = {}] ELSE messages
  /\ preRun' = [preRun EXCEPT ![r] = {}]
  /\ IF out[r] = "error" THEN Publish(r, "error", r) ELSE UNCHANGED stream
  /\ out' = [out EXCEPT ![r] = "user"]
  /\ Goto(r, "end")
  /\ UNCHANGED <<recordVars, steps, header, prev, observer, met, storeVars, procVars>>

(* What the final switch does once the status is set. *)
After(r) ==
  /\ pc[r] = "after"
  /\ messages' = IF out[r] = "rollback"
                 THEN [messages EXCEPT ![thread[r]] = preRun[r]] ELSE messages
  /\ preRun' = [preRun EXCEPT ![r] = {}]
  /\ IF out[r] = "error" THEN Publish(r, "error", r) ELSE UNCHANGED stream
  /\ out' = [out EXCEPT ![r] = "user"]
  /\ Goto(r, "end")
  /\ UNCHANGED <<recordVars, steps, header, prev, observer, met, storeVars, procVars>>

PublishEnd(r) ==
  /\ pc[r] = "end"
  /\ Publish(r, "end", r)
  /\ Goto(r, "done")
  /\ UNCHANGED <<recordVars, out, steps, preRun, header, prev, messages, observer, met,
                 storeVars, procVars>>

-----------------------------------------------------------------------------
(* The process.                                                              *)

(* Faulty: a pending row is not listed. *)
ReconcileListRunning ==
  /\ recon = "todo"
  /\ rows' = {r \in Runs : store[r] = "running"} /\ recon' = "running"
  /\ UNCHANGED <<recordVars, workerVars, turnVars, storeVars, orphans, restarts>>

(* ListInflight: the rows as they are now, looked at one by one afterwards.  *)
ReconcileList ==
  /\ recon = "todo"
  /\ \/ rows' = {r \in Runs : store[r] \in Inflight} /\ recon' = "running" /\ UNCHANGED faults
     \/ faults < MaxFaults /\ faults' = faults + 1 /\ recon' = "done" /\ UNCHANGED rows
  /\ UNCHANGED <<recordVars, workerVars, turnVars, store, late, orphans, restarts>>

(* The lock is taken for the test only. *)
ReconcileCheck(r) ==
  /\ recon = "running" /\ orphans = {} /\ r \in rows
  /\ rows' = rows \ {r}
  /\ orphans' = IF mem[r] \in Inflight THEN {} ELSE {r}
  /\ UNCHANGED <<recordVars, workerVars, turnVars, storeVars, recon, restarts>>

ReconcileMark(r) ==
  /\ recon = "running" /\ r \in orphans
  /\ UpdateStatus(r, "error")
  /\ orphans' = {}
  /\ UNCHANGED <<recordVars, workerVars, turnVars, late, rows, recon, restarts>>

ReconcileDone ==
  /\ recon = "running" /\ rows = {} /\ orphans = {}
  /\ recon' = "done"
  /\ UNCHANGED <<recordVars, workerVars, turnVars, storeVars, rows, orphans, restarts>>

(* The process dies and a new one opens the same store.  Run ids are not     *)
(* used twice, so a lost worker is dead for good.                            *)
Restart ==
  /\ restarts < MaxRestarts
  /\ restarts' = restarts + 1
  /\ mem' = [r \in Runs |-> "absent"]
  /\ pc' = [r \in Runs |-> IF pc[r] = "none" THEN "none" ELSE "dead"]
  /\ aborted' = [r \in Runs |-> FALSE]
  /\ action' = [r \in Runs |-> "interrupt"]
  /\ ctx' = [r \in Runs |-> FALSE]
  /\ messages' = [t \in Threads |-> {}]
  /\ observer' = [a \in Agents |-> NoRun]
  /\ stream' = [r \in Runs |-> {}] /\ met' = {}
  /\ late' = [r \in Runs |-> 0]
  /\ out' = [r \in Runs |-> "user"]
  /\ steps' = [r \in Runs |-> 0]
  /\ preRun' = [r \in Runs |-> {}]
  /\ header' = [r \in Runs |-> {}]
  /\ prev' = [r \in Runs |-> NoRun]
  /\ rows' = {} /\ orphans' = {} /\ recon' = "todo"
  /\ UNCHANGED <<thread, store, faults>>

-----------------------------------------------------------------------------
Request(r) ==
  \/ CreateReject(r)
  \/ \E strategy \in Actions : CreateReplacing(r, strategy)
  \/ CreateFails(r)
  \/ Create(r)
  \/ \E act \in Actions : Cancel(r, act)

Worker(r) ==
  \/ Start(r) \/ Check(r) \/ EarlyStatus(r) \/ MarkRunning(r) \/ StoreStatus(r)
  \/ Snapshot(r) \/ ReadMessages(r) \/ AppendUser(r) \/ AppendStep(r)
  \/ Step(r) \/ StepFails(r) \/ Decide(r) \/ SetFinal(r) \/ After(r) \/ PublishEnd(r)

Reconcile ==
  \/ ReconcileList \/ ReconcileDone
  \/ \E r \in Runs : ReconcileCheck(r) \/ ReconcileMark(r)

Next ==
  \/ \E r \in Runs : Request(r) \/ Worker(r) \/ BridgeAbort(r) \/ LateWrite(r)
  \/ Shutdown
  \/ Reconcile
  \/ Restart

Spec == Init /\ [][Next]_vars

(* Goroutines that can run do run, and a new process reconciles; nothing     *)
(* obliges a client to make a request or a process to die.                   *)
Fairness ==
  /\ \A r \in Runs : WF_vars(Worker(r)) /\ WF_vars(BridgeAbort(r)) /\ WF_vars(LateWrite(r))
  /\ WF_vars(Reconcile)

FairSpec == Spec /\ Fairness

-----------------------------------------------------------------------------
(* Safety.                                                                   *)

(* A thread has at most one inflight run that nobody has aborted: however    *)
(* requests, cancels and workers interleave, CreateOrReject (agent.go        *)
(* 390-439) admits a run only next to runs it has aborted itself.            *)
AtMostOneLive ==
  ~UnguardedCreate =>
    \A r, q \in Runs :
      /\ thread[r] = thread[q]
      /\ mem[r] \in Inflight /\ ~aborted[r]
      /\ mem[q] \in Inflight /\ ~aborted[q]
      => r = q

(* Once the worker is through, and as long as no store call has failed, the  *)
(* row is terminal for good: no canceller's or reconciler's write that       *)
(* arrives late (agent.go 342-359, 433-437, 464-467) reopens it.             *)
SettledRowIsTerminal ==
  \A r \in Runs : pc[r] \in {"after", "end", "done"} /\ faults = 0 => store[r] \in Terminal

(* A client that reads the stream of a finished run learns its fate: an      *)
(* error event means status error, and a run that failed without having been *)
(* aborted has published one (loop.go 238-256), whoever cancels meanwhile.   *)
ErrorEventMatchesStatus ==
  \A r \in Runs :
    <<"end", r>> \in stream[r] =>
      /\ <<"error", r>> \in stream[r] => mem[r] = "error"
      /\ mem[r] = "error" /\ ~aborted[r] => <<"error", r>> \in stream[r]

(* A run that is through has left a terminal row, and its stream tells what  *)
(* became of it (agent.go 342-359, loop.go 238-256).                         *)
RunsEndAsTold == SettledRowIsTerminal /\ ErrorEventMatchesStatus

(* success and error are final while the process lives: no Cancel, no newer  *)
(* run and no SetStatus(running) of a slow worker takes them back.           *)
FinalStatusSticks ==
  [][\A r \in Runs :
       mem[r] \in {"success", "error"} => mem'[r] \in {mem[r], "absent"}]_vars

(* A turn that met no rival leaves the conversation as it should, for good:  *)
(* a success stays in it whatever later turns do to each other, and what was *)
(* rolled back, an error without an error event, never shows up again        *)
(* (agent.go 26, 166; loop.go 212-247).                                      *)
LoneTurnsStay ==
  \A r \in Runs \ met :
    pc[r] = "done" =>
      /\ mem[r] = "success" => r \in messages[thread[r]]
      /\ mem[r] = "error" /\ <<"error", r>> \notin stream[r] => \A t \in Threads : r \notin messages[t]

(* The values of a turn that met no rival are on the stream of its run and   *)
(* on no other, and that stream has no values but its own, although          *)
(* StepObserver belongs to the Agent, is swapped without a lock and may be   *)
(* left to a run that has ended (loop.go 142-148, 224-236).                  *)
LoneStreamsAreOwn ==
  \A r \in Runs :
    /\ \A q \in Runs \ {r} : <<"values", q>> \in stream[r] => {q, r} \subseteq met
    /\ r \notin met /\ pc[r] = "done" /\ mem[r] = "success" => <<"values", r>> \in stream[r]

(* Where no turns overlap, what is kept and what is shown of each is exact:  *)
(* that turns of one thread or Agent run into each other is all that can     *)
(* spoil a conversation or a stream.                                         *)
LoneTurnsAreExact == LoneTurnsStay /\ LoneStreamsAreOwn

(* A worker that moves comes nearer to its end, and nobody takes one back:   *)
(* the steps left to the recursion limit and the position measure how far it *)
(* still has to go (loop.go 52-58, 139, 195-257).                            *)
ToLoop == [idle |-> 7, check |-> 6, mark |-> 5, mark_store |-> 4, snapshot |-> 3,
           read |-> 2, write |-> 1, loop |-> 0]
ToEnd  == [settle |-> 6, set |-> 5, early |-> 5, set_store |-> 4, early_store |-> 4,
           after |-> 3, end |-> 2, done |-> 1, dead |-> 0]
Way(r) ==
  IF pc[r] \in DOMAIN ToLoop THEN 7 + 3 * (MaxSteps - steps[r]) + ToLoop[pc[r]]
  ELSE IF pc[r] \in DOMAIN ToEnd THEN ToEnd[pc[r]]
  ELSE 15 + 3 * MaxSteps

WorkersAdvance ==
  [][\A r \in Runs : pc[r] # "none" /\ <<pc'[r], steps'[r]>> # <<pc[r], steps[r]>> => Way(r)' < Way(r)]_vars

(* Liveness.                                                                 *)

(* Every run that is scheduled ends its stream, or dies with the process:    *)
(* the recursion limit and the three exits of RunAgent leave no worker       *)
(* behind (loop.go 195-257).                                                 *)
RunSettles == \A r \in Runs : pc[r] = "idle" ~> pc[r] \in {"done", "dead"}

(* An abort that comes before the worker's final decision is never lost: the *)
(* run does end, and not in success (loop.go 200-203, 238-246).              *)
AbortSettles ==
  \A r \in Runs :
    aborted[r] /\ pc[r] \in Opening \union Turn \union {"settle"}
      ~> pc[r] = "dead" \/ (pc[r] = "done" /\ mem[r] \in {"interrupted", "error"})

(* A row whose worker died with its process does not stay pending or running *)
(* for ever, unless a store call failed (agent.go 474-501).                  *)
OrphansAreResolved ==
  \A r \in Runs :
    pc[r] = "dead" /\ store[r] \in Inflight ~> store[r] \in Terminal \/ faults > 0

-----------------------------------------------------------------------------
(* The strengthening that makes the safety properties inductive: what is     *)
(* known of a run from the position of its worker.                           *)

OutcomeInv ==
  \A r \in Runs :
    /\ pc[r] \in {"read", "write"} => out[r] \in {"user", "more", "success"}
    /\ pc[r] = "settle" => out[r] \in {"success", "error"}
    /\ pc[r] \in {"set", "set_store"} => out[r] \in Outcome \ {"user", "more"}

RecordInv ==
  \A r \in Runs :
    /\ pc[r] \in {"idle", "check", "mark"} => mem[r] \in Inflight \/ aborted[r]
    /\ mem[r] \in {"success", "error"} => pc[r] \in {"set_store", "after", "end", "done"}

StoreInv ==
  \A r \in Runs :
    /\ pc[r] # "none" => store[r] # "absent"
    /\ pc[r] \in {"after", "end", "done"} /\ faults = 0 => store[r] \in Terminal

EventInv ==
  \A r \in Runs :
    /\ pc[r] \in {"set_store", "after"} => mem[r] = Final(r)
    /\ pc[r] \in {"set", "set_store", "after"} /\ out[r] = "rollback" => aborted[r]
    /\ <<"error", r>> \in stream[r] => pc[r] \in {"end", "done"} /\ mem[r] = "error"
    /\ pc[r] \in {"end", "done"} /\ mem[r] = "error" /\ ~aborted[r]
         => <<"error", r>> \in stream[r]
    /\ <<"end", r>> \in stream[r] => pc[r] = "done"

(* What holds of a run at each position of RunAgent (loop.go 195-257): a     *)
(* worker that has not marked itself running is inflight or aborted, a final *)
(* status was set by the worker itself, a worker that has stored its outcome *)
(* leaves a terminal row, and an error event is there exactly when the turn  *)
(* itself failed.                                                            *)
PositionInv == OutcomeInv /\ RecordInv /\ StoreInv /\ EventInv

-----------------------------------------------------------------------------
(* The same for LoneTurnsAreExact: where a turn is, and who holds a message  *)
(* of it by then.                                                            *)

Before(r)    == pc[r] \in {"none", "idle", "check", "mark", "mark_store", "snapshot"} \union Early
Asking(r)    == pc[r] \in {"read", "write"} /\ out[r] = "user"
Answering(r) == pc[r] \in {"read", "write"} /\ out[r] # "user"

(* Its message is not in the thread yet, or it is, or was, and counts.       *)
Unwritten(r)  == Before(r) \/ Asking(r)
Observing(r)  == pc[r] \in {"loop", "settle"} \/ Answering(r)
Succeeded(r)  == pc[r] \in {"end", "done"} /\ mem[r] = "success"
Counts(r)     == Observing(r) \/ pc[r] \in {"set", "set_store", "after"} \/ Succeeded(r)
RolledBack(r) == pc[r] \in {"end", "done"} /\ mem[r] = "error" /\ <<"error", r>> \notin stream[r]
Answered(r)   == (pc[r] \in Settle /\ out[r] = "success") \/ Succeeded(r)

(* Nobody has a message of it, or a copy of the thread that has one.         *)
Nowhere(q) ==
  /\ \A t \in Threads : q \notin messages[t]
  /\ \A r \in Runs : q \notin header[r] /\ q \notin preRun[r]

(* The thread has a message of it, and so have the copies others hold.       *)
Everywhere(q) ==
  /\ q \in messages[thread[q]]
  /\ \A r \in Runs \ {q} : thread[r] = thread[q] =>
       /\ pc[r] = "write" => q \in header[r]
       /\ InTurn(r) => q \in preRun[r]

(* Turns that overlap have met.                                              *)
MeetInv == \A r \in Runs : \A q \in Rivals(r) : InTurn(r) /\ InTurn(q) => r \in met

(* Copies are held during the turn only, and are of the thread of their run. *)
CopyInv ==
  /\ \A t \in Threads : \A q \in messages[t] : thread[q] = t
  /\ \A r \in Runs :
       /\ \A q \in header[r] \union preRun[r] : thread[q] = thread[r]
       /\ pc[r] # "write" => header[r] = {}
       /\ ~InTurn(r) => preRun[r] = {}
       /\ r \notin preRun[r]

(* What holds of the messages of a run that is not in a turn with a rival.   *)
ThreadInv ==
  /\ \A q \in Runs : Unwritten(q) => Nowhere(q)
  /\ \A q \in Runs \ met : RolledBack(q) => Nowhere(q)
  /\ \A q \in Runs \ met : Counts(q) => Everywhere(q)

(* An Agent publishes to a run in its turn, or to one that has met another,  *)
(* and so does every worker that puts back what it found.                    *)
ObserverInv ==
  /\ \A a \in Agents, r \in Runs : observer[a] = r => AgentOf[r] = a /\ (r \in met \/ Observing(r))
  /\ \A r \in Runs : prev[r] # NoRun => prev[r] \in met /\ AgentOf[prev[r]] = AgentOf[r]
  /\ \A r \in Runs \ met : Observing(r) => observer[AgentOf[r]] = r

ValuesInv ==
  /\ \A r \in Runs : \A q \in Runs \ {r} : <<"values", q>> \in stream[r] => q \in met /\ r \in met
  /\ \A r \in Runs \ met : Answered(r) => <<"values", r>> \in stream[r]

TurnInv == MeetInv /\ CopyInv /\ ThreadInv /\ ObserverInv /\ ValuesInv

-----------------------------------------------------------------------------
(* What the documentation promises and the code does not keep.               *)

(* agent.go:26: the message history is the one source of truth; a rollback   *)
(* (agent.go:166) takes back the run it aborts, not a turn that succeeded.   *)
FinishedTurnIsKept ==
  \A r \in Runs : pc[r] = "done" /\ mem[r] = "success" => r \in messages[thread[r]]
=============================================================================
