---------------------------- MODULE SubagentTask ----------------------------
(***************************************************************************)
(* Subagents of harness/subagent.go: the executor that runs a task under a *)
(* semaphore, the registry of background tasks, and the task tool that     *)
(* starts a background task, polls it and reports it as events.  A task is *)
(* of one of four kinds, chosen when it is started:                        *)
(*   "tool"   TaskTool.Run: an executor of its own, ExecuteAsync, polling  *)
(*   "async"  ExecuteAsync on the executor Shared                          *)
(*   "sync"   Execute on Shared, in the goroutine of the caller            *)
(*   "plain"  Run on Shared: no result object, no cancellation             *)
(* The locks of a result and of the registry are never held together with  *)
(* anything slow, so each locked section is a step.                        *)
(***************************************************************************)
EXTENDS Naturals, Sequences, FiniteSets, Selection

CONSTANTS
  Tasks,          \* each one is started at most once
  ToolCalls,      \* those that may be calls of the task tool
  Shared,         \* the executor of all tasks but those of the task tool
  MaxConcurrent,  \* slots of the semaphore of an executor
  MaxMessages,    \* bound: distinct assistant messages of one subagent
  MaxPolls,       \* polls before the task tool gives up
  Tools,          \* TaskToolOptions.Tools, the order they are listed in
  Configs         \* subagent types: [allow |-> at most one list of names, deny |-> names]

Names == {Tools[i] : i \in DOMAIN Tools}

ASSUME ConstantsAssumption ==
  /\ MaxConcurrent \in Nat \ {0} /\ MaxMessages \in Nat /\ MaxPolls \in Nat
  /\ Tools \in Seq(Names)
  /\ IsFiniteSet(Tasks) /\ ToolCalls \subseteq Tasks /\ Shared \notin Tasks
  /\ Configs \subseteq [allow : SUBSET SUBSET Names, deny : SUBSET Names]

VARIABLES
  \* the result object of a task and the registry
  status, messages, cancelled, registry,
  \* the worker: how it was started, its place, what it will report, the
  \* messages it has collected
  kind, pc, verdict, collected,
  slots,      \* tasks that hold a slot of their executor
  expired,    \* tasks whose context is over: deadline, or the caller's cancel
  \* the task tool: its place, parent contexts cancelled, polls made, messages
  \* reported, events emitted and the answer
  call, left, polls, seen, events, answer,
  \* the array behind TaskToolOptions.Tools, and how much of it a call may see
  array, config, visible

resultVars == <<status, messages, cancelled, registry>>
workVars   == <<kind, pc, verdict, collected, slots, expired>>
callVars   == <<call, left, polls, seen, events, answer>>
toolVars   == <<array, config, visible>>
vars == <<resultVars, workVars, callVars, toolVars>>

Terminal == {"completed", "failed", "cancelled", "timed_out"}
Working  == {"spawned", "waiting", "prepare", "running", "settle"}
NoConfig == [allow |-> {}, deny |-> {}]

TypeOK ==
  /\ status \in [Tasks -> {"none", "pending", "running"} \union Terminal]
  /\ messages \in [Tasks -> 0..MaxMessages]
  /\ cancelled \subseteq Tasks /\ registry \subseteq Tasks
  /\ kind \in [Tasks -> {"none", "tool", "async", "sync", "plain"}]
  /\ pc \in [Tasks -> {"none", "release", "ended"} \union Working]
  /\ verdict \in [Tasks -> {"none"} \union Terminal]
  /\ collected \in [Tasks -> 0..MaxMessages]
  /\ slots \subseteq Tasks /\ expired \subseteq Tasks
  /\ call \in [ToolCalls -> {"none", "sleep", "status", "returned"}]
  /\ left \subseteq ToolCalls
  /\ polls \in [ToolCalls -> 0..(MaxPolls + 1)]
  /\ seen \in [ToolCalls -> 0..MaxMessages]
  /\ events \in [ToolCalls -> Seq({"started", "running"} \union Terminal)]
  /\ answer \in [ToolCalls -> {"none", "refused", "left", "lost", "gave_up"} \union Terminal]
  /\ array \in Seq(Names) /\ Len(array) = Len(Tools)
  /\ config \in [ToolCalls -> Configs \union {NoConfig}]
  /\ visible \in [ToolCalls -> 0..Len(Tools)]

Init ==
  /\ status = [t \in Tasks |-> "none"] /\ messages = [t \in Tasks |-> 0]
  /\ cancelled = {} /\ registry = {}
  /\ kind = [t \in Tasks |-> "none"]
  /\ pc = [t \in Tasks |-> "none"] /\ verdict = [t \in Tasks |-> "none"]
  /\ collected = [t \in Tasks |-> 0] /\ slots = {} /\ expired = {}
  /\ call = [t \in ToolCalls |-> "none"] /\ left = {}
  /\ polls = [t \in ToolCalls |-> 0] /\ seen = [t \in ToolCalls |-> 0]
  /\ events = [t \in ToolCalls |-> <<>>] /\ answer = [t \in ToolCalls |-> "none"]
  /\ array = Tools /\ config = [t \in ToolCalls |-> NoConfig]
  /\ visible = [t \in ToolCalls |-> 0]

Goto(t, at) == pc' = [pc EXCEPT ![t] = at]
Executor(t) == IF kind[t] = "tool" THEN t ELSE Shared

-----------------------------------------------------------------------------
(* filterSubagentTools appends the tools it keeps to filtered[:0], the array *)
(* of its argument: the kept ones move to the front and what lies behind     *)
(* them stays as it was.                                                     *)

Allowed(s, cfg) == Selection(s, {i \in DOMAIN s : \A names \in cfg.allow : s[i] \in names})
Kept(s, cfg) ==
  LET allowed == Allowed(s, cfg) IN
  Selection(allowed, {i \in DOMAIN allowed : allowed[i] \notin cfg.deny})

ToFront(s, kept) == kept \o SubSeq(s, Len(kept) + 1, Len(s))

FilterInPlace(t, cfg) ==
  /\ array' = ToFront(ToFront(array, Allowed(array, cfg)), Kept(array, cfg))
  /\ visible' = [visible EXCEPT ![t] = Len(Kept(array, cfg))]
  /\ config' = [config EXCEPT ![t] = cfg]

ToolsOf(t) == SubSeq(array, 1, visible[t])

-----------------------------------------------------------------------------
(* Starting a task.                                                          *)

Begin(t, k, at) ==
  /\ kind[t] = "none"
  /\ kind' = [kind EXCEPT ![t] = k]
  /\ Goto(t, at)

Register(t, k) ==
  /\ Begin(t, k, "spawned")
  /\ status' = [status EXCEPT ![t] = "pending"]
  /\ registry' = registry \union {t}
  /\ UNCHANGED <<messages, cancelled, verdict, collected, slots, expired>>

(* TaskTool.Run refuses an unknown type and a forbidden bash.                *)
Refuse(t) ==
  /\ kind[t] = "none"
  /\ kind' = [kind EXCEPT ![t] = "tool"]
  /\ call' = [call EXCEPT ![t] = "returned"]
  /\ answer' = [answer EXCEPT ![t] = "refused"]
  /\ UNCHANGED <<resultVars, pc, verdict, collected, slots, expired, left, polls, seen, events, toolVars>>

StartCall(t, cfg) ==
  /\ FilterInPlace(t, cfg)
  /\ Register(t, "tool")
  /\ call' = [call EXCEPT ![t] = "sleep"]
  /\ events' = [events EXCEPT ![t] = <<"started">>]
  /\ UNCHANGED <<left, polls, seen, answer>>

ExecuteAsync(t) ==
  /\ Register(t, "async")
  /\ UNCHANGED <<callVars, toolVars>>

(* Execute makes an unregistered result that is running at once; Run makes   *)
(* none.                                                                     *)
Execute(t) ==
  /\ Begin(t, "sync", "waiting")
  /\ status' = [status EXCEPT ![t] = "running"]
  /\ UNCHANGED <<messages, cancelled, registry, verdict, collected, slots, expired,
                 callVars, toolVars>>

RunPlain(t) ==
  /\ Begin(t, "plain", "waiting")
  /\ UNCHANGED <<resultVars, verdict, collected, slots, expired, callVars, toolVars>>

-----------------------------------------------------------------------------
(* The worker: runBackground and aexecute.                                   *)

SetRunning(t) ==
  /\ pc[t] = "spawned"
  /\ status' = [status EXCEPT ![t] = "running"]
  /\ Goto(t, "waiting")
  /\ UNCHANGED <<messages, cancelled, registry, kind, verdict, collected, slots, expired,
                 callVars, toolVars>>

(* The deadline of a background task, or the cancel of the caller's context. *)
ContextEnds(t) ==
  /\ pc[t] \in {"waiting", "prepare", "running"} /\ t \notin expired
  /\ expired' = expired \union {t}
  /\ UNCHANGED <<resultVars, kind, pc, verdict, collected, slots, callVars, toolVars>>

Holders(e) == {t \in slots : Executor(t) = e}

AcquireSlot(t) ==
  /\ pc[t] = "waiting" /\ Cardinality(Holders(Executor(t))) < MaxConcurrent
  /\ slots' = slots \union {t}
  /\ Goto(t, IF kind[t] = "plain" THEN "running" ELSE "prepare")
  /\ UNCHANGED <<resultVars, kind, verdict, collected, expired, callVars, toolVars>>

Decide(t, v) == Goto(t, "settle") /\ verdict' = [verdict EXCEPT ![t] = v]

(* Only the context ends the wait for a slot, whatever was requested; a      *)
(* deadline is reported as a cancellation.                                   *)
WaitEnds(t) ==
  /\ pc[t] = "waiting" /\ t \in expired
  /\ IF kind[t] = "plain" THEN Goto(t, "ended") /\ UNCHANGED verdict
                    ELSE Decide(t, "cancelled")
  /\ UNCHANGED <<resultVars, kind, collected, slots, expired, callVars, toolVars>>

(* The check for a cancel, and buildInitialState, which may fail.            *)
Prepare(t) ==
  /\ pc[t] = "prepare"
  /\ \/ t \in cancelled /\ Decide(t, "cancelled")
     \/ t \notin cancelled /\ Decide(t, "failed")
     \/ t \notin cancelled /\ Goto(t, "running") /\ UNCHANGED verdict
  /\ UNCHANGED <<resultVars, kind, collected, slots, expired, callVars, toolVars>>

(* The runner hands over a message that is new; after a cancel it is ignored.*)
Collect(t) ==
  /\ pc[t] = "running" /\ kind[t] # "plain"
  /\ t \notin cancelled /\ collected[t] < MaxMessages
  /\ collected' = [collected EXCEPT ![t] = @ + 1]
  /\ UNCHANGED <<resultVars, kind, pc, verdict, slots, expired, callVars, toolVars>>

(* Faulty: a result counts although the task was cancelled. *)
VerdictOfOutcome(t, o) ==
  CASE o = "deadline" -> "timed_out"
    [] o = "canceled" -> "cancelled"
    [] o = "error"    -> IF t \in cancelled THEN "cancelled" ELSE "failed"
    [] o = "ok"       -> "completed"

(* What the runner returns, and what aexecute makes of it.                   *)
Outcomes == {"ok", "deadline", "canceled", "error"}
Verdict(t, o) ==
  CASE o = "deadline" -> "timed_out"
    [] o = "canceled" -> "cancelled"
    [] o = "error"    -> IF t \in cancelled THEN "cancelled" ELSE "failed"
    [] o = "ok"       -> IF t \in cancelled THEN "cancelled" ELSE "completed"

RunnerReturns(t, o) ==
  /\ pc[t] = "running"
  /\ IF kind[t] = "plain" THEN Goto(t, "release") /\ UNCHANGED verdict
                    ELSE Decide(t, Verdict(t, o))
  /\ UNCHANGED <<resultVars, kind, collected, slots, expired, callVars, toolVars>>

(* TrySetTerminal: the first terminal status stays.                          *)
Settle(t) ==
  /\ pc[t] = "settle"
  /\ IF status[t] \in Terminal
     THEN UNCHANGED <<status, messages>>
     ELSE /\ status' = [status EXCEPT ![t] = verdict[t]]
          /\ messages' = [messages EXCEPT ![t] = collected[t]]
  /\ Goto(t, IF t \in slots THEN "release" ELSE "ended")
  /\ UNCHANGED <<cancelled, registry, kind, verdict, collected, slots, expired, callVars, toolVars>>

Release(t) ==
  /\ pc[t] = "release"
  /\ slots' = slots \ {t}
  /\ Goto(t, "ended")
  /\ UNCHANGED <<resultVars, kind, verdict, collected, expired, callVars, toolVars>>

-----------------------------------------------------------------------------
(* The registry, open to every goroutine.                                    *)

RequestCancel(t) ==
  /\ t \in registry /\ t \notin cancelled
  /\ cancelled' = cancelled \union {t}
  /\ UNCHANGED <<status, messages, registry, workVars, callVars, toolVars>>

(* Faulty: the entry goes whatever its task is doing. *)
CleanedAlways(t) == registry \ {t}

Cleaned(t) == IF status[t] \in Terminal THEN registry \ {t} ELSE registry

Cleanup(t) ==
  /\ t \in registry
  /\ registry' = Cleaned(t) /\ registry' # registry
  /\ UNCHANGED <<status, messages, cancelled, workVars, callVars, toolVars>>

-----------------------------------------------------------------------------
(* TaskTool.Run polls: the messages first, the status in a later step.       *)

CancelParent(t) ==
  /\ call[t] = "sleep" /\ t \notin left
  /\ left' = left \union {t}
  /\ UNCHANGED <<resultVars, workVars, call, polls, seen, events, answer, toolVars>>

Return(t, a) ==
  /\ call' = [call EXCEPT ![t] = "returned"]
  /\ answer' = [answer EXCEPT ![t] = a]

Leave(t) ==
  /\ call[t] = "sleep" /\ t \in left
  /\ cancelled' = cancelled \union (registry \cap {t})
  /\ Return(t, "left")
  /\ UNCHANGED <<status, messages, registry, workVars, left, polls, seen, events, toolVars>>

PollMessages(t) ==
  /\ call[t] = "sleep" /\ t \in registry
  /\ seen' = [seen EXCEPT ![t] = messages[t]]
  /\ events' = [events EXCEPT ![t] = @ \o [i \in 1..(messages[t] - seen[t]) |-> "running"]]
  /\ call' = [call EXCEPT ![t] = "status"]
  /\ UNCHANGED <<resultVars, workVars, left, polls, answer, toolVars>>

Disappeared(t) ==
  /\ call[t] = "sleep" /\ t \notin registry
  /\ events' = [events EXCEPT ![t] = Append(@, "failed")]
  /\ Return(t, "lost")
  /\ UNCHANGED <<resultVars, workVars, left, polls, seen, toolVars>>

(* Faulty: a task that has been cancelled is reported as cancelled. *)
ReportCancelled(t) ==
  /\ call[t] = "status" /\ status[t] \in Terminal
  /\ LET s == IF t \in cancelled THEN "cancelled" ELSE status[t] IN
       /\ events' = [events EXCEPT ![t] = Append(@, s)]
       /\ Return(t, s)
  /\ registry' = Cleaned(t)
  /\ UNCHANGED <<status, messages, cancelled, workVars, left, polls, seen, toolVars>>

Report(t) ==
  /\ call[t] = "status" /\ status[t] \in Terminal
  /\ events' = [events EXCEPT ![t] = Append(@, status[t])]
  /\ registry' = Cleaned(t)
  /\ Return(t, status[t])
  /\ UNCHANGED <<status, messages, cancelled, workVars, left, polls, seen, toolVars>>

(* Faulty: polling never gives up. *)
PollOnAndOn(t) ==
  /\ call[t] = "status" /\ status[t] \notin Terminal
  /\ polls' = [polls EXCEPT ![t] = IF @ > MaxPolls THEN @ ELSE @ + 1]
  /\ call' = [call EXCEPT ![t] = "sleep"]
  /\ UNCHANGED <<resultVars, workVars, left, seen, events, answer, toolVars>>

PollAgain(t) ==
  /\ call[t] = "status" /\ status[t] \notin Terminal /\ polls[t] <= MaxPolls
  /\ polls' = [polls EXCEPT ![t] = @ + 1]
  /\ call' = [call EXCEPT ![t] = "sleep"]
  /\ UNCHANGED <<resultVars, workVars, left, seen, events, answer, toolVars>>

GiveUp(t) ==
  /\ call[t] = "status" /\ status[t] \notin Terminal /\ polls[t] > MaxPolls
  /\ cancelled' = cancelled \union (registry \cap {t})
  /\ events' = [events EXCEPT ![t] = Append(@, "timed_out")]
  /\ Return(t, "gave_up")
  /\ UNCHANGED <<status, messages, registry, workVars, left, polls, seen, toolVars>>

-----------------------------------------------------------------------------

Poll(t) ==
  Leave(t) \/ PollMessages(t) \/ Disappeared(t) \/ Report(t) \/ PollAgain(t) \/ GiveUp(t)

(* The steps of a worker that need nobody's help: all but its runner's.      *)
Work(t) ==
  SetRunning(t) \/ AcquireSlot(t) \/ WaitEnds(t) \/ Prepare(t) \/ Settle(t) \/ Release(t)

RunnerEnds(t) == \E o \in Outcomes : RunnerReturns(t, o)

Next ==
  \/ \E t \in ToolCalls :
       Refuse(t) \/ (\E cfg \in Configs : StartCall(t, cfg)) \/ CancelParent(t) \/ Poll(t)
  \/ \E t \in Tasks :
       ExecuteAsync(t) \/ Execute(t) \/ RunPlain(t) \/ RequestCancel(t) \/ Cleanup(t)
  \/ \E t \in Tasks : ContextEnds(t) \/ Work(t) \/ Collect(t) \/ RunnerEnds(t)

Spec == Init /\ [][Next]_vars

(* The goroutines of callers are scheduled and their timers fire; a worker   *)
(* may be slow, and a runner need not heed its context and may never return. *)
Fairness == \A t \in ToolCalls : WF_vars(Poll(t))

FairSpec == Spec /\ Fairness

-----------------------------------------------------------------------------

(* A slot is held exactly while its task prepares, runs or has yet to give   *)
(* it back, and no executor runs more tasks than it has slots: no early      *)
(* return of aexecute may keep the deferred release of runBackground from    *)
(* happening.                                                                *)
SlotsRespected ==
  /\ \A e \in {Executor(t) : t \in Tasks} : Cardinality(Holders(e)) <= MaxConcurrent
  /\ \A t \in Tasks :
       /\ pc[t] \in {"prepare", "running", "release"} => t \in slots
       /\ t \in slots => pc[t] \in {"prepare", "running", "settle", "release"}

(* What the task tool tells the outside agrees with the task: a terminal     *)
(* answer is the status the task keeps, its event is the last and only       *)
(* terminal one, and messages were reported all or, when they were published *)
(* between the two reads of a poll, not at all.                              *)
ReportsAgree ==
  \A t \in ToolCalls :
    LET ends == {i \in DOMAIN events[t] : events[t][i] \in Terminal} IN
    /\ ends \subseteq {Len(events[t])}
    /\ (ends # {}) <=> (answer[t] \in Terminal \union {"lost", "gave_up"})
    /\ answer[t] \in Terminal =>
         /\ status[t] = answer[t] /\ events[t][Len(events[t])] = answer[t]
         /\ Cardinality({i \in DOMAIN events[t] : events[t][i] = "running"}) \in {0, messages[t]}

(* A task that is still at work can be found in the registry, so that it can *)
(* be cancelled, and a caller is told that its task disappeared only when    *)
(* the task had come to an end.                                              *)
WorkingIsFindable ==
  /\ \A t \in Tasks : kind[t] \in {"tool", "async"} /\ pc[t] \in Working => t \in registry
  /\ \A t \in ToolCalls : answer[t] = "lost" => status[t] \in Terminal

(* Whatever ends a task and whenever, its slot and its entry go when it has  *)
(* ended, not before and not without it.                                     *)
TasksAreHeld == TypeOK /\ SlotsRespected /\ WorkingIsFindable

(* A status that is terminal never changes and no message is added to it,    *)
(* and a task whose cancel was requested before its runner returned, by a    *)
(* user, a parent that left or a poll that gave up, never completes.         *)
CancelIsHonoured ==
  [][\A t \in Tasks :
       /\ status[t] \in Terminal => status'[t] = status[t] /\ messages'[t] = messages[t]
       /\ t \in cancelled /\ pc[t] \in Working \ {"settle"} => verdict'[t] # "completed"]_vars

(* A call of the task tool returns, even if the subagent hangs for ever.     *)
CallsReturn == \A t \in ToolCalls : call[t] = "sleep" ~> call[t] = "returned"

(* A subagent works with the tools its type allows, all of them and in their *)
(* order: what NewSubagentExecutorWithConfig says of its tools.  The filter  *)
(* of a later call, or of an earlier one, has changed the array.             *)
ToolsAsConfigured ==
  \A t \in ToolCalls : kind[t] = "tool" /\ pc[t] = "running" => ToolsOf(t) = Kept(Tools, config[t])
=============================================================================
