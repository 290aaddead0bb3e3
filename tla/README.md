# Verification of the Go port of deer-flow

The program is `src/go-replication/`: a Go port of the deer-flow agent harness,
a library that runs an agent loop on conversation threads, publishes what it
does, and keeps the services a run needs: tools, MCP sessions, sandboxes,
memory, subagents. The rest of `src/` is study notes about the Python original.
The modules here are written from the Go code; documents and comments are used
only for what they promise. A line such as `loop.go:226` names a file under
`src/go-replication/`.

The project has fourteen TLA+ models (and `EventLog`, an abstract one), twelve
TLC runs and eight modules of proofs. Section 1 is the inventory of the system,
section 2 the order in which it was modelled and what is left, sections 3 to 6 say
what is modelled, checked and proved and where the program disagrees with its
own text, section 7 what is not modelled, section 8 how to run it.

## 1. The system

### Runs (`harness/agent.go`, `harness/loop.go`)

*State.* A `Thread` keeps the message history. `RunManager` keeps a map of
`RunRecord`s (status, abort flag, abort action, cancel function) under one
mutex; a `RunStore` keeps a row per run and survives the process. An `Agent`
keeps a `StepObserver`.

*Operations.* `Create`, `CreateOrReject` with a strategy of reject, interrupt or
rollback, `SetStatus`, `Cancel`, `ReconcileOrphanedInflightRuns`, `Shutdown`; and
`RunAgent`, the goroutine that executes a run: it checks the abort flag, marks
the run running, installs an observer, appends the user message, steps the
agent, decides the final status, publishes it and ends the stream.

*Interaction.* Requests change records while workers run. The mutex is released
before the store is written, canceller goroutines write it later, and nobody
waits for an aborted worker. `Thread.Messages` and `Agent.StepObserver` have no
lock.

*Hard.* Cancels between any two reads of the abort flag, two workers of one
thread, store writes out of order, failing stores, restarts.

*Correct when.* A thread has one live run; a finished run has a terminal row, a
final status and a stream that tells it; an aborted run does not succeed; a row
left by a crash is resolved; a turn that overlaps no other one of its thread or
Agent keeps what it said and shows exactly that.

### Event streams (`runtime/stream.go`)

*State.* `StreamBridge` has a stream object per run id: a window of the newest
events, the offset of its first event, an end flag, and its subscribers, each with
a wakeup channel that holds one token.

*Operations.* `Publish`, `PublishEnd`, `Subscribe` with a Last-Event-ID,
`Cleanup`, `Close`. Each subscription has a goroutine `deliver` with a ticker for
heartbeats and a bounded channel to its consumer.

*Hard.* A wakeup lost between a check and a wait; the window overtaking a
reader; off-by-one at reconnection; a stream that is removed and created anew.

*Correct when.* A reader moves forward, misses only what the window dropped,
gets nothing twice and is told of the end last, and always.

### Memory queue (`harness/memory.go` 391-570)

*State.* A map from key to the newest conversation with its signals, a debounce
timer, a `processing` flag, an `enabled` flag.

*Operations.* `Add`, `AddNowait`, `Flush`, `FlushNowait`, `Clear`, `SetEnabled`,
and `processQueue` in a timer goroutine or the caller's.

*Hard.* A stopped timer is gone but a fired one cannot be stopped; calls that
find a batch in progress; the batch runs outside the lock.

*Correct when.* What is queued is processed, in order, by one batch at a time,
with its signals.

### Memory file (`harness/memory.go` 154-345, 797-1452)

*State.* One file per user and agent, or one for all of them; a cache by key of
the memory and of the modification time it belongs to.

*Operations.* `Load`, `Reload`, `Save`; the updater, which loads, asks a model
what to remember, applies the answer and saves; the manual creation, change and
removal of facts, import and clearing.

*Interaction.* The memory queue calls the updater; manual operations come from
anywhere. The mutex covers the cache map alone, so the file is read, changed and
replaced between its sections.

*Hard.* Modification times taken before or after the file is read; saves that
fail; two operations on one file; other processes.

*Correct when.* The cache agrees with the file, operations that do not overlap
are atomic, an update leaves a bounded memory without what the answer removed.

### MCP sessions (`mcp/mcp.go` 136-520)

*State.* Pooled sessions by key, an LRU list, the creators in flight; for each
session an owner goroutine with a context, a close signal and a result.

*Operations.* `GetSession`, `CloseScope`, `CloseServer`, `CloseAll`; waits are
bounded by contexts and by a timeout of five seconds.

*Hard.* Creators, joiners, evictions, closes and cancelled contexts cross, each
in several critical sections with waits in between.

*Correct when.* The LRU list matches the map, pooled sessions are open, no
session is open without an owner somebody will close, the capacity is exceeded
only by creations that overlap, and calls return.

### Agent step loop (`harness/loop.go`, `dangling.go`, `compaction.go`)

*State.* The history of the thread, the step counter, the tool calls to run, the
warnings queued by the loop detector.

*Operations.* `Run`, `Resume`, `runSteps`: compaction of the history, the patch
for dangling calls, the request, the response, each tool call with its result,
question or failure.

*Hard.* A turn may end in the middle of its calls; compaction may cut between a
call and its result; rescue splits messages.

*Correct when.* Each request has a result behind each call, no result is
misreported and no message leaves the history unseen.

### Subagents (`harness/subagent.go`)

*State.* A registry of background tasks; for each its result object (status,
messages, cancel flag) under a mutex; the semaphore of each executor; the tool
list that all calls of the task tool share.

*Operations.* `Run`, `Execute`, `ExecuteAsync`, `RequestCancelBackgroundTask`,
`CleanupBackgroundTask`; the task tool, which starts a task and polls it until it
is settled, reporting its messages as events.

*Hard.* A cancel, a deadline, the end of the runner and the poll that reports and
removes the task come in any order; a task may wait for its slot when it is
cancelled, or its runner may hang.

*Correct when.* The first terminal status is final, a cancel is honoured, slots
come back, what is at work can be found, the report tells the truth, and every
call of the tool returns.

### Sandboxes (`provider/sandbox.go`)

*State.* Docker: containers by deterministic name, those in use, a warm pool,
threads and their sandboxes. Local: an LRU cache of thread sandboxes, the mounts,
the marks of the files the agent has written.

*Operations.* `Acquire`, `Get`, `Release`, `Reset`, `Shutdown`, the adoption of
containers left by a crash; reading and writing files, commands.

*Hard.* A Docker `Acquire` has three critical sections and starts a container
between them; a local one is acquired and fetched in two. Nested mounts map
paths in both directions, a path under no mount is used as it is, and a file is
marked only after it has been written.

*Correct when.* A container is in one place, is handed out once and ends by the
provider only; a thread that is in use keeps its sandbox; the names of files that the
agent writes lead to the same files when it reads them back; read-only mounts are not
written, under whatever name.

### The other components

| Component | State | What is hard in it |
|---|---|---|
| Loop detector `harness/loopdetect.go` | window of tool-call hashes, counters and marks per thread, warnings per run, an LRU for each | marks that outlive or fall short of the calls they are about |
| MCP tool cache `mcp/mcp.go` 560-690 | tools with the modification time of their configuration | an edit while they load |
| MCP OAuth `mcp/mcp.go` 690-876 | a token and a lock per server | double-checked refresh, expiry at the server |
| Deferred tools `capability/deferred.go` | a catalog and the promoted names | promotions of another search or another catalog |
| Model provider `provider/model.go` | none | which message a piece of reasoning belongs to |
| Clarification, guardrail `harness/interrupt.go`, `guardrail.go` | none | decisions on one call |
| Reducers `harness/state.go` | none | merge laws |
| Registry, contract `capability/` | two maps | replacing a provider in use |
| Skills `skills/` | none | parsing |

`PROJECT.json` lists them all with their status, and under `hazards` the lines
where something can go wrong that a test would hardly reach.

## 2. Plan

Done, most important behaviour first:

1. `RunManager`: registry, worker and store together, for they share records.
2. `EventLog`, the abstract stream, and `StreamBridge`, which implements it.
3. `MemoryQueue`.
4. `SessionPool`.
5. `AgentLoop`: step loop, patch and compaction together, for they share the
   history.
6. `SubagentTask`: tasks, slots, the task tool.
7. `MemoryStore`: file, cache, updater, manual operations.
8. `DockerPool` and `LocalSandbox`.
9. `LoopDetector`, `ToolCache`, `OAuthTokens`, `DeferredTools`, `ReasoningReplay`.
10. Proofs about all of them.

Left, should the project grow: the other reducers of `state.go` and the guardrail
as operators against reference definitions; a registry whose provider is replaced
while it is in use; `LoopDetector` inside `AgentLoop`, which takes its verdict as
free today.

## 3. Modules and the code they model

| Module | Models | State | Actions |
|---|---|---|---|
| `RunManager` | `harness/agent.go`, `RunAgent` in `harness/loop.go` | fields of `RunRecord`, the worker's position and locals, `Thread.Messages`, `StepObserver`, the run's stream, the store | `Create...`, `Cancel`, `Shutdown`, `Reconcile...`, `Restart`; `Start` to `PublishEnd` of the worker; `LateWrite`, the canceller's store write |
| `EventLog` | what the bridge promises | a log per stream object, readers | `Append`, `CloseLog`, `Attach`, `Read`, `Finish` |
| `StreamBridge` | `runtime/stream.go` | stream objects of one run id, subscriptions with their `deliver` goroutine, channel and consumer | `Publish`, `PublishEnd`, `Cleanup`, `Close`, `Subscribe`; `Drain`, `Send`, `Park`, `Wake`, `Tick`, `Exit`; `Receive`, `Leave` |
| `MemoryQueue` | `MemoryUpdateQueue` in `harness/memory.go` | queue, timer, flags; goroutines inside `processQueue` | one per method, `Fire`, and `Yield`, `FindEmpty`, `Take`, `Process`, `Finish` of `processQueue` |
| `MemoryStore` | `FileMemoryStorage`, `MemoryUpdater` and the manual operations in `harness/memory.go` | the file and its time, the cache, each operation with what it has loaded | `Start`; `Stat`, `Lookup`, `ReadFile`, `Fill` of a load; `Change`, `Reject`; `Replace`, `SaveFails`, `CacheSaved` of a save |
| `SessionPool` | `SessionPool` in `mcp/mcp.go` | map, LRU list, inflight; owners; calls | `Hit`, `Join`, `BecomeCreator`, the phases of `GetSession`, `Close`, the waits of `shutdownOwner`, the owner's `Open` and `CloseSession` |
| `AgentLoop` | `runSteps`, `dangling.go`, `compaction.go` | history, step, calls to run, warnings | `Run`, `Cancel`, `SummarizeFails`, `Ask`, `ChatFails`, `Reply`, `HardStop`, `CallTools`, `ToolReturns`, `ToolAsks`, `ToolFails`, `StopAtHead` |
| `SubagentTask` | `harness/subagent.go` | result objects, the registry, slots, the shared tool array, calls of the task tool and their events | `StartCall`, `Refuse`, `Poll`, `CancelParent` of the tool; `ExecuteAsync`, `Execute`, `RunPlain`, `RequestCancel`, `Cleanup`; `ContextEnds`, `Work`, `Collect`, `RunnerEnds` of a task |
| `DockerPool` | `DockerSandboxProvider` in `provider/sandbox.go` | containers, sandboxes in use, the warm pool, bindings of threads, calls of `Acquire` | `Acquire`, `Reclaim`, `MakeRoom`, `Run`, `Register`; `Release`, `Reset`, `Shutdown`, `DestroyNext`, `Restart` |
| `LocalSandbox` | the local provider and the file tools in `provider/sandbox.go` | LRU cache, sandbox objects with their marks, files and the names in them, writes under way | `Acquire`, `Get`, `Reset`; `Look`; `Refuse`, `Open`, `WriteText`, `WriteFails`, `MarkWritten` of a write; `Bash`, whoever else writes |
| `LoopDetector` | `harness/loopdetect.go` | windows, counters, marks, warnings, two LRU lists | `TrackAndCheck`, `DrainPendingWarnings`, `BeforeAgent`, `AfterAgent`, `Reset` |
| `ToolCache` | `ToolCache` in `mcp/mcp.go` | version of the file, tools and time in the cache, the load in progress | `Edit`, `Ask`, `Load`, `LoadFails`, `Store`, `Reset` |
| `OAuthTokens` | `OAuthTokenManager` in `mcp/mcp.go` | clock, token, lock, callers and the answers made for them | `Ask`, `Enter`, `Look`, `Make`, `Store`, `Fail`, `Tick` |
| `DeferredTools` | `capability/deferred.go`, `MergePromoted` in `harness/state.go` | tools of an agent, result of the last search, promotions of the thread | `Build`, `Run`, `Promote` |
| `ReasoningReplay` | `RestoreAssistantPayloads` and `VllmBuildPayload` in `provider/model.go` | a history, the messages that were serialized, the reasoning they get | `Restore` |
| `Selection` | the loop that keeps some elements of a slice, used by the lists above | | |
| `RunStreamProofs`, `ToolboxProofs`, `LocalToolsProofs` | | | theorems about the compositions `MCRunStream`, `MCToolbox`, `MCLocalTools` and their parts |
| other `...Proofs` | | | theorems about the module they are named after |
| `MC...` | | | values of constants, symmetry sets, compositions |

A step is what the code does without giving another goroutine a chance: one
critical section of a mutex, or one access to shared state outside of one. That
is why a status change and its store write are two actions, and why an append to
`thread.Messages` is a read and a write: `t.Append` has no lock and two workers
may race. Definitions with a comment that begins with "Faulty" are plausible
mistakes, kept to show that each property can tell them from the code; nothing
else uses them.

Where parts of the system share state they are one module (registry, worker and
store; step loop, patch and compaction; tasks and the tool that polls them; the
storage and everybody who changes the file). `MCRunStream`, `MCLocalTools` and
`MCToolbox` are something else: they check parts that share no state side by
side, one part per behaviour, so that a run asks about one layer of the system
and its state space is the sum of the parts and not their product. The
interfaces between parts are modelled on either side: `RunManager` has the kinds
of events it publishes and `StreamBridge` any events; `AgentLoop` takes any
verdict of the detector; `MemoryQueue` has batches that take arbitrarily long,
`MemoryStore` the updates they make.

How the data is abstracted:

* A message of a thread is, in `RunManager`, the run it belongs to. In
  `AgentLoop` it has its role, its calls and one word for its text; token counts
  and triggers become any cutoff, budgets of the rescue any choice of skill
  files they can leave.
* `RunManager` keeps of a stream only which kinds of events it has had, and who
  published them; what happens to an event afterwards is `StreamBridge`.
* A conversation in the memory queue is the number of the `Add` that brought it,
  so that newer is larger. A fact is its content and its confidence; the content
  tells duplicates and uploads apart. A modification time is a number that grows
  with each replacement of the file: two within one tick of the file system's clock
  would look alike, which is not modelled.
* A session is named by the call that created it, a container by its thread or
  call.
* A path is a sequence of segments, the content of a file the set of the names of
  files in it. Where a path begins and ends in a text is left out; what each mount's
  replacement makes of a name, and that the passes of all mounts amount to `Resolve`
  and `Shown`, TLC checks for the names of the run (`PassesAssumption`). A version of a configuration
  stands for its content and for the tools loaded from it.
* A tool call is its name and the arguments the hash looks at; a tool its name,
  its words and the words of its description; a message of `ReasoningReplay` its
  role and its signature.
* Wall-clock time is left out, but for `OAuthTokens`: a timer may fire whenever it
  is armed, a deadline pass whenever it is set.

External code is modelled by what the program may see of it: a `RunStore` whose
calls may fail, a `SessionFactory.Open` that may fail or succeed late, a model that
answers anything, a tool that may return, ask or fail, a summarizer or a loader
that may fail, a runner that hangs, docker commands that fail, a token endpoint
that is slow, other processes that change the files.

## 4. Runs

| Run | Question | Result |
|---|---|---|
| `RunStream_race` | Can requests, workers and late store writes of two runs of one thread and Agent break a record, a row or a stream? Does a turn that met no other one keep its messages and show its own values? With a window of one and a reconnection, is every event received, on its way or evicted, none twice, the end last, does nobody sleep through one, and is that an `EventLog`? | Nothing breaks, it does, and it is |
| `RunStream_live` | Does every run end, every abort take effect, every orphaned row get resolved? Is a wakeup ever lost? | Yes, also over a crash and a failed store call; and no: without a single heartbeat every retained event and the end arrive |
| `RunManager_rollback` | Does a turn that succeeded stay in the history? | No: the aborted worker and its successor both append without a lock, and a late rollback restores a copy from before the successor |
| `MemoryQueue_race` | Can any order of callers, timers and batches strand, reorder or double what is queued? | No, up to what `Clear` does to a batch in progress |
| `MemoryStore_ops` | Three operations of any kind through two keys of one file, saves that fail, another process: is what `Load` caches current, are operations that do not overlap atomic, is an updated memory bounded? | Yes |
| `MemoryStore_cache` | Is an entry of the cache that looks current always current? | No: `Reload` reads the file first and its time later |
| `SessionPool_calls` | Do crossing calls corrupt the LRU list, pool a closed session or leak one? By how much can they exceed the capacity? Can a `Close`, or a `GetSession` whose context is cancelled, hang? | No; by less than the creations that overlapped; and no, even if no wait times out |
| `AgentLoop_turns` | Is each request well formed whatever ended the turns before it and whatever was compacted? | Calls are answered in place, truthfully, and nothing vanishes unseen |
| `SubagentTask_calls` | A call of the task tool beside a task of any kind on one slot, with cancels, deadlines and cleanups: do slots, registry and reports stay right, and does every call return? | Yes, even if its subagent hangs |
| `SubagentTask_tools` | Has each subagent the tools its type allows? | No: the filter writes into the array that all calls share |
| `LocalTools` | Do names, and the names in contents, lead to the same files after the way to the local files and back, does a thread keep its sandbox, are read-only mounts safe? Are loops warned of and then cut, whatever is forgotten? | Yes |
| `Toolbox` | Are containers accounted for over shutdowns and crashes; do edits of the MCP configuration arrive; are tokens accepted and fetched once; does a schema appear if and only if it was searched for; does reasoning return to its message? | Yes, as far as the properties say |

Each property's comment says what it is about. The type invariants are conjuncts
of properties of the runs (`ReadsInOrder`, `LoadsAreCurrent`, `PoolIsExact`,
`HistoryIsKept`, `TasksAreHeld`, `CacheKeepsSandboxes`, `LoopsAreCut` and those of
`Toolbox`), or proved (`RunManager`, `MemoryQueue`, `DockerPool`).

### Bounds, and why they are enough

* *RunManager.* Two runs of one thread, with one Agent, are all a conflict needs:
  an old worker and its replacement. A step budget of one lets a turn append twice and hit the
  recursion limit. The liveness run has one run but also two steps, a crash, a
  failing store call and requests during reconciliation. `MaxFaults` and
  `MaxRestarts` bound the environment, `MaxSteps` is the code's own limit.
* *StreamBridge.* A window of one with three events evicts with each event, and
  two stream objects let a subscriber keep one that has been removed. The second
  connection may be the first client's reconnection. The liveness run has one
  subscriber (they do not influence each other), a window of two, four events
  and a `Close`.
* *MemoryQueue.* Three goroutines let a batch run while one waits before the lock
  and another timer fires; three adds over two keys allow a replacement during a
  batch. One `Flush` and one `Clear`.
* *MemoryStore.* Three operations: two that cross and one that sees what they
  left. Two keys of one file, so that a save through one makes the entry of the
  other stale. Two contents, one an upload; `MaxFacts` two, and answers that
  propose more, duplicates and facts below the threshold.
* *SessionPool.* Two keys and room for one session force evictions; two calls and
  a close allow a creator with a joiner or an evictor, and a close that crosses
  them; one wait may time out.
* *AgentLoop.* Two turns, so that the second repairs what the first left; two
  calls per batch, so that one may be answered and one not; four calls, two of
  which read skill files, so that a message is split by the rescue.
* *SubagentTask.* Two tasks and one slot, so that one waits for the other. One
  message, so that a poll may be the first to see it or the last. `MaxPolls` is
  zero: the second poll gives up, and any number of polls before it would change
  nothing that the tool does afterwards.
* *LocalSandbox.* Room for one sandbox and two threads: every acquisition may
  push out the one in use. Two calls, so that one opens, writes or marks between the
  steps of the other. Three mounts, two of them nested and one read-only within a
  writable host directory. The paths are a file in the workspace, the read-only one
  under its writable name, and a path under no mount, the local path of the workspace
  file of one thread, which both use; so the threads are not symmetric. `OtherPaths`
  bounds what others write to the workspace files: they are the ones with readers.
* *LoopDetector.* Three runs of two threads, one of them tracked; a limit of
  two for warnings and three for the stop, a window of three, so that calls leave
  it. Call sets that are equal but for order and line numbers within a bucket.
* *Toolbox.* One container with three calls of two threads and a restart; four
  versions of the configuration and two failures; two callers of a token with a
  delay that takes all of the skew, and lifetimes of zero and more than the skew;
  three catalogs in which one name means two tools; histories of up to four
  messages, any of which may be dropped.

Deadlock is checked where the system can always go on (`MemoryQueue`,
`RunManager_rollback`); in the other models every call is made once, or the turns
and events are bounded, and the configurations say so.

### Fairness

* *RunManager.* Weak fairness of each worker, canceller write and the
  reconciliation: a goroutine that can run does run, and the application that
  embeds the registry reconciles when it starts, as `agent.go:472` intends. None
  for requests and restarts. A worker's steps return because runSteps looks at its
  context; that a model or tool call itself returns is assumed.
* *StreamBridge.* Weak fairness of `deliver` and of the consumer while it stays.
  None for the ticker, so a heartbeat cannot stand in for a wakeup, none for
  `Leave`, `Publish` or the subscribers' arrival.
* *MemoryQueue.* An armed timer fires in the end and a goroutine in `processQueue`
  goes on. `Fire` is fair for some worker, not for a particular one: the
  workers of the model are slots for goroutines.
* *SessionPool.* Calls and owners go on; `Open` is fair only once its context has
  been cancelled, as the contract of `SessionFactory` asks. Nothing is assumed of
  an `Open` that nobody cancels.
* *SubagentTask.* Weak fairness of the polls of a call alone: its ticker fires.
  Nothing is assumed of tasks and their runners, which may hang for ever, nor of
  the deadline.

## 5. Proofs

TLAPS proves the following for all values of the constants that satisfy
`ConstantsAssumption` of the module, so for any number of runs, threads, agents,
steps, keys, goroutines, events, sessions, tasks, containers, timeouts, failed
calls and restarts. In each module `Invariant` is the strengthening: `InitInv` and
`NextInv` are its two halves, with a lemma per conjunct or per action. A theorem
about one part of `MCRunStream`, `MCToolbox` or `MCLocalTools` holds of the
composition the run checks: each step of it is a step of that part or leaves the
part alone.

`RunStreamProofs`: `TypeCorrect`, `OneLiveRun` (`AtMostOneLive`), `FinalIsFinal`
(`FinalStatusSticks`) and `EndsAreTold` (`RunsEndAsTold`), which puts `TerminalRows`
(`SettledRowIsTerminal`) and `EventsTellTheStatus` (`ErrorEventMatchesStatus`)
together. The invariant is
`PositionInv`, what is known of a run at each position of its worker.
`SettledRowIsTerminal` is not inductive: it needs that a row exists once its
worker does, and that what the worker stores last is terminal, hence which
outcomes are possible at the position before (`OutcomeInv`). `FinalStatusSticks`
needs that only a worker past its final decision has success or error
(`RecordInv`), as otherwise `MarkRunning` could take a final status back; and
that in turn needs that a worker before that point is inflight or aborted.
`AtMostOneLive` rests on the same `RecordInv`: only a run that is inflight already,
or aborted, is marked running, so only an insertion makes a thread's live run,
and that aborts or refuses next to the others. The events need `EventInv`: an
error event is on the stream just after the worker decided on error, and the end
after everything else. The same safety holds beside the bridge
(`RunsBesideStreams`), and so do the theorems of the bridge (`StreamReads`,
`StreamImplementsLog`).

`RunStreamProofs`, the turns: `LoneTurns` (`LoneTurnsAreExact`) from
`TurnsInvariant`. Nothing guards `Thread.Messages` and `Agent.StepObserver`, and
section 6 shows what two turns do to each other there. The theorem says that this is
the only way: a history variable, `met`, has every run whose turn has overlapped
that of a rival, a run of the same thread or the same Agent; one that is not in it
keeps its message for ever if it succeeded, leaves none anywhere if it was rolled
back, and shows its values on its own stream and no other. A later rollback of
another run may restore a copy of the thread, and a later turn may put back an
observer, so the invariant speaks of these too: no turn has a rival in its turn
that is not in `met` (`MeetInv`); copies are held in a turn only (`CopyInv`);
a message that counts is in the thread and in every copy held of it, one that
was rolled back in none (`ThreadInv`); an Agent publishes to the run in its turn or
to one in `met`, and so does every worker that puts back what it found
(`ObserverInv`, `ValuesInv`). A step is one of the turn of a run, or leaves the
conversation and the observers alone but for a restart (`Turns`, `Aside`).

`WorkersMoveOn` (`WorkersAdvance`) is the safety half of `RunSettles`: a worker never
goes back. With each move its distance from its end (`Way`) gets smaller, so it has
boundedly many, whatever requests and other workers do. No run checks it; that the
moves are made is fairness.

`RunStreamProofs`, the streams: `ReadersAreServed` (`ReadsInOrder`) and
`BridgeImplementsLog`, the refinement: the bridge's initial states are initial
states of `EventLog`, and each of its steps is a step of it or none. What a
reader has been given is spread over its channel, the event in the hand of
`deliver` and its offset; the invariant says for each subscription where these
stand (`PlaceInv`), that the offset is within what the reader may know of its
stream (`ReaderInv`), that channel and hand continue what was received
(`PipeInv`), and that the end comes after all of it (`EndInv`). Five steps move a
reader (`SubscribeStep`, `DrainStep`, `SendStep`, `TickStep`, `ReceiveStep`);
`Untouched` covers the others. `HeadIsNext`, that the head of the channel is the
next event the reader has not had, serves both the invariant and the refinement.
`WakeupsAreKept` (`NoWakeupIsLost`, a part of `ReadsInOrder`) is the safety half of
`EventsAreDelivered`: only the worker changes a stream somebody reads, and it leaves
a token; only `Drain` lets a subscriber go to sleep, and not before it has read all
there is (`WakeInv`, `WakeStep`).

`MemoryQueueProofs`: `NothingStranded` (`Triggered`), `SingleProcessor`
(`OneProcessor`), `SignalsKept` (`SignalIsKept`), `OldestFirst` (`NewestLast`).
`Triggered` is inductive with the types: whoever stops a timer either arms another
or is about to take the lock. `NewestLast` needs `OrderInv`: the numbers of a key
grow from what memory has over the batch in progress to the queue; and `OrderInv`
needs `OneProcessor`, since two batches could finish in either order.

`MemoryStoreProofs`: `SerialOperations` (`SerialIsAtomic`), `LoadsAreRight`
(`LoadsAreCurrent`), `UpdatesAreBounded` (`UpdateIsBounded`). The first never
expands what an operation makes of a memory (`Changed`), so it holds for any
updater. It needs what each operation knows at each of its positions (`OpInv`):
if the time it took before it read is still that of the file, what it read is the
file; and as long as no two operations have overlapped (`SerialInv`), that the
file is the one it loaded and every entry that looks current is the file. The
other two are about what is made: `AddNewGrows` follows the recursion over the
answers of the model, `TrimTakes` the trimming to the most certain facts,
`LeftTakes` and `ToldTakes` the removals and the upload filter. `ToldIsBounded`
puts them together for one update, `ChangedIsMemory` for any operation: the
result is a memory whose facts have different identities. That the identities
are different is again not inductive: it needs that nobody has a fact of an
operation before that operation made it (`Sound`, `StaysFresh`).

`SessionPoolProofs`: `BooksAreInOrder` (`PoolIsExact`), `CapacityHolds`
(`PoolIsBounded`), `EveryWaitEnds` (`WaitsEnd`, which no run checks) and `PoolIsLive`
(`LiveIsPooled`), which puts `PoolIsOpen` (`PooledIsOpen`) and `NothingLeaks`
(`NoSessionLeaks`) together. `NothingLeaks` is about quiet
moments only, so the invariant says what holds in between: somebody answers for
each live session (`AnsweredFor`), because it is pooled, or its creator has still
to decide about it, or a call has it on its list of owners to shut down. Carrying
that through needs `TodoInv` (who is on such a list has left the pool and the
inflight map for good), `InflightInv` (a key is pooled or being created, not both,
and a registered creator is told to close by nobody but itself), `OwnerInv` (a
result is reported before the owner ends), `CallInv` (what a call knows where it
waits) and `TornDown` (a creator that finds itself removed closes its session
before it returns). Two lemmas, `Evicts` and `Takes`, say what eviction and the
closes move from the pool to such a list. `LruInv`, that the list has each pooled
key once and no other, comes on top: it follows the list through a hit, a
registration, the eviction of its first elements and the removal of those of a
server or a scope. `CapacityHolds` (`PoolIsBounded`) adds up the sessions pooled
and under way: an eviction makes room for one (`EvictionEnds`, from `LruInv`), and
each creation that finds room beside others has raised `peak`, a history variable
for the most creations that ever overlapped; at a peak of one the bound is the
capacity. `EveryWaitEnds` (`WaitsEnd`) is what a proof of `CallsReturn` would have
to know of each state: nobody waits for an owner that has no reason to end, nor for
a result that will not come. It needs that an owner past the opening has reported
something and that the owner a call is on has been started (`WaitInv`).

`AgentLoopProofs`: `CallsInPlace` (`CallsAreAnswered`), `ResultsAreTold`
(`NoFalseInterruption`), `HistoryStays` (`HistoryIsKept`). Each step rebuilds the
history: a compaction splits some of its messages and drops others, the patch
moves results behind their calls and makes up the missing ones, the turn appends.
None of the three properties is inductive. `InOrder` says what every such history
has: nothing is asked twice, answered twice or reminded of twice (`Apart`), a call
that has had a result has it behind it (`ResultsFollow`), and no message
claims more than what was asked and told (`Proper`). `PatchKeeps` shows that the
patch keeps a history in order and has every call answered in place,
`CompactionKeeps` that a compaction keeps it in order at any cutoff and for any
set of rescued calls, so that triggers and budgets do not matter, and
`AppendKeeps` what may be appended. `TodoIsOpen`, that the calls still to run are
different ones without a result, is what lets `ToolReturns` append one. Below
these stand lemmas about where the elements of a flattened sequence lie
(`FlatIsPlaced`) and about what a selection keeps.

`SubagentTaskProofs`: `SlotsAreRespected` (`SlotsRespected`), `WorkersAreFindable`
(`WorkingIsFindable`), `TasksKeepWhatTheyHold` (`TasksAreHeld`), `CancelsAreHonoured`
(`CancelIsHonoured`), `ReportsAgreeWithTasks` (`ReportsAgree`). Every action but
those of a call is a step of one task; the invariant says what is known of a task
at each stage (`TaskInv`: where it holds a slot, when it is registered, which
status it may have), of a call and the task it polls (`CallInv`), and that no
executor has more holders than slots (`SlotsInv`). What a call has told the
outside is `ReportInv`: it has reported all messages of its task or none, and
says of an end once, last, and as the task has it. `FullInv` adds the types of
what calls and tools hold (`CallData`, `ToolData`).

`ToolboxProofs`, the containers: `TypeCorrect`, `AccountedFor`
(`NothingForgotten`), `BoundToActive`, `HandedOut` (`AcquiredIsUsable`): a running
container is in use, warm, in the hands of a call between its start and its
registration, on the list a shutdown works through, or given up by a `Reset` or a
failed docker command, and in one of these places only.

`ToolboxProofs`, what stands behind the tools; each part has its own invariant,
and `PartsInvariant` holds them together:

* `AcceptedTokens` (`TokensAreAccepted`) and `OneFetch` (`ReplacedWhenExpiring`).
  `TokensInv` bounds the time between the making of a token and its storing by
  `MaxDelay`, and says that who fetches holds the lock and found the token
  expiring. Nothing is assumed of the skew. The code waits up to 15 seconds for an
  answer (`mcp.go:890`) and has no default for `RefreshSkewSeconds`, which is then
  zero: the theorem says that a token may be sent after it has expired for the
  server, but for less than the part of those seconds that the skew does not cover,
  and never if it covers them.
* `EditsReachAgents` (`ToolsAreDue`). `CacheInv` says how new the tools in the
  cache are, and those a load in progress has read.
* `SearchesAreRemembered` (`SchemasFollowSearches`). `SearchInv`: what the last
  search and the thread hold has been told, a search that nobody overtook
  still holds its own result, and what is owed has been promoted. The lemmas
  before it say what the query forms find, for any lists of tools and any query.
* `ReasoningStays` (`ReasoningReturns`). `ReplayInv`: the assistant messages seen
  so far have at least as many originals, and without a lost message the k-th
  of them gets what the k-th original had.

`LocalToolsProofs`, the local sandboxes: `SandboxesAreKept`
(`CacheKeepsSandboxes`), `WrittenIsRead` (`WrittenReadsBack`), `NamesLeadBack`
(`ShownNamesResolve`), `WritesAreConfined` (`WritesStayInBounds`). That a tool loses
its sandbox only to as many other threads as the cache holds needs, in `CallInv`, that every thread after its own in
the LRU list has been used since; the list has no thread twice (`CacheInv`), so an
eviction from its front counts as many as the list is long.

What a sandbox reads back needs `FileInv`. A write opens the file, writes and
marks in three steps, and others may come between them; a file has an author as
long as the writes of one sandbox made all of its content. Of such a file the
invariant says that at most one call of that sandbox is going to write into it,
that the disk holds the host form of all that was meant, and that the file carries
the mark or a call of that sandbox is still at writing and marking it. `NamesComeBack` is the other
half: the host form of a name, shown again, leads where the name led, and is no
name of the host. It is not the name that was written: with the mounts of
the run `/mnt/user-data/skills/a` comes back as `/mnt/skills/a`. It assumes
`NamesApart`, that the work directory does not lie below a container path, as
otherwise the local form of a name would be replaced once more.

`WritesAreConfined` says where a write may go: to a file in the mounts of the thread,
if the innermost mount that holds it is not read-only, whatever name it was given,
and, for a path under no mount, to the very file the path is.

`NamesLeadBack` is about the paths alone
(`ShownLeadsBack`): the name shown for a file begins with the container path of the
mount that holds it, but leads back through the innermost mount of that name, which
may be another one, below the first. The assumption is therefore `NestedAlike`: a mount
below another is the directory of the same name below the local one. The code
makes its mounts so (`sandbox.go:945`); with one that hides part of another the
property is false.

`LocalToolsProofs`, the loop detector: `LoopsAreWarnedAndCut` (`LoopsAreCut`) from
`LoopInvariant`. That a thread is stopped when it has repeated its calls
`HardLimit` times needs `StreakInv`, that its last calls fill the end of the window
with one hash: so the count of the window is at least the streak, which cannot
reach the limit unnoticed. Warnings need `WarnedInv` and `FreqInv`: what has reached
its limit is marked, and a count ends where the stop is told. `TrackInv` and
`PendingInv` keep the two LRU lists exact, so that nothing is held of a thread or
run that is not listed. The assumption is that the window is not smaller than
`HardLimit`, as in the defaults; the code takes each setting for itself
(`loopdetect.go:146`), and with a smaller window equal calls are never cut.

Recursive functions over a sequence (the answers that `AddNew` goes through, the
ranks of a selection, a flattening block by block) are reasoned about through a least counterexample
(`LeastExists`), since the library's induction theorems take an operator as a
parameter, which the installed provers do not instantiate. The selection of a
sequence is defined by ranks in `Selection`, because that of the standard library
cannot be expanded in a proof; an assumption of `MCSubagentTask` has TLC compare
the two.

Only model-checked:

* all liveness properties: fairness and ENABLED are beyond the prover;
* the disagreements of section 6, which are counterexamples.

## 6. Disagreements

Three are kept as runs and listed under `findings`. Others were seen on small
instances or in the code while modelling; where a model has the behaviour it
keeps it, but no run is kept for them.

Runs and streams:

* `agent.go:349`: a slow worker's `SetStatus(running)` revives a run that a newer one
  has interrupted, so that a thread has two inflight rows although `agent.go:383` promises
  one. What does hold is `AtMostOneLive`: one that nobody has aborted.
* `agent.go:455`: a second `Cancel`, after that, is no no-op (`agent.go:441`): it
  overwrites the action of the first, so a rollback may become an interrupt.
* `agent.go:487`: the reconciliation reads the inflight rows and then looks at memory;
  a run that finishes in between, when requests are served already, ends with
  an error row.
* `loop.go:226`: two workers of one agent swap `StepObserver`; the values of one run are
  published to the other's stream. That their turns overlap is the only cause
  (`LoneTurnsAreExact`).
* `stream.go:209`: while `deliver` blocks on a full channel the window passes its offset,
  so a slow consumer does lose events, which `stream.go:15` rules out.
* `stream.go:84`: a subscriber that comes after the cleanup creates a stream that nobody
  ends.

Step loop and detector:

* `compaction.go:342`: a cutoff between a call and its result leaves the tool message
  behind the summary without its call, which `loop.go:128` excludes; the patch only
  looks for calls without results.
* `loop.go:72`: warnings are drained under empty ids, and nothing calls the
  `BeforeAgent` and `AfterAgent` hooks that `loopdetect.go:209` relies on to clear stale
  ones. `LoopDetector` is checked with the ids a caller should give.
* The marks of a thread survive `BeforeAgent` and `AfterAgent`, so a warning that was
  queued and cleared unread is not repeated within the window. Line numbers are
  hashed by buckets of 200, and 200 and 201 fall in different ones. With a window
  smaller than the hard limit identical calls never stop a run.

Memory:

* `memory.go:501`: `Flush` returns at once when a batch is in progress; `memory.go:529`
  calls it synchronous.
* `memory.go:833`: operations that overlap lose facts: the updater saves what it derived
  from the memory it loaded before it asked the model.

MCP:

* `mcp.go:322`: room is made before a session opens, so creators of several keys exceed
  `MaxSessions`, which `mcp.go:140` calls a capacity; `PoolIsBounded` says by how many.
* `mcp.go:343`: a joiner takes the creator's result although the creator finds itself
  closed afterwards (`mcp.go:375`): it gets a closed session.
* The tool cache never notices an edit made between the loader's read and the taking
  of the time, nor any edit if the time was unknown then; a loader that fails after
  a change was noticed leaves no tools at all, the old ones being dropped first.
* The session tool returns before it rewrites the paths in a result when it has
  interceptors, and picks the server of a tool by iterating a map.

Subagents:

* `subagent.go:943`: each call of the task tool makes an executor with a semaphore of its
  own, so `MaxConcurrent` bounds nothing across calls, although `subagent.go:265` speaks
  of the maximum of concurrent subagents.
* A message that arrives between the two reads of a poll, of the messages and of the
  status, is not reported. A task stays in the registry when its call is cancelled or
  gives up polling.
* A deadline that passes while a task waits for its slot is reported as a cancel by the
  user; a cancel that comes while it waits takes effect once it has the slot.

Tools and sandboxes:

* `capability/deferred.go`: a search that runs before the caller has taken the
  promotions of another one replaces them. No `DeferredToolFilterMiddleware` is made
  outside of tests, although `buildInitialState` assembles the deferred tools; the
  branch that hides everything when the catalog is missing is out of reach.
* `registry.go:91`: setting the name of a sandbox provider drops the singleton without
  the `Reset` its comment promises.
* `sandbox.go:181`: a path under no mount is used as it is, and the file tools refuse
  only ".." (`sandbox.go:1611`): given the local path of a file, they read and write that
  file, one of another thread as well; `sandbox.go:108` says that this is no boundary.
  `WritesStayInBounds` says that nothing but such a path leads out of the mounts.
* A name may come back as another one: without a slash at its end, or by an inner mount
  of its directory. A `write_file` that fails on the way leaves part of the content without a mark,
  and so does one between its write and its mark for who reads then.
* The marks of written files are kept in a map without a lock, and go with the sandbox
  when the LRU list evicts it: names written by the agent are then shown as they are
  in the file. Lines found by the search tool are shown without the reverse mapping.
* `model.go`: messages with equal signatures are told apart by their order; after an
  earlier one was dropped a message may get the reasoning of its twin, and for
  vLLM, which counts only, that of another. `ReasoningReturns` excludes both cases.

## 7. Not modelled

* *Clarification and guardrail middleware*: a decision on one call, without state;
  their effects are actions of `AgentLoop`.
* *MCP session tool and server parameters*, *capability contract*, *skills*: pure
  transformation of data or declarations.
* *Capability registry*: two maps and a singleton, one critical section per
  operation.
* *Singletons* behind which a queue, a pool and a provider are kept.

Inside the modelled components: the raw and invalid calls of
`PatchDanglingMessages`; `ensureSandbox` in the step loop; a `RunManager` without a
store; the reducers of `state.go` but `MergePromoted`; the settings of models and
the sending of requests; the sandbox of calls without a thread, symbolic links,
".." in paths, which the tools refuse, the slash at
the end of a path, container paths within a longer word, globs, search and the
truncation of output; a work directory below a container path; reordering of the
history by a serializer; prompts and the wording of messages.

What is smaller than the code, where a model does have the operation:

* `StreamBridge` has one publisher, which stops at the end. `Publish` of the code does
  not look at the end flag (`stream.go:99`), so a worker with a swapped observer
  (`loop.go:226`) may append to a stream that has ended; no subscriber that has been told the end
  reads it. `LoneTurnsAreExact` says when observers are not swapped.
* `RunManager`: reading the abort flag and acting on it is one step in `Step`
  (`loop.go:106`) and in `Decide` (`loop.go:234`).
* `DockerPool`: a `docker run` that fails leaves no container, and one that outlives the
  process has started its container before the next process lists them.
* `MemoryStore`: nobody deletes or damages the memory file; `loadFromFile` would then
  give an empty memory (`memory.go:222`).
* `LoopDetector`: calls without a name, which the code does not count (`loopdetect.go:312`).
* `ReasoningReplay`: a payload has the signature of its original; in the code they differ
  when one content is nil and the other empty (`model.go:547`), and the order of the messages
  decides then.

## 8. Running

    tlc -config RunStream_race.cfg MCRunStream
    tlapm RunStreamProofs.tla

`PROJECT.json` says which module each `.cfg` belongs to. On two workers the
longest runs take one to two minutes (`MemoryStore_ops`) or two to three
(`LocalTools`, `RunStream_race`); the longest proofs (`RunStreamProofs`, `AgentLoopProofs`, `SessionPoolProofs`,
`MemoryStoreProofs`, `LocalToolsProofs`) some minutes.
