----------------------------- MODULE AgentLoop -----------------------------
(***************************************************************************)
(* The step loop of one agent on one thread: harness/loop.go (Run, Resume, *)
(* runSteps), with PatchDangling (harness/dangling.go) and the compaction  *)
(* of the history (harness/compaction.go) that it runs before every model  *)
(* call.                                                                   *)
(*                                                                         *)
(* Token counts, trigger values and rescue budgets are data: where they    *)
(* decide, any cutoff and any admissible set of bundles is possible.  What *)
(* the model answers, how a tool call ends and what the loop detector says *)
(* is free.  A provider is assumed to give every tool call an id of its    *)
(* own; ids are numbers here, in the order they are made up, 0 for none.   *)
(* No second goroutine writes the thread's messages here; two workers on   *)
(* one thread are the subject of RunManager.                               *)
(***************************************************************************)
EXTENDS Naturals, FiniteSets, Sequences, SequencesExt, Selection

CONSTANTS
  MaxCalls,     \* bound: tool calls the model makes
  SkillPath,    \* the skill file a call reads, for the calls that read one
  MaxSteps,     \* Agent.MaxSteps
  MaxBatch,     \* bound: tool calls of one model response
  MaxTurns,     \* bound: calls of Run and Resume
  RescueCount,  \* PreserveRecentSkillCount
  Compacting,   \* Compaction.Enabled
  Patching,     \* Agent.PatchDangling
  Detecting     \* Agent.LoopDetector # nil

ASSUME ConstantsAssumption ==
  /\ {MaxSteps, MaxBatch} \subseteq Nat \ {0}
  /\ {MaxCalls, MaxTurns, RescueCount} \subseteq Nat
  /\ DOMAIN SkillPath \subseteq 1..MaxCalls
  /\ {Compacting, Patching, Detecting} \subseteq BOOLEAN

VARIABLES
  messages,   \* Thread.Messages
  pc,         \* idle, at the head of a step, model asked, running tools
  step,       \* the loop counter of runSteps
  todo,       \* tool calls of the current response not yet run
  warnings,   \* LoopDetector.pending: how many are queued
  cancelled,  \* the turn's context is done
  turn,       \* turns begun
  count,      \* history: messages appended so far; each has its number
  asked,      \* history: ids the model has used
  answered,   \* history: ids whose call returned a result or a question
  flushed     \* history: messages handed to the BeforeSummarization hooks

turnVars == <<pc, step, todo, cancelled, turn>>
ghosts == <<count, asked, answered, flushed>>
vars == <<messages, warnings, turnVars, ghosts>>

-----------------------------------------------------------------------------
Ids == 1..MaxCalls

(* Messages.  text stands for Content and Name; n is the number of the       *)
(* appended message it is or comes from, 0 for a message the loop makes up.  *)

User(text, n) == [role |-> "user", text |-> text, calls |-> <<>>, id |-> 0, n |-> n]
Assistant(text, calls, n) ==
  [role |-> "assistant", text |-> text, calls |-> calls, id |-> 0, n |-> n]
Tool(text, id, n) == [role |-> "tool", text |-> text, calls |-> <<>>, id |-> id, n |-> n]

Called(ms) == UNION {ToSet(ms[i].calls) : i \in DOMAIN ms}

(* PatchDangling: results move behind the message that asked for them, a     *)
(* call without one gets a made-up result, results of no call stay where     *)
(* they are.  An id is asked once, so its queue of results is this one.      *)
ResultOf(ms, id) ==
  LET results == {k \in DOMAIN ms : ms[k].role = "tool" /\ ms[k].id = id} IN
  IF results = {} THEN Tool("interrupted", id, 0) ELSE ms[Min(results)]

(* Faulty: a result of no call is dropped. *)
ReplayedOnly(ms, m) ==
  IF m.role = "tool"
  THEN <<>>
  ELSE <<m>> \o [j \in DOMAIN m.calls |-> ResultOf(ms, m.calls[j])]

Replayed(ms, m) ==
  IF m.role = "tool" /\ m.id \in Called(ms)
  THEN <<>>
  ELSE <<m>> \o [j \in DOMAIN m.calls |-> ResultOf(ms, m.calls[j])]

(* Faulty: the missing results go to the end of the history. *)
PatchedAtEnd(ms) ==
  LET missing == {id \in Called(ms) : ResultOf(ms, id).text = "interrupted"} IN
  ms \o [i \in DOMAIN SetToSeq(missing) |-> Tool("interrupted", SetToSeq(missing)[i], 0)]

Patched(ms) == FlattenSeq([i \in DOMAIN ms |-> Replayed(ms, ms[i])])

-----------------------------------------------------------------------------
(* Compaction: everything up to the cutoff is summarised, but for the skill  *)
(* files read last and the dynamic context reminders.                        *)

(* The calls of each message that read a skill file and whose results        *)
(* directly follow it.                                                       *)
SkillReads(old) ==
  [i \in DOMAIN old |->
     {id \in ToSet(old[i].calls) \cap DOMAIN SkillPath :
        \E k \in i + 1 .. Len(old) :
          old[k].id = id /\ \A l \in i + 1 .. k : old[l].role = "tool"}]

(* The skill files a message reads, with how often.                          *)
SkillKey(ids) ==
  [p \in {SkillPath[id] : id \in ids} |-> Cardinality({id \in ids : SkillPath[id] = p})]

Rescues(reads) ==
  {S \in SUBSET {i \in DOMAIN reads : reads[i] # {}} :
     /\ Cardinality(S) <= RescueCount
     /\ \A i, j \in S : SkillKey(reads[i]) = SkillKey(reads[j]) => i = j}

(* Faulty: the message is rescued with all its calls. *)
RescueWhole(m, ids) ==
  IF ToSet(m.calls) \cap ids # {} \/ m.id \in ids THEN <<m>> ELSE <<>>

(* What is rescued of a message, and what of it is left to the summary, when *)
(* the calls in ids are rescued.                                             *)
Only(calls, ids) == Selection(calls, {j \in DOMAIN calls : calls[j] \in ids})

RescuedPart(m, ids) ==
  IF ToSet(m.calls) \cap ids # {} THEN <<[m EXCEPT !.text = "", !.calls = Only(m.calls, ids)]>>
  ELSE IF m.id \in ids THEN <<m>> ELSE <<>>

RemainingPart(m, ids) ==
  LET calls == Only(m.calls, ToSet(m.calls) \ ids) IN
  IF ToSet(m.calls) \cap ids = {}
  THEN IF m.id \in ids THEN <<>> ELSE <<m>>
  ELSE IF calls = <<>> /\ m.text = "" THEN <<>> ELSE <<[m EXCEPT !.calls = calls]>>

IsReminder(m) == m.text = "reminder"

(* The two sides of a compaction at this cutoff: the messages the hooks and  *)
(* the summarizer get, and the new history.                                  *)
Compaction(old, ids, kept) ==
  LET rescued == FlattenSeq([i \in DOMAIN old |-> RescuedPart(old[i], ids)])
      remaining == FlattenSeq([i \in DOMAIN old |-> RemainingPart(old[i], ids)])
      reminders == {i \in DOMAIN remaining : IsReminder(remaining[i])}
  IN  [summarised |-> Selection(remaining, DOMAIN remaining \ reminders),
       history |-> <<User("summary", 0)>> \o Selection(remaining, reminders)
                     \o rescued \o kept]

CompactionsAt(ms, cutoff) ==
  LET old == SubSeq(ms, 1, cutoff)
      reads == SkillReads(old)
  IN  {Compaction(old, UNION {reads[i] : i \in S}, SubSeq(ms, cutoff + 1, Len(ms))) :
         S \in Rescues(reads)}

Compactions(ms) ==
  IF Compacting THEN UNION {CompactionsAt(ms, c) : c \in DOMAIN ms} ELSE {}

Numbers(ms) == {ms[i].n : i \in DOMAIN ms} \ {0}

-----------------------------------------------------------------------------
PC == {"idle", "head", "asking", "tools"}

Init ==
  /\ messages = <<User("reminder", 1)>>
  /\ pc = "idle" /\ step = 0 /\ todo = <<>>
  /\ warnings = 0
  /\ cancelled = FALSE
  /\ turn = 0
  /\ count = 1 /\ asked = {} /\ answered = {} /\ flushed = {}

(* The calls of a response: new ids.                                         *)
Batches ==
  {b \in UNION {[1..k -> Ids] : k \in 1..MaxBatch} :
     /\ \A i \in DOMAIN b, id \in asked : b[i] > id
     /\ \A i, j \in DOMAIN b : i < j => b[i] < b[j]}

Return == pc' = "idle" /\ todo' = <<>> /\ UNCHANGED <<step, cancelled, turn>>

Goto(p) == pc' = p /\ UNCHANGED <<step, todo, cancelled, turn>>

(* A turn: the user's message, or the answer to an interrupt.                *)
Run ==
  /\ pc = "idle" /\ turn < MaxTurns
  /\ turn' = turn + 1
  /\ messages' = Append(messages, User("input", count + 1))
  /\ count' = count + 1
  /\ pc' = "head" /\ step' = 0 /\ cancelled' = FALSE
  /\ UNCHANGED <<todo, warnings, asked, answered, flushed>>

Cancel ==
  /\ pc # "idle" /\ ~cancelled
  /\ cancelled' = TRUE
  /\ UNCHANGED <<messages, warnings, pc, step, todo, turn, ghosts>>

(* The step limit, or a context done when the step begins.                   *)
StopAtHead ==
  /\ pc = "head" /\ (step >= MaxSteps \/ cancelled)
  /\ Return
  /\ UNCHANGED <<messages, warnings, ghosts>>

AtHead == pc = "head" /\ step < MaxSteps /\ ~cancelled

(* The summarizer fails after the hooks have run: nothing is replaced.       *)
SummarizeFails ==
  /\ AtHead
  /\ \E c \in Compactions(messages) : flushed' = flushed \union Numbers(c.summarised)
  /\ Return
  /\ UNCHANGED <<messages, warnings, count, asked, answered>>

(* Before the model call: results are put in their place, and the queued     *)
(* warnings go to the end.                                                   *)
Prepared(ms) ==
  (IF Patching THEN Patched(ms) ELSE ms)
    \o [i \in 1..warnings |-> User("warning", 0)]

(* maybeCompact, PatchDangling, DrainPending, and the model is asked.        *)
Ask ==
  /\ AtHead
  /\ \/ /\ messages' = Prepared(messages)
        /\ UNCHANGED flushed
     \/ \E c \in Compactions(messages) :
          /\ messages' = Prepared(c.history)
          /\ flushed' = flushed \union Numbers(c.summarised)
  /\ warnings' = 0
  /\ Goto("asking")
  /\ UNCHANGED <<count, asked, answered>>

Respond(text, calls) ==
  /\ messages' = Append(messages, Assistant(text, calls, count + 1))
  /\ count' = count + 1
  /\ asked' = asked \union ToSet(calls)
  /\ UNCHANGED <<answered, flushed>>

ChatFails ==
  /\ pc = "asking"
  /\ Return
  /\ UNCHANGED <<messages, warnings, ghosts>>

(* A text, or the provider's own interrupt, whose message may hold calls.    *)
Reply ==
  /\ pc = "asking"
  /\ \E calls \in {<<>>} \union Batches : Respond("reply", calls)
  /\ Return
  /\ UNCHANGED warnings

(* LoopDetector.AfterModel says stop: the calls are dropped.                 *)
HardStop ==
  /\ pc = "asking" /\ Detecting /\ Batches # {}
  /\ Respond("stop", <<>>)
  /\ Return
  /\ UNCHANGED warnings

(* The response is kept with its calls; AfterModel may queue a warning.      *)
CallTools ==
  /\ pc = "asking"
  /\ \E calls \in Batches, text \in {"", "plan"} :
       /\ Respond(text, calls)
       /\ todo' = calls
  /\ warnings' \in {warnings} \union (IF Detecting THEN {warnings + 1} ELSE {})
  /\ pc' = "tools"
  /\ UNCHANGED <<step, cancelled, turn>>

Backfill(text) ==
  /\ messages' = Append(messages, Tool(text, Head(todo), count + 1))
  /\ count' = count + 1
  /\ answered' = answered \union {Head(todo)}
  /\ UNCHANGED <<warnings, asked, flushed>>

(* A tool's result, the unknown tool's message included.                     *)
ToolReturns ==
  /\ pc = "tools"
  /\ Backfill("result")
  /\ todo' = Tail(todo)
  /\ IF Tail(todo) = <<>>
     THEN pc' = "head" /\ step' = step + 1
     ELSE UNCHANGED <<pc, step>>
  /\ UNCHANGED <<cancelled, turn>>

(* A middleware interrupts: the question stands in for the result, and the   *)
(* calls behind it are not run.                                              *)
ToolAsks ==
  /\ pc = "tools"
  /\ Backfill("question")
  /\ Return

(* A tool or a middleware fails: the turn ends with the call unanswered.     *)
ToolFails ==
  /\ pc = "tools"
  /\ Return
  /\ UNCHANGED <<messages, warnings, ghosts>>

Loop == \/ StopAtHead \/ SummarizeFails \/ Ask
        \/ ChatFails \/ Reply \/ HardStop \/ CallTools
        \/ ToolReturns \/ ToolAsks \/ ToolFails

Next == Run \/ Cancel \/ Loop

Spec == Init /\ [][Next]_vars

-----------------------------------------------------------------------------
(* Properties.                                                               *)

Message ==
  [role : {"user", "assistant", "tool"}, calls : Seq(Ids), id : Ids \union {0}, n : Nat,
   text : {"reminder", "input", "summary", "warning", "reply", "stop", "plan", "",
           "result", "question", "interrupted"}]

(* Every variable has its type; calls wait only while tools run, and a step  *)
(* beyond MaxSteps never asks the model (loop.go 52).                        *)
TypeOK ==
  /\ messages \in Seq(Message)
  /\ pc \in PC
  /\ step \in 0..MaxSteps
  /\ pc \in {"asking", "tools"} => step < MaxSteps
  /\ todo \in Seq(Ids) /\ (todo # <<>> <=> pc = "tools")
  /\ warnings \in Nat /\ (warnings > 0 => Detecting)
  /\ cancelled \in BOOLEAN
  /\ turn \in 0..MaxTurns
  /\ count \in Nat
  /\ answered \subseteq asked /\ asked \subseteq Ids
  /\ flushed \subseteq 1..count

(* In what the model is sent, every tool call is followed at once by one     *)
(* result for each of its ids, in their order, however an earlier turn was   *)
(* cut short and whatever was compacted (dangling.go 11-20, loop.go 65-66).  *)
CallsAreAnswered ==
  pc = "asking" /\ Patching =>
    \A i \in DOMAIN messages :
      LET calls == messages[i].calls IN
      \A j \in DOMAIN calls :
        /\ i + j \in DOMAIN messages
        /\ messages[i + j].role = "tool"
        /\ messages[i + j].id = calls[j]

(* No call that came back with a result is reported to the model as          *)
(* interrupted: neither the cutoff nor the rescue of skill files keeps a     *)
(* call and drops its result (dangling.go 167-177, compaction.go 494-555).   *)
NoFalseInterruption ==
  \A i \in DOMAIN messages :
    messages[i].text = "interrupted" => messages[i].id \notin answered

(* A message leaves the history only by a compaction whose hooks were given  *)
(* it, so long-term memory can take it up (compaction.go 289-292).           *)
NothingVanishes ==
  \A k \in 1..count : k \in flushed \/ k \in Numbers(messages)

(* The dynamic context reminder stays in the history, once, whatever is      *)
(* compacted (compaction.go 390-406).                                        *)
ReminderStays ==
  \E i \in DOMAIN messages : \A k \in DOMAIN messages : IsReminder(messages[k]) <=> k = i

(* Steps, batches, rescues and compactions keep the history whole.           *)
HistoryIsKept == TypeOK /\ NothingVanishes /\ ReminderStays

=============================================================================
