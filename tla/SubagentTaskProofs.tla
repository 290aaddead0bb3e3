------------------------- MODULE SubagentTaskProofs -------------------------
(***************************************************************************)
(* Theorems about SubagentTask, for any tasks, number of slots, messages,  *)
(* polls, tools and types of subagents.                                    *)
(***************************************************************************)
EXTENDS SubagentTask, SequenceTheorems, FiniteSetTheorems, TLAPS

-----------------------------------------------------------------------------
(* The selection of a sequence.                                              *)

LEMMA UpToIsFinite ==
  ASSUME NEW n \in Nat
  PROVE  IsFiniteSet(1..n) /\ Cardinality(1..n) = n
BY FS_Interval

(* The indices of a finite set are numbered from 1 on.                       *)
LEMMA RankNumbers ==
  ASSUME NEW I \in SUBSET Nat, IsFiniteSet(I)
  PROVE  /\ Cardinality(I) \in Nat
         /\ \A i \in I : Rank(I, i) \in 1..Cardinality(I)
         /\ \A i, j \in I : Rank(I, i) = Rank(I, j) => i = j
         /\ \A k \in 1..Cardinality(I) : \E i \in I : Rank(I, i) = k
<1> DEFINE Upto(i) == {j \in I : j <= i}
<1>1. \A i : /\ IsFiniteSet(Upto(i)) /\ Cardinality(Upto(i)) \in Nat
             /\ Cardinality(Upto(i)) <= Cardinality(I)
  <2> TAKE i
  <2>1. Upto(i) \in SUBSET I
    OBVIOUS
  <2> QED
    BY <2>1, FS_Subset, FS_CardinalityType
<1>2. Cardinality(I) \in Nat /\ IsFiniteSet(1..Cardinality(I)) /\ Cardinality(1..Cardinality(I)) = Cardinality(I)
  BY FS_CardinalityType, UpToIsFinite
<1>3. \A i \in I : Cardinality(Upto(i)) \in 1..Cardinality(I)
  <2> TAKE i \in I
  <2>1. Cardinality(Upto(i)) # 0
    <3>1. i \in Upto(i)
      OBVIOUS
    <3> QED
      BY <1>1, <3>1, FS_EmptySet
  <2>2. PICK x : x = Cardinality(Upto(i))
    OBVIOUS
  <2>3. PICK y : y = Cardinality(I)
    OBVIOUS
  <2>4. x \in Nat /\ y \in Nat /\ x <= y /\ x # 0
    BY <1>1, <1>2, <2>1, <2>2, <2>3
  <2>5. x \in 1..y
    BY <2>4
  <2> QED
    BY <2>2, <2>3, <2>5
<1>4. ASSUME NEW i \in I, NEW j \in I, i < j PROVE Cardinality(Upto(i)) < Cardinality(Upto(j))
  <2>1. Upto(i) \in SUBSET Upto(j) /\ j \in Upto(j) /\ j \notin Upto(i)
    <3>1. i \in Nat /\ j \in Nat /\ \A m \in I : m \in Nat
      OBVIOUS
    <3>2. \A m \in I : m <= i => m <= j
      BY <1>4, <3>1
    <3>3. j \in Upto(j) /\ j \notin Upto(i)
      BY <1>4, <3>1
    <3> QED
      BY <3>2, <3>3
  <2>2. Cardinality(Upto(i)) <= Cardinality(Upto(j)) /\ Cardinality(Upto(i)) # Cardinality(Upto(j))
    BY <1>1, <2>1, FS_Subset
  <2> QED
    BY <1>1, <2>2
<1>5. \A i, j \in I : Cardinality(Upto(i)) = Cardinality(Upto(j)) => i = j
  BY <1>1, <1>4
<1> DEFINE f == [i \in I |-> Cardinality(Upto(i))]
<1>6. f \in Injection(I, 1..Cardinality(I))
  BY <1>3, <1>5 DEF Injection, IsInjective
<1>7. f \in Surjection(I, 1..Cardinality(I))
  BY <1>2, <1>6, FS_Injection
<1>8. \A k \in 1..Cardinality(I) : \E i \in I : f[i] = k
  BY <1>7 DEF Surjection
<1> QED
  BY <1>2, <1>3, <1>5, <1>8 DEF Rank

(* A selection has the elements selected, each one once, and no other.       *)
LEMMA SelectionProperties ==
  ASSUME NEW S, NEW s \in Seq(S), NEW I \in SUBSET (1..Len(s))
  PROVE  /\ Selection(s, I) \in Seq(S)
         /\ Len(Selection(s, I)) <= Len(s)
         /\ {Selection(s, I)[k] : k \in 1..Len(Selection(s, I))} = {s[i] : i \in I}
         /\ (\A i, j \in I : s[i] = s[j] => i = j)
              => \A k, l \in 1..Len(Selection(s, I)) :
                   Selection(s, I)[k] = Selection(s, I)[l] => k = l
<1>0. /\ Len(s) \in Nat /\ IsFiniteSet(I) /\ I \in SUBSET Nat
      /\ Cardinality(I) \in Nat /\ Cardinality(I) <= Len(s)
  <2>1. Len(s) \in Nat
    BY LenProperties
  <2>2. IsFiniteSet(1..Len(s)) /\ Cardinality(1..Len(s)) = Len(s)
    BY <2>1, UpToIsFinite
  <2>3. IsFiniteSet(I) /\ Cardinality(I) <= Cardinality(1..Len(s)) /\ Cardinality(I) \in Nat
    BY <2>2, FS_Subset, FS_CardinalityType
  <2> QED
    BY <2>1, <2>2, <2>3
<1> DEFINE at(k) == CHOOSE i \in I : Rank(I, i) = k
           n == Cardinality(I)
<1>1. Len(s) \in Nat /\ IsFiniteSet(I) /\ n <= Len(s) /\ I \in SUBSET Nat
  BY <1>0
<1>2. n \in Nat /\ \A k \in 1..n : at(k) \in I /\ Rank(I, at(k)) = k
  BY <1>1, RankNumbers
<1>3. \A i \in I : Rank(I, i) \in 1..n /\ at(Rank(I, i)) = i
  BY <1>1, <1>2, RankNumbers
<1> HIDE DEF at, n
<1>4. \A i \in I : s[i] \in S
  BY ElementOfSeq
<1>5. Selection(s, I) = [k \in 1..n |-> s[at(k)]]
  BY DEF Selection, at, n
<1>6. Selection(s, I) \in [1..n -> S]
  BY <1>2, <1>4, <1>5
<1>7. Selection(s, I) \in Seq(S) /\ Len(Selection(s, I)) = n
  BY <1>2, <1>6, SeqDef, LenProperties
<1>8. {Selection(s, I)[k] : k \in 1..n} = {s[i] : i \in I}
  <2>1. \A k \in 1..n : \E i \in I : Selection(s, I)[k] = s[i]
    BY <1>2, <1>5
  <2>2. \A i \in I : \E k \in 1..n : Selection(s, I)[k] = s[i]
    BY <1>3, <1>5
  <2>3. {Selection(s, I)[k] : k \in 1..n} \subseteq {s[i] : i \in I}
    BY <2>1
  <2>4. {s[i] : i \in I} \subseteq {Selection(s, I)[k] : k \in 1..n}
    BY <2>2
  <2> QED
    BY <2>3, <2>4
<1>9. ASSUME \A i, j \in I : s[i] = s[j] => i = j, NEW k \in 1..n, NEW l \in 1..n,
             Selection(s, I)[k] = Selection(s, I)[l]
      PROVE  k = l
  BY <1>2, <1>5, <1>9
<1> QED
  BY <1>1, <1>7, <1>8, <1>9

-----------------------------------------------------------------------------
Statuses == {"none", "pending", "running"} \union Terminal
Places   == {"none", "release", "ended"} \union Working
Kinds    == {"none", "tool", "async", "sync", "plain"}

(* As much of the types as the proofs need.                                  *)
Types ==
  /\ status \in [Tasks -> Statuses] /\ DOMAIN messages = Tasks
  /\ cancelled \subseteq Tasks /\ registry \subseteq Tasks
  /\ kind \in [Tasks -> Kinds] /\ pc \in [Tasks -> Places]
  /\ verdict \in [Tasks -> {"none"} \union Terminal]
  /\ slots \subseteq Tasks
  /\ call \in [ToolCalls -> {"none", "sleep", "status", "returned"}]
  /\ DOMAIN answer = ToolCalls

(* What is known of a task where its worker is: it has nothing before it     *)
(* begins, no verdict before it settles, and a terminal status afterwards;   *)
(* a background task is in the registry as long as it is at work.            *)
TaskInv(t) ==
  /\ kind[t] = "none" => pc[t] = "none" /\ status[t] = "none"
  /\ pc[t] = "none" => t \notin slots
  /\ pc[t] = "spawned" => kind[t] \in {"tool", "async"}
  /\ pc[t] \in {"none"} \union (Working \ {"settle"}) => verdict[t] = "none"
  /\ pc[t] = "settle" => verdict[t] \in Terminal
  /\ pc[t] \in {"prepare", "running", "release"} => t \in slots
  /\ t \in slots => pc[t] \in {"prepare", "running", "settle", "release"}
  /\ kind[t] \in {"tool", "async"} =>
       /\ pc[t] \in Working => t \in registry /\ status[t] \notin Terminal
       /\ pc[t] \in {"release", "ended"} => status[t] \in Terminal

CallInv(t) ==
  /\ kind[t] = "none" => call[t] = "none"
  /\ call[t] = "none" => answer[t] = "none"
  /\ call[t] \in {"sleep", "status"} => answer[t] = "none" /\ kind[t] = "tool" /\ pc[t] # "none"
  /\ answer[t] = "lost" => status[t] \in Terminal

SlotsInv == \A e \in Tasks \union {Shared} : Cardinality(Holders(e)) <= MaxConcurrent

Inv == Types /\ (\A t \in Tasks : TaskInv(t)) /\ (\A t \in ToolCalls : CallInv(t)) /\ SlotsInv

-----------------------------------------------------------------------------

(* The steps for one task: of its worker, its call, or somebody who cancels  *)
(* it or clears it away.                                                     *)
CallStep(t) ==
  t \in ToolCalls /\ (Refuse(t) \/ (\E cfg \in Configs : StartCall(t, cfg)) \/ CancelParent(t) \/ Poll(t))
TaskStep(t) ==
  \/ CallStep(t)
  \/ ExecuteAsync(t) \/ Execute(t) \/ RunPlain(t) \/ RequestCancel(t) \/ Cleanup(t)
  \/ ContextEnds(t) \/ Work(t) \/ Collect(t) \/ RunnerEnds(t)

LEMMA NextIsTaskStep == [Next]_vars /\ ConstantsAssumption => UNCHANGED vars \/ \E t \in Tasks : TaskStep(t)
BY DEF Next, TaskStep, CallStep, ConstantsAssumption

Same(u) ==
  /\ status'[u] = status[u] /\ messages'[u] = messages[u] /\ kind'[u] = kind[u] /\ pc'[u] = pc[u]
  /\ verdict'[u] = verdict[u] /\ (u \in registry' <=> u \in registry) /\ (u \in slots' <=> u \in slots)
  /\ u \in ToolCalls => call'[u] = call[u] /\ answer'[u] = answer[u]

LEMMA InitInv == Init => Inv
<1> SUFFICES ASSUME Init PROVE Inv
  OBVIOUS
<1> USE ConstantsAssumption DEF Init, ConstantsAssumption
<1>1. Types
  BY DEF Types, Statuses, Kinds, Places, Terminal, Working
<1>2. ASSUME NEW t \in Tasks PROVE TaskInv(t)
  BY DEF TaskInv, Working, Terminal
<1>3. ASSUME NEW t \in ToolCalls PROVE CallInv(t)
  BY DEF CallInv
<1>4. ASSUME NEW e \in Tasks \union {Shared} PROVE Cardinality(Holders(e)) <= MaxConcurrent
  <2>1. Holders(e) = {}
    BY DEF Holders
  <2> QED
    BY <2>1, FS_EmptySet
<1> QED
  BY <1>1, <1>2, <1>3, <1>4 DEF Inv, SlotsInv

-----------------------------------------------------------------------------

LEMMA TypesStep == Inv /\ [Next]_vars => Types'
<1> SUFFICES ASSUME Inv, [Next]_vars PROVE Types'
  OBVIOUS
<1>a. Types /\ ConstantsAssumption
  BY ConstantsAssumption DEF Inv
<1>1. CASE UNCHANGED vars
  BY <1>a, <1>1 DEF Types, vars, resultVars, workVars, callVars
<1>2. ASSUME NEW t \in Tasks, TaskStep(t) PROVE Types'
  <2> USE <1>a DEF Types, Statuses, Kinds, Places, Terminal, Working, resultVars, workVars, callVars,
          Goto, ConstantsAssumption
  <2>1. CASE CallStep(t)
    <3> USE DEF Return
    <3>1. CASE t \in ToolCalls /\ (Refuse(t) \/ CancelParent(t))
      BY <3>1 DEF Refuse, CancelParent
    <3>2. ASSUME t \in ToolCalls, NEW cfg \in Configs, StartCall(t, cfg) PROVE Types'
      BY <3>2 DEF StartCall, Register, Begin
    <3>3. CASE t \in ToolCalls /\ Leave(t)
      BY <3>3 DEF Leave
    <3>8. CASE t \in ToolCalls /\ GiveUp(t)
      BY <3>8 DEF GiveUp
    <3>4. CASE t \in ToolCalls /\ Disappeared(t)
      BY <3>4 DEF Disappeared
    <3>7. CASE t \in ToolCalls /\ PollAgain(t)
      BY <3>7 DEF PollAgain
    <3>6. CASE t \in ToolCalls /\ PollMessages(t)
      BY <3>6 DEF PollMessages
    <3>5. CASE t \in ToolCalls /\ Report(t)
      BY <3>5 DEF Report, Cleaned
    <3> QED
      BY <2>1, <3>1, <3>2, <3>3, <3>4, <3>5, <3>6, <3>7, <3>8 DEF CallStep, Poll
  <2>2. CASE ExecuteAsync(t) \/ Execute(t) \/ RunPlain(t)
    BY <2>2 DEF ExecuteAsync, Execute, RunPlain, Register, Begin
  <2>3. CASE RequestCancel(t) \/ Cleanup(t) \/ ContextEnds(t) \/ Collect(t)
    BY <2>3 DEF RequestCancel, Cleanup, Cleaned, ContextEnds, Collect
  <2>4. CASE SetRunning(t) \/ AcquireSlot(t) \/ WaitEnds(t) \/ Prepare(t)
    BY <2>4 DEF SetRunning, AcquireSlot, WaitEnds, Prepare, Decide
  <2>5. CASE Settle(t)
    BY <2>5 DEF Settle
  <2>6. CASE Release(t)
    BY <2>6 DEF Release
  <2>7. CASE RunnerEnds(t)
    BY <2>7 DEF RunnerEnds, RunnerReturns, Outcomes, Verdict, Decide
  <2> QED
    BY <1>2, <2>1, <2>2, <2>3, <2>4, <2>5, <2>6, <2>7 DEF TaskStep, Work
<1> QED
  BY <1>a, <1>1, <1>2, NextIsTaskStep

LEMMA OthersSame ==
  ASSUME Types, NEW t \in Tasks, TaskStep(t), NEW u \in Tasks, u # t
  PROVE  Same(u)
<1> USE DEF Same, Types, resultVars, workVars, callVars, Goto
<1>1. CASE CallStep(t)
  BY <1>1 DEF CallStep, Refuse, StartCall, Register, Begin, CancelParent, Poll, Leave, PollMessages,
     Disappeared, Report, PollAgain, GiveUp, Return, Cleaned
<1>2. CASE ExecuteAsync(t) \/ Execute(t) \/ RunPlain(t) \/ RequestCancel(t) \/ Cleanup(t)
  BY <1>2 DEF ExecuteAsync, Execute, RunPlain, Register, Begin, RequestCancel, Cleanup, Cleaned
<1>3. CASE ContextEnds(t) \/ Work(t)
  BY <1>3 DEF ContextEnds, Work, SetRunning, AcquireSlot, WaitEnds, Prepare, Settle, Release, Decide
<1>4. CASE Collect(t) \/ RunnerEnds(t)
  BY <1>4 DEF Collect, RunnerEnds, RunnerReturns, Decide
<1> QED
  BY <1>1, <1>2, <1>3, <1>4 DEF TaskStep

-----------------------------------------------------------------------------
(* The task itself.                                                          *)

LEMMA OwnStep ==
  ASSUME Inv, Types', NEW t \in Tasks, TaskStep(t)
  PROVE  TaskInv(t)'
<1>a. Types /\ TaskInv(t)
  BY DEF Inv
<1> USE <1>a DEF TaskInv, Types, Statuses, Kinds, Places, Terminal, Working, resultVars, workVars, callVars, Goto
<1>1. CASE CallStep(t)
  <2>1. CASE Refuse(t)
    BY <2>1 DEF Refuse
  <2>2. ASSUME NEW cfg \in Configs, StartCall(t, cfg) PROVE TaskInv(t)'
    BY <2>2 DEF StartCall, Register, Begin
  <2>3. CASE CancelParent(t) \/ Leave(t) \/ GiveUp(t)
    BY <2>3 DEF CancelParent, Leave, GiveUp
  <2>4. CASE PollMessages(t) \/ Disappeared(t) \/ PollAgain(t)
    BY <2>4 DEF PollMessages, Disappeared, PollAgain
  <2>5. CASE Report(t)
    BY <2>5 DEF Report, Cleaned
  <2> QED
    BY <1>1, <2>1, <2>2, <2>3, <2>4, <2>5 DEF CallStep, Poll
<1>2. CASE ExecuteAsync(t) \/ Execute(t) \/ RunPlain(t)
  BY <1>2 DEF ExecuteAsync, Execute, RunPlain, Register, Begin
<1>3. CASE RequestCancel(t) \/ Cleanup(t) \/ ContextEnds(t) \/ Collect(t)
  BY <1>3 DEF RequestCancel, Cleanup, Cleaned, ContextEnds, Collect
<1>4. CASE SetRunning(t) \/ AcquireSlot(t)
  BY <1>4 DEF SetRunning, AcquireSlot
<1>5. CASE WaitEnds(t) \/ Prepare(t)
  BY <1>5 DEF WaitEnds, Prepare, Decide
<1>6. CASE Settle(t)
  BY <1>6 DEF Settle
<1>7. CASE Release(t)
  BY <1>7 DEF Release
<1>8. CASE RunnerEnds(t)
  BY <1>8 DEF RunnerEnds, RunnerReturns, Outcomes, Verdict, Decide
<1> QED
  BY <1>1, <1>2, <1>3, <1>4, <1>5, <1>6, <1>7, <1>8 DEF TaskStep, Work

(* A terminal status stays, with the messages that were settled with it; and *)
(* a task that was told to cancel while it worked gets no other verdict.     *)
LEMMA StatusStays ==
  ASSUME Inv, NEW t \in Tasks, TaskStep(t)
  PROVE  /\ status[t] \in Terminal => status'[t] = status[t] /\ messages'[t] = messages[t]
         /\ t \in cancelled /\ pc[t] \in Working \ {"settle"} => verdict'[t] # "completed"
<1>a. Types /\ TaskInv(t)
  BY DEF Inv
<1> USE <1>a DEF TaskInv, Types, Statuses, Kinds, Places, Terminal, Working, resultVars, workVars, Goto
<1>1. CASE CallStep(t)
  BY <1>1 DEF CallStep, Refuse, StartCall, Register, Begin, CancelParent, Poll, Leave, PollMessages,
     Disappeared, Report, PollAgain, GiveUp
<1>2. CASE ExecuteAsync(t) \/ Execute(t) \/ RunPlain(t) \/ RequestCancel(t) \/ Cleanup(t)
  BY <1>2 DEF ExecuteAsync, Execute, RunPlain, Register, Begin, RequestCancel, Cleanup
<1>3. CASE ContextEnds(t) \/ Work(t)
  BY <1>3 DEF ContextEnds, Work, SetRunning, AcquireSlot, WaitEnds, Prepare, Settle, Release, Decide
<1>4. CASE Collect(t) \/ RunnerEnds(t)
  BY <1>4 DEF Collect, RunnerEnds, RunnerReturns, Outcomes, Verdict, Decide
<1> QED
  BY <1>1, <1>2, <1>3, <1>4 DEF TaskStep

LEMMA CallInvStep ==
  ASSUME Inv, Types', NEW t \in ToolCalls, TaskStep(t)
  PROVE  CallInv(t)'
<1>a. Types /\ TaskInv(t) /\ CallInv(t) /\ t \in Tasks
  BY ConstantsAssumption DEF Inv, ConstantsAssumption
<1>b. status[t] \in Terminal => status'[t] = status[t]
  BY <1>a, StatusStays
<1> USE <1>a DEF CallInv, Types, Places, Working, resultVars, workVars, callVars, Goto
<1>1. CASE CallStep(t)
  <2>1. CASE Refuse(t)
    BY <2>1 DEF Refuse
  <2>2. ASSUME NEW cfg \in Configs, StartCall(t, cfg) PROVE CallInv(t)'
    BY <2>2 DEF StartCall, Register, Begin, TaskInv
  <2>3. CASE CancelParent(t) \/ Leave(t) \/ GiveUp(t)
    BY <2>3 DEF CancelParent, Leave, GiveUp, Return
  <2>4. CASE PollMessages(t) \/ PollAgain(t)
    BY <2>4 DEF PollMessages, PollAgain
  <2>5. CASE Disappeared(t)
    <3>1. /\ call'[t] = "returned" /\ answer'[t] = "lost" /\ status'[t] = status[t]
          /\ kind'[t] = "tool" /\ call[t] = "sleep" /\ t \notin registry
      BY <2>5 DEF Disappeared, Return
    <3>2. status[t] \in Terminal
      BY <3>1 DEF TaskInv
    <3> QED
      BY <3>1, <3>2
  <2>6. CASE Report(t)
    BY <2>6 DEF Report, Return, Terminal
  <2> QED
    BY <1>1, <2>1, <2>2, <2>3, <2>4, <2>5, <2>6 DEF CallStep, Poll
<1>2. ASSUME UNCHANGED callVars, kind'[t] = kind[t], pc[t] # "none" => pc'[t] # "none" PROVE CallInv(t)'
  BY <1>b, <1>2
<1>3. CASE ExecuteAsync(t) \/ Execute(t) \/ RunPlain(t)
  BY <1>b, <1>3 DEF ExecuteAsync, Execute, RunPlain, Register, Begin, TaskInv
<1>4. CASE RequestCancel(t) \/ Cleanup(t) \/ ContextEnds(t) \/ Collect(t)
  BY <1>2, <1>4 DEF RequestCancel, Cleanup, ContextEnds, Collect
<1>5. CASE Work(t) \/ RunnerEnds(t)
  BY <1>2, <1>5 DEF Work, SetRunning, AcquireSlot, WaitEnds, Prepare, Settle, Release, RunnerEnds,
     RunnerReturns, Decide
<1> QED
  BY <1>1, <1>3, <1>4, <1>5 DEF TaskStep

LEMMA SlotsStep == Inv /\ Types' /\ [Next]_vars => SlotsInv'
<1> SUFFICES ASSUME Inv, Types', [Next]_vars, NEW e \in Tasks \union {Shared}
             PROVE  Cardinality(Holders(e)') <= MaxConcurrent
  BY DEF SlotsInv
<1>a. Types /\ SlotsInv /\ ConstantsAssumption
  BY ConstantsAssumption DEF Inv
<1>b. IsFiniteSet(Holders(e)) /\ Cardinality(Holders(e)) \in Nat /\ Cardinality(Holders(e)) <= MaxConcurrent
  <2>1. Holders(e) \subseteq Tasks /\ IsFiniteSet(Tasks)
    BY <1>a DEF Holders, Types, ConstantsAssumption
  <2> QED
    BY <1>a, <2>1, FS_Subset, FS_CardinalityType DEF SlotsInv
<1>1. ASSUME Holders(e)' \subseteq Holders(e) PROVE Cardinality(Holders(e)') <= MaxConcurrent
  <2>1. Cardinality(Holders(e)') <= Cardinality(Holders(e)) /\ Cardinality(Holders(e)') \in Nat
    BY <1>1, <1>b, FS_Subset, FS_CardinalityType
  <2> QED
    BY <1>a, <1>b, <2>1 DEF ConstantsAssumption
<1>2. CASE UNCHANGED vars
  BY <1>1, <1>2 DEF vars, workVars, Holders, Executor
<1>3. ASSUME NEW t \in Tasks, TaskStep(t) PROVE Cardinality(Holders(e)') <= MaxConcurrent
  <2>a. /\ \A u \in Tasks : u # t => kind'[u] = kind[u] /\ (u \in slots' <=> u \in slots)
    BY <1>3, <1>a, OthersSame DEF Same
  <2>b. TaskInv(t)
    BY DEF Inv
  <2>1. ASSUME t \in slots' => t \in slots /\ kind'[t] = kind[t]
        PROVE  Cardinality(Holders(e)') <= MaxConcurrent
    BY <1>a, <1>1, <2>a, <2>1 DEF Holders, Executor, Types
  <2>2. CASE CallStep(t) \/ ExecuteAsync(t) \/ Execute(t) \/ RunPlain(t)
    BY <1>a, <2>b, <2>1, <2>2 DEF CallStep, Refuse, StartCall, Register, Begin, CancelParent, Poll, Leave,
       PollMessages, Disappeared, Report, PollAgain, GiveUp, ExecuteAsync, Execute, RunPlain, workVars, TaskInv
  <2>3. CASE RequestCancel(t) \/ Cleanup(t) \/ ContextEnds(t) \/ Collect(t) \/ RunnerEnds(t)
    BY <2>1, <2>3 DEF RequestCancel, Cleanup, ContextEnds, Collect, RunnerEnds, RunnerReturns, workVars
  <2>4. CASE SetRunning(t) \/ WaitEnds(t) \/ Prepare(t) \/ Settle(t) \/ Release(t)
    BY <2>1, <2>4 DEF SetRunning, WaitEnds, Prepare, Settle, Release
  <2>5. CASE AcquireSlot(t)
    <3>1. /\ Cardinality(Holders(Executor(t))) < MaxConcurrent /\ slots' = slots \union {t} /\ kind' = kind
      BY <2>5 DEF AcquireSlot
    <3>2. CASE e = Executor(t)
      <4>1. Holders(e)' = Holders(e) \union {t}
        BY <3>1, <3>2 DEF Holders, Executor
      <4>2. Cardinality(Holders(e) \union {t}) \in {Cardinality(Holders(e)), Cardinality(Holders(e)) + 1}
        BY <1>b, FS_AddElement
      <4> QED
        BY <1>a, <1>b, <3>1, <3>2, <4>1, <4>2 DEF ConstantsAssumption
    <3>3. CASE e # Executor(t)
      <4>1. Holders(e)' = Holders(e)
        BY <3>1, <3>3 DEF Holders, Executor
      <4> QED
        BY <1>1, <4>1
    <3> QED
      BY <3>2, <3>3
  <2> QED
    BY <1>3, <2>2, <2>3, <2>4, <2>5 DEF TaskStep, Work
<1> QED
  BY <1>2, <1>3, <1>a, NextIsTaskStep

LEMMA NextInv == Inv /\ [Next]_vars => Inv'
<1> SUFFICES ASSUME Inv, [Next]_vars PROVE Inv'
  OBVIOUS
<1>1. Types' /\ SlotsInv'
  BY TypesStep, SlotsStep
<1>2. CASE UNCHANGED vars
  <2>1. \A t \in Tasks : TaskInv(t)'
    BY <1>2 DEF Inv, TaskInv, vars, resultVars, workVars
  <2>2. \A t \in ToolCalls : CallInv(t)'
    BY <1>2 DEF Inv, CallInv, vars, resultVars, workVars, callVars
  <2> QED
    BY <1>1, <2>1, <2>2 DEF Inv
<1>3. ASSUME NEW t \in Tasks, TaskStep(t) PROVE Inv'
  <2>a. Types /\ ToolCalls \subseteq Tasks
    BY ConstantsAssumption DEF Inv, ConstantsAssumption
  <2>1. ASSUME NEW u \in Tasks, u # t PROVE TaskInv(u)' /\ (u \in ToolCalls => CallInv(u)')
    <3>1. Same(u) /\ TaskInv(u) /\ (u \in ToolCalls => CallInv(u))
      BY <1>3, <2>a, <2>1, OthersSame DEF Inv
    <3>2. TaskInv(u)'
      BY <3>1 DEF Same, TaskInv
    <3>3. ASSUME u \in ToolCalls PROVE CallInv(u)'
      BY <3>1, <3>3 DEF Same, CallInv
    <3> QED
      BY <3>2, <3>3
  <2>2. TaskInv(t)'
    BY <1>1, <1>3, OwnStep
  <2>3. t \in ToolCalls => CallInv(t)'
    BY <1>1, <1>3, CallInvStep
  <2> QED
    BY <1>1, <2>a, <2>1, <2>2, <2>3 DEF Inv
<1> QED
  BY <1>2, <1>3, NextIsTaskStep, ConstantsAssumption

(* What is known of tasks, calls and slots holds always.                     *)
THEOREM Invariant == Spec => []Inv
BY InitInv, NextInv, PTL DEF Spec

-----------------------------------------------------------------------------
(* The data: what the lines above leave out of the types, and what a call    *)
(* has told the outside.                                                     *)

Reported == {"started", "running"} \union Terminal

CallData ==
  /\ messages \in [Tasks -> 0..MaxMessages] /\ collected \in [Tasks -> 0..MaxMessages]
  /\ expired \subseteq Tasks /\ left \subseteq ToolCalls
  /\ polls \in [ToolCalls -> 0..(MaxPolls + 1)] /\ seen \in [ToolCalls -> 0..MaxMessages]
  /\ events \in [ToolCalls -> Seq(Reported)]
  /\ answer \in [ToolCalls -> {"none", "refused", "left", "lost", "gave_up"} \union Terminal]

ToolData ==
  /\ array \in Seq(Names) /\ Len(array) = Len(Tools)
  /\ config \in [ToolCalls -> Configs \union {NoConfig}]
  /\ visible \in [ToolCalls -> 0..Len(Tools)]

Indices(s, names) == {i \in DOMAIN s : s[i] \in names}
Ends(s) == Indices(s, Terminal)
Runs(s) == Indices(s, {"running"})

(* The messages are there once the status is terminal; a call has reported   *)
(* none of them or all, and says of an end at its own end only.              *)
ReportInv(t) ==
  /\ call[t] = "none" => seen[t] = 0 /\ events[t] = <<>>
  /\ status[t] \notin Terminal => messages[t] = 0
  /\ seen[t] \in {0, messages[t]} /\ Cardinality(Runs(events[t])) = seen[t]
  /\ answer[t] \in {"none", "refused", "left"} => Ends(events[t]) = {}
  /\ answer[t] \in Terminal \union {"lost", "gave_up"} =>
       Len(events[t]) > 0 /\ Ends(events[t]) = {Len(events[t])}
  /\ answer[t] \in Terminal => status[t] = answer[t] /\ events[t][Len(events[t])] = answer[t]

FullInv == Inv /\ CallData /\ ToolData /\ \A t \in ToolCalls : ReportInv(t)

LEMMA EventAppended ==
  ASSUME NEW S, NEW s \in Seq(S), NEW e \in S
  PROVE  /\ Append(s, e) \in Seq(S) /\ Len(Append(s, e)) = Len(s) + 1 /\ Len(s) \in Nat
         /\ Append(s, e)[Len(s) + 1] = e
         /\ \A names : Indices(Append(s, e), names) =
                         Indices(s, names) \union (IF e \in names THEN {Len(s) + 1} ELSE {})
<1>1. /\ Append(s, e) \in Seq(S) /\ Len(Append(s, e)) = Len(s) + 1 /\ Len(s) \in Nat
      /\ \A i \in 1..Len(s) : Append(s, e)[i] = s[i]
      /\ Append(s, e)[Len(s) + 1] = e
  BY AppendProperties, LenProperties
<1>2. DOMAIN s = 1..Len(s) /\ DOMAIN Append(s, e) = 1..Len(s) \union {Len(s) + 1}
  BY <1>1, LenProperties
<1> QED
  BY <1>1, <1>2 DEF Indices

LEMMA RunsAppended ==
  ASSUME NEW s \in Seq(Reported), NEW n \in Nat
  PROVE  LET more == s \o [i \in 1..n |-> "running"] IN
         /\ more \in Seq(Reported)
         /\ Ends(more) = Ends(s)
         /\ Cardinality(Runs(more)) = Cardinality(Runs(s)) + n
<1> DEFINE tail == [i \in 1..n |-> "running"]
           more == s \o tail
           behind == (Len(s) + 1)..(Len(s) + n)
<1>1. tail \in Seq(Reported) /\ Len(tail) = n
  <2>1. tail \in [1..n -> Reported]
    BY DEF Reported
  <2>2. tail \in Seq(Reported)
    BY <2>1, SeqDef
  <2> QED
    BY <2>2, LenProperties
<1>2. \A i \in 1..n : tail[i] = "running"
  OBVIOUS
<1> HIDE DEF tail
<1>3. /\ more \in Seq(Reported) /\ Len(more) = Len(s) + n /\ Len(s) \in Nat
      /\ \A i \in 1..Len(more) : more[i] = IF i <= Len(s) THEN s[i] ELSE tail[i - Len(s)]
  BY <1>1, ConcatProperties, LenProperties
<1>4. DOMAIN s = 1..Len(s) /\ DOMAIN more = 1..Len(s) \union behind
  <2>1. DOMAIN s = 1..Len(s) /\ DOMAIN more = 1..(Len(s) + n)
    BY <1>3, LenProperties
  <2> QED
    BY <1>3, <2>1
<1>5. \A i \in 1..Len(s) : more[i] = s[i]
  BY <1>3
<1>6. \A i \in behind : more[i] = "running"
  BY <1>2, <1>3
<1> HIDE DEF more
<1>7. Ends(more) = Ends(s)
  BY <1>4, <1>5, <1>6 DEF Ends, Indices, Terminal
<1>8. Runs(more) = Runs(s) \union behind
  BY <1>4, <1>5, <1>6 DEF Runs, Indices
<1>9. IsFiniteSet(Runs(s)) /\ Cardinality(Runs(s)) \in Nat
  <2>1. Runs(s) \in SUBSET (1..Len(s)) /\ IsFiniteSet(1..Len(s))
    BY <1>3, <1>4, UpToIsFinite DEF Runs, Indices
  <2> QED
    BY <2>1, FS_Subset, FS_CardinalityType
<1>10. IsFiniteSet(behind) /\ Cardinality(behind) = n
  <2>1. Len(s) + 1 \in Int /\ Len(s) + n \in Int
    BY <1>3
  <2>2. /\ IsFiniteSet(behind)
        /\ Cardinality(behind) = IF Len(s) + 1 > Len(s) + n THEN 0 ELSE (Len(s) + n) - (Len(s) + 1) + 1
    BY <2>1, FS_Interval
  <2> QED
    BY <1>3, <2>2
<1>11. Runs(s) \cap behind = {}
  <2>1. \A i \in Runs(s) : i \in 1..Len(s)
    BY <1>4 DEF Runs, Indices
  <2> QED
    BY <1>3, <2>1
<1>12. Cardinality(Runs(s) \union behind) = Cardinality(Runs(s)) + n
  <2>1. Cardinality(Runs(s) \union behind) = Cardinality(Runs(s)) + Cardinality(behind) - Cardinality({})
    BY <1>9, <1>10, <1>11, FS_Union
  <2> QED
    BY <1>9, <1>10, <2>1, FS_EmptySet
<1> QED
  BY <1>3, <1>7, <1>8, <1>12 DEF more, tail

(* Moving the kept ones to the front keeps the length of the array.          *)
LEMMA FrontIsKept ==
  ASSUME NEW S, NEW s \in Seq(S), NEW kept \in Seq(S), Len(kept) <= Len(s)
  PROVE  ToFront(s, kept) \in Seq(S) /\ Len(ToFront(s, kept)) = Len(s)
<1> DEFINE rest == SubSeq(s, Len(kept) + 1, Len(s))
<1>1. Len(s) \in Nat /\ Len(kept) \in Nat
  BY LenProperties
<1>2. rest \in Seq(S) /\ Len(rest) = Len(s) - Len(kept)
  BY <1>1, SubSeqProperties
<1> QED
  BY <1>1, <1>2, ConcatProperties DEF ToFront

LEMMA FilterKeepsTheArray ==
  ASSUME ToolData, NEW cfg
  PROVE  /\ ToFront(ToFront(array, Allowed(array, cfg)), Kept(array, cfg)) \in Seq(Names)
         /\ Len(ToFront(ToFront(array, Allowed(array, cfg)), Kept(array, cfg))) = Len(Tools)
         /\ Len(Kept(array, cfg)) \in 0..Len(Tools)
<1> DEFINE a == Allowed(array, cfg)
           k == Kept(array, cfg)
<1>1. array \in Seq(Names) /\ Len(array) = Len(Tools) /\ Len(array) \in Nat
  BY LenProperties DEF ToolData
<1>2. a \in Seq(Names) /\ Len(a) <= Len(array) /\ Len(a) \in Nat
  <2>1. {i \in DOMAIN array : \A names \in cfg.allow : array[i] \in names} \in SUBSET (1..Len(array))
    BY <1>1, LenProperties
  <2> QED
    BY <1>1, <2>1, SelectionProperties, LenProperties DEF Allowed
<1>3. k \in Seq(Names) /\ Len(k) <= Len(a) /\ Len(k) \in Nat
  <2>1. {i \in DOMAIN a : a[i] \notin cfg.deny} \in SUBSET (1..Len(a))
    BY <1>2, LenProperties
  <2>2. k = Selection(a, {i \in DOMAIN a : a[i] \notin cfg.deny})
    BY DEF Kept
  <2> QED
    BY <1>2, <2>1, <2>2, SelectionProperties, LenProperties
<1> HIDE DEF a, k
<1>4. ToFront(array, a) \in Seq(Names) /\ Len(ToFront(array, a)) = Len(array)
  BY <1>1, <1>2, FrontIsKept
<1>5. ToFront(ToFront(array, a), k) \in Seq(Names) /\ Len(ToFront(ToFront(array, a), k)) = Len(array)
  BY <1>1, <1>2, <1>3, <1>4, FrontIsKept
<1> QED
  BY <1>1, <1>2, <1>3, <1>5 DEF a, k

LEMMA InitData == Init => CallData /\ ToolData /\ \A t \in ToolCalls : ReportInv(t)
<1> SUFFICES ASSUME Init PROVE CallData /\ ToolData /\ \A t \in ToolCalls : ReportInv(t)
  OBVIOUS
<1>a. ConstantsAssumption
  BY ConstantsAssumption
<1>1. CallData
  BY <1>a DEF Init, CallData, ConstantsAssumption
<1>2. ToolData
  <2>1. Len(Tools) \in Nat
    BY <1>a, LenProperties DEF ConstantsAssumption
  <2> QED
    BY <1>a, <2>1 DEF Init, ToolData, ConstantsAssumption
<1>3. ASSUME NEW t \in ToolCalls PROVE ReportInv(t)
  <2>1. Ends(<<>>) = {} /\ Runs(<<>>) = {} /\ Cardinality({}) = 0
    BY FS_EmptySet DEF Ends, Runs, Indices
  <2> QED
    BY <1>a, <2>1 DEF Init, ReportInv, ConstantsAssumption, Terminal
<1> QED
  BY <1>1, <1>2, <1>3

LEMMA ToolDataStep == ToolData /\ [Next]_vars => ToolData'
<1> SUFFICES ASSUME ToolData, [Next]_vars PROVE ToolData'
  OBVIOUS
<1>1. CASE UNCHANGED toolVars
  BY <1>1 DEF ToolData, toolVars
<1>2. ASSUME NEW t \in ToolCalls, NEW cfg \in Configs, StartCall(t, cfg) PROVE ToolData'
  <2>1. FilterInPlace(t, cfg)
    BY <1>2 DEF StartCall
  <2>2. array' \in Seq(Names) /\ Len(array') = Len(Tools)
    BY <2>1, FilterKeepsTheArray DEF FilterInPlace
  <2>3. visible' \in [ToolCalls -> 0..Len(Tools)]
    <3>1. visible' = [visible EXCEPT ![t] = Len(Kept(array, cfg))]
      BY <2>1 DEF FilterInPlace
    <3> QED
      BY <3>1, FilterKeepsTheArray DEF ToolData
  <2>4. config' \in [ToolCalls -> Configs \union {NoConfig}]
    BY <2>1 DEF FilterInPlace, ToolData
  <2> QED
    BY <2>2, <2>3, <2>4 DEF ToolData
<1>3. ASSUME NEW t \in Tasks, TaskStep(t) PROVE ToolData'
  BY <1>1, <1>2, <1>3 DEF TaskStep, CallStep, Refuse, CancelParent, Poll, Leave, PollMessages,
     Disappeared, Report, PollAgain, GiveUp, ExecuteAsync, Execute, RunPlain, RequestCancel, Cleanup,
     ContextEnds, Work, SetRunning, AcquireSlot, WaitEnds, Prepare, Settle, Release, Collect, RunnerEnds,
     RunnerReturns
<1> QED
  BY <1>1, <1>3, NextIsTaskStep, ConstantsAssumption DEF vars

LEMMA CallDataStep == FullInv /\ [Next]_vars => CallData'
<1> SUFFICES ASSUME FullInv, [Next]_vars PROVE CallData'
  OBVIOUS
<1>a. /\ Types /\ CallData /\ ConstantsAssumption
      /\ \A t \in ToolCalls : t \in Tasks /\ ReportInv(t)
  BY ConstantsAssumption DEF FullInv, Inv, ConstantsAssumption
<1> USE <1>a
<1>1. CASE UNCHANGED <<messages, collected, expired, callVars>>
  BY <1>1 DEF CallData, callVars
<1>2. ASSUME NEW t \in Tasks, TaskStep(t) PROVE CallData'
  <2>1. CASE ExecuteAsync(t) \/ Execute(t) \/ RunPlain(t) \/ RequestCancel(t) \/ Cleanup(t)
    BY <1>1, <2>1 DEF ExecuteAsync, Execute, RunPlain, RequestCancel, Cleanup, Register, resultVars, workVars
  <2>2. CASE ContextEnds(t)
    BY <2>2 DEF ContextEnds, CallData, resultVars, callVars
  <2>3. CASE SetRunning(t) \/ AcquireSlot(t) \/ WaitEnds(t) \/ Prepare(t) \/ Release(t) \/ RunnerEnds(t)
    BY <1>1, <2>3 DEF SetRunning, AcquireSlot, WaitEnds, Prepare, Release, RunnerEnds, RunnerReturns, resultVars
  <2>4. CASE Settle(t)
    <3>1. messages' \in [Tasks -> 0..MaxMessages]
      BY <2>4 DEF Settle, CallData
    <3> QED
      BY <2>4, <3>1 DEF Settle, CallData, callVars
  <2>5. CASE Collect(t)
    <3>1. collected' \in [Tasks -> 0..MaxMessages]
      BY <1>a, <2>5 DEF Collect, CallData, ConstantsAssumption
    <3> QED
      BY <2>5, <3>1 DEF Collect, CallData, resultVars, callVars
  <2>6. ASSUME t \in ToolCalls, Refuse(t) PROVE CallData'
    BY <2>6 DEF Refuse, CallData, resultVars
  <2>7. ASSUME t \in ToolCalls, NEW cfg \in Configs, StartCall(t, cfg) PROVE CallData'
    <3>1. <<"started">> \in Seq(Reported)
      BY DEF Reported
    <3> QED
      BY <2>7, <3>1 DEF StartCall, Register, CallData
  <2>8. ASSUME t \in ToolCalls, CancelParent(t) \/ Leave(t) PROVE CallData'
    BY <2>8 DEF CancelParent, Leave, Return, CallData, resultVars, workVars
  <2>9. ASSUME t \in ToolCalls, PollMessages(t) PROVE CallData'
    <3>1. messages[t] - seen[t] \in Nat
      <4>1. messages[t] \in Nat /\ seen[t] \in {0, messages[t]}
        BY <1>a, <2>9 DEF CallData, ReportInv
      <4> QED
        BY <4>1
    <3>2. events' \in [ToolCalls -> Seq(Reported)]
      BY <2>9, <3>1, RunsAppended DEF PollMessages, CallData
    <3>3. seen' \in [ToolCalls -> 0..MaxMessages]
      BY <1>a, <2>9 DEF PollMessages, CallData
    <3> QED
      BY <2>9, <3>2, <3>3 DEF PollMessages, CallData, resultVars, workVars
  <2>10. ASSUME t \in ToolCalls, Disappeared(t) PROVE CallData'
    <3>1. events' \in [ToolCalls -> Seq(Reported)]
      BY <2>10 DEF Disappeared, CallData, Reported, Terminal
    <3> QED
      BY <2>10, <3>1 DEF Disappeared, Return, CallData, resultVars, workVars
  <2>11. ASSUME t \in ToolCalls, Report(t) PROVE CallData'
    <3>1. events' \in [ToolCalls -> Seq(Reported)]
      BY <2>11, SMTT(20) DEF Report, CallData, Reported
    <3> QED
      BY <2>11, <3>1 DEF Report, Return, CallData, workVars
  <2>12. ASSUME t \in ToolCalls, PollAgain(t) PROVE CallData'
    <3>1. polls' \in [ToolCalls -> 0..(MaxPolls + 1)]
      BY <1>a, <2>12 DEF PollAgain, CallData, ConstantsAssumption
    <3> QED
      BY <2>12, <3>1 DEF PollAgain, CallData, resultVars, workVars
  <2>13. ASSUME t \in ToolCalls, GiveUp(t) PROVE CallData'
    <3>1. events' \in [ToolCalls -> Seq(Reported)]
      BY <2>13 DEF GiveUp, CallData, Reported, Terminal
    <3> QED
      BY <2>13, <3>1 DEF GiveUp, Return, CallData, workVars
  <2> QED
    BY <1>2, <2>1, <2>2, <2>3, <2>4, <2>5, <2>6, <2>7, <2>8, <2>9, <2>10, <2>11, <2>12, <2>13
       DEF TaskStep, CallStep, Poll, Work
<1> QED
  BY <1>1, <1>2, NextIsTaskStep, ConstantsAssumption DEF vars, resultVars, workVars

(* A step for one task leaves the calls of the others alone.                 *)
LEMMA OthersUntold ==
  ASSUME CallData, NEW t \in Tasks, TaskStep(t), NEW u \in ToolCalls, u # t
  PROVE  events'[u] = events[u] /\ seen'[u] = seen[u]
<1> USE DEF CallData, callVars
<1>1. CASE CallStep(t)
  BY <1>1 DEF CallStep, Refuse, StartCall, CancelParent, Poll, Leave, PollMessages,
     Disappeared, Report, PollAgain, GiveUp
<1>2. CASE ~CallStep(t)
  BY <1>2 DEF TaskStep, ExecuteAsync, Execute, RunPlain, RequestCancel, Cleanup, ContextEnds, Work, SetRunning,
     AcquireSlot, WaitEnds, Prepare, Settle, Release, Collect, RunnerEnds, RunnerReturns
<1> QED
  BY <1>1, <1>2

(* The end of a call: what it answers, and the event for it.                 *)
LEMMA EndIsTold ==
  ASSUME NEW s \in Seq(Reported), NEW e \in Terminal, Ends(s) = {}
  PROVE  /\ Ends(Append(s, e)) = {Len(Append(s, e))} /\ Len(Append(s, e)) > 0
         /\ Runs(Append(s, e)) = Runs(s)
         /\ Append(s, e)[Len(Append(s, e))] = e
<1>1. e \in Reported /\ e # "running"
  BY DEF Reported, Terminal
<1>2. /\ Indices(Append(s, e), Terminal) = Indices(s, Terminal) \union {Len(s) + 1}
      /\ Indices(Append(s, e), {"running"}) = Indices(s, {"running"}) \union {}
      /\ Len(Append(s, e)) = Len(s) + 1 /\ Len(s) \in Nat /\ Append(s, e)[Len(s) + 1] = e
  <2>1. e \in Terminal /\ e \notin {"running"}
    BY <1>1
  <2> QED
    BY <1>1, <2>1, EventAppended
<1>3. Len(s) + 1 > 0
  BY <1>2
<1> QED
  BY <1>2, <1>3 DEF Ends, Runs

LEMMA ReportStep ==
  ASSUME FullInv, Types', CallData', NEW t \in ToolCalls, TaskStep(t)
  PROVE  ReportInv(t)'
<1>a. /\ Types /\ CallData /\ TaskInv(t) /\ CallInv(t) /\ ReportInv(t) /\ t \in Tasks /\ Inv
      /\ messages[t] \in Nat /\ seen[t] \in Nat /\ events[t] \in Seq(Reported) /\ ConstantsAssumption
  BY ConstantsAssumption, SMTT(20) DEF FullInv, Inv, CallData, ConstantsAssumption
<1>b. status[t] \in Terminal => status'[t] = status[t] /\ messages'[t] = messages[t]
  BY <1>a, StatusStays
<1>1. ASSUME UNCHANGED callVars, status'[t] \notin Terminal => messages'[t] = 0 PROVE ReportInv(t)'
  <2>1. /\ call' = call /\ seen' = seen /\ events' = events /\ answer' = answer
    BY <1>1 DEF callVars
  <2>2. seen[t] \in {0, messages'[t]}
    BY <1>a, <1>b DEF ReportInv
  <2> QED
    BY <1>a, <1>b, <1>1, <2>1, <2>2 DEF ReportInv
<1>2. ASSUME status'[t] = status[t], messages'[t] = messages[t], seen'[t] = seen[t], events'[t] = events[t],
             call'[t] # "none", answer'[t] \in {"none", "refused", "left"}, answer[t] = "none"
      PROVE  ReportInv(t)'
  BY <1>a, <1>2 DEF ReportInv, Terminal
<1>3. ASSUME NEW e \in Terminal, status'[t] = status[t], messages'[t] = messages[t], seen'[t] = seen[t],
             events'[t] = Append(events[t], e), answer[t] = "none", call'[t] = "returned",
             answer'[t] \notin {"lost", "gave_up"} => answer'[t] = e /\ status[t] = e
      PROVE  ReportInv(t)'
  <2>1. Ends(events[t]) = {}
    BY <1>a, <1>3 DEF ReportInv
  <2>2. /\ Ends(events'[t]) = {Len(events'[t])} /\ Len(events'[t]) > 0
        /\ Runs(events'[t]) = Runs(events[t]) /\ events'[t][Len(events'[t])] = e
    BY <1>a, <1>3, <2>1, EndIsTold
  <2> QED
    BY <1>a, <1>3, <2>2 DEF ReportInv, Terminal
<1>4. CASE CallStep(t)
  <2>1. CASE Refuse(t)
    <3>1. /\ status' = status /\ messages' = messages /\ seen' = seen /\ events' = events
          /\ call'[t] = "returned" /\ answer'[t] = "refused" /\ kind[t] = "none"
      BY <1>a, <2>1 DEF Refuse, resultVars, Types
    <3>2. answer[t] = "none"
      BY <1>a, <3>1 DEF CallInv
    <3> QED
      BY <1>2, <3>1, <3>2
  <2>2. ASSUME NEW cfg \in Configs, StartCall(t, cfg) PROVE ReportInv(t)'
    <3>1. /\ kind[t] = "none" /\ status'[t] = "pending" /\ messages' = messages /\ seen' = seen
          /\ events'[t] = <<"started">> /\ answer' = answer /\ call'[t] = "sleep"
      BY <1>a, <2>2 DEF StartCall, Register, Begin, Types, CallData
    <3>2. call[t] = "none" /\ answer[t] = "none" /\ status[t] = "none"
      BY <1>a, <3>1 DEF CallInv, TaskInv
    <3>3. seen[t] = 0 /\ messages[t] = 0
      BY <1>a, <3>2 DEF ReportInv, Terminal
    <3>4. /\ Ends(<<"started">>) = {} /\ Runs(<<"started">>) = {} /\ Cardinality({}) = 0
      BY FS_EmptySet DEF Ends, Runs, Indices, Terminal
    <3> QED
      BY <3>1, <3>2, <3>3, <3>4 DEF ReportInv, Terminal
  <2>3. CASE CancelParent(t)
    <3>1. /\ status' = status /\ messages' = messages /\ seen' = seen /\ events' = events /\ call' = call
          /\ answer' = answer /\ call[t] = "sleep"
      BY <2>3 DEF CancelParent, resultVars
    <3> QED
      BY <1>2, <1>a, <3>1 DEF CallInv
  <2>4. CASE Leave(t)
    <3>1. /\ status' = status /\ messages' = messages /\ seen' = seen /\ events' = events
          /\ call'[t] = "returned" /\ answer'[t] = "left" /\ call[t] = "sleep"
      BY <1>a, <2>4 DEF Leave, Return, Types
    <3> QED
      BY <1>2, <1>a, <3>1 DEF CallInv
  <2>5. CASE PollAgain(t)
    <3>1. /\ status' = status /\ messages' = messages /\ seen' = seen /\ events' = events
          /\ call'[t] = "sleep" /\ answer' = answer /\ call[t] = "status"
      BY <1>a, <2>5 DEF PollAgain, Types, resultVars
    <3> QED
      BY <1>2, <1>a, <3>1 DEF CallInv
  <2>6. CASE PollMessages(t)
    <3>1. /\ status' = status /\ messages' = messages /\ seen'[t] = messages[t]
          /\ events'[t] = events[t] \o [i \in 1..(messages[t] - seen[t]) |-> "running"]
          /\ call'[t] = "status" /\ answer' = answer /\ call[t] = "sleep"
      BY <1>a, <2>6 DEF PollMessages, Types, CallData, resultVars
    <3>2. messages[t] - seen[t] \in Nat
      BY <1>a DEF ReportInv
    <3>3. /\ Ends(events'[t]) = Ends(events[t])
          /\ Cardinality(Runs(events'[t])) = Cardinality(Runs(events[t])) + (messages[t] - seen[t])
      BY <1>a, <3>1, <3>2, RunsAppended
    <3>4. Cardinality(Runs(events'[t])) = messages[t]
      BY <1>a, <3>3 DEF ReportInv
    <3>5. answer[t] = "none"
      BY <1>a, <3>1 DEF CallInv
    <3> QED
      BY <1>a, <3>1, <3>3, <3>4, <3>5 DEF ReportInv, Terminal
  <2>7. CASE Disappeared(t)
    <3>1. /\ status' = status /\ messages' = messages /\ seen' = seen
          /\ events'[t] = Append(events[t], "failed")
          /\ call'[t] = "returned" /\ answer'[t] \in {"lost", "gave_up"} /\ call[t] = "sleep"
      BY <1>a, <2>7 DEF Disappeared, Return, Types, CallData, resultVars
    <3>2. answer[t] = "none"
      BY <1>a, <3>1 DEF CallInv
    <3>3. PICK e \in Terminal : events'[t] = Append(events[t], e)
      BY <3>1 DEF Terminal
    <3>4. /\ status'[t] = status[t] /\ messages'[t] = messages[t] /\ seen'[t] = seen[t]
          /\ answer'[t] \in {"lost", "gave_up"} /\ call'[t] = "returned"
      BY <3>1
    <3> QED
      BY ONLY <1>3, <3>2, <3>3, <3>4
  <2>8. CASE Report(t)
    <3>1. /\ status' = status /\ messages' = messages /\ seen' = seen /\ status[t] \in Terminal
          /\ events'[t] = Append(events[t], status[t])
          /\ call'[t] = "returned" /\ answer'[t] = status[t] /\ call[t] = "status"
      BY <1>a, <2>8 DEF Report, Return, Types, CallData
    <3> QED
      BY <1>3, <1>a, <3>1 DEF CallInv
  <2>9. CASE GiveUp(t)
    <3>1. /\ status' = status /\ messages' = messages /\ seen' = seen
          /\ events'[t] = Append(events[t], "timed_out")
          /\ call'[t] = "returned" /\ answer'[t] \in {"lost", "gave_up"} /\ call[t] = "status"
      BY <1>a, <2>9 DEF GiveUp, Return, Types, CallData
    <3>2. answer[t] = "none"
      BY <1>a, <3>1 DEF CallInv
    <3>3. PICK e \in Terminal : events'[t] = Append(events[t], e)
      BY <3>1 DEF Terminal
    <3>4. /\ status'[t] = status[t] /\ messages'[t] = messages[t] /\ seen'[t] = seen[t]
          /\ answer'[t] \in {"lost", "gave_up"} /\ call'[t] = "returned"
      BY <3>1
    <3> QED
      BY ONLY <1>3, <3>2, <3>3, <3>4
  <2> QED
    BY <1>4, <2>1, <2>2, <2>3, <2>4, <2>5, <2>6, <2>7, <2>8, <2>9 DEF CallStep, Poll
<1>5. CASE ExecuteAsync(t) \/ Execute(t) \/ RunPlain(t)
  <2>1. kind[t] = "none" /\ UNCHANGED callVars /\ messages' = messages
    BY <1>5 DEF ExecuteAsync, Execute, RunPlain, Register, Begin, resultVars
  <2>2. status[t] = "none"
    BY <1>a, <2>1 DEF TaskInv
  <2> QED
    BY <1>1, <1>a, <2>1, <2>2 DEF ReportInv, Terminal
<1>6. CASE Settle(t)
  <2>1. UNCHANGED callVars
    BY <1>6 DEF Settle
  <2>2. pc[t] = "settle" => verdict[t] \in Terminal
    BY <1>a DEF TaskInv
  <2>3. status'[t] \in Terminal
    BY <1>a, <1>6, <2>2 DEF Settle, Types
  <2> QED
    BY <1>1, <2>1, <2>3
<1>7. ASSUME UNCHANGED callVars, status'[t] \in {status[t], "running"}, messages' = messages,
             status[t] \in Terminal => status'[t] = status[t]
      PROVE  ReportInv(t)'
  <2>1. status'[t] \notin Terminal => messages'[t] = 0
    BY <1>a, <1>7 DEF ReportInv
  <2> QED
    BY <1>1, <1>7, <2>1
<1>8. CASE RequestCancel(t) \/ Cleanup(t) \/ ContextEnds(t) \/ Collect(t) \/ RunnerEnds(t)
  BY <1>7, <1>8 DEF RequestCancel, Cleanup, ContextEnds, Collect, RunnerEnds, RunnerReturns, resultVars
<1>9. CASE SetRunning(t) \/ AcquireSlot(t) \/ WaitEnds(t) \/ Prepare(t) \/ Release(t)
  BY <1>7, <1>9, <1>b, <1>a DEF SetRunning, AcquireSlot, WaitEnds, Prepare, Release, resultVars, Types
<1> QED
  BY <1>4, <1>5, <1>6, <1>8, <1>9 DEF TaskStep, Work

LEMMA NextFullInv == FullInv /\ [Next]_vars => FullInv'
<1> SUFFICES ASSUME FullInv, [Next]_vars PROVE FullInv'
  OBVIOUS
<1>1. Inv' /\ CallData' /\ ToolData'
  BY NextInv, CallDataStep, ToolDataStep DEF FullInv
<1>2. CASE UNCHANGED vars
  BY <1>1, <1>2 DEF FullInv, ReportInv, vars, resultVars, workVars, callVars
<1>3. ASSUME NEW t \in Tasks, TaskStep(t) PROVE FullInv'
  <2>a. Types /\ CallData /\ ToolCalls \subseteq Tasks
    BY ConstantsAssumption DEF FullInv, Inv, ConstantsAssumption
  <2>1. ASSUME NEW u \in ToolCalls, u # t PROVE ReportInv(u)'
    <3>1. Same(u)
      BY <1>3, <2>a, <2>1, OthersSame
    <3>2. events'[u] = events[u] /\ seen'[u] = seen[u]
      BY <1>3, <2>a, <2>1, OthersUntold
    <3> QED
      BY <3>1, <3>2 DEF FullInv, ReportInv, Same
  <2>2. t \in ToolCalls => ReportInv(t)'
    BY <1>1, <1>3, ReportStep DEF Inv
  <2> QED
    BY <1>1, <2>1, <2>2 DEF FullInv
<1> QED
  BY <1>2, <1>3, NextIsTaskStep, ConstantsAssumption

LEMMA FullInvariant == Spec => []FullInv
<1>1. Init => FullInv
  BY InitInv, InitData DEF FullInv
<1> QED
  BY <1>1, NextFullInv, PTL DEF Spec

-----------------------------------------------------------------------------

(* No executor runs more tasks than it has slots, and a slot is held exactly *)
(* from when a task prepares until it has settled (subagent.go 665-735).     *)
THEOREM SlotsAreRespected == Spec => []SlotsRespected
<1>1. Inv => SlotsRespected
  BY DEF Inv, SlotsInv, SlotsRespected, TaskInv, Executor
<1> QED
  BY <1>1, Invariant, PTL

(* A background task that is at work can be found and cancelled, and one     *)
(* that a poll does not find has ended (subagent.go 224-262, 924-1012).      *)
THEOREM WorkersAreFindable == Spec => []WorkingIsFindable
<1>1. Inv => WorkingIsFindable
  BY DEF Inv, TaskInv, CallInv, WorkingIsFindable
<1> QED
  BY <1>1, Invariant, PTL

(* The first terminal status of a task is final, and a cancel that comes     *)
(* before the runner returns is never answered with a success (subagent.go   *)
(* 120-150, 738-787).                                                        *)
THEOREM CancelsAreHonoured == Spec => CancelIsHonoured
<1> DEFINE Honoured ==
      \A t \in Tasks :
        /\ status[t] \in Terminal => status'[t] = status[t] /\ messages'[t] = messages[t]
        /\ t \in cancelled /\ pc[t] \in Working \ {"settle"} => verdict'[t] # "completed"
<1>1. Inv /\ [Next]_vars => [Honoured]_vars
  <2> SUFFICES ASSUME Inv, [Next]_vars, ~UNCHANGED vars PROVE Honoured
    OBVIOUS
  <2>1. PICK t \in Tasks : TaskStep(t)
    BY NextIsTaskStep, ConstantsAssumption
  <2>2. ASSUME NEW u \in Tasks, u # t
        PROVE  /\ status'[u] = status[u] /\ messages'[u] = messages[u]
               /\ pc[u] \in Working \ {"settle"} => verdict'[u] # "completed"
    <3>1. Same(u) /\ TaskInv(u)
      BY <2>1, <2>2, OthersSame DEF Inv
    <3> QED
      BY <3>1 DEF Same, TaskInv
  <2> QED
    BY <2>1, <2>2, StatusStays
<1> QED
  BY <1>1, Invariant, PTL DEF Spec, CancelIsHonoured

(* The types, the slots and the registry: whatever ends a task and whenever, *)
(* its slot and its entry go when it has ended, not before and not without   *)
(* it (subagent.go 224-262, 665-735).                                        *)
THEOREM TasksKeepWhatTheyHold == Spec => []TasksAreHeld
<1>1. FullInv => TypeOK
  BY DEF FullInv, Inv, Types, CallData, ToolData, TypeOK, Statuses, Places, Kinds, Reported
<1> QED
  BY <1>1, FullInvariant, SlotsAreRespected, WorkersAreFindable, PTL DEF TasksAreHeld

(* What a call of the task tool tells the outside agrees with its task, for  *)
(* any number of messages and polls (subagent.go 924-1012).                  *)
THEOREM ReportsAgreeWithTasks == Spec => []ReportsAgree
<1>1. FullInv => ReportsAgree
  <2> SUFFICES ASSUME FullInv, NEW t \in ToolCalls
               PROVE  /\ Ends(events[t]) \subseteq {Len(events[t])}
                      /\ (Ends(events[t]) # {}) <=> (answer[t] \in Terminal \union {"lost", "gave_up"})
                      /\ answer[t] \in Terminal =>
                           /\ status[t] = answer[t] /\ events[t][Len(events[t])] = answer[t]
                           /\ Cardinality(Runs(events[t])) \in {0, messages[t]}
    BY DEF ReportsAgree, Ends, Runs, Indices
  <2>1. ReportInv(t) /\ answer[t] \in {"none", "refused", "left", "lost", "gave_up"} \union Terminal
    BY DEF FullInv, CallData
  <2> QED
    BY <2>1 DEF ReportInv, Terminal
<1> QED
  BY <1>1, FullInvariant, PTL
=============================================================================
