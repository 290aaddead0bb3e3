---------------------------- MODULE LoopDetector ----------------------------
(***************************************************************************)
(* LoopDetector (harness/loopdetect.go): after each answer of the model    *)
(* its tool calls are compared with those the thread made before.  The     *)
(* same set of calls Warn times in the window, or one tool used FreqWarn   *)
(* times, queues a warning for the run; HardLimit and FreqHard times stop  *)
(* it.  Threads are forgotten, longest unused first, and so are the queues *)
(* of warnings.  Every operation is one critical section of d.mu.          *)
(*                                                                         *)
(* A call is [name, args]; args is a function on the names of the          *)
(* arguments given, or on {"raw"} if they are not a JSON object.  The text *)
(* of a warning is "same" or the tool's name.                              *)
(***************************************************************************)
EXTENDS Naturals, Sequences, FiniteSets, Selection

CONSTANTS
  Threads, Runs,
  CallSets,                \* what a model may ask for: sequences of calls
  Warn, HardLimit, WindowSize,
  FreqWarn, FreqHard,      \* by tool: effectiveFreq
  MaxTrackedThreads,
  MaxPerRun                \* maxPendingWarningsPerRun

VARIABLES
  history, order,          \* tracked threads only
  warned, toolFreq, toolFreqWarned,
  pending, pendingOrder,   \* by <<thread, run>>
  streak,                  \* history: how often in a row a thread made its last calls
  stopped                  \* history: the threads stopped by their last calls

threadVars  == <<history, order, warned, toolFreq, toolFreqWarned>>
pendingVars == <<pending, pendingOrder>>
vars == <<threadVars, pendingVars, streak, stopped>>

Range(s)       == {s[i] : i \in DOMAIN s}
Count(s, x)    == Cardinality({i \in DOMAIN s : s[i] = x})
Names          == {c.name : c \in UNION {Range(s) : s \in CallSets}}
MaxPendingKeys == 2 * MaxTrackedThreads
Last(n, s)     == SubSeq(s, IF Len(s) > n THEN Len(s) - n + 1 ELSE 1, Len(s))
Without(s, X)  == Selection(s, {i \in DOMAIN s : s[i] \notin X})
Only(f, S)     == [x \in DOMAIN f \intersect S |-> f[x]]

ConstantsAssumption ==
  /\ {Warn, HardLimit, WindowSize, MaxTrackedThreads, MaxPerRun} \subseteq Nat \ {0}
  /\ Warn < HardLimit /\ HardLimit <= WindowSize
  /\ \A n \in Names : {FreqWarn[n], FreqHard[n]} \subseteq Nat \ {0} /\ FreqWarn[n] < FreqHard[n]
  /\ \A s \in CallSets : s # <<>> /\ s \in Seq(Range(s))

-----------------------------------------------------------------------------
(* Which calls are the same.                                                 *)

Salient == {"path", "url", "query", "command", "pattern", "glob", "cmd"}
Bucket(line) == (line - 1) \div 200

Given(a, field, default) == IF field \in DOMAIN a THEN a[field] ELSE default

(* The lines asked for, in either order, in steps of 200.                     *)
Buckets(a) ==
  LET first == Given(a, "start_line", 1) IN {Bucket(first), Bucket(Given(a, "end_line", first))}

Key(c) ==
  CASE c.name = "read_file" /\ "raw" \notin DOMAIN c.args -> [path |-> Given(c.args, "path", ""), at |-> Buckets(c.args)]
    [] c.name \in {"write_file", "str_replace"} \/ DOMAIN c.args \intersect Salient = {} -> c.args
    [] OTHER -> Only(c.args, Salient)

(* Which of them come first does not matter.                                 *)
Hash(calls) ==
  LET keys == [i \in DOMAIN calls |-> <<calls[i].name, Key(calls[i])>>]
  IN [k \in Range(keys) |-> Count(keys, k)]

HashOf == [s \in CallSets |-> Hash(s)]
Hashes == Range(HashOf)

-----------------------------------------------------------------------------

TypeOK ==
  /\ DOMAIN history \subseteq Threads
  /\ \A t \in DOMAIN history : Len(history[t]) \in 1..WindowSize /\ Range(history[t]) \subseteq Hashes
  /\ warned \in [Threads -> SUBSET Hashes]
  /\ \A t \in Threads, n \in Names : toolFreq[t][n] \in 0..FreqHard[n]
  /\ toolFreqWarned \in [Threads -> SUBSET Names]
  /\ DOMAIN pending \subseteq Threads \X Runs
  /\ \A k \in DOMAIN pending : Len(pending[k]) \in 1..MaxPerRun /\ Range(pending[k]) \subseteq Names \union {"same"}
  /\ streak \in [Threads -> 0..HardLimit] /\ stopped \subseteq Threads

Nothing == [n \in Names |-> 0]

Init ==
  /\ history = <<>> /\ order = <<>>
  /\ warned = [t \in Threads |-> {}]
  /\ toolFreq = [t \in Threads |-> Nothing] /\ toolFreqWarned = [t \in Threads |-> {}]
  /\ pending = <<>> /\ pendingOrder = <<>>
  /\ streak = [t \in Threads |-> 0] /\ stopped = {}

-----------------------------------------------------------------------------
(* Pending warnings.                                                         *)

DropPending(K) ==
  /\ pending' = [k \in DOMAIN pending \ K |-> pending[k]]
  /\ pendingOrder' = Without(pendingOrder, K)

(* prunePendingLocked: the oldest go; the key in use is the last.            *)
Prune(s) == Last(MaxPendingKeys, s)

Capped(s) == Last(MaxPerRun, s)

(* queueWarningLocked, after the pending keys of K were dropped.             *)
Queue(key, warning, K) ==
  LET old  == IF key \in DOMAIN pending THEN pending[key] ELSE <<>>
      kept == Prune(Append(Without(pendingOrder, K \union {key}), key))
  IN /\ pendingOrder' = kept
     /\ pending' = [k \in Range(kept) |->
                      IF k # key THEN pending[k]
                      ELSE Capped(IF warning \in Range(old) THEN old ELSE Append(old, warning))]

DrainPendingWarnings(t, r) ==
  /\ DropPending({<<t, r>>})
  /\ UNCHANGED <<threadVars, streak, stopped>>

(* What other runs of the thread have left.                                  *)
BeforeAgent(t, r) ==
  /\ DropPending({k \in DOMAIN pending : k[1] = t /\ k[2] # r})
  /\ UNCHANGED <<threadVars, streak, stopped>>

AfterAgent(t, r) ==
  /\ DropPending({<<t, r>>})
  /\ UNCHANGED <<threadVars, streak, stopped>>

-----------------------------------------------------------------------------
(* TrackAndCheck.                                                            *)

Slide(s) == Last(WindowSize, s)

(* evictIfNeededLocked: the threads one new thread pushes out.               *)
Evicted(t) ==
  IF t \notin DOMAIN history /\ Len(order) = MaxTrackedThreads THEN {Head(order)} ELSE {}

(* Faulty: the marks of hashes that left the window stay. *)
StillWarnedForever(t, hist) == warned[t]

StillWarned(t, hist) == warned[t] \intersect Range(hist)

(* How often the tool of call i was used, up to this call.                   *)
Used(t, calls, i) ==
  toolFreq[t][calls[i].name] + Cardinality({j \in 1..i : calls[j].name = calls[i].name})

FreqStops(t, calls, i) == Used(t, calls, i) >= FreqHard[calls[i].name]
FreqWarns(t, calls, i) ==
  /\ ~FreqStops(t, calls, i)
  /\ Used(t, calls, i) >= FreqWarn[calls[i].name] /\ calls[i].name \notin toolFreqWarned[t]

(* The calls are counted up to the first that stops or warns.                *)
Counted(t, calls) ==
  LET telling == {i \in DOMAIN calls : FreqStops(t, calls, i) \/ FreqWarns(t, calls, i)}
  IN IF telling = {} THEN Len(calls) ELSE CHOOSE i \in telling : \A j \in telling : i <= j

Bumped(t, calls, n) ==
  LET sum == toolFreq[t][n] + Cardinality({j \in 1..Counted(t, calls) : calls[j].name = n})
  IN IF sum > FreqHard[n] THEN FreqHard[n] ELSE sum

Saturated(n) == IF n < HardLimit THEN n + 1 ELSE n

(* The second layer, reached unless the first has stopped or warned.         *)
CheckFreq(t, r, calls, gone, K) ==
  LET last == Counted(t, calls)
      name == calls[last].name
  IN /\ toolFreq' = [u \in Threads |-> IF u \in gone THEN Nothing
                                       ELSE IF u = t THEN [n \in Names |-> Bumped(t, calls, n)] ELSE toolFreq[u]]
     /\ IF FreqWarns(t, calls, last)
        THEN /\ toolFreqWarned' = [u \in Threads |-> IF u \in gone THEN {} ELSE
                                     toolFreqWarned[u] \union (IF u = t THEN {name} ELSE {})]
             /\ Queue(<<t, r>>, name, K)
        ELSE /\ toolFreqWarned' = [u \in Threads |-> IF u \in gone THEN {} ELSE toolFreqWarned[u]]
             /\ DropPending(K)
     /\ stopped' = (stopped \ (gone \union {t})) \union (IF FreqStops(t, calls, last) THEN {t} ELSE {})

TrackAndCheck(t, r, calls) ==
  LET gone  == Evicted(t)
      K     == {k \in DOMAIN pending : k[1] \in gone}
      h     == HashOf[calls]
      hist  == Slide(Append(IF t \in DOMAIN history THEN history[t] ELSE <<>>, h))
      marks == StillWarned(t, hist)
      count == Count(hist, h)
      again == t \in DOMAIN history /\ streak[t] > 0 /\ history[t][Len(history[t])] = h
      Forget(f, nil) == [u \in Threads |-> IF u \in gone THEN nil ELSE f[u]]
  IN /\ history' = [u \in (DOMAIN history \ gone) \union {t} |-> IF u = t THEN hist ELSE history[u]]
     /\ order' = Append(Without(order, gone \union {t}), t)
     /\ streak' = [Forget(streak, 0) EXCEPT ![t] = IF again THEN Saturated(@) ELSE 1]
     /\ \/ /\ count >= HardLimit
           /\ warned' = [Forget(warned, {}) EXCEPT ![t] = marks]
           /\ toolFreq' = Forget(toolFreq, Nothing) /\ toolFreqWarned' = Forget(toolFreqWarned, {})
           /\ stopped' = (stopped \ gone) \union {t}
           /\ DropPending(K)
        \/ /\ count \in Warn..(HardLimit - 1) /\ h \notin marks
           /\ warned' = [Forget(warned, {}) EXCEPT ![t] = marks \union {h}]
           /\ toolFreq' = Forget(toolFreq, Nothing) /\ toolFreqWarned' = Forget(toolFreqWarned, {})
           /\ stopped' = stopped \ (gone \union {t})
           /\ Queue(<<t, r>>, "same", K)
        \/ /\ count < HardLimit /\ (count >= Warn => h \in marks)
           /\ warned' = [Forget(warned, {}) EXCEPT ![t] = marks]
           /\ CheckFreq(t, r, calls, gone, K)

-----------------------------------------------------------------------------

ForgetFreq(T) == toolFreq' = [u \in Threads |-> IF u \in T THEN Nothing ELSE toolFreq[u]]

(* Reset of one thread, or of all.                                           *)
Reset(T) ==
  /\ history' = Only(history, Threads \ T) /\ order' = Without(order, T)
  /\ warned' = [u \in Threads |-> IF u \in T THEN {} ELSE warned[u]]
  /\ ForgetFreq(T)
  /\ toolFreqWarned' = [u \in Threads |-> IF u \in T THEN {} ELSE toolFreqWarned[u]]
  /\ DropPending({k \in DOMAIN pending : k[1] \in T})
  /\ streak' = [u \in Threads |-> IF u \in T THEN 0 ELSE streak[u]] /\ stopped' = stopped \ T

Next ==
  \/ \E t \in Threads, r \in Runs :
       \/ \E calls \in CallSets : TrackAndCheck(t, r, calls)
       \/ DrainPendingWarnings(t, r) \/ BeforeAgent(t, r) \/ AfterAgent(t, r)
  \/ \E t \in Threads : Reset({t})
  \/ Reset(Threads)

Spec == Init /\ [][Next]_vars

-----------------------------------------------------------------------------
(* Properties.                                                               *)

(* The two LRU lists, the maps they keep in bounds and the books of the      *)
(* threads agree: nothing is kept of a thread or a run that is not listed.   *)
BooksAgree ==
  /\ Range(order) = DOMAIN history /\ Len(order) = Cardinality(DOMAIN history)
  /\ Range(pendingOrder) = DOMAIN pending /\ Len(pendingOrder) = Cardinality(DOMAIN pending)
  /\ Len(order) <= MaxTrackedThreads /\ Len(pendingOrder) <= MaxPendingKeys
  /\ \A k \in DOMAIN pending : k[1] \in DOMAIN history
  /\ \A t \in Threads \ DOMAIN history :
       warned[t] = {} /\ toolFreq[t] = Nothing /\ toolFreqWarned[t] = {}

(* Nobody is stopped out of the blue: calls made often enough for a warning  *)
(* have had one, since the thread is tracked and while the calls are in the  *)
(* window, and calls that left the window can have another.                  *)
WarnedBeforeStopped ==
  \A t \in DOMAIN history :
    /\ \A h \in Hashes : Count(history[t], h) >= Warn => h \in warned[t]
    /\ warned[t] \subseteq Range(history[t])
    /\ \A n \in Names : toolFreq[t][n] >= FreqWarn[n] <=> n \in toolFreqWarned[t]

(* A thread that does nothing but repeat the same calls is stopped when it   *)
(* has done so HardLimit times in a row, and every time after that, whatever *)
(* other threads do meanwhile, as long as they do not push it out.           *)
LoopsAreStopped == \A t \in Threads : streak[t] = HardLimit => t \in stopped

(* Loops are warned of and then cut, and the books that this rests on agree. *)
LoopsAreCut == TypeOK /\ BooksAgree /\ WarnedBeforeStopped /\ LoopsAreStopped
=============================================================================
