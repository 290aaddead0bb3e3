----------------------------- MODULE MemoryStore -----------------------------
(***************************************************************************)
(* The memory file of harness/memory.go and everybody who changes it:      *)
(* FileMemoryStorage with its cache by modification time (154-345), the    *)
(* updater that asks a model what to remember (797-1255) and the manual    *)
(* operations on facts (1299-1452).  Every operation loads, changes a copy *)
(* and saves; the mutex covers the cache map only, so the steps in between *)
(* are open to the other operations.  Several cache keys may name one file *)
(* (an absolute storage path); the model has one file.                     *)
(***************************************************************************)
EXTENDS Naturals, Sequences, FiniteSets, Selection

CONSTANTS
  Ops,        \* operations, each one made once
  Kinds,      \* what they may be
  Keys,       \* cache keys: (user, agent) pairs that share the file
  None,
  Contents,   \* normalised contents of facts
  Uploads,    \* those that mention an upload
  Answers,    \* sequences of new facts a model may propose
  Threshold,  \* MemoryConfig.FactConfidenceThreshold
  MaxFacts    \* MemoryConfig.MaxFacts

Confidences == 0..(Threshold + 1)
Proposals   == [content : Contents, confidence : Confidences]
Ids         == Ops \X Nat
Facts       == [id : Ids, content : Contents, confidence : Confidences]
Memories    == [summary : Ops \union {None}, facts : Seq(Facts)]

ASSUME ConstantsAssumption ==
  /\ Kinds \subseteq {"get", "reload", "create", "edit", "delete", "update", "import", "clear", "foreign"}
  /\ Threshold \in Nat /\ MaxFacts \in Nat \ {0} /\ None \notin Ops \union Keys
  /\ Uploads \subseteq Contents /\ Answers \subseteq Seq(Proposals) /\ IsFiniteSet(Ops)

VARIABLES
  file, mtime,     \* the file's memory, and its modification time (0: no file)
  cache,           \* key -> [data, mtime, by whom], None if nothing is cached
  kind, key, pc,   \* operation -> what it does, for which key, and where it is
  stamp,           \* operation -> the modification time it has read
  base,            \* operation -> the memory it has loaded
  input,           \* operation -> what it is to change
  data,            \* operation -> the memory it saves
  overlapped,      \* history: two operations were under way at once
  expected         \* history: the memory if every operation were one step

fileVars == <<file, mtime>>
opVars   == <<kind, key, pc, stamp, base, input, data>>
history  == <<overlapped, expected>>
vars == <<fileVars, cache, opVars, history>>

Empty == [summary |-> None, facts |-> <<>>]
Inputs == [content : Contents, id : Ids \union {None}, remove : SUBSET Ids,
           new : Seq(Proposals), summarise : BOOLEAN]
NoInput == [content |-> CHOOSE c \in Contents : TRUE, id |-> None, remove |-> {},
            new |-> <<>>, summarise |-> FALSE]

TypeOK ==
  /\ file \in Memories /\ mtime \in Nat
  /\ \A k \in Keys : cache[k] # None =>
       cache[k].data \in Memories /\ cache[k].mtime \in 0..mtime
  /\ kind \in [Ops -> Kinds \union {"get", None}] /\ key \in [Ops -> Keys \union {None}]
  /\ pc \in [Ops -> {"idle", "stat", "lookup", "read", "fill", "change", "replace", "cache", "done"}]
  /\ stamp \in [Ops -> Nat] /\ overlapped \in BOOLEAN
  /\ \A o \in Ops : base[o] \in Memories /\ data[o] \in Memories

Init ==
  /\ file = Empty /\ mtime = 0 /\ cache = [k \in Keys |-> None]
  /\ kind = [o \in Ops |-> None] /\ key = [o \in Ops |-> None] /\ pc = [o \in Ops |-> "idle"]
  /\ stamp = [o \in Ops |-> 0] /\ base = [o \in Ops |-> Empty]
  /\ input = [o \in Ops |-> NoInput] /\ data = [o \in Ops |-> Empty]
  /\ overlapped = FALSE /\ expected = Empty

Goto(o, at) == pc' = [pc EXCEPT ![o] = at]

(* An operation that returns takes its local variables with it; what it does *)
(* not read again is dropped before.                                         *)
Return(o) ==
  /\ Goto(o, "done")
  /\ kind' = [kind EXCEPT ![o] = None] /\ key' = [key EXCEPT ![o] = None]
  /\ stamp' = [stamp EXCEPT ![o] = 0] /\ base' = [base EXCEPT ![o] = Empty]
  /\ input' = [input EXCEPT ![o] = NoInput] /\ data' = [data EXCEPT ![o] = Empty]

IdsOf(m)    == {m.facts[i].id : i \in DOMAIN m.facts}

-----------------------------------------------------------------------------
(* What an operation makes of a memory.                                      *)

Fact(o, i, p)   == [id |-> <<o, i>>, content |-> p.content, confidence |-> p.confidence]
Mentions(fs, c) == \E i \in DOMAIN fs : fs[i].content = c

(* A proposal is dropped when it is too uncertain or nothing new, compared   *)
(* with the facts known.                                                     *)
Grow(o, new, fs, i, known) ==
  IF new[i].confidence < Threshold \/ Mentions(known, new[i].content)
  THEN fs ELSE Append(fs, Fact(o, i, new[i]))

(* Faulty: proposals are compared with the stored facts only. *)
AddIfUnstored(old, o, new) ==
  LET fs[i \in 0..Len(new)] == IF i = 0 THEN old ELSE Grow(o, new, fs[i - 1], i, old)
  IN  fs[Len(new)]

AddNew(old, o, new) ==
  LET fs[i \in 0..Len(new)] == IF i = 0 THEN old ELSE Grow(o, new, fs[i - 1], i, fs[i - 1])
  IN  fs[Len(new)]

(* The MaxFacts most certain facts; a stable sort, and only when there are   *)
(* too many.                                                                 *)
Standing(fs, i) ==
  Cardinality({j \in DOMAIN fs : \/ fs[j].confidence > fs[i].confidence
                                 \/ fs[j].confidence = fs[i].confidence /\ j <= i})
Trim(fs) ==
  IF Len(fs) <= MaxFacts THEN fs
  ELSE [r \in 1..MaxFacts |-> fs[CHOOSE i \in DOMAIN fs : Standing(fs, i) = r]]

ApplyUpdates(m, o, in) ==
  LET kept == Selection(m.facts, {i \in DOMAIN m.facts : m.facts[i].id \notin in.remove})
  IN  [summary |-> IF in.summarise THEN o ELSE m.summary,
       facts   |-> Trim(AddNew(kept, o, in.new))]

StripUploads(m) ==
  [m EXCEPT !.facts = Selection(@, {i \in DOMAIN @ : @[i].content \notin Uploads})]

Changed(m, o, in) ==
  CASE kind[o] = "update" -> StripUploads(ApplyUpdates(m, o, in))
    [] kind[o] \in {"create", "foreign"} ->
         [m EXCEPT !.facts = Append(@, Fact(o, 0, [content |-> in.content, confidence |-> Threshold]))]
    [] kind[o] = "delete" -> [m EXCEPT !.facts = Selection(@, {i \in DOMAIN @ : @[i].id # in.id})]
    [] kind[o] = "edit"   ->
         [m EXCEPT !.facts = [i \in DOMAIN @ |->
            IF @[i].id = in.id THEN [@[i] EXCEPT !.content = in.content] ELSE @[i]]]
    [] kind[o] = "import" -> [Empty EXCEPT !.summary = o]
    [] kind[o] = "clear"  -> Empty

-----------------------------------------------------------------------------
(* Starting.  An import and a clear save without loading; a foreign process  *)
(* writes the file behind the storage's back.                                *)

Busy == \E o \in Ops : pc[o] \notin {"idle", "done"}

Start(o, what, k) ==
  /\ pc[o] = "idle"
  /\ kind' = [kind EXCEPT ![o] = what] /\ key' = [key EXCEPT ![o] = k]
  /\ Goto(o, CASE what = "reload" -> "read"
               [] what \in {"import", "clear", "foreign"} -> "change"
               [] OTHER -> "stat")
  /\ overlapped' = (overlapped \/ Busy)
  /\ expected' = IF Busy THEN Empty ELSE expected
  /\ UNCHANGED <<fileVars, cache, stamp, base, input, data>>

-----------------------------------------------------------------------------
(* Load: the modification time first, the cache, then the file.              *)

Stat(o) ==
  /\ pc[o] = "stat"
  /\ stamp' = [stamp EXCEPT ![o] = mtime]
  /\ Goto(o, "lookup")
  /\ UNCHANGED <<fileVars, cache, kind, key, base, input, data, history>>

Loaded(o, m) ==
  \/ kind[o] \in {"get", "reload"} /\ Return(o)
  \/ /\ kind[o] \notin {"get", "reload"}
     /\ base' = [base EXCEPT ![o] = m] /\ stamp' = [stamp EXCEPT ![o] = 0]
     /\ Goto(o, "change")
     /\ UNCHANGED <<kind, key, input, data>>

Lookup(o) ==
  /\ pc[o] = "lookup"
  /\ LET e == cache[key[o]] IN
       IF e # None /\ e.mtime = stamp[o]
       THEN Loaded(o, e.data)
       ELSE Goto(o, "read") /\ UNCHANGED <<kind, key, stamp, base, input, data>>
  /\ UNCHANGED <<fileVars, cache, history>>

ReadFile(o) ==
  /\ pc[o] = "read"
  /\ base' = [base EXCEPT ![o] = file]
  /\ Goto(o, "fill")
  /\ UNCHANGED <<fileVars, cache, kind, key, stamp, input, data, history>>

Put(o, m, t, who) == cache' = [cache EXCEPT ![key[o]] = [data |-> m, mtime |-> t, by |-> who]]

(* Faulty: every load takes the modification time after the file. *)
FillWithTimeOfNow(o) ==
  /\ pc[o] = "fill"
  /\ Put(o, base[o], mtime, IF kind[o] = "reload" THEN "reload" ELSE "load")
  /\ Loaded(o, base[o])
  /\ UNCHANGED <<fileVars, history>>

(* Load stores the time it read before the file, Reload the time of now.     *)
Fill(o) ==
  /\ pc[o] = "fill"
  /\ IF kind[o] = "reload" THEN Put(o, base[o], mtime, "reload")
                           ELSE Put(o, base[o], stamp[o], "load")
  /\ Loaded(o, base[o])
  /\ UNCHANGED <<fileVars, history>>

-----------------------------------------------------------------------------
(* The change, on a deep copy of what was loaded.                            *)

InputFor(o, in) ==
  /\ in.summarise => in.new # <<>>
  /\ in.remove \subseteq IdsOf(base[o])
  /\ kind[o] # "update" => in.remove = {} /\ in.new = <<>> /\ ~in.summarise
  /\ kind[o] \in {"edit", "delete"} => in.id \in IdsOf(base[o])
  /\ kind[o] \notin {"edit", "delete"} => in.id = None
  /\ kind[o] \notin {"edit", "create", "foreign"} => in.content = NoInput.content

PossibleInputs(o) ==
  {in \in [content : Contents, id : IdsOf(base[o]) \union {None}, remove : SUBSET IdsOf(base[o]),
           new : Answers \union {<<>>}, summarise : BOOLEAN] : InputFor(o, in)}

(* Faulty: the update works on the cached object itself. *)
ChangeInPlace(o) ==
  /\ pc[o] = "change"
  /\ \E in \in PossibleInputs(o) :
       /\ input' = [input EXCEPT ![o] = in]
       /\ data' = [data EXCEPT ![o] = Changed(base[o], o, in)]
       /\ cache' = IF kind[o] = "update" /\ cache[key[o]] # None
                   THEN [cache EXCEPT ![key[o]].data = Changed(base[o], o, in)] ELSE cache
  /\ Goto(o, "replace")
  /\ UNCHANGED <<fileVars, kind, key, stamp, base, history>>

Change(o) ==
  /\ pc[o] = "change"
  /\ \E in \in PossibleInputs(o) :
       /\ input' = [input EXCEPT ![o] = in]
       /\ data' = [data EXCEPT ![o] = Changed(base[o], o, in)]
  /\ Goto(o, "replace")
  /\ UNCHANGED <<fileVars, cache, kind, key, stamp, base, history>>

(* No fact of that id, no answer of the model, an answer that is malformed,  *)
(* or that removes facts and proposes malformed ones: nothing is saved.      *)
Reject(o) ==
  /\ pc[o] = "change" /\ kind[o] \in {"update", "edit", "delete"}
  /\ Return(o)
  /\ UNCHANGED <<fileVars, cache, history>>

-----------------------------------------------------------------------------
(* Save: the file is replaced by a rename; the cache follows in a step of    *)
(* its own, with the modification time the file has by then.                 *)

Replace(o) ==
  /\ pc[o] = "replace"
  /\ file' = IF kind[o] = "foreign" THEN Changed(file, o, input[o]) ELSE data[o]
  /\ mtime' = mtime + 1
  /\ expected' = IF overlapped THEN expected ELSE Changed(expected, o, input[o])
  /\ \/ kind[o] = "foreign" /\ Return(o)
     \/ /\ kind[o] # "foreign" /\ Goto(o, "cache")
        /\ base' = [base EXCEPT ![o] = Empty] /\ input' = [input EXCEPT ![o] = NoInput]
        /\ UNCHANGED <<kind, key, stamp, data>>
  /\ UNCHANGED <<cache, overlapped>>

SaveFails(o) ==
  /\ pc[o] = "replace"
  /\ Return(o)
  /\ UNCHANGED <<fileVars, cache, history>>

(* ImportMemoryData loads what it has saved; the others return it.           *)
Saved(o) ==
  \/ kind[o] # "import" /\ Return(o)
  \/ /\ kind[o] = "import"
     /\ Goto(o, "stat") /\ kind' = [kind EXCEPT ![o] = "get"]
     /\ UNCHANGED <<key, stamp, base, input, data>>

CacheSaved(o) ==
  /\ pc[o] = "cache"
  /\ Put(o, data[o], mtime, "save")
  /\ Saved(o)
  /\ UNCHANGED <<fileVars, history>>

-----------------------------------------------------------------------------

Next ==
  \E o \in Ops :
    \/ \E what \in Kinds, k \in Keys : Start(o, what, k)
    \/ Stat(o) \/ Lookup(o) \/ ReadFile(o) \/ Fill(o)
    \/ Change(o) \/ Reject(o)
    \/ Replace(o) \/ SaveFails(o) \/ CacheSaved(o)

Spec == Init /\ [][Next]_vars

-----------------------------------------------------------------------------

(* An entry that Load put into the cache and that looks current is current:  *)
(* because the time is taken before the file is read, a save in between      *)
(* costs another read and never leaves an old memory behind.                 *)
LoadedEntryIsCurrent ==
  \A k \in Keys :
    cache[k] # None /\ cache[k].by = "load" /\ cache[k].mtime = mtime =>
      cache[k].data = file

(* The caches hold what Load may answer with, of the right types.            *)
LoadsAreCurrent == TypeOK /\ LoadedEntryIsCurrent

(* As long as operations do not overlap, whatever key they use, whichever    *)
(* of them fail and whoever else writes the file, the memory is what it      *)
(* would be if each one were a single step, and everybody loads that memory: *)
(* no failed save shows through the cache and no fact is lost.               *)
SerialIsAtomic ==
  ~overlapped =>
    /\ file = expected
    /\ \A o \in Ops : pc[o] \in {"fill", "change"} /\ kind[o] \notin {"import", "clear", "foreign"}
                        => base[o] = expected

(* What an update saves: at most MaxFacts facts, none that it was told to    *)
(* remove and none about an upload; a content appears twice only if it did   *)
(* before, and nothing that was dropped for room is more certain than what   *)
(* was kept.                                                                 *)
UpdateIsBounded ==
  \A o \in Ops : kind[o] = "update" /\ pc[o] = "replace" =>
    LET fs == data[o].facts  old == base[o].facts IN
    /\ Len(fs) <= MaxFacts
    /\ \A i \in DOMAIN fs : fs[i].id \notin input[o].remove /\ fs[i].content \notin Uploads
    /\ \A i, j \in DOMAIN fs : i # j /\ fs[i].content = fs[j].content =>
         {fs[i].id, fs[j].id} \subseteq IdsOf(base[o])
    /\ \A i \in DOMAIN old :
         old[i].id \in IdsOf(data[o]) \union input[o].remove \/ old[i].content \in Uploads
           \/ \A j \in DOMAIN fs : fs[j].confidence >= old[i].confidence

-----------------------------------------------------------------------------
(* What the documentation promises and the code does not keep.               *)

(* memory.go:156: one lock protects reading and writing.  So, with nobody    *)
(* else writing the file and no operation under way, a cached memory that    *)
(* looks current is the memory of the file.                                  *)
CacheIsCurrent ==
  ~Busy => \A k \in Keys : cache[k] # None /\ cache[k].mtime = mtime => cache[k].data = file
=============================================================================
