--------------------------- MODULE DeferredTools ---------------------------
(***************************************************************************)
(* Tools whose schemas a model does not see before it has searched for     *)
(* them (capability/deferred.go), and the promotions a thread remembers    *)
(* (MergePromoted in harness/state.go).  Every build of an agent makes a   *)
(* catalog of the MCP tools it was given, one tool_search tool and one     *)
(* filter; promotions carry the hash of the catalog they were found in.    *)
(*                                                                         *)
(* tool_search leaves what it found in itself, and whoever ran it takes it *)
(* from there (the Promoter interface) in a second critical section; other *)
(* searches may run in between.                                            *)
(*                                                                         *)
(* A tool is [name, words, text, mcp]: the words in its name, those of its *)
(* description.  The hash of a catalog is the set of its tools.            *)
(***************************************************************************)
EXTENDS Naturals, Sequences, FiniteSets, Selection

CONSTANTS
  ToolLists,    \* what the tool policy may leave to an agent: sequences of tools
  Queries,      \* [form, words], words is a sequence
  Searches,     \* calls of tool_search
  MaxResults,
  None

VARIABLES
  tools,        \* of the last build
  last,         \* toolSearchTool.last: [hash, names], or None
  promoted,     \* of the thread: [hash, names], or None
  found,        \* what each running search has told the model, or None
  overtaken,    \* history: running searches after which another one ran
  told,         \* history: <<hash, name>> of everything found
  owed          \* history: those of searches that nobody overtook

vars == <<tools, last, promoted, found, overtaken, told, owed>>

Range(s)    == {s[i] : i \in DOMAIN s}
First(n, s) == SubSeq(s, 1, IF Len(s) < n THEN Len(s) ELSE n)
NamesOf(s)  == {t.name : t \in Range(s)}

Catalog(list)  == Selection(list, {i \in DOMAIN list : list[i].mcp})
Deferred(list) == NamesOf(Catalog(list))
Hash(list)     == Range(Catalog(list))

-----------------------------------------------------------------------------
(* Search.                                                                   *)

Hits(word, t) == IF word \in t.words \intersect t.text THEN 2 ELSE IF word \in t.words \union t.text THEN 1 ELSE 0

(* The stable order of the candidates by hits.                               *)
Ranked(s, word) ==
  LET With(n) == Selection(s, {i \in DOMAIN s : Hits(word, s[i]) = n}) IN With(2) \o With(1) \o With(0)

Matching(list, q) ==
  LET all    == Catalog(list)
      Named(w) == Selection(all, {i \in DOMAIN all : w \in all[i].words})
  IN CASE q.form = "select"  -> Selection(all, {i \in DOMAIN all : all[i].name \in Range(q.words)})
       [] q.form = "require" -> IF Len(q.words) = 1 THEN Named(q.words[1]) ELSE Ranked(Named(q.words[1]), q.words[2])
       [] q.form = "match"   -> Named(q.words[1]) \o
                                Selection(all, {i \in DOMAIN all : q.words[1] \in all[i].text \ all[i].words})

Search(list, q) == NamesOf(First(MaxResults, Matching(list, q)))

-----------------------------------------------------------------------------

Promotions == [hash : {Hash(l) : l \in ToolLists}, names : SUBSET UNION {Deferred(l) : l \in ToolLists}]

ConstantsAssumption ==
  /\ MaxResults \in Nat /\ None \notin Promotions
  /\ \A l \in ToolLists : l \in Seq(Range(l))
  /\ \A q \in Queries : q.form \in {"select", "require", "match"}

TypeOK ==
  /\ tools \in ToolLists
  /\ last \in Promotions \union {None}
  /\ promoted \in Promotions \union {None} /\ (promoted # None => promoted.names # {})
  /\ \A c \in Searches : found[c] # None => found[c] \subseteq Deferred(tools) /\ Cardinality(found[c]) <= MaxResults
  /\ overtaken \subseteq {c \in Searches : found[c] # None}
  /\ last # None => last.hash = Hash(tools) /\ last.names \subseteq Deferred(tools)

Init ==
  /\ tools \in ToolLists
  /\ last = None /\ promoted = None
  /\ found = [c \in Searches |-> None]
  /\ overtaken = {} /\ told = {} /\ owed = {}

(* BuildDeferredToolSetup: a new agent, with a new tool_search.               *)
Build(list) ==
  /\ \A c \in Searches : found[c] = None
  /\ tools' = list /\ last' = None
  /\ UNCHANGED <<promoted, found, overtaken, told, owed>>

(* Run of tool_search, which the agent only has if its catalog is not empty.  *)
Run(c, q) ==
  /\ found[c] = None /\ Deferred(tools) # {}
  /\ LET names == Search(tools, q) IN
     /\ last' = [hash |-> Hash(tools), names |-> names]
     /\ found' = [found EXCEPT ![c] = names]
     /\ told' = told \union ({Hash(tools)} \X names)
  /\ overtaken' = {d \in Searches : found[d] # None}
  /\ UNCHANGED <<tools, promoted, owed>>

(* Faulty: a search replaces what the ones before have found. *)
MergeLast(old, new) == IF new = None \/ new.names = {} THEN old ELSE new

Merge(old, new) ==
  IF new = None \/ new.names = {} THEN old
  ELSE IF old = None \/ old.hash # new.hash THEN new
  ELSE [old EXCEPT !.names = @ \union new.names]

(* Promoted, and MergePromoted of what it returns.                           *)
Promote(c) ==
  /\ found[c] # None
  /\ promoted' = Merge(promoted, last)
  /\ owed' = {p \in owed : p[1] = Hash(tools) \/ last.names = {}}
               \union (IF c \in overtaken THEN {} ELSE {Hash(tools)} \X found[c])
  /\ found' = [found EXCEPT ![c] = None] /\ overtaken' = overtaken \ {c}
  /\ UNCHANGED <<tools, last, told>>

Next ==
  \/ \E list \in ToolLists : Build(list)
  \/ \E c \in Searches : Promote(c) \/ \E q \in Queries : Run(c, q)

Spec == Init /\ [][Next]_vars

-----------------------------------------------------------------------------
(* The filter.                                                               *)

Hidden ==
  Deferred(tools) \ (IF promoted # None /\ promoted.hash = Hash(tools) THEN promoted.names ELSE {})

(* FilterTools: the schemas the model sees; the others are BlockedToolMessage's. *)
Shown == Selection(tools, {i \in DOMAIN tools : tools[i].name \notin Hidden})

(* A schema is shown only if a search found it in the catalog of this build:  *)
(* a tool that took the name of another one is not shown by the promotion of *)
(* the other.                                                                *)
ShownWasFound == \A t \in Range(Shown) : t.mcp => <<Hash(tools), t.name>> \in told

(* What a search has told the model can be called, in this and in all later  *)
(* turns with the same catalog, until a search in another catalog finds      *)
(* something, unless another search came between it and its promotion.       *)
FoundIsShown == \A p \in owed : p[1] = Hash(tools) => p[2] \notin Hidden
=============================================================================
