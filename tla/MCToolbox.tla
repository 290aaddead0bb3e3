----------------------------- MODULE MCToolbox -----------------------------
(***************************************************************************)
(* For TLC: the containers of the Docker sandboxes and what stands behind  *)
(* the MCP tools, the cache of tools, the tokens of their servers and the  *)
(* catalogs of deferred tools; and the reasoning of the messages that made *)
(* the calls.  They share no state: in a behaviour one of them runs, and   *)
(* the others rest in their initial states.                                *)
(***************************************************************************)
EXTENDS DockerPool, TLC

CONSTANTS
  MaxEdits, MaxFaults,
  Callers, Skew, Lifetimes, MaxDelay, MaxTime,
  ToolLists, Queries, Searches, MaxResults,
  Histories, Empty

VARIABLES
  part,        \* which of them runs
  file, cache, configMtime, loading, pools, served, edited, faults,
  now, token, lock, stage, answer, header,
  tools, last, promoted, found, overtaken, told, owed,
  history, kept, provider, restored

TC == INSTANCE ToolCache
OA == INSTANCE OAuthTokens
DT == INSTANCE DeferredTools
RR == INSTANCE ReasoningReplay

-----------------------------------------------------------------------------
(* Three catalogs: none, and two in which different tools have one name.     *)

T(n, words, text, mcp) == [name |-> n, words |-> words, text |-> text, mcp |-> mcp]

Read == T("read", {"read"}, {"file"}, FALSE)
Send == T("send", {"slack", "send"}, {"file", "slack"}, TRUE)
Post == T("post", {"slack", "post"}, {"send"}, TRUE)
News == T("post", {"slack", "post"}, {"news"}, TRUE)

ListTable == {<<Read>>, <<Read, Send, Post>>, <<Send, Read, News>>}

Q(form, words) == [form |-> form, words |-> words]

QueryTable ==
  {Q("select", <<"send", "read">>), Q("require", <<"slack">>), Q("require", <<"slack", "send">>),
   Q("require", <<"post", "news">>), Q("match", <<"send">>), Q("match", <<"none">>)}

(* Up to four messages: of a user, or of the assistant, which may be alike.  *)

MessageTable ==
  {[assistant |-> FALSE, signature |-> Empty]}
    \union [assistant : {TRUE}, signature : {Empty, "hello", "call"}]

HistoryTable == UNION {[1..n -> MessageTable] : n \in 0..4}

ASSUME PartsAssumption ==
  TC!ConstantsAssumption /\ OA!ConstantsAssumption /\ DT!ConstantsAssumption /\ RR!ConstantsAssumption

Symmetry == Permutations(Calls) \union Permutations(Threads)

-----------------------------------------------------------------------------
tcVars == <<file, cache, configMtime, loading, pools, served, edited, faults>>
oaVars == <<now, token, lock, stage, answer, header>>
dtVars == <<tools, last, promoted, found, overtaken, told, owed>>
rrVars == <<history, kept, provider, restored>>

PartsInit ==
  /\ part \in {"docker", "cache", "oauth", "deferred", "replay"}
  /\ Init /\ (part # "docker" => running = {})
  /\ TC!Init /\ OA!Init
  /\ DT!Init /\ (part # "deferred" => tools = <<Read>>)
  /\ RR!Init /\ (part # "replay" => history = <<>> /\ provider = "vllm")

PartsNext ==
  \/ part = "docker"   /\ Next    /\ UNCHANGED <<part, tcVars, oaVars, dtVars, rrVars>>
  \/ part = "cache"    /\ TC!Next /\ UNCHANGED <<part, vars, oaVars, dtVars, rrVars>>
  \/ part = "oauth"    /\ OA!Next /\ UNCHANGED <<part, vars, tcVars, dtVars, rrVars>>
  \/ part = "deferred" /\ DT!Next /\ UNCHANGED <<part, vars, tcVars, oaVars, rrVars>>
  \/ part = "replay"   /\ RR!Next /\ UNCHANGED <<part, vars, tcVars, oaVars, dtVars>>

PartsSpec == PartsInit /\ [][PartsNext]_<<part, vars, tcVars, oaVars, dtVars, rrVars>>

(* An edit of the configuration reaches the agents. *)
ToolsAreDue == TC!TypeOK /\ TC!ServedIsDue

(* Tokens handed out again are still accepted. *)
TokensAreAccepted == OA!TypeOK /\ OA!HandedOutIsAccepted

(* Tokens are replaced only when they expire. *)
ReplacedWhenExpiring == [][OA!ReplaceStep]_oaVars

(* A schema is shown if a search found it, and not otherwise. *)
SchemasFollowSearches == DT!TypeOK /\ DT!ShownWasFound /\ DT!FoundIsShown

(* Reasoning returns to the message it was thought for. *)
ReasoningReturns == RR!TypeOK /\ RR!ReasoningIsItsOwn
=============================================================================
