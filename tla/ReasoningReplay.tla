-------------------------- MODULE ReasoningReplay --------------------------
(***************************************************************************)
(* Reasoning in a request (provider/model.go, RestoreAssistantPayloads and *)
(* VllmBuildPayload).  Serializing the history drops the reasoning of the  *)
(* assistant messages, and may drop messages; afterwards every assistant   *)
(* message of the request gets reasoning back from the history, from the   *)
(* message it is taken for.                                                *)
(*                                                                         *)
(* A message is its role and, for the assistant, its signature: content    *)
(* and ids of the calls, Empty when there are neither.                     *)
(***************************************************************************)
EXTENDS Naturals, Sequences, FiniteSets

CONSTANTS
  Histories,    \* sequences of messages [assistant, signature]
  Empty

VARIABLES
  history,      \* the original messages
  kept,         \* the positions of those that were serialized
  provider,     \* "deepseek" or "vllm"
  restored      \* i-th assistant message of the request -> the position its reasoning is from, 0 if none

replayVars == <<history, kept, provider, restored>>

ConstantsAssumption == \A h \in Histories : h \in Seq({h[i] : i \in DOMAIN h})

-----------------------------------------------------------------------------
AssistantsOf(S) == {i \in S : history[i].assistant}

(* The n-th smallest of a set of positions, counted from 0. *)
Nth(S, n) == CHOOSE i \in S : Cardinality({j \in S : j < i}) = n

Originals == AssistantsOf(DOMAIN history)
Ordinal   == Len(restored)

(* The message that the next assistant message of the request was made of.   *)
Own == Nth(AssistantsOf(kept), Ordinal)

Unused == {i \in Originals : \A k \in DOMAIN restored : restored[k] # i}

(* The first message from the ordinal on that is not used, in the order of   *)
(* the assistant messages.                                                   *)
NextUnusedIndexAtOrAfter(S) ==
  LET later == {i \in S : Cardinality({j \in Originals : j < i}) >= Ordinal} IN
  IF later = {} THEN 0 ELSE Nth(later, 0)

(* Faulty: the first of several equal messages is taken for the exact match. *)
MatchFirst ==
  LET equal == {i \in Originals : history[i].signature = history[Own].signature} IN
  IF history[Own].signature # Empty THEN Nth(equal, 0) ELSE NextUnusedIndexAtOrAfter(Unused)

(* An exact match of the signature if there is one only, else by ordinal.    *)
MatchAIMessage ==
  LET equal == {i \in Unused : history[i].signature = history[Own].signature} IN
  IF history[Own].signature # Empty /\ Cardinality(equal) = 1
  THEN Nth(equal, 0)
  ELSE NextUnusedIndexAtOrAfter(Unused)

(* Messages of the same position if nothing was dropped.  vLLM pairs the     *)
(* assistant messages in order when something was.                           *)
Match ==
  CASE kept = DOMAIN history -> Own
    [] kept # DOMAIN history /\ provider = "deepseek" -> MatchAIMessage
    [] OTHER -> Nth(Originals, Ordinal)

-----------------------------------------------------------------------------
Init ==
  /\ history \in Histories
  /\ kept \in SUBSET DOMAIN history
  /\ provider \in {"deepseek", "vllm"}
  /\ restored = <<>>

Restore ==
  /\ Ordinal < Cardinality(AssistantsOf(kept))
  /\ restored' = Append(restored, Match)
  /\ UNCHANGED <<history, kept, provider>>

Next == Restore

Spec == Init /\ [][Next]_replayVars

-----------------------------------------------------------------------------
TypeOK ==
  /\ history \in Histories /\ kept \subseteq DOMAIN history
  /\ provider \in {"deepseek", "vllm"}
  /\ restored \in Seq(Originals)

(* No assistant message is left without reasoning, gets that of a message    *)
(* after it, or shares it with another; it is its own when only messages of  *)
(* others were dropped, and when no message has the same signature           *)
(* (model.go 482-543, 720-747).                                              *)
ReasoningIsItsOwn ==
  \A k \in DOMAIN restored :
    LET own   == Nth(AssistantsOf(kept), k - 1)
        alone == \A i \in Originals \ {own} : history[i].signature # history[own].signature IN
    /\ restored[k] \in 1..own
    /\ \A j \in DOMAIN restored : restored[j] = restored[k] => j = k
    /\ Originals \subseteq kept => restored[k] = own
    /\ provider = "deepseek" /\ alone /\ history[own].signature # Empty => restored[k] = own
=============================================================================
