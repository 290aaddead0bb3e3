---------------------------- MODULE MCRunStream ----------------------------
(***************************************************************************)
(* For TLC: the life of a run in the registry, and the life of its stream  *)
(* in the bridge.  They share no state: in a behaviour one of them goes    *)
(* on, the other has not begun.                                            *)
(***************************************************************************)
EXTENDS RunManager, TLC

CONSTANTS Subs, MaxSize, MaxEvents, MaxStreams, MaxCloses

VARIABLES
  streaming,   \* which of them goes on
  cur, made, lo, hi, ended, published, worker, closes,
  place, obj, last, from, offset, hand, wake, chan, got, eof, gone

SB == INSTANCE StreamBridge

ASSUME StreamAssumption == SB!ConstantsAssumption

\* Each run has an Agent of its own.
OwnAgents == [r \in Runs |-> r]

\* All runs share an Agent.
OneAgent == [r \in Runs |-> CHOOSE a \in Agents : TRUE]

\* Only for runs without liveness.
Symmetry == Permutations(Runs) \union Permutations(Subs)

-----------------------------------------------------------------------------
sbVars == <<cur, made, lo, hi, ended, published, worker, closes,
            place, obj, last, from, offset, hand, wake, chan, got, eof, gone>>

bothVars == <<streaming, vars, sbVars>>

Running(A)   == ~streaming /\ A /\ UNCHANGED <<streaming, sbVars>>
Streaming(A) == streaming /\ A /\ UNCHANGED <<streaming, vars>>

BothInit == streaming \in BOOLEAN /\ Init /\ SB!Init

BothNext == Running(Next) \/ Streaming(SB!Next)

(* Workers, late writes and the reconciliation get their turn, and so do     *)
(* deliver goroutines and the consumers that stay connected.                 *)
BothFairness ==
  /\ \A r \in Runs :
       /\ WF_bothVars(Running(Worker(r)))
       /\ WF_bothVars(Running(BridgeAbort(r)))
       /\ WF_bothVars(Running(LateWrite(r)))
  /\ WF_bothVars(Running(Reconcile))
  /\ \A s \in Subs : WF_bothVars(Streaming(SB!Deliver(s))) /\ WF_bothVars(Streaming(SB!Receive(s)))

BothSpec     == BothInit /\ [][BothNext]_bothVars
BothFairSpec == BothSpec /\ BothFairness

(* Readers miss evicted events only, get nothing twice, the end last, and    *)
(* are woken for what they have not read (stream.go 135-227).                *)
ReadsInOrder == SB!ReadsInOrder

(* Seen from outside, the bridge is an EventLog per stream object. *)
ImplementsEventLog == SB!ImplementsEventLog

(* Retained events and the end reach every consumer that stays. *)
EventsAreDelivered == SB!EventsAreDelivered
=============================================================================
