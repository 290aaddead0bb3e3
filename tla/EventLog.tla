------------------------------ MODULE EventLog ------------------------------
(***************************************************************************)
(* What the stream bridge (runtime/stream.go) promises its users, without  *)
(* goroutines, channels or locks: append-only logs that retain a suffix    *)
(* only, and readers that move forward through one log each, miss nothing  *)
(* but what retention has dropped, and are told of the end when there is   *)
(* nothing left to read.                                                   *)
(***************************************************************************)
EXTENDS Naturals

CONSTANTS Logs, Readers

VARIABLES
  length,   \* log -> entries appended
  floor,    \* log -> the oldest entry retained
  closed,   \* log -> nothing more will be appended
  feed,     \* reader -> the log it reads, 0 while it reads none
  next,     \* reader -> the next entry it is owed
  done      \* readers that have been told of the end

vars == <<length, floor, closed, feed, next, done>>

Init ==
  /\ length = [g \in Logs |-> 0] /\ floor = [g \in Logs |-> 0]
  /\ closed = [g \in Logs |-> FALSE]
  /\ feed = [s \in Readers |-> 0] /\ next = [s \in Readers |-> 0]
  /\ done = {}

Append(g) ==
  /\ ~closed[g]
  /\ length' = [length EXCEPT ![g] = @ + 1]
  /\ \E n \in floor[g]..length[g] : floor' = [floor EXCEPT ![g] = n]
  /\ UNCHANGED <<closed, feed, next, done>>

CloseLog(g) ==
  /\ ~closed[g]
  /\ closed' = [closed EXCEPT ![g] = TRUE]
  /\ UNCHANGED <<length, floor, feed, next, done>>

Attach(s, g) ==
  /\ feed[s] = 0
  /\ feed' = [feed EXCEPT ![s] = g]
  /\ \E n \in 0..length[g] : next' = [next EXCEPT ![s] = n]
  /\ UNCHANGED <<length, floor, closed, done>>

(* Everything between what s is owed and entry n has been dropped. *)
Dropped(s, n) == \A k \in next[s]..(n - 1) : k < floor[feed[s]]

Read(s) ==
  /\ feed[s] # 0 /\ s \notin done
  /\ \E n \in next[s]..(length[feed[s]] - 1) :
       Dropped(s, n) /\ next' = [next EXCEPT ![s] = n + 1]
  /\ UNCHANGED <<length, floor, closed, feed, done>>

Finish(s) ==
  /\ feed[s] # 0 /\ s \notin done
  /\ closed[feed[s]] /\ Dropped(s, length[feed[s]])
  /\ done' = done \union {s}
  /\ UNCHANGED <<length, floor, closed, feed, next>>

Next ==
  \/ \E g \in Logs : Append(g) \/ CloseLog(g) \/ (\E s \in Readers : Attach(s, g))
  \/ \E s \in Readers : Read(s) \/ Finish(s)

Spec == Init /\ [][Next]_vars
=============================================================================
