----------------------------- MODULE DockerPool -----------------------------
(***************************************************************************)
(* DockerSandboxProvider of provider/sandbox.go (1130-1430): containers    *)
(* with a name derived from the thread, a warm pool of released ones, a    *)
(* soft limit, and the adoption of orphans when the process starts.  An    *)
(* acquisition that has to create a container goes through the lock three  *)
(* times and starts the container in between, outside of it.               *)
(*                                                                         *)
(* The id of a sandbox is its thread, or the call when there is no thread; *)
(* hashes and clocks are taken not to collide.  A container stops only     *)
(* when the provider destroys it.  sandboxes, infos and lastActivity have  *)
(* the same keys in the code; they are one set here, and Get, which only   *)
(* writes lastActivity, is left out.                                       *)
(***************************************************************************)
EXTENDS Naturals, Sequences, FiniteSets

CONSTANTS
  Threads, Calls,   \* calls of Acquire, each one made once
  None,
  Replicas,         \* the soft limit on containers
  MaxRestarts       \* bound: restarts of the process

ASSUME ConstantsAssumption ==
  /\ Replicas \in Nat \ {0} /\ MaxRestarts \in Nat
  /\ None \notin Threads \union Calls /\ Threads \cap Calls = {}
  /\ IsFiniteSet(Threads) /\ IsFiniteSet(Calls)

Ids == Threads \union Calls

VARIABLES
  running,    \* the containers that run
  \* the provider, under p.mu
  active,     \* sandboxes
  bound,      \* threadSandboxes
  warm,       \* warmPool, longest released first
  down,       \* shutdownCalled
  doomed,     \* containers Shutdown has still to destroy
  \* the calls
  pc, thread, res,
  lost,       \* history: containers nobody tracks since a Reset or a failed destroy
  restarts

poolVars == <<active, bound, warm>>
callVars == <<pc, thread, res>>
vars == <<running, poolVars, down, doomed, callVars, lost, restarts>>

Warm  == {warm[i] : i \in DOMAIN warm}
Id(c) == IF thread[c] = None THEN c ELSE thread[c]

(* Containers that were started and are not registered yet.                  *)
Born == {Id(c) : c \in {d \in Calls : pc[d] = "register"}}

TypeOK ==
  /\ running \subseteq Ids /\ active \subseteq Ids /\ bound \subseteq Threads
  /\ warm \in Seq(Ids) /\ down \in BOOLEAN /\ doomed \subseteq Ids /\ lost \subseteq Ids
  /\ pc \in [Calls -> {"idle", "reclaim", "room", "run", "register", "returned"}]
  /\ thread \in [Calls -> Threads \union {None}]
  /\ res \in [Calls -> {None, "ok", "failed", "died"}]
  /\ restarts \in 0..MaxRestarts

(* reconcileOrphans adopts what runs, in no particular order.                *)
Orders(S) ==
  {s \in [1..Cardinality(S) -> S] :
     /\ \A x \in S : \E i \in DOMAIN s : s[i] = x
     /\ \A i, j \in DOMAIN s : i # j => s[i] # s[j]}

Init ==
  /\ running \in SUBSET Threads
  /\ active = {} /\ bound = {} /\ down = FALSE /\ doomed = {} /\ lost = {}
  /\ warm \in Orders(running)
  /\ pc = [c \in Calls |-> "idle"] /\ thread = [c \in Calls |-> None]
  /\ res = [c \in Calls |-> None] /\ restarts = 0

Goto(c, at)  == pc' = [pc EXCEPT ![c] = at]
Return(c, r) == Goto(c, "returned") /\ res' = [res EXCEPT ![c] = r]

-----------------------------------------------------------------------------
(* Acquire.                                                                  *)

Activate(c) ==
  /\ active' = active \union {Id(c)}
  /\ bound' = bound \union ({thread[c]} \ {None})
  /\ Return(c, "ok")

Acquire(c, t) ==
  /\ pc[c] = "idle"
  /\ thread' = [thread EXCEPT ![c] = t]
  /\ IF t \in bound /\ t \in active
     THEN Return(c, "ok") /\ UNCHANGED bound
     ELSE /\ Goto(c, IF t = None THEN "room" ELSE "reclaim")
          /\ bound' = bound \ {t}
          /\ UNCHANGED res
  /\ UNCHANGED <<running, active, warm, down, doomed, lost, restarts>>

(* The pool without its i-th container. *)
Without(i) == [j \in 1..(Len(warm) - 1) |-> IF j < i THEN warm[j] ELSE warm[j + 1]]

(* Faulty: the reclaimed container stays in the pool. *)
ReclaimAndKeep(c) ==
  /\ pc[c] = "reclaim"
  /\ \/ thread[c] \in Warm /\ Activate(c) /\ UNCHANGED warm
     \/ thread[c] \notin Warm /\ Goto(c, "room") /\ UNCHANGED <<poolVars, res>>
  /\ UNCHANGED <<running, down, doomed, thread, lost, restarts>>

Reclaim(c) ==
  /\ pc[c] = "reclaim"
  /\ \/ \E i \in DOMAIN warm : warm[i] = thread[c] /\ warm' = Without(i) /\ Activate(c)
     \/ thread[c] \notin Warm /\ Goto(c, "room") /\ UNCHANGED <<poolVars, res>>
  /\ UNCHANGED <<running, down, doomed, thread, lost, restarts>>

(* The destruction of a container may fail and nobody looks at the error.    *)
Destroy(id) ==
  \/ running' = running \ {id} /\ UNCHANGED lost
  \/ lost' = lost \union {id} /\ UNCHANGED running

(* Faulty: without a warm container the oldest active one has to go. *)
MakeRoomByForce(c) ==
  /\ pc[c] = "room"
  /\ IF Cardinality(active) + Len(warm) >= Replicas
     THEN IF warm # <<>>
          THEN warm' = Tail(warm) /\ Destroy(Head(warm))
          ELSE (\E id \in active : running' = running \ {id}) /\ UNCHANGED <<warm, lost>>
     ELSE UNCHANGED <<warm, running, lost>>
  /\ Goto(c, "run")
  /\ UNCHANGED <<active, bound, down, doomed, thread, res, restarts>>

MakeRoom(c) ==
  /\ pc[c] = "room"
  /\ IF Cardinality(active) + Len(warm) >= Replicas /\ warm # <<>>
     THEN warm' = Tail(warm) /\ Destroy(Head(warm))
     ELSE UNCHANGED <<warm, running, lost>>
  /\ Goto(c, "run")
  /\ UNCHANGED <<active, bound, down, doomed, thread, res, restarts>>

(* docker run: a name that is in use is refused, any other may fail as well. *)
Run(c) ==
  /\ pc[c] = "run"
  /\ \/ Id(c) \notin running /\ running' = running \union {Id(c)}
        /\ Goto(c, "register") /\ UNCHANGED res
     \/ Return(c, "failed") /\ UNCHANGED running
  /\ UNCHANGED <<poolVars, down, doomed, thread, lost, restarts>>

Register(c) ==
  /\ pc[c] = "register"
  /\ Activate(c)
  /\ UNCHANGED <<running, warm, down, doomed, thread, lost, restarts>>

-----------------------------------------------------------------------------
(* Release, Reset, Shutdown and a restart of the process.                    *)

Release(id) ==
  /\ id \in active
  /\ active' = active \ {id} /\ bound' = bound \ {id}
  /\ warm' = Append(warm, id)
  /\ UNCHANGED <<running, down, doomed, callVars, lost, restarts>>

Forget == active' = {} /\ bound' = {} /\ warm' = <<>>

Reset ==
  /\ active \union Warm # {}
  /\ Forget
  /\ lost' = lost \union active \union Warm
  /\ UNCHANGED <<running, down, doomed, callVars, restarts>>

Shutdown ==
  /\ ~down
  /\ down' = TRUE
  /\ doomed' = active \union Warm
  /\ Forget
  /\ UNCHANGED <<running, callVars, lost, restarts>>

DestroyNext(id) ==
  /\ id \in doomed
  /\ doomed' = doomed \ {id}
  /\ Destroy(id)
  /\ UNCHANGED <<poolVars, down, callVars, restarts>>

(* A docker run under way may still start its container.  If the containers  *)
(* cannot be listed, none is adopted.                                        *)
Restart ==
  /\ restarts < MaxRestarts
  /\ restarts' = restarts + 1
  /\ pc' = [c \in Calls |-> IF pc[c] = "idle" THEN "idle" ELSE "returned"]
  /\ res' = [c \in Calls |-> IF pc[c] \in {"idle", "returned"} THEN res[c] ELSE "died"]
  /\ \E late \in SUBSET {Id(c) : c \in {d \in Calls : pc[d] = "run"}} :
       running' = running \union late
  /\ active' = {} /\ bound' = {} /\ down' = FALSE /\ doomed' = {}
  /\ \/ warm' \in Orders(running') /\ lost' = {}
     \/ warm' = <<>> /\ lost' = running'
  /\ UNCHANGED thread

-----------------------------------------------------------------------------

Next ==
  \/ \E c \in Calls :
       \/ \E t \in Threads \union {None} : Acquire(c, t)
       \/ Reclaim(c) \/ MakeRoom(c) \/ Run(c) \/ Register(c)
  \/ \E id \in Ids : Release(id) \/ DestroyNext(id)
  \/ Reset \/ Shutdown \/ Restart

Spec == Init /\ [][Next]_vars

-----------------------------------------------------------------------------

(* Every container that runs is accounted for in exactly one place: in use,  *)
(* in the warm pool, started but not registered yet, about to be destroyed   *)
(* by Shutdown, or lost through a Reset or a destroy that failed.  So no     *)
(* error path and no race of two acquisitions, a release and a shutdown      *)
(* leaks a container, and none is handed out twice.                          *)
NothingForgotten ==
  /\ running = active \union Warm \union Born \union doomed \union lost
  /\ active \cap Warm = {} /\ Born \cap (active \union Warm) = {}
  /\ doomed \cap (active \union Warm \union Born) = {}
  /\ lost \cap (active \union Warm \union Born \union doomed) = {}
  /\ \A i, j \in DOMAIN warm : i # j => warm[i] # warm[j]
  /\ \A c, d \in Calls : pc[c] = "register" /\ pc[d] = "register" /\ Id(c) = Id(d) => c = d

(* A thread is bound to its sandbox only while that one is in use.           *)
BoundIsActive == bound \subseteq active

(* What a successful Acquire returns is the sandbox of its thread, in use,   *)
(* and its container runs; a container in use is destroyed by nothing but    *)
(* the shutdown or the end of the process.                                   *)
AcquiredIsUsable ==
  [][/\ \A c \in Calls : res[c] # "ok" /\ res'[c] = "ok" =>
          thread'[c] = None \/ (thread'[c] \in bound' /\ thread'[c] \in active' \cap running')
     /\ active \cap active' \subseteq running']_vars
=============================================================================
