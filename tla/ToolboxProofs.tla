--------------------------- MODULE ToolboxProofs ---------------------------
(***************************************************************************)
(* The containers of the Docker sandboxes and what stands behind the tools,*)
(* for any threads, calls, callers, lists of tools, queries and histories: *)
(* the inductive invariant of each part, and what follows from it.         *)
(*                                                                         *)
(* The definitions of the parts are those of the instances in MCToolbox,   *)
(* which its run checks.                                                   *)
(***************************************************************************)
EXTENDS MCToolbox, Selection, SequenceTheorems, FiniteSetTheorems, TLAPS

USE ConstantsAssumption

(* The warm pool has no container twice.                                     *)
Distinct == \A i, j \in DOMAIN warm : i # j => warm[i] # warm[j]

(* Inductive; the last part says that Shutdown begins to destroy only once.  *)
Inv == TypeOK /\ NothingForgotten /\ BoundIsActive /\ (~down => doomed = {})

-----------------------------------------------------------------------------
(* The three ways a list of distinct containers changes.                     *)

LEMMA PoolAppended ==
  ASSUME warm \in Seq(Ids), Distinct, NEW id \in Ids \ Warm, warm' = Append(warm, id)
  PROVE  warm' \in Seq(Ids) /\ Warm' = Warm \union {id} /\ Distinct'
<1>1. /\ warm' \in Seq(Ids) /\ Len(warm') = Len(warm) + 1
      /\ \A i \in 1..Len(warm) : warm'[i] = warm[i]
      /\ warm'[Len(warm) + 1] = id
  OBVIOUS
<1>2. DOMAIN warm = 1..Len(warm) /\ DOMAIN warm' = 1..(Len(warm) + 1) /\ Len(warm) \in Nat
  BY <1>1
<1>3. Warm' = Warm \union {id}
  BY <1>1, <1>2 DEF Warm
<1>4. Distinct'
  BY <1>1, <1>2 DEF Distinct, Warm
<1> QED
  BY <1>1, <1>3, <1>4

LEMMA PoolTaken ==
  ASSUME warm \in Seq(Ids), Distinct, NEW i \in DOMAIN warm, warm' = Without(i)
  PROVE  warm' \in Seq(Ids) /\ Warm' = Warm \ {warm[i]} /\ Distinct'
<1>1. /\ Len(warm) \in Nat \ {0} /\ i \in 1..Len(warm) /\ DOMAIN warm = 1..Len(warm)
      /\ \A j \in 1..Len(warm) : warm[j] \in Ids
  OBVIOUS
<1>2. /\ DOMAIN warm' = 1..(Len(warm) - 1)
      /\ \A j \in 1..(Len(warm) - 1) : warm'[j] = IF j < i THEN warm[j] ELSE warm[j + 1]
  BY DEF Without
<1>3. warm' \in Seq(Ids)
  BY <1>1, <1>2 DEF Without
<1>2a. ASSUME NEW j \in DOMAIN warm'
      PROVE  \E k \in DOMAIN warm \ {i} : warm'[j] = warm[k] /\ k = (IF j < i THEN j ELSE j + 1)
  BY <1>1, <1>2
<1>4. Distinct'
  <2>1. SUFFICES ASSUME NEW j \in DOMAIN warm', NEW k \in DOMAIN warm', j # k
                 PROVE  warm'[j] # warm'[k]
    BY DEF Distinct
  <2>2. PICK m \in DOMAIN warm : warm'[j] = warm[m] /\ m = (IF j < i THEN j ELSE j + 1)
    BY <1>2a
  <2>3. PICK n \in DOMAIN warm : warm'[k] = warm[n] /\ n = (IF k < i THEN k ELSE k + 1)
    BY <1>2a
  <2>4. m # n
    BY <2>1, <2>2, <2>3, <1>1, <1>2
  <2> QED
    BY <2>2, <2>3, <2>4 DEF Distinct
<1>5. Warm' \subseteq Warm \ {warm[i]}
  BY <1>1, <1>2a DEF Distinct, Warm
<1>6. ASSUME NEW j \in DOMAIN warm, warm[j] # warm[i]
      PROVE  warm[j] \in Warm'
  <2>1. CASE j < i
    BY <2>1, <1>1, <1>2 DEF Warm
  <2>2. CASE j > i
    <3>1. j - 1 \in DOMAIN warm' /\ warm'[j - 1] = warm[j]
      BY <2>2, <1>1, <1>2
    <3> QED
      BY <3>1 DEF Warm
  <2> QED
    BY <1>1, <1>6, <2>1, <2>2
<1>7. Warm \ {warm[i]} \subseteq Warm'
  BY <1>6 DEF Warm
<1> QED
  BY <1>3, <1>4, <1>5, <1>7

LEMMA PoolShifted ==
  ASSUME warm \in Seq(Ids), Distinct, warm # <<>>, warm' = Tail(warm)
  PROVE  /\ warm' \in Seq(Ids) /\ Warm' = Warm \ {Head(warm)} /\ Distinct'
         /\ Head(warm) \in Warm
<1>1. /\ Len(warm) \in Nat \ {0} /\ DOMAIN warm = 1..Len(warm)
      /\ warm' \in Seq(Ids) /\ DOMAIN warm' = 1..(Len(warm) - 1)
      /\ \A j \in 1..(Len(warm) - 1) : warm'[j] = warm[j + 1]
      /\ Head(warm) = warm[1]
  OBVIOUS
<1>2. Distinct'
  BY <1>1 DEF Distinct
<1>3. Warm' \subseteq Warm \ {Head(warm)}
  BY <1>1 DEF Distinct, Warm
<1>4. ASSUME NEW j \in 2..Len(warm)
      PROVE  warm[j] \in Warm'
  <2>1. j - 1 \in DOMAIN warm' /\ warm'[j - 1] = warm[j]
    BY <1>1
  <2> QED
    BY <2>1 DEF Warm
<1>5. Warm \ {Head(warm)} \subseteq Warm'
  BY <1>1, <1>4 DEF Warm
<1>6. Head(warm) \in Warm
  BY <1>1 DEF Warm
<1> QED
  BY <1>1, <1>2, <1>3, <1>5, <1>6

(* What a provider adopts when it starts is exactly what runs.               *)
LEMMA PoolAdopted ==
  ASSUME NEW S \in SUBSET Ids, NEW s \in Orders(S)
  PROVE  /\ s \in Seq(Ids) /\ {s[i] : i \in DOMAIN s} = S
         /\ \A i, j \in DOMAIN s : i # j => s[i] # s[j]
<1>1. IsFiniteSet(S)
  BY FS_Union, FS_Subset DEF Ids
<1>2. Cardinality(S) \in Nat
  BY <1>1, FS_CardinalityType
<1>3. /\ s \in [1..Cardinality(S) -> S]
      /\ \A x \in S : \E i \in DOMAIN s : s[i] = x
      /\ \A i, j \in DOMAIN s : i # j => s[i] # s[j]
  BY DEF Orders
<1>4. s \in Seq(Ids)
  BY <1>2, <1>3
<1> QED
  BY <1>3, <1>4

-----------------------------------------------------------------------------
(* The invariant is inductive.                                               *)

(* Steps that register and start nothing.                                    *)
LEMMA BornStays ==
  ASSUME \A c \in Calls : (pc'[c] = "register") = (pc[c] = "register"),
         \A c \in Calls : pc[c] = "register" => thread'[c] = thread[c]
  PROVE  /\ Born' = Born
         /\ NothingForgotten =>
              \A c, d \in Calls : pc'[c] = "register" /\ pc'[d] = "register" /\ Id(c)' = Id(d)' => c = d
<1>1. \A c \in Calls : pc[c] = "register" => Id(c)' = Id(c)
  BY DEF Id
<1>2. Born' = Born
  BY <1>1 DEF Born
<1> QED
  BY <1>1, <1>2 DEF NothingForgotten

LEMMA IdType ==
  ASSUME TypeOK, NEW c \in Calls
  PROVE  Id(c) \in Ids /\ (thread[c] # None => thread[c] = Id(c)) /\ (thread[c] = None => Id(c) = c)
BY DEF TypeOK, Id, Ids

LEMMA InitInv == Init => Inv
<1> SUFFICES ASSUME Init PROVE Inv
  OBVIOUS
<1>1. running \in SUBSET Ids /\ warm \in Orders(running)
  BY DEF Init, Ids
<1>2. warm \in Seq(Ids) /\ Warm = running /\ \A i, j \in DOMAIN warm : i # j => warm[i] # warm[j]
  BY <1>1, PoolAdopted DEF Warm
<1>3. TypeOK
  <2>1. /\ pc \in [Calls -> {"idle", "reclaim", "room", "run", "register", "returned"}]
        /\ thread \in [Calls -> Threads \union {None}]
        /\ res \in [Calls -> {None, "ok", "failed", "died"}]
    BY DEF Init
  <2>2. /\ active \subseteq Ids /\ bound \subseteq Threads
        /\ doomed \subseteq Ids /\ lost \subseteq Ids
        /\ restarts \in 0..MaxRestarts
    BY DEF Init
  <2>3. down \in BOOLEAN
    BY DEF Init
  <2> QED
    BY <1>1, <1>2, <2>1, <2>2, <2>3 DEF TypeOK
<1>4. Born = {}
  BY DEF Born, Init
<1>5. NothingForgotten
  BY <1>2, <1>4 DEF NothingForgotten, Init
<1>6. BoundIsActive
  BY DEF BoundIsActive, Init
<1>7. doomed = {}
  BY DEF Init
<1> QED
  BY <1>3, <1>5, <1>6, <1>7 DEF Inv

LEMMA AcquireInv ==
  ASSUME Inv, NEW c \in Calls, NEW t \in Threads \union {None}, Acquire(c, t)
  PROVE  Inv'
<1> USE DEF Inv
<1>1. TypeOK'
  BY DEF Acquire, TypeOK, Return, Goto, Ids
<1>2. Born' = Born /\ \A b, d \in Calls :
        pc'[b] = "register" /\ pc'[d] = "register" /\ Id(b)' = Id(d)' => b = d
  BY BornStays DEF Acquire, Return, Goto, TypeOK
<1>3. Warm' = Warm
  BY DEF Acquire, Warm
<1>4. NothingForgotten'
  BY <1>2, <1>3 DEF NothingForgotten, Acquire
<1>5. BoundIsActive'
  BY DEF BoundIsActive, Acquire
<1> QED
  BY <1>1, <1>4, <1>5 DEF Acquire

LEMMA ReclaimInv ==
  ASSUME Inv, NEW c \in Calls, Reclaim(c)
  PROVE  Inv'
<1> USE DEF Inv
<1>1. CASE thread[c] \notin Warm /\ Goto(c, "room") /\ UNCHANGED <<poolVars, res>>
  <2>1. TypeOK'
    BY <1>1 DEF Reclaim, TypeOK, Goto, poolVars
  <2>2. Born' = Born /\ \A b, d \in Calls :
          pc'[b] = "register" /\ pc'[d] = "register" /\ Id(b)' = Id(d)' => b = d
    BY <1>1, BornStays DEF Reclaim, Goto, TypeOK
  <2>3. Warm' = Warm
    BY <1>1 DEF Warm, poolVars
  <2> QED
    BY <1>1, <2>1, <2>2, <2>3 DEF NothingForgotten, BoundIsActive, Reclaim, poolVars
<1>2. ASSUME NEW i \in DOMAIN warm, warm[i] = thread[c], warm' = Without(i), Activate(c)
      PROVE  Inv'
  <2>1. /\ warm' \in Seq(Ids) /\ Warm' = Warm \ {thread[c]}
        /\ \A j, k \in DOMAIN warm' : j # k => warm'[j] # warm'[k]
    BY <1>2, PoolTaken DEF TypeOK, NothingForgotten, Distinct
  <2>2. thread[c] \in Warm /\ thread[c] \in Ids /\ Id(c) = thread[c]
    BY <1>2, IdType DEF Warm, TypeOK, Ids
  <2>3. TypeOK'
    BY <1>2, <2>1, <2>2 DEF Reclaim, TypeOK, Activate, Return, Goto, Ids
  <2>4. Born' = Born /\ \A b, d \in Calls :
          pc'[b] = "register" /\ pc'[d] = "register" /\ Id(b)' = Id(d)' => b = d
    BY <1>2, BornStays DEF Reclaim, Activate, Return, Goto, TypeOK
  <2>5. NothingForgotten'
    BY <1>2, <2>1, <2>2, <2>4 DEF NothingForgotten, Reclaim, Activate
  <2>6. BoundIsActive'
    BY <1>2, <2>2 DEF BoundIsActive, Activate
  <2> QED
    BY <2>3, <2>5, <2>6 DEF Reclaim
<1> QED
  BY <1>1, <1>2 DEF Reclaim

LEMMA MakeRoomInv ==
  ASSUME Inv, NEW c \in Calls, MakeRoom(c)
  PROVE  Inv'
<1> USE DEF Inv
<1>1. Born' = Born /\ \A b, d \in Calls :
        pc'[b] = "register" /\ pc'[d] = "register" /\ Id(b)' = Id(d)' => b = d
  BY BornStays DEF MakeRoom, Goto, TypeOK
<1>2. CASE warm # <<>> /\ warm' = Tail(warm) /\ Destroy(Head(warm))
  <2>1. /\ warm' \in Seq(Ids) /\ Warm' = Warm \ {Head(warm)}
        /\ \A j, k \in DOMAIN warm' : j # k => warm'[j] # warm'[k]
        /\ Head(warm) \in Warm
    BY <1>2, PoolShifted DEF TypeOK, NothingForgotten, Distinct
  <2>2. Head(warm) \in Ids
    BY <2>1 DEF Warm, TypeOK
  <2>3. TypeOK'
    BY <1>2, <2>1, <2>2 DEF MakeRoom, Destroy, TypeOK, Goto
  <2>4. NothingForgotten'
    BY <1>1, <1>2, <2>1 DEF NothingForgotten, MakeRoom, Destroy
  <2> QED
    BY <2>3, <2>4 DEF BoundIsActive, MakeRoom
<1>3. CASE UNCHANGED <<warm, running, lost>>
  <2>1. TypeOK'
    BY <1>3 DEF MakeRoom, TypeOK, Goto
  <2>2. Warm' = Warm
    BY <1>3 DEF Warm
  <2> QED
    BY <1>1, <1>3, <2>1, <2>2 DEF NothingForgotten, BoundIsActive, MakeRoom
<1> QED
  BY <1>2, <1>3 DEF MakeRoom

LEMMA RunInv ==
  ASSUME Inv, NEW c \in Calls, Run(c)
  PROVE  Inv'
<1> USE DEF Inv
<1>1. Warm' = Warm
  BY DEF Run, Warm, poolVars
<1>2. TypeOK'
  BY IdType DEF Run, TypeOK, Return, Goto, poolVars
<1>3. CASE Return(c, "failed") /\ UNCHANGED running
  <2>1. Born' = Born /\ \A b, d \in Calls :
          pc'[b] = "register" /\ pc'[d] = "register" /\ Id(b)' = Id(d)' => b = d
    BY <1>3, BornStays DEF Run, Return, Goto, TypeOK
  <2> QED
    BY <1>1, <1>2, <1>3, <2>1 DEF NothingForgotten, BoundIsActive, Run, poolVars
<1>4. CASE Id(c) \notin running /\ running' = running \union {Id(c)} /\ Goto(c, "register")
  <2>1. \A d \in Calls : Id(d)' = Id(d)
    BY DEF Run, Id
  <2>2. pc'[c] = "register" /\ \A d \in Calls \ {c} : pc'[d] = pc[d]
    BY <1>4 DEF Goto, TypeOK
  <2>3. Born' = Born \union {Id(c)}
    BY <2>1, <2>2 DEF Born, Run
  <2>4. \A b, d \in Calls :
          pc'[b] = "register" /\ pc'[d] = "register" /\ Id(b)' = Id(d)' => b = d
    BY <1>4, <2>1, <2>2 DEF NothingForgotten, Born
  <2>5. NothingForgotten'
    BY <1>1, <1>4, <2>3, <2>4 DEF NothingForgotten, Run, poolVars
  <2> QED
    BY <1>2, <2>5 DEF BoundIsActive, Run, poolVars
<1> QED
  BY <1>3, <1>4 DEF Run

LEMMA RegisterInv ==
  ASSUME Inv, NEW c \in Calls, Register(c)
  PROVE  Inv'
<1> USE DEF Inv
<1>1. Warm' = Warm
  BY DEF Register, Warm
<1>2. TypeOK'
  BY IdType DEF Register, Activate, TypeOK, Return, Goto
<1>3. \A d \in Calls : Id(d)' = Id(d)
  BY DEF Register, Id
<1>4. pc'[c] # "register" /\ \A d \in Calls \ {c} : pc'[d] = pc[d]
  BY DEF Register, Activate, Return, Goto, TypeOK
<1>5. Id(c) \in Born /\ Born' = Born \ {Id(c)}
  BY <1>3, <1>4 DEF Born, Register, NothingForgotten
<1>6. NothingForgotten'
  BY <1>1, <1>3, <1>4, <1>5 DEF NothingForgotten, Register, Activate
<1>7. BoundIsActive'
  BY IdType DEF BoundIsActive, Register, Activate
<1> QED
  BY <1>2, <1>6, <1>7 DEF Register

LEMMA ReleaseInv ==
  ASSUME Inv, NEW id \in Ids, Release(id)
  PROVE  Inv'
<1> USE DEF Inv
<1>1. id \in Ids \ Warm
  BY DEF Release, NothingForgotten
<1>2. /\ warm' \in Seq(Ids) /\ Warm' = Warm \union {id}
      /\ \A i, j \in DOMAIN warm' : i # j => warm'[i] # warm'[j]
  BY <1>1, PoolAppended DEF Release, TypeOK, NothingForgotten, Distinct
<1>3. TypeOK'
  BY <1>2 DEF Release, TypeOK, callVars
<1>4. Born' = Born /\ \A b, d \in Calls :
        pc'[b] = "register" /\ pc'[d] = "register" /\ Id(b)' = Id(d)' => b = d
  BY BornStays DEF Release, callVars
<1>5. NothingForgotten'
  BY <1>2, <1>4 DEF NothingForgotten, Release
<1> QED
  BY <1>3, <1>5 DEF BoundIsActive, Release

LEMMA ForgetInv ==
  ASSUME Inv, Reset \/ Shutdown
  PROVE  Inv'
<1> USE DEF Inv
<1>1. Warm \subseteq Ids
  BY DEF Warm, TypeOK
<1>2. warm' = <<>> /\ Warm' = {}
  BY DEF Reset, Shutdown, Forget, Warm
<1>3. TypeOK'
  <2>1. CASE Reset
    BY <1>1, <1>2, <2>1 DEF Reset, Forget, TypeOK, callVars
  <2>2. CASE Shutdown
    BY <1>1, <1>2, <2>2 DEF Shutdown, Forget, TypeOK, callVars
  <2> QED
    BY <2>1, <2>2
<1>4. Born' = Born /\ \A b, d \in Calls :
        pc'[b] = "register" /\ pc'[d] = "register" /\ Id(b)' = Id(d)' => b = d
  BY BornStays DEF Reset, Shutdown, callVars
<1>5. CASE Reset
  BY <1>2, <1>3, <1>4, <1>5 DEF NothingForgotten, BoundIsActive, Reset, Forget
<1>6. CASE Shutdown
  BY <1>2, <1>3, <1>4, <1>6 DEF NothingForgotten, BoundIsActive, Shutdown, Forget
<1> QED
  BY <1>5, <1>6

LEMMA DestroyNextInv ==
  ASSUME Inv, NEW id \in Ids, DestroyNext(id)
  PROVE  Inv'
<1> USE DEF Inv
<1>1. Warm' = Warm
  BY DEF DestroyNext, Warm, poolVars
<1>2. TypeOK'
  BY DEF DestroyNext, Destroy, TypeOK, poolVars, callVars
<1>3. Born' = Born /\ \A b, d \in Calls :
        pc'[b] = "register" /\ pc'[d] = "register" /\ Id(b)' = Id(d)' => b = d
  BY BornStays DEF DestroyNext, callVars
<1>4. NothingForgotten'
  BY <1>1, <1>3 DEF NothingForgotten, DestroyNext, Destroy, poolVars
<1> QED
  BY <1>2, <1>4 DEF BoundIsActive, DestroyNext, poolVars

LEMMA RestartInv ==
  ASSUME Inv, Restart
  PROVE  Inv'
<1> USE DEF Inv
<1>1. Born' = {} /\ \A b \in Calls : pc'[b] # "register"
  BY DEF Restart, Born, TypeOK
<1>2. running' \in SUBSET Ids
  BY IdType DEF Restart, TypeOK
<1>2a. /\ pc' \in [Calls -> {"idle", "reclaim", "room", "run", "register", "returned"}]
       /\ res' \in [Calls -> {None, "ok", "failed", "died"}]
       /\ thread' \in [Calls -> Threads \union {None}]
       /\ restarts' \in 0..MaxRestarts
  BY DEF Restart, TypeOK
<1>2b. active' \subseteq Ids /\ bound' \subseteq Threads /\ down' \in BOOLEAN /\ doomed' \subseteq Ids
  BY DEF Restart
<1>3. CASE warm' \in Orders(running') /\ lost' = {}
  <2>1. /\ warm' \in Seq(Ids) /\ Warm' = running'
        /\ \A i, j \in DOMAIN warm' : i # j => warm'[i] # warm'[j]
    BY <1>2, <1>3, PoolAdopted DEF Warm
  <2>2. TypeOK'
    BY <1>2, <1>2a, <1>2b, <1>3, <2>1 DEF TypeOK
  <2>3. NothingForgotten'
    BY <1>1, <1>3, <2>1 DEF Restart, NothingForgotten
  <2> QED
    BY <2>2, <2>3 DEF BoundIsActive, Restart
<1>4. CASE warm' = <<>> /\ lost' = running'
  <2>1. Warm' = {}
    BY <1>4 DEF Warm
  <2>2. TypeOK'
    BY <1>2, <1>2a, <1>2b, <1>4 DEF TypeOK
  <2>3. NothingForgotten'
    BY <1>1, <1>4, <2>1 DEF Restart, NothingForgotten
  <2> QED
    BY <2>2, <2>3 DEF BoundIsActive, Restart
<1> QED
  BY <1>3, <1>4 DEF Restart

LEMMA Stuttering ==
  ASSUME Inv, UNCHANGED vars
  PROVE  Inv'
BY DEF Inv, TypeOK, NothingForgotten, BoundIsActive, Warm, Born, Id, vars, poolVars, callVars

LEMMA NextInv == Inv /\ [Next]_vars => Inv'
<1> SUFFICES ASSUME Inv, [Next]_vars PROVE Inv'
  OBVIOUS
<1>1. ASSUME NEW c \in Calls, NEW t \in Threads \union {None}, Acquire(c, t) PROVE Inv'
  BY <1>1, AcquireInv
<1>2. ASSUME NEW c \in Calls, Reclaim(c) \/ MakeRoom(c) \/ Run(c) \/ Register(c) PROVE Inv'
  BY <1>2, ReclaimInv, MakeRoomInv, RunInv, RegisterInv
<1>3. ASSUME NEW id \in Ids, Release(id) \/ DestroyNext(id) PROVE Inv'
  BY <1>3, ReleaseInv, DestroyNextInv
<1>4. CASE Reset \/ Shutdown
  BY <1>4, ForgetInv
<1>5. CASE Restart
  BY <1>5, RestartInv
<1>6. CASE UNCHANGED vars
  BY <1>6, Stuttering
<1> QED
  BY <1>1, <1>2, <1>3, <1>4, <1>5, <1>6 DEF Next

(* Inv holds in every state of every execution.                              *)
THEOREM Invariant == Spec => []Inv
BY InitInv, NextInv, PTL DEF Spec

(* Every state is well typed; in particular the warm pool is a list of       *)
(* containers.                                                               *)
THEOREM TypeCorrect == Spec => []TypeOK
<1>1. Inv => TypeOK
  BY DEF Inv
<1> QED
  BY <1>1, Invariant, PTL

(* Every container that runs is in exactly one place, whatever races and     *)
(* fails.                                                                    *)
THEOREM AccountedFor == Spec => []NothingForgotten
<1>1. Inv => NothingForgotten
  BY DEF Inv
<1> QED
  BY <1>1, Invariant, PTL

(* No thread is bound to a sandbox that is not in use.                       *)
THEOREM BoundToActive == Spec => []BoundIsActive
<1>1. Inv => BoundIsActive
  BY DEF Inv
<1> QED
  BY <1>1, Invariant, PTL

-----------------------------------------------------------------------------
(* A successful Acquire returns a sandbox that is in use and runs, and       *)
(* nothing but a shutdown destroys a sandbox in use.                         *)
THEOREM HandedOut == Spec => AcquiredIsUsable
<1> DEFINE Good ==
      /\ \A c \in Calls : res[c] # "ok" /\ res'[c] = "ok" =>
           thread'[c] = None \/ (thread'[c] \in bound' /\ thread'[c] \in active' \cap running')
      /\ active \cap active' \subseteq running'
<1>1. ASSUME Inv, Inv', [Next]_vars PROVE Good
  <2> USE DEF Inv
  <2>1. active' \subseteq running'
    BY <1>1 DEF NothingForgotten
  <2> SUFFICES ASSUME NEW c \in Calls, res[c] # "ok", res'[c] = "ok"
               PROVE  thread'[c] = None \/ (thread'[c] \in bound' /\ thread'[c] \in active')
    BY <2>1
  <2>2. ASSUME NEW d \in Calls, NEW t \in Threads \union {None}, Acquire(d, t)
        PROVE  thread'[c] = None \/ (thread'[c] \in bound' /\ thread'[c] \in active')
    <3>1. d = c
      BY <1>1, <2>2 DEF Acquire, Return, Goto, TypeOK
    <3>2. thread'[c] = t /\ t \in bound /\ t \in active
      BY <1>1, <2>2, <3>1 DEF Acquire, Return, Goto, TypeOK
    <3> QED
      BY <2>2, <3>1, <3>2 DEF Acquire, Return, Goto
  <2>3. ASSUME NEW d \in Calls, Activate(d), UNCHANGED thread
        PROVE  thread'[c] = None \/ (thread'[c] \in bound' /\ thread'[c] \in active')
    <3>1. d = c
      BY <2>3, <1>1 DEF Activate, Return, Goto, TypeOK
    <3> QED
      BY <2>3, <3>1, <1>1, IdType DEF Activate
  <2>4. ASSUME NEW d \in Calls, Reclaim(d) \/ MakeRoom(d) \/ Run(d) \/ Register(d)
        PROVE  thread'[c] = None \/ (thread'[c] \in bound' /\ thread'[c] \in active')
    BY <1>1, <2>3, <2>4 DEF Reclaim, MakeRoom, Run, Register, Return, Goto, poolVars, TypeOK
  <2>5. ASSUME Restart \/ Reset \/ Shutdown \/ UNCHANGED vars
        PROVE  FALSE
    BY <1>1, <2>5 DEF Restart, Reset, Shutdown, vars, callVars, TypeOK
  <2>6. ASSUME NEW id \in Ids, Release(id) \/ DestroyNext(id)
        PROVE  FALSE
    BY <2>6 DEF Release, DestroyNext, callVars
  <2> QED
    BY <1>1, <2>2, <2>4, <2>5, <2>6 DEF Next
<1>2. Inv /\ Inv' /\ [Next]_vars => [Good]_vars
  BY <1>1
<1> QED
  BY <1>2, Invariant, PTL DEF Spec, AcquiredIsUsable

-----------------------------------------------------------------------------
(* The tokens of the MCP servers.                                            *)

Fetching == {"post", "made"}
Holding  == {"check"} \union Fetching

(* When the manager stored a token: not before the server made it, at most   *)
(* MaxDelay later.                                                           *)
StoredAt(t) == t.expires - OA!Lifetime(t.said)

TokenInv ==
  token # None =>
    /\ token.made \in Nat /\ token.said \in Int /\ token.expires \in Int
    /\ token.made <= StoredAt(token) /\ StoredAt(token) <= token.made + MaxDelay /\ StoredAt(token) <= now

CallerInv(c) ==
  /\ stage[c] \in Holding <=> lock = c
  /\ stage[c] \in Fetching => token = None \/ OA!Expiring(token)
  /\ stage[c] = "made" => /\ answer[c].made \in Nat /\ answer[c].said \in Int
                          /\ answer[c].made <= now /\ now <= answer[c].made + MaxDelay

TokensInv ==
  /\ OA!ConstantsAssumption
  /\ now \in OA!Times
  /\ stage \in [Callers -> {"idle", "wait"} \union Holding] /\ DOMAIN answer = Callers
  /\ \A c \in Callers : answer[c] # None <=> stage[c] = "made"
  /\ TokenInv /\ (\A c \in Callers : CallerInv(c)) /\ OA!HandedOutIsAccepted

-----------------------------------------------------------------------------

LEMMA OAInitInv == OA!ConstantsAssumption /\ OA!Init => TokensInv
BY DEF OA!Init, TokensInv, OA!ConstantsAssumption, TokenInv, CallerInv, Holding, Fetching, OA!HandedOutIsAccepted, OA!Times

(* A token that is not expiring has not expired long ago for the server.     *)
LEMMA UsableIsAccepted ==
  ASSUME TokensInv, OA!Usable
  PROVE  /\ now + OA!Ahead < token.made + OA!Lifetime(token.said) + MaxDelay
         /\ MaxDelay <= OA!Ahead => now < token.made + token.said
<1>1. /\ token.made \in Nat /\ token.said \in Int /\ token.expires \in Int /\ now \in Nat
      /\ OA!Ahead \in Nat /\ MaxDelay \in Nat \ {0}
      /\ token.made <= StoredAt(token) /\ StoredAt(token) <= token.made + MaxDelay /\ StoredAt(token) <= now
  BY DEF TokensInv, TokenInv, OA!ConstantsAssumption, OA!Usable, OA!Times, OA!Ahead
<1>2. token.expires > now + OA!Ahead
  BY <1>1 DEF OA!Usable, OA!Expiring
<1> QED
  BY <1>1, <1>2 DEF StoredAt, OA!Lifetime

(* What a caller does changes its own stage and answer only: the others keep *)
(* what is known of them while the token stays, or while they do not fetch.  *)
LEMMA OAOthersKeep ==
  ASSUME TokensInv, NEW c \in Callers, NEW d \in Callers, d # c,
         stage'[d] = stage[d], answer'[d] = answer[d], now' = now,
         lock' = lock \/ (lock = None /\ lock' = c) \/ (lock = c /\ lock' = None),
         token' = token \/ lock = c
  PROVE  CallerInv(d)'
<1>1. CallerInv(d) /\ None \notin Callers
  BY DEF TokensInv, OA!ConstantsAssumption
<1>2. (stage'[d] \in Holding) <=> (lock' = d)
  BY <1>1 DEF CallerInv
<1>3. ASSUME stage'[d] \in Fetching PROVE token' = None \/ OA!Expiring(token)'
  BY <1>1, <1>3 DEF CallerInv, Fetching, Holding, OA!Expiring
<1>4. ASSUME stage'[d] = "made"
      PROVE  /\ answer'[d].made \in Nat /\ answer'[d].said \in Int
             /\ answer'[d].made <= now' /\ now' <= answer'[d].made + MaxDelay
  BY <1>1, <1>4 DEF CallerInv
<1> QED
  BY <1>2, <1>3, <1>4 DEF CallerInv

Quiet == UNCHANGED <<now, token, header>>

LEMMA QuietKeeps == TokensInv /\ Quiet => TokenInv' /\ OA!HandedOutIsAccepted' /\ now' \in OA!Times
BY DEF TokensInv, Quiet, TokenInv, OA!HandedOutIsAccepted, StoredAt, OA!Lifetime

LEMMA OANextInv == TokensInv /\ [OA!Next]_oaVars => TokensInv' /\ [OA!ReplaceStep]_oaVars
<1> SUFFICES ASSUME TokensInv, [OA!Next]_oaVars PROVE TokensInv' /\ (OA!ReplaceStep \/ UNCHANGED oaVars)
  OBVIOUS
<1>a. /\ now \in OA!Times /\ now \in Nat /\ OA!ConstantsAssumption
      /\ stage \in [Callers -> {"idle", "wait"} \union Holding] /\ DOMAIN answer = Callers
      /\ \A c \in Callers : answer[c] # None <=> stage[c] = "made"
      /\ TokenInv /\ (\A c \in Callers : CallerInv(c)) /\ OA!HandedOutIsAccepted
  BY DEF TokensInv, OA!Times
<1>n. None \notin Callers /\ None \notin OA!Answers /\ MaxDelay \in Nat \ {0} /\ Lifetimes \subseteq Int /\ OA!Ahead \in Nat
  BY <1>a DEF OA!ConstantsAssumption, OA!Ahead
<1>1. ASSUME NEW c \in Callers, OA!Ask(c) PROVE TokensInv' /\ OA!ReplaceStep
  <2>1. stage[c] = "idle" /\ UNCHANGED <<now, token, lock, answer>>
    BY <1>1 DEF OA!Ask
  <2>2. stage' = [stage EXCEPT ![c] = stage'[c]] /\ stage'[c] \in {"idle", "wait"}
    BY <1>1, <1>a DEF OA!Ask, OA!Goto
  <2>3. stage' \in [Callers -> {"idle", "wait"} \union Holding] /\ \A d \in Callers : d # c => stage'[d] = stage[d]
    BY <2>2, <1>a
  <2>4. TokenInv' /\ now' \in OA!Times
    BY <2>1, <1>a DEF TokenInv, StoredAt, OA!Lifetime
  <2>5. OA!HandedOutIsAccepted'
    <3>1. CASE OA!Usable
      <4>1. header' = [token |-> token, at |-> now, cached |-> TRUE]
        BY <1>1, <3>1 DEF OA!Ask, OA!Return
      <4> QED
        BY <4>1, <3>1, UsableIsAccepted DEF OA!HandedOutIsAccepted
    <3>2. CASE ~OA!Usable
      BY <1>1, <3>2, <1>a DEF OA!Ask, OA!HandedOutIsAccepted
    <3> QED
      BY <3>1, <3>2
  <2>6. CallerInv(c)'
    BY <2>1, <2>2, <1>a DEF CallerInv, Holding, Fetching
  <2>7. \A d \in Callers : d # c => CallerInv(d)'
    BY <2>1, <2>3, OAOthersKeep
  <2>8. (\A d \in Callers : answer[d] # None <=> stage[d] = "made")'
    BY <2>1, <2>2, <2>3, <1>a
  <2> QED
    BY <1>a, <2>1, <2>3, <2>4, <2>5, <2>6, <2>7, <2>8 DEF TokensInv, OA!ReplaceStep, OA!ConstantsAssumption
<1>2. ASSUME NEW c \in Callers, OA!Enter(c) PROVE TokensInv' /\ OA!ReplaceStep
  <2>1. stage[c] = "wait" /\ lock = None /\ lock' = c /\ UNCHANGED <<now, token, answer, header>>
    BY <1>2 DEF OA!Enter
  <2>2. stage' = [stage EXCEPT ![c] = "check"]
    BY <1>2 DEF OA!Enter, OA!Goto
  <2>3. /\ stage' \in [Callers -> {"idle", "wait"} \union Holding] /\ stage'[c] = "check"
        /\ \A d \in Callers : d # c => stage'[d] = stage[d]
    BY <2>2, <1>a DEF Holding
  <2>4. TokenInv' /\ OA!HandedOutIsAccepted' /\ now' \in OA!Times
    BY <2>1, QuietKeeps DEF Quiet
  <2>5. CallerInv(c)'
    BY <2>1, <2>3 DEF CallerInv, Holding, Fetching
  <2>6. \A d \in Callers : d # c => CallerInv(d)'
    BY <2>1, <2>3, OAOthersKeep
  <2>7. (\A d \in Callers : answer[d] # None <=> stage[d] = "made")'
    BY <2>1, <2>3, <1>a
  <2> QED
    BY <1>a, <2>1, <2>3, <2>4, <2>5, <2>6, <2>7 DEF TokensInv, OA!ReplaceStep, OA!ConstantsAssumption
<1>3. ASSUME NEW c \in Callers, OA!Look(c) PROVE TokensInv' /\ OA!ReplaceStep
  <2>1. stage[c] = "check" /\ lock = c /\ UNCHANGED <<now, token, answer>>
    BY <1>3, <1>a DEF OA!Look, CallerInv, Holding
  <2>2. CASE OA!Usable
    <3>1. /\ header' = [token |-> token, at |-> now, cached |-> TRUE]
          /\ lock' = None /\ stage' = [stage EXCEPT ![c] = "idle"]
      BY <1>3, <2>2 DEF OA!Look, OA!UsableStill, OA!Return, OA!Unlock, OA!Goto
    <3>2. /\ stage' \in [Callers -> {"idle", "wait"} \union Holding] /\ stage'[c] = "idle"
          /\ \A d \in Callers : d # c => stage'[d] = stage[d]
      BY <3>1, <1>a
    <3>3. OA!HandedOutIsAccepted'
      BY <3>1, <2>2, UsableIsAccepted DEF OA!HandedOutIsAccepted
    <3>4. TokenInv' /\ now' \in OA!Times
      BY <2>1, <1>a DEF TokenInv, StoredAt, OA!Lifetime
    <3>5. CallerInv(c)'
      BY <1>n, <3>1, <3>2 DEF CallerInv, Holding, Fetching
    <3>6. \A d \in Callers : d # c => CallerInv(d)'
      BY <2>1, <3>1, <3>2, OAOthersKeep
    <3>7. (\A d \in Callers : answer[d] # None <=> stage[d] = "made")'
      BY <2>1, <3>2, <1>a
    <3> QED
      BY <1>a, <2>1, <3>2, <3>3, <3>4, <3>5, <3>6, <3>7 DEF TokensInv, OA!ReplaceStep, OA!ConstantsAssumption
  <2>3. CASE ~OA!Usable
    <3>1. stage' = [stage EXCEPT ![c] = "post"] /\ UNCHANGED <<lock, header>>
      BY <1>3, <2>3 DEF OA!Look, OA!UsableStill, OA!Goto
    <3>2. /\ stage' \in [Callers -> {"idle", "wait"} \union Holding] /\ stage'[c] = "post"
          /\ \A d \in Callers : d # c => stage'[d] = stage[d]
      BY <3>1, <1>a DEF Holding, Fetching
    <3>3. TokenInv' /\ OA!HandedOutIsAccepted' /\ now' \in OA!Times
      BY <2>1, <3>1, QuietKeeps DEF Quiet
    <3>4. token = None \/ OA!Expiring(token)
      BY <2>3 DEF OA!Usable
    <3>5. token' = None \/ OA!Expiring(token)'
      BY <3>4, <2>1 DEF OA!Expiring
    <3>6. CallerInv(c)'
      BY <2>1, <3>1, <3>2, <3>5 DEF CallerInv, Holding, Fetching
    <3>7. \A d \in Callers : d # c => CallerInv(d)'
      BY <2>1, <3>1, <3>2, OAOthersKeep
    <3>8. (\A d \in Callers : answer[d] # None <=> stage[d] = "made")'
      BY <2>1, <3>2, <1>a
    <3> QED
      BY <1>a, <2>1, <3>2, <3>3, <3>6, <3>7, <3>8 DEF TokensInv, OA!ReplaceStep, OA!ConstantsAssumption
  <2> QED
    BY <2>2, <2>3
<1>4. ASSUME NEW c \in Callers, OA!Make(c) PROVE TokensInv' /\ OA!ReplaceStep
  <2>1. /\ stage[c] = "post" /\ lock = c /\ stage' = [stage EXCEPT ![c] = "made"]
        /\ UNCHANGED <<now, token, lock, header>> /\ (token = None \/ OA!Expiring(token))
    BY <1>4, <1>a DEF OA!Make, CallerInv, Holding, Fetching, OA!Goto
  <2>2. PICK n \in Lifetimes : answer' = [answer EXCEPT ![c] = [made |-> now, said |-> n]]
    BY <1>4 DEF OA!Make
  <2>3. /\ stage' \in [Callers -> {"idle", "wait"} \union Holding] /\ stage'[c] = "made"
        /\ \A d \in Callers : d # c => stage'[d] = stage[d] /\ answer'[d] = answer[d]
        /\ answer'[c] = [made |-> now, said |-> n] /\ DOMAIN answer' = Callers
    BY <2>1, <2>2, <1>a DEF Holding, Fetching
  <2>4. TokenInv' /\ OA!HandedOutIsAccepted' /\ now' \in OA!Times
    BY <2>1, QuietKeeps DEF Quiet
  <2>5. token' = None \/ OA!Expiring(token)'
    BY <2>1 DEF OA!Expiring
  <2>6. /\ answer'[c].made \in Nat /\ answer'[c].said \in Int
        /\ answer'[c].made <= now' /\ now' <= answer'[c].made + MaxDelay
    BY <2>1, <2>3, <1>a, <1>n
  <2>7. CallerInv(c)'
    BY <2>1, <2>3, <2>5, <2>6 DEF CallerInv, Holding, Fetching
  <2>8. \A d \in Callers : d # c => CallerInv(d)'
    BY <2>1, <2>3, OAOthersKeep
  <2>9. answer'[c] # None
    BY <2>3, <1>a, <1>n DEF OA!Answers
  <2>10. (\A d \in Callers : answer[d] # None <=> stage[d] = "made")'
    BY <2>3, <2>9, <1>a
  <2> QED
    BY <1>a, <2>1, <2>3, <2>4, <2>7, <2>8, <2>10 DEF TokensInv, OA!ReplaceStep, OA!ConstantsAssumption
<1>5. ASSUME NEW c \in Callers, OA!Store(c) PROVE TokensInv' /\ OA!ReplaceStep
  <2> DEFINE t == [made |-> answer[c].made, said |-> answer[c].said, expires |-> now + OA!Lifetime(answer[c].said)]
  <2>1. /\ stage[c] = "made" /\ lock = c /\ (token = None \/ OA!Expiring(token))
        /\ answer[c].made \in Nat /\ answer[c].said \in Int
        /\ answer[c].made <= now /\ now <= answer[c].made + MaxDelay
    BY <1>5, <1>a DEF OA!Store, CallerInv, Holding, Fetching
  <2>2. /\ token' = t /\ header' = [token |-> t, at |-> now, cached |-> FALSE] /\ lock' = None /\ now' = now
        /\ answer' = [answer EXCEPT ![c] = None] /\ stage' = [stage EXCEPT ![c] = "idle"]
    BY <1>5 DEF OA!Store, OA!Return, OA!Unlock, OA!Goto
  <2>3. /\ stage' \in [Callers -> {"idle", "wait"} \union Holding] /\ stage'[c] = "idle"
        /\ \A d \in Callers : d # c => stage'[d] = stage[d] /\ answer'[d] = answer[d]
        /\ answer'[c] = None /\ DOMAIN answer' = Callers
    BY <2>2, <1>a
  <2>4. OA!HandedOutIsAccepted'
    BY <2>2 DEF OA!HandedOutIsAccepted
  <2>5. /\ t.made = answer[c].made /\ t.said = answer[c].said
        /\ t.expires = now + OA!Lifetime(answer[c].said) /\ OA!Lifetime(answer[c].said) \in Int
    BY <2>1 DEF OA!Lifetime
  <2>6. TokenInv'
    <3> HIDE DEF t
    <3>1. StoredAt(t) = now /\ t.expires \in Int
      BY <2>5, <1>a DEF StoredAt
    <3> QED
      BY <3>1, <2>1, <2>2, <2>5, <1>a DEF TokenInv
  <2>7. CallerInv(c)'
    BY <1>n, <2>2, <2>3 DEF CallerInv, Holding, Fetching
  <2>8. \A d \in Callers : d # c => CallerInv(d)'
    BY <2>1, <2>2, <2>3, OAOthersKeep
  <2>9. (\A d \in Callers : answer[d] # None <=> stage[d] = "made")'
    BY <2>3, <1>a
  <2>10. OA!ReplaceStep
    BY <2>1 DEF OA!ReplaceStep
  <2> QED
    BY <1>a, <2>2, <2>3, <2>4, <2>6, <2>7, <2>8, <2>9, <2>10 DEF TokensInv, OA!ConstantsAssumption
<1>6. ASSUME NEW c \in Callers, OA!Fail(c) PROVE TokensInv' /\ OA!ReplaceStep
  <2>1. /\ lock = c /\ lock' = None /\ answer' = [answer EXCEPT ![c] = None]
        /\ stage' = [stage EXCEPT ![c] = "idle"] /\ UNCHANGED <<now, token, header>>
    BY <1>6, <1>a DEF OA!Fail, CallerInv, Holding, Fetching, OA!Goto, OA!Unlock
  <2>2. /\ stage' \in [Callers -> {"idle", "wait"} \union Holding] /\ stage'[c] = "idle"
        /\ \A d \in Callers : d # c => stage'[d] = stage[d] /\ answer'[d] = answer[d]
        /\ answer'[c] = None /\ DOMAIN answer' = Callers
    BY <2>1, <1>a
  <2>3. TokenInv' /\ OA!HandedOutIsAccepted' /\ now' \in OA!Times
    BY <2>1, QuietKeeps DEF Quiet
  <2>4. CallerInv(c)'
    BY <1>n, <2>1, <2>2 DEF CallerInv, Holding, Fetching
  <2>5. \A d \in Callers : d # c => CallerInv(d)'
    BY <2>1, <2>2, OAOthersKeep
  <2>6. (\A d \in Callers : answer[d] # None <=> stage[d] = "made")'
    BY <2>2, <1>a
  <2> QED
    BY <1>a, <2>1, <2>2, <2>3, <2>4, <2>5, <2>6 DEF TokensInv, OA!ReplaceStep, OA!ConstantsAssumption
<1>7. ASSUME OA!Tick PROVE TokensInv' /\ OA!ReplaceStep
  <2>1. /\ now' = now + 1 /\ UNCHANGED <<token, lock, stage, answer, header>>
        /\ \A c \in Callers : answer[c] # None => now < answer[c].made + MaxDelay
    BY <1>7 DEF OA!Tick
  <2>2. TokenInv' /\ OA!HandedOutIsAccepted' /\ now' \in OA!Times
    BY <2>1, <1>7, <1>a, <1>n DEF TokenInv, OA!HandedOutIsAccepted, StoredAt, OA!Lifetime, OA!Times, OA!Tick, OA!ConstantsAssumption
  <2>3. ASSUME NEW c \in Callers PROVE CallerInv(c)'
    <3>1. CallerInv(c) /\ (answer[c] # None <=> stage[c] = "made")
      BY <1>a
    <3>2. ASSUME stage'[c] \in Fetching PROVE token' = None \/ OA!Expiring(token)'
      <4>1. CASE token # None
        <5>1. token.expires \in Int /\ OA!Expiring(token)
          BY <3>1, <3>2, <4>1, <2>1, <1>a DEF CallerInv, TokenInv
        <5> QED
          BY <5>1, <2>1, <1>a, <1>n DEF OA!Expiring
      <4> QED
        BY <4>1, <2>1
    <3>3. ASSUME stage'[c] = "made"
          PROVE  /\ answer'[c].made \in Nat /\ answer'[c].said \in Int
                 /\ answer'[c].made <= now' /\ now' <= answer'[c].made + MaxDelay
      BY <3>1, <3>3, <2>1, <1>a, <1>n DEF CallerInv
    <3> QED
      BY <3>1, <3>2, <3>3, <2>1 DEF CallerInv
  <2> QED
    BY <1>a, <2>1, <2>2, <2>3 DEF TokensInv, OA!ReplaceStep, OA!ConstantsAssumption
<1>8. CASE UNCHANGED oaVars
  <2>1. UNCHANGED <<now, token, lock, stage, answer, header>>
    BY <1>8 DEF oaVars
  <2>2. TokenInv' /\ OA!HandedOutIsAccepted' /\ now' \in OA!Times
    BY <2>1, QuietKeeps DEF Quiet
  <2>3. \A c \in Callers : CallerInv(c)'
    BY <2>1, <1>a DEF CallerInv, OA!Expiring
  <2> QED
    BY <1>a, <1>8, <2>1, <2>2, <2>3 DEF TokensInv, OA!ConstantsAssumption
<1> QED
  BY <1>1, <1>2, <1>3, <1>4, <1>5, <1>6, <1>7, <1>8 DEF OA!Next


(* The types of the tokens and of what went out.                             *)
TokensTypes ==
  /\ token = None \/ token \in OA!Tokens
  /\ lock \in Callers \union {None}
  /\ header = None \/ header \in [token : OA!Tokens, at : OA!Times, cached : BOOLEAN]
  /\ \A c \in Callers : stage[c] = "made" => answer[c] \in OA!Answers

LEMMA HandedOutTyped ==
  ASSUME TokensInv, TokensTypes,
         header' = header \/ (token # None /\ header' = [token |-> token, at |-> now, cached |-> TRUE])
  PROVE  header' = None \/ header' \in [token : OA!Tokens, at : OA!Times, cached : BOOLEAN]
<1>1. CASE header' = header
  BY <1>1 DEF TokensTypes
<1>2. CASE token # None /\ header' = [token |-> token, at |-> now, cached |-> TRUE]
  BY <1>2 DEF TokensInv, TokensTypes
<1> QED
  BY <1>1, <1>2

LEMMA TokensTypesStep == TokensInv /\ TokensTypes /\ [OA!Next]_oaVars => TokensTypes'
<1> SUFFICES ASSUME TokensInv, TokensTypes, [OA!Next]_oaVars PROVE TokensTypes'
  OBVIOUS
<1>a. /\ now \in OA!Times /\ now \in Int /\ DOMAIN answer = Callers /\ DOMAIN stage = Callers
      /\ Lifetimes \subseteq Int
  BY DEF TokensInv, OA!Times, OA!ConstantsAssumption
<1> USE DEF TokensTypes
<1>1. ASSUME NEW c \in Callers, OA!Ask(c) PROVE TokensTypes'
  <2>1. header' = header \/ (token # None /\ header' = [token |-> token, at |-> now, cached |-> TRUE])
    BY <1>1 DEF OA!Ask, OA!Return, OA!Usable
  <2>2. UNCHANGED <<token, lock, answer>> /\ \A d \in Callers : stage'[d] = "made" => stage[d] = "made"
    BY <1>1, <1>a DEF OA!Ask, OA!Goto
  <2>3. header' = None \/ header' \in [token : OA!Tokens, at : OA!Times, cached : BOOLEAN]
    BY <2>1, HandedOutTyped
  <2> QED
    BY <2>2, <2>3
<1>2. ASSUME NEW c \in Callers, OA!Enter(c) PROVE TokensTypes'
  BY <1>2, <1>a DEF OA!Enter, OA!Goto
<1>3. ASSUME NEW c \in Callers, OA!Look(c) PROVE TokensTypes'
  <2>1. header' = header \/ (token # None /\ header' = [token |-> token, at |-> now, cached |-> TRUE])
    BY <1>3 DEF OA!Look, OA!Return, OA!Usable, OA!UsableStill
  <2>2. /\ UNCHANGED <<token, answer>> /\ lock' \in {lock, None}
        /\ \A d \in Callers : stage'[d] = "made" => stage[d] = "made"
    BY <1>3, <1>a DEF OA!Look, OA!Goto, OA!Unlock
  <2>3. header' = None \/ header' \in [token : OA!Tokens, at : OA!Times, cached : BOOLEAN]
    BY <2>1, HandedOutTyped
  <2> QED
    BY <2>2, <2>3
<1>4. ASSUME NEW c \in Callers, OA!Make(c) PROVE TokensTypes'
  BY <1>4, <1>a DEF OA!Make, OA!Goto, OA!Answers
<1>5. ASSUME NEW c \in Callers, OA!Store(c) PROVE TokensTypes'
  <2> DEFINE t == [made |-> answer[c].made, said |-> answer[c].said,
                   expires |-> now + OA!Lifetime(answer[c].said)]
  <2>1. answer[c] \in OA!Answers
    BY <1>5 DEF OA!Store
  <2>2. OA!Lifetime(answer[c].said) \in Int
    BY <1>a, <2>1 DEF OA!Answers, OA!Lifetime
  <2>3. t \in OA!Tokens
    BY <1>a, <2>1, <2>2 DEF OA!Answers, OA!Tokens
  <2> QED
    BY <1>5, <1>a, <2>3 DEF OA!Store, OA!Goto, OA!Return, OA!Unlock
<1>6. ASSUME NEW c \in Callers, OA!Fail(c) PROVE TokensTypes'
  BY <1>6, <1>a DEF OA!Fail, OA!Goto, OA!Unlock
<1>7. CASE OA!Tick \/ UNCHANGED oaVars
  BY <1>7 DEF OA!Tick, oaVars
<1> QED
  BY <1>1, <1>2, <1>3, <1>4, <1>5, <1>6, <1>7 DEF OA!Next

LEMMA TokensTypesInit == OA!ConstantsAssumption /\ OA!Init => TokensTypes
BY DEF OA!Init, TokensTypes

LEMMA TokensTyped == TokensInv /\ TokensTypes => TokensAreAccepted
BY DEF TokensInv, TokensTypes, TokensAreAccepted, OA!TypeOK, CallerInv, Holding, Fetching

-----------------------------------------------------------------------------
(* The cache of tools.                                                       *)

(* What is in the cache is as new as its time says, and what the loader has  *)
(* read as new as every edit that a load could notice.                       *)
CacheInv ==
  /\ TC!TypeOK /\ TC!ServedIsDue
  /\ loading # None /\ loading.read # None => edited <= loading.read /\ loading.read <= file
  /\ cache # None /\ configMtime # None =>
       configMtime <= file /\ (configMtime = file => edited <= cache)

LEMMA CacheBounds ==
  ASSUME TC!ConstantsAssumption
  PROVE  /\ MaxEdits \in Nat /\ MaxFaults \in Nat /\ None \notin Nat
         /\ None \notin [by : TC!Methods, read : Nat \union {None}]
BY DEF TC!ConstantsAssumption, TC!Methods

LEMMA CacheInitInv == TC!ConstantsAssumption /\ TC!Init => CacheInv
<1> SUFFICES ASSUME TC!ConstantsAssumption, TC!Init PROVE CacheInv
  OBVIOUS
<1>1. pools \in BOOLEAN
  BY DEF TC!Init
<1>2. /\ {file, edited} \subseteq TC!Versions /\ edited <= file /\ faults \in 0..MaxFaults
      /\ cache = None /\ configMtime = None /\ loading = None /\ served = None
  BY CacheBounds DEF TC!Init, TC!Versions
<1> QED
  BY <1>1, <1>2 DEF CacheInv, TC!TypeOK, TC!ServedIsDue

LEMMA CacheNextInv == TC!ConstantsAssumption /\ CacheInv /\ [TC!Next]_tcVars => CacheInv'
<1> SUFFICES ASSUME TC!ConstantsAssumption, CacheInv, [TC!Next]_tcVars PROVE CacheInv'
  OBVIOUS
<1>a. /\ MaxEdits \in Nat /\ MaxFaults \in Nat /\ None \notin Nat
      /\ None \notin [by : TC!Methods, read : Nat \union {None}]
  BY CacheBounds
<1> USE <1>a DEF CacheInv, TC!TypeOK, TC!ServedIsDue, TC!Versions, TC!fileVars
<1>1. CASE TC!Edit
  BY <1>1 DEF TC!Edit
<1>2. CASE TC!Load
  BY <1>2 DEF TC!Load
<1>3. CASE TC!LoadFails
  BY <1>3 DEF TC!LoadFails, TC!MayFail
<1>4. CASE TC!Reset
  BY <1>4 DEF TC!Reset, TC!Discard
<1>5. ASSUME NEW fault \in BOOLEAN, TC!Store(fault) PROVE CacheInv'
  <2>a. pools' \in BOOLEAN
    BY <1>5 DEF TC!Store
  <2>1. /\ UNCHANGED <<file, edited>> /\ loading # None /\ loading' = None
        /\ loading.read # None /\ cache' = loading.read /\ configMtime' \in {None, file}
        /\ faults' \in {faults, faults + 1} /\ (faults' # faults => faults < MaxFaults)
    BY <1>5 DEF TC!Store, TC!MayFail, TC!Mtime
  <2>2. CASE served' = served
    BY <2>a, <2>1, <2>2
  <2>3. CASE served' = [tools |-> loading.read, due |-> edited, sure |-> TRUE]
    BY <2>a, <2>1, <2>3
  <2> QED
    BY <1>5, <2>2, <2>3 DEF TC!Store
<1>6. ASSUME NEW fault \in BOOLEAN, NEW m \in TC!Methods, TC!Ask(m, fault) PROVE CacheInv'
  <2> DEFINE stale == m = "GetCached" /\ cache # None /\ TC!Stale(TC!Mtime(fault))
  <2>1. /\ UNCHANGED <<file, edited>> /\ loading = None
        /\ faults' \in {faults, faults + 1} /\ (faults' # faults => faults < MaxFaults)
    BY <1>6 DEF TC!Ask, TC!MayFail
  <2>2. CASE cache # None /\ ~stale
    <3>1. /\ UNCHANGED <<cache, configMtime, loading, pools>>
      BY <1>6, <2>2 DEF TC!Ask
    <3>2. CASE served' = served
      BY <2>1, <3>1, <3>2
    <3>3. ASSUME m = "GetCached", NEW sure \in BOOLEAN, sure = (configMtime # None /\ ~fault),
                 served' = [tools |-> cache, due |-> edited, sure |-> sure]
          PROVE  CacheInv'
      <4>1. ~fault => ~TC!Stale(file)
        BY <2>2, <3>3 DEF TC!Mtime
      <4>2. configMtime # None /\ ~TC!Stale(file) => edited <= cache
        BY <2>2 DEF TC!Stale
      <4>3. sure => edited <= cache
        BY <3>3, <4>1, <4>2
      <4> QED
        BY <2>1, <2>2, <3>1, <3>3, <4>3
    <3>4. (configMtime # None /\ ~fault) \in BOOLEAN
      OBVIOUS
    <3> QED
      BY <1>6, <2>2, <3>2, <3>3, <3>4 DEF TC!Ask
  <2>3. CASE cache = None \/ stale
    <3>1. /\ loading' = [by |-> m, read |-> None] /\ served' = served
          /\ cache' = None /\ configMtime' = None /\ pools' \in BOOLEAN
      <4>1. CASE stale
        BY <1>6, <4>1 DEF TC!Ask, TC!Discard
      <4>2. CASE cache = None /\ ~stale
        BY <1>6, <4>2 DEF TC!Ask
      <4> QED
        BY <2>3, <4>1, <4>2
    <3>2. loading' \in [by : TC!Methods, read : Nat \union {None}]
      BY <3>1
    <3> QED
      BY <2>1, <3>1, <3>2
  <2> QED
    BY <2>2, <2>3
<1>7. CASE UNCHANGED tcVars
  BY <1>7 DEF tcVars
<1> QED
  BY <1>1, <1>2, <1>3, <1>4, <1>5, <1>6, <1>7 DEF TC!Next

-----------------------------------------------------------------------------
(* Selections, and the other lists that a search makes.                      *)

LEMMA UpToIsFinite ==
  ASSUME NEW n \in Nat
  PROVE  IsFiniteSet(1..n) /\ Cardinality(1..n) = n
BY FS_Interval

(* The indices of a finite set are numbered from 1 on.                       *)
LEMMA RankNumbers ==
  ASSUME NEW I \in SUBSET Nat, IsFiniteSet(I)
  PROVE  /\ Cardinality(I) \in Nat
         /\ \A i \in I : Rank(I, i) \in 1..Cardinality(I)
         /\ \A i, j \in I : Rank(I, i) = Rank(I, j) => i = j
         /\ \A k \in 1..Cardinality(I) : \E i \in I : Rank(I, i) = k
         /\ \A i, j \in I : i < j => Rank(I, i) < Rank(I, j)
<1> DEFINE Upto(i) == {j \in I : j <= i}
<1>1. \A i : /\ IsFiniteSet(Upto(i)) /\ Cardinality(Upto(i)) \in Nat
             /\ Cardinality(Upto(i)) <= Cardinality(I)
  <2> TAKE i
  <2>1. Upto(i) \in SUBSET I
    OBVIOUS
  <2> QED
    BY <2>1, FS_Subset, FS_CardinalityType
<1>2. Cardinality(I) \in Nat /\ IsFiniteSet(1..Cardinality(I)) /\ Cardinality(1..Cardinality(I)) = Cardinality(I)
  BY FS_CardinalityType, UpToIsFinite
<1>3. \A i \in I : Cardinality(Upto(i)) \in 1..Cardinality(I)
  <2> TAKE i \in I
  <2>1. Cardinality(Upto(i)) # 0
    <3>1. i \in Upto(i)
      OBVIOUS
    <3> QED
      BY <1>1, <3>1, FS_EmptySet
  <2>2. PICK x : x = Cardinality(Upto(i))
    OBVIOUS
  <2>3. PICK y : y = Cardinality(I)
    OBVIOUS
  <2>4. x \in Nat /\ y \in Nat /\ x <= y /\ x # 0
    BY <1>1, <1>2, <2>1, <2>2, <2>3
  <2>5. x \in 1..y
    BY <2>4
  <2> QED
    BY <2>2, <2>3, <2>5
<1>4. ASSUME NEW i \in I, NEW j \in I, i < j PROVE Cardinality(Upto(i)) < Cardinality(Upto(j))
  <2>1. Upto(i) \in SUBSET Upto(j) /\ j \in Upto(j) /\ j \notin Upto(i)
    <3>1. i \in Nat /\ j \in Nat /\ \A m \in I : m \in Nat
      OBVIOUS
    <3>2. \A m \in I : m <= i => m <= j
      BY <1>4, <3>1
    <3>3. j \in Upto(j) /\ j \notin Upto(i)
      BY <1>4, <3>1
    <3> QED
      BY <3>2, <3>3
  <2>2. Cardinality(Upto(i)) <= Cardinality(Upto(j)) /\ Cardinality(Upto(i)) # Cardinality(Upto(j))
    BY <1>1, <2>1, FS_Subset
  <2> QED
    BY <1>1, <2>2
<1>5. \A i, j \in I : Cardinality(Upto(i)) = Cardinality(Upto(j)) => i = j
  BY <1>1, <1>4
<1> DEFINE f == [i \in I |-> Cardinality(Upto(i))]
<1>6. f \in Injection(I, 1..Cardinality(I))
  BY <1>3, <1>5 DEF Injection, IsInjective
<1>7. f \in Surjection(I, 1..Cardinality(I))
  BY <1>2, <1>6, FS_Injection
<1>8. \A k \in 1..Cardinality(I) : \E i \in I : f[i] = k
  BY <1>7 DEF Surjection
<1> QED
  BY <1>2, <1>3, <1>4, <1>5, <1>8 DEF Rank

LEMMA SelectionIsThere ==
  ASSUME NEW S, NEW s \in Seq(S), NEW I \in SUBSET (1..Len(s))
  PROVE  /\ Selection(s, I) \in Seq(S) 
         /\ DT!Range(Selection(s, I)) = {s[i] : i \in I}
<1> DEFINE at(k) == CHOOSE i \in I : Rank(I, i) = k
           n == Cardinality(I)
<1>1. Len(s) \in Nat /\ IsFiniteSet(I) /\ I \in SUBSET Nat /\ n <= Len(s)
  <2>1. Len(s) \in Nat
    BY LenProperties
  <2>2. IsFiniteSet(1..Len(s)) /\ Cardinality(1..Len(s)) = Len(s)
    BY <2>1, UpToIsFinite
  <2>3. IsFiniteSet(I) /\ Cardinality(I) <= Cardinality(1..Len(s)) /\ Cardinality(I) \in Nat
    BY <2>2, FS_Subset, FS_CardinalityType
  <2> QED
    BY <2>1, <2>2, <2>3
<1>2. n \in Nat /\ \A k \in 1..n : at(k) \in I /\ Rank(I, at(k)) = k
  BY <1>1, RankNumbers
<1>3. \A i \in I : Rank(I, i) \in 1..n /\ at(Rank(I, i)) = i
  BY <1>1, <1>2, RankNumbers
<1>4. \A i \in I : s[i] \in S
  BY ElementOfSeq
<1>5. Selection(s, I) = [k \in 1..n |-> s[at(k)]]
  BY DEF Selection
<1> HIDE DEF at, n
<1>6. Selection(s, I) \in [1..n -> S]
  BY <1>2, <1>4, <1>5
<1>7. Selection(s, I) \in Seq(S)
  BY <1>2, <1>6, SeqDef
<1>8. Len(Selection(s, I)) = n
  BY <1>2, <1>6, <1>7, LenProperties
<1>9. DOMAIN Selection(s, I) = 1..n
  BY <1>5
<1>10. \A k \in 1..n : Selection(s, I)[k] = s[at(k)]
  BY <1>5
<1>11. DT!Range(Selection(s, I)) = {Selection(s, I)[k] : k \in 1..n}
  BY <1>9 DEF DT!Range
<1>12. DT!Range(Selection(s, I)) \subseteq {s[i] : i \in I}
  BY <1>2, <1>10, <1>11
<1>13. ASSUME NEW i \in I PROVE s[i] \in DT!Range(Selection(s, I))
  <2>1. Rank(I, i) \in 1..n /\ at(Rank(I, i)) = i
    BY <1>3
  <2>2. Selection(s, I)[Rank(I, i)] = s[i]
    BY <1>10, <2>1
  <2> QED
    BY <1>11, <2>1, <2>2
<1> QED
  BY <1>7, <1>12, <1>13

(* The parts count and select by instances of the same definitions.          *)
LEMMA SameCardinality == \A S : DT!Cardinality(S) = Cardinality(S) /\ RR!Cardinality(S) = Cardinality(S)
BY DEF DT!Cardinality, RR!Cardinality, Cardinality

LEMMA SameSelection == \A s, I : DT!Selection(s, I) = Selection(s, I)
<1>1. \A I, i : DT!Rank(I, i) = Rank(I, i)
  BY SameCardinality DEF DT!Rank, Rank
<1>2. \A I, k : (CHOOSE i \in I : DT!Rank(I, i) = k) = (CHOOSE i \in I : Rank(I, i) = k)
  BY <1>1
<1>3. ASSUME NEW s, NEW I
      PROVE  DT!Selection(s, I) = [k \in 1..Cardinality(I) |-> s[CHOOSE i \in I : Rank(I, i) = k]]
  <2>1. DT!Selection(s, I) = [k \in 1..DT!Cardinality(I) |-> s[CHOOSE i \in I : DT!Rank(I, i) = k]]
    BY DEF DT!Selection
  <2>2. DT!Cardinality(I) = Cardinality(I)
    BY SameCardinality
  <2> DEFINE inst(k) == CHOOSE i \in I : DT!Rank(I, i) = k
             here(k) == CHOOSE i \in I : Rank(I, i) = k
  <2>3. \A k : inst(k) = here(k)
    BY <1>2
  <2> SUFFICES [k \in 1..DT!Cardinality(I) |-> s[inst(k)]] = [k \in 1..Cardinality(I) |-> s[here(k)]]
    BY <2>1
  <2> HIDE DEF inst, here
  <2> QED
    BY <2>1, <2>2, <2>3
<1> QED
  BY <1>3 DEF Selection

LEMMA RangeProperties ==
  ASSUME NEW S, NEW s \in Seq(S)
  PROVE  /\ Len(s) \in Nat /\ DOMAIN s = 1..Len(s)
         /\ DT!Range(s) = {s[i] : i \in 1..Len(s)} /\ DT!Range(s) \subseteq S
<1>1. Len(s) \in Nat /\ DOMAIN s = 1..Len(s) /\ \A i \in 1..Len(s) : s[i] \in S
  BY LenProperties, ElementOfSeq
<1> QED
  BY <1>1 DEF DT!Range

(* The elements of a list that are wanted.                                   *)
LEMMA WantedOf ==
  ASSUME NEW S, NEW s \in Seq(S), NEW I \in SUBSET DOMAIN s
  PROVE  /\ DT!Selection(s, I) \in Seq(S)
         /\ DT!Range(DT!Selection(s, I)) = {s[i] : i \in I}
         /\ DT!Range(DT!Selection(s, I)) \subseteq DT!Range(s)
<1>1. DOMAIN s = 1..Len(s) /\ DT!Range(s) = {s[i] : i \in 1..Len(s)}
  BY RangeProperties
<1>2. DT!Selection(s, I) \in Seq(S) /\ DT!Range(DT!Selection(s, I)) = {s[i] : i \in I}
  BY <1>1, SelectionIsThere, SameSelection
<1> QED
  BY <1>1, <1>2

LEMMA RangeOfConcat ==
  ASSUME NEW S, NEW s \in Seq(S), NEW t \in Seq(S)
  PROVE  s \o t \in Seq(S) /\ DT!Range(s \o t) \subseteq DT!Range(s) \union DT!Range(t)
<1>1. /\ s \o t \in Seq(S) /\ Len(s \o t) = Len(s) + Len(t)
      /\ \A i \in 1..(Len(s) + Len(t)) : (s \o t)[i] = IF i <= Len(s) THEN s[i] ELSE t[i - Len(s)]
  BY ConcatProperties
<1>2. /\ Len(s) \in Nat /\ DT!Range(s) = {s[i] : i \in 1..Len(s)}
      /\ Len(t) \in Nat /\ DT!Range(t) = {t[i] : i \in 1..Len(t)}
      /\ DT!Range(s \o t) = {(s \o t)[i] : i \in 1..Len(s \o t)}
  BY <1>1, RangeProperties
<1>3. ASSUME NEW i \in 1..(Len(s) + Len(t)) PROVE (s \o t)[i] \in DT!Range(s) \union DT!Range(t)
  <2>1. CASE i <= Len(s)
    BY <1>1, <1>2, <2>1
  <2>2. CASE ~(i <= Len(s))
    <3>1. i - Len(s) \in 1..Len(t)
      BY <1>2, <2>2
    <3> QED
      BY <1>1, <1>2, <2>2, <3>1
  <2> QED
    BY <2>1, <2>2
<1> QED
  BY <1>1, <1>2, <1>3

(* The first n elements have at most n names.                                *)
LEMMA FirstNames ==
  ASSUME NEW S, NEW s \in Seq(S), NEW n \in Nat
  PROVE  /\ DT!NamesOf(DT!First(n, s)) \subseteq DT!NamesOf(s)
         /\ Cardinality(DT!NamesOf(DT!First(n, s))) <= n
<1> DEFINE m == IF Len(s) < n THEN Len(s) ELSE n
           f == SubSeq(s, 1, m)
<1>1. Len(s) \in Nat /\ DT!Range(s) = {s[i] : i \in 1..Len(s)}
  BY RangeProperties
<1>2. m \in 0..Len(s) /\ m <= n /\ m \in Nat
  BY <1>1
<1>3. DT!First(n, s) = f
  BY DEF DT!First
<1> HIDE DEF m
<1>4. f \in Seq(S) /\ Len(f) = m /\ \A i \in 1..m : f[i] = s[i]
  <2>1. f \in Seq(S)
    BY <1>1, <1>2, SubSeqProperties
  <2>2. Len(f) = m
    BY <1>1, <1>2, SubSeqProperties
  <2>3. \A i \in 1..Len(f) : f[i] = s[1 + i - 1]
    BY <1>1, <1>2, SubSeqProperties
  <2> QED
    BY <1>2, <2>1, <2>2, <2>3
<1> HIDE DEF f
<1>5. DT!Range(f) = {f[i] : i \in 1..m}
  BY <1>4, RangeProperties
<1> DEFINE N == DT!NamesOf(f)
           g == [i \in 1..m |-> f[i].name]
<1>6. N = {f[i].name : i \in 1..m}
  BY <1>5 DEF DT!NamesOf
<1>7. N \subseteq DT!NamesOf(s)
  <2>1. \A i \in 1..m : i \in 1..Len(s) /\ f[i].name = s[i].name
    BY <1>1, <1>2, <1>4
  <2>2. \A i \in 1..Len(s) : s[i].name \in DT!NamesOf(s)
    BY <1>1 DEF DT!NamesOf
  <2> HIDE DEF N
  <2> QED
    BY <1>6, <2>1, <2>2
<1>8. g \in Surjection(1..m, N)
  BY <1>6 DEF Surjection
<1> HIDE DEF N, g
<1>9. IsFiniteSet(1..m) /\ Cardinality(1..m) = m
  BY <1>2, UpToIsFinite
<1>10. IsFiniteSet(N) /\ Cardinality(N) <= m
  BY <1>8, <1>9, FS_Surjection
<1>11. Cardinality(N) \in Nat
  BY <1>10, FS_CardinalityType
<1> QED
  BY <1>2, <1>3, <1>7, <1>10, <1>11 DEF N

LEMMA MatchingIsOfTheCatalog ==
  ASSUME DT!ConstantsAssumption, NEW list \in ToolLists, NEW q \in Queries
  PROVE  /\ DT!Catalog(list) \in Seq(DT!Range(list)) 
         /\ DT!Matching(list, q) \in Seq(DT!Range(list))
         /\ DT!Range(DT!Matching(list, q)) \subseteq DT!Range(DT!Catalog(list))
<1> DEFINE S == DT!Range(list)
           all == DT!Catalog(list)
           Of(s) == s \in Seq(S) /\ DT!Range(s) \subseteq DT!Range(all)
<1>1. all \in Seq(S)
  <2>1. list \in Seq(S)
    BY DEF DT!ConstantsAssumption
  <2>2. {i \in DOMAIN list : list[i].mcp} \in SUBSET DOMAIN list
    OBVIOUS
  <2> QED
    BY <2>1, <2>2, WantedOf DEF DT!Catalog
<1> HIDE DEF S, all
<1>2. Of(all)
  BY <1>1
<1>3. ASSUME NEW s, Of(s), NEW I \in SUBSET DOMAIN s PROVE Of(DT!Selection(s, I))
  BY <1>3, WantedOf
<1>4. ASSUME NEW s, Of(s), NEW t, Of(t) PROVE Of(s \o t)
  BY <1>4, RangeOfConcat
<1> HIDE DEF Of
<1> DEFINE Named(w) == DT!Selection(all, {i \in DOMAIN all : w \in all[i].words})
<1>5. \A w : Of(Named(w))
  <2> TAKE w
  <2>1. {i \in DOMAIN all : w \in all[i].words} \in SUBSET DOMAIN all
    OBVIOUS
  <2> QED
    BY <1>2, <1>3, <2>1
<1>6. ASSUME NEW s, Of(s), NEW w PROVE Of(DT!Ranked(s, w))
  <2> DEFINE With(n) == DT!Selection(s, {i \in DOMAIN s : DT!Hits(w, s[i]) = n})
  <2>1. \A n : Of(With(n))
    <3> TAKE n
    <3>1. {i \in DOMAIN s : DT!Hits(w, s[i]) = n} \in SUBSET DOMAIN s
      OBVIOUS
    <3> QED
      BY <1>3, <1>6, <3>1
  <2>2. DT!Ranked(s, w) = With(2) \o With(1) \o With(0)
    BY DEF DT!Ranked
  <2> HIDE DEF With
  <2>3. Of(With(2) \o With(1))
    BY <1>4, <2>1
  <2> QED
    BY <1>4, <2>1, <2>2, <2>3
<1> DEFINE Chosen == DT!Selection(all, {i \in DOMAIN all : all[i].name \in DT!Range(q.words)})
           Texts == DT!Selection(all, {i \in DOMAIN all : q.words[1] \in all[i].text \ all[i].words})
<1>7. Of(Chosen) /\ Of(Texts)
  <2>1. {i \in DOMAIN all : all[i].name \in DT!Range(q.words)} \in SUBSET DOMAIN all
    OBVIOUS
  <2>2. {i \in DOMAIN all : q.words[1] \in all[i].text \ all[i].words} \in SUBSET DOMAIN all
    OBVIOUS
  <2> QED
    BY <1>2, <1>3, <2>1, <2>2
<1>8. DT!Matching(list, q) =
        CASE q.form = "select"  -> Chosen
          [] q.form = "require" -> IF Len(q.words) = 1 THEN Named(q.words[1]) ELSE DT!Ranked(Named(q.words[1]), q.words[2])
          [] q.form = "match"   -> Named(q.words[1]) \o Texts
  BY DEF DT!Matching, all
<1> HIDE DEF Named, Chosen, Texts
<1>9. q.form \in {"select", "require", "match"}
  BY DEF DT!ConstantsAssumption
<1>10. Of(DT!Matching(list, q))
  <2>1. CASE q.form = "select"
    <3>1. DT!Matching(list, q) = Chosen
      BY <1>8, <2>1
    <3> QED
      BY <1>7, <3>1
  <2>2. CASE q.form = "require" /\ Len(q.words) = 1
    <3>1. DT!Matching(list, q) = Named(q.words[1])
      BY <1>8, <2>2
    <3> QED
      BY <1>5, <3>1
  <2>3. CASE q.form = "require" /\ Len(q.words) # 1
    <3>1. DT!Matching(list, q) = DT!Ranked(Named(q.words[1]), q.words[2])
      BY <1>8, <2>3
    <3> QED
      BY <1>5, <1>6, <3>1
  <2>4. CASE q.form = "match"
    <3>1. DT!Matching(list, q) = Named(q.words[1]) \o Texts
      BY <1>8, <2>4
    <3> QED
      BY <1>4, <1>5, <1>7, <3>1
  <2> QED
    BY <1>9, <2>1, <2>2, <2>3, <2>4
<1> QED
  BY <1>1, <1>10 DEF Of, S, all

LEMMA SearchIsBounded ==
  ASSUME DT!ConstantsAssumption, NEW list \in ToolLists, NEW q \in Queries
  PROVE  DT!Search(list, q) \subseteq DT!Deferred(list) /\ DT!Cardinality(DT!Search(list, q)) <= MaxResults
<1>1. MaxResults \in Nat
  BY DEF DT!ConstantsAssumption
<1> DEFINE s == DT!Matching(list, q)
<1>2. s \in Seq(DT!Range(list)) /\ DT!Range(s) \subseteq DT!Range(DT!Catalog(list))
  BY MatchingIsOfTheCatalog
<1>3. DT!NamesOf(s) \subseteq DT!Deferred(list)
  BY <1>2 DEF DT!NamesOf, DT!Deferred
<1>4. DT!Search(list, q) = DT!NamesOf(DT!First(MaxResults, s))
  BY DEF DT!Search
<1> HIDE DEF s
<1> QED
  BY <1>1, <1>2, <1>3, <1>4, FirstNames, SameCardinality

-----------------------------------------------------------------------------
(* What the thread remembers and the searches told.                          *)

FoundSoFar(p) == p # None => {p.hash} \X p.names \subseteq told

SearchInv ==
  /\ DT!TypeOK /\ DOMAIN found = Searches
  /\ FoundSoFar(last) /\ FoundSoFar(promoted)
  /\ \A c \in Searches : found[c] # None => last # None /\ (c \notin overtaken => last.names = found[c])
  /\ \A p \in owed : promoted # None /\ promoted.hash = p[1] /\ p[2] \in promoted.names

LEMMA SearchInitInv == ASSUME DT!ConstantsAssumption PROVE DT!Init => SearchInv
BY DEF DT!Init, SearchInv, DT!TypeOK, FoundSoFar

LEMMA SearchBuildInv ==
  ASSUME NEW list \in ToolLists, SearchInv, DT!Build(list)
  PROVE  SearchInv'
<1>1. /\ \A c \in Searches : found[c] = None
      /\ tools' = list /\ last' = None
      /\ UNCHANGED <<promoted, found, overtaken, told, owed>>
  BY DEF DT!Build
<1>2. DT!TypeOK'
  BY <1>1 DEF SearchInv, DT!TypeOK, DT!Promotions
<1> QED
  BY <1>1, <1>2 DEF SearchInv, FoundSoFar

LEMMA SearchRunInv ==
  ASSUME DT!ConstantsAssumption, NEW c \in Searches, NEW q \in Queries, SearchInv, DT!Run(c, q)
  PROVE  SearchInv'
<1> DEFINE names == DT!Search(tools, q)
           hash == DT!Hash(tools)
<1>1. /\ found[c] = None
      /\ last' = [hash |-> hash, names |-> names]
      /\ found' = [found EXCEPT ![c] = names]
      /\ told' = told \union ({hash} \X names)
      /\ overtaken' = {d \in Searches : found[d] # None}
      /\ UNCHANGED <<tools, promoted, owed>>
  BY DEF DT!Run
<1>2. tools \in ToolLists
  BY DEF SearchInv, DT!TypeOK
<1>3. names \subseteq DT!Deferred(tools) /\ DT!Cardinality(names) <= MaxResults
  BY <1>2, SearchIsBounded
<1>4. last' \in DT!Promotions /\ hash = DT!Hash(tools)'
  <2>1. hash \in {DT!Hash(l) : l \in ToolLists} /\ names \in SUBSET UNION {DT!Deferred(l) : l \in ToolLists}
    BY <1>2, <1>3
  <2>2. last' \in DT!Promotions
    <3> HIDE DEF names, hash
    <3> QED
      BY <1>1, <2>1 DEF DT!Promotions
  <2>3. hash = DT!Hash(tools)'
    BY <1>1 DEF DT!Hash, DT!Catalog, DT!Range
  <2> QED
    BY <2>2, <2>3
<1>5. DT!Deferred(tools)' = DT!Deferred(tools)
  BY <1>1 DEF DT!Deferred, DT!Catalog, DT!Range, DT!NamesOf
<1> HIDE DEF names, hash
<1>6. last' # None /\ last'.hash = hash /\ last'.names = names
  BY <1>1, <1>4 DEF DT!ConstantsAssumption
<1>7. /\ DOMAIN found' = Searches /\ found'[c] = names
      /\ \A d \in Searches \ {c} : found'[d] = found[d]
  BY <1>1 DEF SearchInv
<1>8. DT!TypeOK'
  <2>1. tools' \in ToolLists /\ last' \in DT!Promotions \union {None}
    BY <1>1, <1>2, <1>4
  <2>2. promoted' \in DT!Promotions \union {None} /\ (promoted' # None => promoted'.names # {})
    BY <1>1 DEF SearchInv, DT!TypeOK
  <2>3. ASSUME NEW d \in Searches, found'[d] # None
        PROVE  found'[d] \subseteq DT!Deferred(tools) /\ DT!Cardinality(found'[d]) <= MaxResults
    <3>1. CASE d = c
      BY <1>3, <1>7, <3>1
    <3>2. CASE d # c
      BY <1>7, <2>3, <3>2 DEF SearchInv, DT!TypeOK
    <3> QED
      BY <3>1, <3>2
  <2>4. overtaken' \subseteq {d \in Searches : found'[d] # None}
    BY <1>1, <1>7
  <2>5. last'.hash = DT!Hash(tools)' /\ last'.names \subseteq DT!Deferred(tools)'
    BY <1>3, <1>4, <1>5, <1>6
  <2> QED
    BY <1>5, <2>1, <2>2, <2>3, <2>4, <2>5 DEF DT!TypeOK
<1>9. FoundSoFar(last)'
  BY <1>1, <1>6 DEF FoundSoFar
<1>10. FoundSoFar(promoted)'
  BY <1>1 DEF FoundSoFar, SearchInv
<1>11. \A d \in Searches : found'[d] # None => last' # None /\ (d \notin overtaken' => last'.names = found'[d])
  BY <1>1, <1>6, <1>7
<1>12. \A p \in owed' : promoted' # None /\ promoted'.hash = p[1] /\ p[2] \in promoted'.names
  BY <1>1 DEF SearchInv
<1> QED
  BY <1>7, <1>8, <1>9, <1>10, <1>11, <1>12 DEF SearchInv

LEMMA SearchPromoteInv ==
  ASSUME DT!ConstantsAssumption, NEW c \in Searches, SearchInv, DT!Promote(c)
  PROVE  SearchInv'
<1>1. /\ found[c] # None /\ promoted' = DT!Merge(promoted, last)
      /\ owed' = {p \in owed : p[1] = DT!Hash(tools) \/ last.names = {}}
                   \union (IF c \in overtaken THEN {} ELSE {DT!Hash(tools)} \X found[c])
      /\ found' = [found EXCEPT ![c] = None] /\ overtaken' = overtaken \ {c}
      /\ UNCHANGED <<tools, last, told>>
  BY DEF DT!Promote
<1> DEFINE hash == DT!Hash(tools)
<1>2. /\ last # None /\ last \in DT!Promotions /\ last.hash = hash
      /\ c \notin overtaken => found[c] = last.names
      /\ {last.hash} \X last.names \subseteq told
  BY <1>1 DEF SearchInv, DT!TypeOK, FoundSoFar
<1>3. /\ promoted \in DT!Promotions \union {None} /\ (promoted # None => promoted.names # {})
      /\ (promoted # None => {promoted.hash} \X promoted.names \subseteq told)
  BY DEF SearchInv, DT!TypeOK, FoundSoFar
<1>4. /\ promoted' \in DT!Promotions \union {None} /\ (promoted' # None => promoted'.names # {})
      /\ (promoted' # None => {promoted'.hash} \X promoted'.names \subseteq told)
      /\ last.names # {} => promoted' # None /\ promoted'.hash = hash /\ last.names \subseteq promoted'.names
      /\ last.names # {} /\ promoted # None /\ promoted.hash = hash => promoted.names \subseteq promoted'.names
      /\ last.names = {} => promoted' = promoted
  <2> HIDE DEF hash
  <2>1. CASE last.names = {}
    <3>1. promoted' = promoted
      BY <1>1, <2>1 DEF DT!Merge
    <3> QED
      BY <1>3, <2>1, <3>1
  <2>2. CASE last.names # {} /\ (promoted = None \/ promoted.hash # last.hash)
    <3>1. promoted' = last
      BY <1>1, <1>2, <2>2 DEF DT!Merge
    <3> QED
      BY <1>2, <2>2, <3>1
  <2>3. CASE last.names # {} /\ promoted # None /\ promoted.hash = last.hash
    <3>1. promoted' = [promoted EXCEPT !.names = promoted.names \union last.names]
      BY <1>1, <1>2, <2>3 DEF DT!Merge
    <3>2. /\ promoted \in DT!Promotions /\ promoted' \in DT!Promotions
          /\ promoted'.hash = promoted.hash /\ promoted'.names = promoted.names \union last.names
      BY <1>2, <1>3, <2>3, <3>1 DEF DT!Promotions
    <3>3. promoted' # None
      BY <3>2 DEF DT!ConstantsAssumption
    <3> QED
      BY <1>2, <1>3, <2>3, <3>2, <3>3
  <2> QED
    BY <2>1, <2>2, <2>3
<1>5. /\ DOMAIN found' = Searches /\ found'[c] = None
      /\ \A d \in Searches \ {c} : found'[d] = found[d]
  BY <1>1 DEF SearchInv
<1>6. DT!Deferred(tools)' = DT!Deferred(tools) /\ DT!Hash(tools)' = DT!Hash(tools)
  BY <1>1 DEF DT!Deferred, DT!Catalog, DT!Range, DT!NamesOf, DT!Hash
<1>7. DT!TypeOK'
  <2>1. tools' \in ToolLists /\ last' \in DT!Promotions \union {None}
    BY <1>1, <1>2 DEF SearchInv, DT!TypeOK
  <2>2. \A d \in Searches : found'[d] # None => found'[d] \subseteq DT!Deferred(tools) /\ DT!Cardinality(found'[d]) <= MaxResults
    BY <1>5 DEF SearchInv, DT!TypeOK
  <2>3. overtaken' \subseteq {d \in Searches : found'[d] # None}
    BY <1>1, <1>5 DEF SearchInv, DT!TypeOK
  <2>4. last'.hash = DT!Hash(tools)' /\ last'.names \subseteq DT!Deferred(tools)'
    BY <1>1, <1>2, <1>6 DEF SearchInv, DT!TypeOK
  <2> QED
    BY <1>4, <1>6, <2>1, <2>2, <2>3, <2>4 DEF DT!TypeOK
<1>8. FoundSoFar(last)' /\ FoundSoFar(promoted)'
  BY <1>1, <1>2, <1>4 DEF FoundSoFar
<1>9. \A d \in Searches : found'[d] # None => last' # None /\ (d \notin overtaken' => last'.names = found'[d])
  BY <1>1, <1>2, <1>5 DEF SearchInv
<1>10. ASSUME NEW p \in owed'
       PROVE  promoted' # None /\ promoted'.hash = p[1] /\ p[2] \in promoted'.names
  <2>1. CASE p \in owed /\ last.names = {}
    BY <1>4, <2>1 DEF SearchInv
  <2>2. CASE p \in owed /\ last.names # {}
    <3>1. promoted # None /\ promoted.hash = p[1] /\ p[2] \in promoted.names
      BY <2>2 DEF SearchInv
    <3>2. CASE p[1] = hash
      BY <1>4, <2>2, <3>1, <3>2
    <3>3. CASE p[1] # hash
      <4>1. c \notin overtaken /\ p \in {hash} \X found[c]
        BY <1>1, <2>2, <3>3
      <4> QED
        BY <3>3, <4>1
    <3> QED
      BY <3>2, <3>3
  <2>3. CASE p \notin owed
    <3>1. c \notin overtaken /\ p \in {hash} \X last.names
      BY <1>1, <1>2, <2>3
    <3>2. p[1] = hash /\ p[2] \in last.names
      BY <3>1
    <3> QED
      BY <1>4, <3>2
  <2> QED
    BY <2>1, <2>2, <2>3
<1> QED
  BY <1>5, <1>7, <1>8, <1>9, <1>10 DEF SearchInv

LEMMA SearchNextInv ==
  ASSUME DT!ConstantsAssumption, SearchInv, [DT!Next]_dtVars
  PROVE  SearchInv'
<1>1. CASE UNCHANGED dtVars
  <2>1. /\ tools' = tools /\ last' = last /\ promoted' = promoted /\ found' = found
        /\ overtaken' = overtaken /\ told' = told /\ owed' = owed
    BY <1>1 DEF dtVars
  <2>2. DT!TypeOK'
    BY <2>1 DEF SearchInv, DT!TypeOK, DT!Deferred, DT!Hash
  <2> QED
    BY <2>1, <2>2 DEF SearchInv, FoundSoFar
<1>2. CASE \E list \in ToolLists : DT!Build(list)
  BY <1>2, SearchBuildInv
<1>3. CASE \E c \in Searches : DT!Promote(c)
  BY <1>3, SearchPromoteInv
<1>4. CASE \E c \in Searches, q \in Queries : DT!Run(c, q)
  BY <1>4, SearchRunInv
<1> QED
  BY <1>1, <1>2, <1>3, <1>4 DEF DT!Next

LEMMA SearchesAreFollowed == ASSUME DT!ConstantsAssumption, SearchInv PROVE SchemasFollowSearches
<1>1. DT!TypeOK /\ tools \in ToolLists
  BY DEF SearchInv, DT!TypeOK
<1>2. tools \in Seq(DT!Range(tools))
  BY <1>1 DEF DT!ConstantsAssumption
<1>3. DT!ShownWasFound
  <2> SUFFICES ASSUME NEW t \in DT!Range(DT!Shown), t.mcp
               PROVE  <<DT!Hash(tools), t.name>> \in told
    BY DEF DT!ShownWasFound
  <2>1. PICK i \in DOMAIN tools : tools[i].name \notin DT!Hidden /\ t = tools[i]
    <3>1. {i \in DOMAIN tools : tools[i].name \notin DT!Hidden} \in SUBSET DOMAIN tools
      OBVIOUS
    <3>2. DT!Range(DT!Shown) = {tools[i] : i \in {i \in DOMAIN tools : tools[i].name \notin DT!Hidden}}
      BY <1>2, <3>1, WantedOf DEF DT!Shown
    <3> QED
      BY <3>2
  <2>2. t.name \in DT!Deferred(tools)
    <3>1. {j \in DOMAIN tools : tools[j].mcp} \in SUBSET DOMAIN tools
      OBVIOUS
    <3>2. DT!Range(DT!Catalog(tools)) = {tools[j] : j \in {j \in DOMAIN tools : tools[j].mcp}}
      BY <1>2, <3>1, WantedOf DEF DT!Catalog
    <3>3. t \in DT!Range(DT!Catalog(tools))
      BY <2>1, <3>2
    <3> QED
      BY <3>3 DEF DT!Deferred, DT!NamesOf
  <2>3. promoted # None /\ promoted.hash = DT!Hash(tools) /\ t.name \in promoted.names
    BY <2>1, <2>2 DEF DT!Hidden
  <2> QED
    BY <2>3 DEF SearchInv, FoundSoFar
<1>4. DT!FoundIsShown
  BY DEF DT!FoundIsShown, DT!Hidden, SearchInv
<1> QED
  BY <1>1, <1>3, <1>4 DEF SchemasFollowSearches

-----------------------------------------------------------------------------
(* Reasoning in a request.                                                   *)

Below(I, i) == RR!Cardinality({j \in I : j < i})

LEMMA BelowAndRank ==
  ASSUME NEW I \in SUBSET Nat, IsFiniteSet(I), NEW i \in I
  PROVE  Below(I, i) \in Nat /\ Rank(I, i) = Below(I, i) + 1
<1> DEFINE B == {j \in I : j < i}
           U == {j \in I : j <= i}
<1>1. IsFiniteSet(B) /\ Cardinality(B) \in Nat
  BY FS_Subset, FS_CardinalityType
<1>2. U = B \union {i} /\ i \notin B
  <2>1. \A j \in I : j \in Nat
    OBVIOUS
  <2>2. ASSUME NEW j \in I PROVE j <= i <=> (j < i \/ j = i)
    BY <2>1
  <2>3. i <= i /\ ~(i < i)
    BY <2>1
  <2> QED
    BY <2>2, <2>3
<1>3. Cardinality(U) = Cardinality(B) + 1
  BY <1>1, <1>2, FS_AddElement
<1> QED
  BY <1>1, <1>3, SameCardinality DEF Rank, Below

(* A finite set of positions is counted from 0 on.                           *)
LEMMA NthOf ==
  ASSUME NEW I \in SUBSET Nat, IsFiniteSet(I)
  PROVE  /\ Cardinality(I) \in Nat
         /\ \A i \in I : Below(I, i) \in Nat /\ Below(I, i) < Cardinality(I)
         /\ \A n \in Nat : n < Cardinality(I) => RR!Nth(I, n) \in I /\ Below(I, RR!Nth(I, n)) = n
         /\ \A i, j \in I : i < j <=> Below(I, i) < Below(I, j)
         /\ \A i, j \in I : Below(I, i) = Below(I, j) => i = j
<1>1. \A i \in I : Below(I, i) \in Nat /\ Rank(I, i) = Below(I, i) + 1
  BY BelowAndRank
<1>2. /\ Cardinality(I) \in Nat
      /\ \A i \in I : Rank(I, i) \in 1..Cardinality(I)
      /\ \A i, j \in I : Rank(I, i) = Rank(I, j) => i = j
      /\ \A k \in 1..Cardinality(I) : \E i \in I : Rank(I, i) = k
      /\ \A i, j \in I : i < j => Rank(I, i) < Rank(I, j)
  BY RankNumbers
<1>3. \A i \in I : Below(I, i) < Cardinality(I)
  BY <1>1, <1>2
<1>4. ASSUME NEW n \in Nat, n < Cardinality(I)
      PROVE  RR!Nth(I, n) \in I /\ Below(I, RR!Nth(I, n)) = n
  <2>1. n + 1 \in 1..Cardinality(I)
    BY <1>2, <1>4
  <2>2. PICK i \in I : Rank(I, i) = n + 1
    BY <1>2, <2>1
  <2>3. Below(I, i) = n
    BY <1>1, <2>2
  <2>4. RR!Nth(I, n) = CHOOSE m \in I : Below(I, m) = n
    BY DEF RR!Nth, Below
  <2> QED
    BY <2>3, <2>4
<1>5. \A i, j \in I : Below(I, i) = Below(I, j) => i = j
  BY <1>1, <1>2
<1>6. \A i, j \in I : i < j => Below(I, i) < Below(I, j)
  BY <1>1, <1>2
<1>7. \A i, j \in I : Below(I, i) < Below(I, j) => i < j
  <2> SUFFICES ASSUME NEW i \in I, NEW j \in I, Below(I, i) < Below(I, j), ~(i < j) PROVE FALSE
    OBVIOUS
  <2>1. i \in Nat /\ j \in Nat /\ Below(I, i) \in Nat /\ Below(I, j) \in Nat
    BY <1>1
  <2>2. i = j \/ j < i
    BY <2>1
  <2> QED
    BY <1>6, <2>1, <2>2
<1> QED
  BY <1>1, <1>2, <1>3, <1>4, <1>5, <1>6, <1>7

LEMMA BelowInLarger ==
  ASSUME NEW J \in SUBSET Nat, IsFiniteSet(J), NEW I \in SUBSET J, NEW i \in Nat
  PROVE  Below(I, i) \in Nat /\ Below(J, i) \in Nat /\ Below(I, i) <= Below(J, i)
<1>1. {j \in I : j < i} \in SUBSET {j \in J : j < i} /\ {j \in J : j < i} \in SUBSET J
  OBVIOUS
<1>2. IsFiniteSet({j \in J : j < i})
  BY <1>1, FS_Subset
<1> HIDE DEF Below
<1>3. /\ IsFiniteSet({j \in I : j < i}) 
      /\ Cardinality({j \in I : j < i}) <= Cardinality({j \in J : j < i})
  BY <1>1, <1>2, FS_Subset
<1> QED
  BY <1>2, <1>3, FS_CardinalityType, SameCardinality DEF Below

(* The first element.                                                        *)
LEMMA FirstOf ==
  ASSUME NEW I \in SUBSET Nat, IsFiniteSet(I), I # {}
  PROVE  RR!Nth(I, 0) \in I /\ \A i \in I : RR!Nth(I, 0) <= i
<1>1. Cardinality(I) \in Nat /\ Cardinality(I) # 0
  BY FS_CardinalityType, FS_EmptySet
<1>2. RR!Nth(I, 0) \in I /\ Below(I, RR!Nth(I, 0)) = 0
  <2>1. 0 < Cardinality(I)
    BY <1>1
  <2> QED
    BY <2>1, NthOf
<1>3. ASSUME NEW i \in I PROVE RR!Nth(I, 0) <= i
  <2>1. Below(I, i) \in Nat /\ (i < RR!Nth(I, 0) => Below(I, i) < 0)
    <3>1. i < RR!Nth(I, 0) <=> Below(I, i) < Below(I, RR!Nth(I, 0))
      BY <1>2, NthOf
    <3> QED
      BY <1>2, <3>1, NthOf
  <2>2. i \in Nat /\ RR!Nth(I, 0) \in Nat
    BY <1>2
  <2> QED
    BY <2>1, <2>2
<1> QED
  BY <1>2, <1>3

Assistants == RR!AssistantsOf(kept)

ReplayInv ==
  /\ RR!TypeOK /\ RR!ReasoningIsItsOwn
  /\ RR!Ordinal <= RR!Cardinality(Assistants)
  /\ kept # DOMAIN history /\ provider = "vllm" =>
       \A k \in DOMAIN restored : restored[k] = RR!Nth(RR!Originals, k - 1)

LEMMA Positions ==
  ASSUME RR!ConstantsAssumption, RR!TypeOK
  PROVE  /\ Len(history) \in Nat /\ DOMAIN history = 1..Len(history)
         /\ RR!Originals \in SUBSET (1..Len(history)) /\ RR!Originals \in SUBSET Nat /\ IsFiniteSet(RR!Originals)
         /\ Assistants \in SUBSET RR!Originals /\ IsFiniteSet(Assistants)
         /\ (RR!Originals \subseteq kept => Assistants = RR!Originals)
         /\ Len(restored) \in Nat /\ DOMAIN restored = 1..Len(restored)
         /\ \A k \in 1..Len(restored) : restored[k] \in RR!Originals
<1>1. Len(history) \in Nat /\ DOMAIN history = 1..Len(history)
  <2>1. history \in Seq({history[i] : i \in DOMAIN history})
    BY DEF RR!ConstantsAssumption, RR!TypeOK
  <2> QED
    BY <2>1, LenProperties
<1>2. kept \subseteq DOMAIN history /\ restored \in Seq(RR!Originals)
  BY DEF RR!TypeOK
<1>3. RR!Originals \in SUBSET (1..Len(history)) /\ Assistants \in SUBSET RR!Originals
  BY <1>1, <1>2 DEF RR!Originals, RR!AssistantsOf, Assistants
<1>4. RR!Originals \subseteq kept => Assistants = RR!Originals
  BY <1>1, <1>2 DEF RR!Originals, RR!AssistantsOf, Assistants
<1>5. RR!Originals \in SUBSET Nat
  BY <1>3
<1>6. IsFiniteSet(RR!Originals) /\ IsFiniteSet(Assistants)
  BY <1>1, <1>3, UpToIsFinite, FS_Subset
<1>7. /\ Len(restored) \in Nat /\ DOMAIN restored = 1..Len(restored)
      /\ \A k \in 1..Len(restored) : restored[k] \in RR!Originals
  BY <1>2, LenProperties, ElementOfSeq
<1> QED
  BY <1>1, <1>3, <1>4, <1>5, <1>6, <1>7

(* The next message of the request is one whose reasoning nobody got yet.    *)
LEMMA OwnIsUnused ==
  ASSUME RR!ConstantsAssumption, ReplayInv, RR!Ordinal < RR!Cardinality(Assistants)
  PROVE  /\ RR!Own \in Assistants /\ RR!Own \in RR!Unused
         /\ Below(Assistants, RR!Own) = RR!Ordinal
         /\ Below(RR!Originals, RR!Own) \in Nat /\ RR!Ordinal <= Below(RR!Originals, RR!Own)
         /\ \A k \in 1..Len(restored) :
              RR!Nth(Assistants, k - 1) # RR!Own /\ RR!Nth(Assistants, k - 1) \in Assistants
<1>1. /\ RR!TypeOK /\ RR!ReasoningIsItsOwn
  BY DEF ReplayInv
<1>2. /\ RR!Originals \in SUBSET Nat /\ IsFiniteSet(RR!Originals)
      /\ Assistants \in SUBSET RR!Originals /\ IsFiniteSet(Assistants) /\ Assistants \in SUBSET Nat
      /\ Len(restored) \in Nat /\ DOMAIN restored = 1..Len(restored)
      /\ \A k \in 1..Len(restored) : restored[k] \in RR!Originals
  BY <1>1, Positions
<1>3. RR!Own = RR!Nth(Assistants, Len(restored)) /\ RR!Ordinal = Len(restored) /\ Len(restored) < Cardinality(Assistants)
  BY SameCardinality DEF RR!Own, RR!Ordinal, Assistants
<1>4. RR!Own \in Assistants /\ Below(Assistants, RR!Own) = Len(restored)
  BY <1>2, <1>3, NthOf
<1>5. ASSUME NEW k \in 1..Len(restored)
      PROVE  RR!Nth(Assistants, k - 1) \in Assistants /\ RR!Nth(Assistants, k - 1) < RR!Own
  <2>1. k - 1 \in Nat /\ k - 1 < Len(restored) /\ k - 1 < Cardinality(Assistants) /\ Cardinality(Assistants) \in Nat
    BY <1>2, <1>3, NthOf
  <2>2. RR!Nth(Assistants, k - 1) \in Assistants /\ Below(Assistants, RR!Nth(Assistants, k - 1)) = k - 1
    BY <1>2, <2>1, NthOf
  <2>3. RR!Nth(Assistants, k - 1) < RR!Own <=> Below(Assistants, RR!Nth(Assistants, k - 1)) < Below(Assistants, RR!Own)
    <3>1. \A i, j \in Assistants : i < j <=> Below(Assistants, i) < Below(Assistants, j)
      BY <1>2, NthOf
    <3> QED
      BY <1>4, <2>2, <3>1
  <2> QED
    BY <1>4, <2>1, <2>2, <2>3
<1>6. ASSUME NEW k \in 1..Len(restored) PROVE restored[k] # RR!Own /\ RR!Nth(Assistants, k - 1) # RR!Own
  <2>1. restored[k] \in 1..RR!Nth(Assistants, k - 1)
    BY <1>1, <1>2 DEF RR!ReasoningIsItsOwn, Assistants
  <2>2. RR!Own \in Nat /\ RR!Nth(Assistants, k - 1) \in Nat /\ RR!Nth(Assistants, k - 1) < RR!Own
    BY <1>2, <1>4, <1>5
  <2> QED
    BY <2>1, <2>2
<1>7. RR!Own \in RR!Unused
  BY <1>2, <1>4, <1>6 DEF RR!Unused
<1>8. Below(RR!Originals, RR!Own) \in Nat /\ Len(restored) <= Below(RR!Originals, RR!Own)
  BY <1>2, <1>4, BelowInLarger
<1> QED
  BY <1>3, <1>4, <1>5, <1>6, <1>7, <1>8

(* What the next message gets.                                               *)
LEMMA MatchIsRight ==
  ASSUME RR!ConstantsAssumption, ReplayInv, RR!Ordinal < RR!Cardinality(Assistants)
  PROVE  /\ RR!Match \in RR!Unused /\ RR!Match <= RR!Own
         /\ RR!Originals \subseteq kept => RR!Match = RR!Own
         /\ kept # DOMAIN history /\ provider = "vllm" => RR!Match = RR!Nth(RR!Originals, RR!Ordinal)
         /\ (/\ provider = "deepseek" /\ history[RR!Own].signature # Empty
             /\ \A i \in RR!Originals \ {RR!Own} : history[i].signature # history[RR!Own].signature)
              => RR!Match = RR!Own
<1> DEFINE own == RR!Own
           n == RR!Ordinal
           O == RR!Originals
<1>1. RR!TypeOK /\ RR!ReasoningIsItsOwn
  BY DEF ReplayInv
<1>2. /\ O \in SUBSET Nat /\ IsFiniteSet(O)
      /\ Assistants \in SUBSET O
      /\ (O \subseteq kept => Assistants = O)
      /\ Len(restored) \in Nat /\ DOMAIN restored = 1..Len(restored) /\ n = Len(restored)
      /\ kept \subseteq DOMAIN history /\ (kept = DOMAIN history => O \subseteq kept)
  <2>1. O \subseteq DOMAIN history
    BY DEF RR!Originals, RR!AssistantsOf
  <2> QED
    BY <1>1, <2>1, Positions DEF RR!Ordinal, RR!TypeOK
<1>3. /\ own \in O /\ own \in RR!Unused /\ own \in Nat
      /\ Below(Assistants, own) = n
      /\ Below(O, own) \in Nat /\ n <= Below(O, own)
  BY <1>2, OwnIsUnused
<1>4. RR!Unused \in SUBSET O
  BY DEF RR!Unused
<1>5. CASE kept = DOMAIN history
  <2>1. RR!Match = own
    BY <1>5 DEF RR!Match
  <2> QED
    BY <1>3, <1>5, <2>1
<1>6. CASE kept # DOMAIN history /\ provider = "deepseek"
  <2> DEFINE equal == {i \in RR!Unused : history[i].signature = history[own].signature}
             later == {i \in RR!Unused : Below(O, i) >= n}
             taken == history[own].signature # Empty /\ RR!Cardinality(equal) = 1
  <2>1. RR!Match = IF taken THEN RR!Nth(equal, 0) ELSE IF later = {} THEN 0 ELSE RR!Nth(later, 0)
    BY <1>6 DEF RR!Match, RR!MatchAIMessage, RR!NextUnusedIndexAtOrAfter, Below
  <2>2. /\ own \in equal /\ equal \in SUBSET O /\ equal \in SUBSET Nat /\ IsFiniteSet(equal)
        /\ own \in later /\ later \in SUBSET O /\ later \in SUBSET Nat /\ IsFiniteSet(later)
    <3>1. own \in equal /\ equal \in SUBSET O
      BY <1>3, <1>4
    <3>2. own \in later /\ later \in SUBSET O
      BY <1>2, <1>3, <1>4
    <3> HIDE DEF equal, later, O
    <3> QED
      BY <1>2, <3>1, <3>2, FS_Subset
  <2>3. CASE taken
    <3>1. equal = {own}
      <4>1. PICK x : equal = {x}
        BY <2>2, <2>3, SameCardinality, FS_Singleton
      <4> QED
        BY <2>2, <4>1
    <3>2. RR!Nth(equal, 0) \in equal
      BY <2>2, FirstOf
    <3>3. RR!Match = own
      BY <2>1, <2>3, <3>1, <3>2
    <3> QED
      BY <1>3, <1>6, <3>3
  <2>4. CASE ~taken
    <3>1. RR!Match = RR!Nth(later, 0)
      BY <2>1, <2>2, <2>4
    <3>2. RR!Match \in later /\ \A i \in later : RR!Match <= i
      BY <2>2, <3>1, FirstOf
    <3>3. RR!Match \in RR!Unused /\ RR!Match <= own /\ Below(O, RR!Match) >= n /\ RR!Match \in O
      BY <1>4, <2>2, <3>2
    <3>4. O \subseteq kept => RR!Match = own
      <4> SUFFICES ASSUME O \subseteq kept PROVE RR!Match = own
        OBVIOUS
      <4>1. Below(O, own) = n
        BY <1>2, <1>3
      <4>2. RR!Match < own <=> Below(O, RR!Match) < Below(O, own)
        BY <1>2, <1>3, <3>3, NthOf
      <4>3. Below(O, RR!Match) \in Nat /\ RR!Match \in Nat
        BY <1>2, <3>3, NthOf
      <4> QED
        BY <1>2, <1>3, <3>3, <4>1, <4>2, <4>3
    <3>5. ASSUME history[own].signature # Empty,
                 \A i \in O \ {own} : history[i].signature # history[own].signature
          PROVE  FALSE
      <4>1. equal = {own}
        BY <1>4, <2>2, <3>5
      <4>2. RR!Cardinality(equal) = 1
        <5> HIDE DEF equal
        <5> QED
          BY <4>1, SameCardinality, FS_Singleton
      <4> QED
        BY <2>4, <3>5, <4>2
    <3> HIDE DEF taken, equal, later
    <3> QED
      BY <1>6, <3>3, <3>4, <3>5
  <2> QED
    BY <2>3, <2>4
<1>7. CASE kept # DOMAIN history /\ provider # "deepseek"
  <2>1. provider = "vllm"
    BY <1>1, <1>7 DEF RR!TypeOK
  <2>2. RR!Match = RR!Nth(O, n)
    BY <1>7 DEF RR!Match
  <2>3. /\ Cardinality(O) \in Nat /\ Below(O, own) < Cardinality(O) /\ n \in Nat /\ n < Cardinality(O)
    BY <1>2, <1>3, NthOf
  <2>4. RR!Match \in O /\ Below(O, RR!Match) = n
    BY <1>2, <2>2, <2>3, NthOf
  <2>5. RR!Match <= own
    <3>1. own < RR!Match <=> Below(O, own) < Below(O, RR!Match)
      BY <1>2, <1>3, <2>4, NthOf
    <3>2. RR!Match \in Nat
      BY <1>2, <2>4
    <3> QED
      BY <1>2, <1>3, <2>4, <3>1, <3>2
  <2>6. RR!Match \in RR!Unused
    <3> SUFFICES ASSUME NEW k \in DOMAIN restored PROVE restored[k] # RR!Match
      BY <2>4 DEF RR!Unused
    <3>1. restored[k] = RR!Nth(O, k - 1)
      BY <1>7, <2>1 DEF ReplayInv
    <3>2. k - 1 \in Nat /\ k - 1 < n /\ k - 1 < Cardinality(O)
      BY <1>2, <2>3
    <3>3. Below(O, restored[k]) = k - 1
      BY <1>2, <3>1, <3>2, NthOf
    <3> QED
      BY <1>2, <2>4, <3>2, <3>3
  <2>7. O \subseteq kept => RR!Match = own
    <3> SUFFICES ASSUME O \subseteq kept PROVE RR!Match = own
      OBVIOUS
    <3>1. Below(O, own) = n
      BY <1>2, <1>3
    <3> QED
      BY <1>2, <1>3, <2>4, <3>1, NthOf
  <2> QED
    BY <1>7, <2>1, <2>2, <2>5, <2>6, <2>7
<1> QED
  BY <1>5, <1>6, <1>7

LEMMA ReplayInitInv == ASSUME RR!ConstantsAssumption PROVE RR!Init => ReplayInv
<1> SUFFICES ASSUME RR!Init PROVE ReplayInv
  OBVIOUS
<1>1. RR!TypeOK /\ restored = <<>>
  BY EmptySeq DEF RR!Init, RR!TypeOK
<1>2. IsFiniteSet(Assistants)
  BY <1>1, Positions
<1>3. Cardinality(Assistants) \in Nat
  BY <1>2, FS_CardinalityType
<1>4. DOMAIN restored = {} /\ Len(restored) = 0
  BY <1>1
<1> QED
  BY <1>1, <1>3, <1>4, SameCardinality DEF ReplayInv, RR!ReasoningIsItsOwn, RR!Ordinal

OwnOf(k) == RR!Nth(Assistants, k - 1)

LEMMA ReplayNextInv ==
  ASSUME RR!ConstantsAssumption, ReplayInv, [RR!Next]_rrVars
  PROVE  ReplayInv'
<1>1. CASE UNCHANGED rrVars
  <2>1. history' = history /\ kept' = kept /\ provider' = provider /\ restored' = restored
    BY <1>1 DEF rrVars
  <2>2. RR!Originals' = RR!Originals /\ Assistants' = Assistants
    BY <2>1 DEF RR!Originals, RR!AssistantsOf, Assistants
  <2>3. RR!TypeOK'
    BY <2>1, <2>2 DEF ReplayInv, RR!TypeOK
  <2>4. RR!ReasoningIsItsOwn'
    BY <2>1, <2>2 DEF ReplayInv, RR!ReasoningIsItsOwn, Assistants
  <2> QED
    BY <2>1, <2>2, <2>3, <2>4 DEF ReplayInv, RR!Ordinal
<1>2. CASE RR!Next
  <2> DEFINE m == RR!Match
             n == RR!Ordinal
             O == RR!Originals
  <2>1. /\ n < RR!Cardinality(Assistants) /\ restored' = Append(restored, m)
        /\ history' = history /\ kept' = kept /\ provider' = provider
    BY <1>2 DEF RR!Next, RR!Restore, Assistants
  <2>2. O' = O /\ Assistants' = Assistants
    BY <2>1 DEF RR!Originals, RR!AssistantsOf, Assistants
  <2>3. /\ m \in RR!Unused /\ m <= RR!Own
        /\ O \subseteq kept => m = RR!Own
        /\ kept # DOMAIN history /\ provider = "vllm" => m = RR!Nth(O, n)
        /\ (/\ provider = "deepseek" /\ history[RR!Own].signature # Empty
            /\ \A i \in O \ {RR!Own} : history[i].signature # history[RR!Own].signature)
             => m = RR!Own
    BY <2>1, MatchIsRight
  <2>4. RR!TypeOK /\ RR!ReasoningIsItsOwn
    BY DEF ReplayInv
  <2>5. /\ O \in SUBSET (1..Len(history)) /\ O \in SUBSET Nat /\ Assistants \in SUBSET O
        /\ Len(restored) \in Nat /\ DOMAIN restored = 1..Len(restored) /\ n = Len(restored)
        /\ \A k \in 1..Len(restored) : restored[k] \in O
        /\ Cardinality(Assistants) \in Nat
    BY <2>4, Positions, FS_CardinalityType DEF RR!Ordinal
  <2>6. m \in O /\ \A k \in 1..n : restored[k] # m
    BY <2>3, <2>5 DEF RR!Unused
  <2>7. RR!Own = OwnOf(n + 1) /\ RR!Own \in Assistants
    <3>1. n + 1 - 1 = n
      BY <2>5
    <3>2. RR!Own = RR!Nth(Assistants, n)
      BY DEF RR!Own, Assistants
    <3>3. RR!Own \in Assistants
      BY <2>1, OwnIsUnused
    <3>4. OwnOf(n + 1) = RR!Nth(Assistants, n)
      <4> HIDE DEF n
      <4>1. ASSUME NEW i, NEW j, j - 1 = i PROVE OwnOf(j) = RR!Nth(Assistants, i)
        BY <4>1 DEF OwnOf
      <4> QED
        BY <2>5, <3>1, <4>1
    <3> QED
      BY <3>2, <3>3, <3>4
  <2> HIDE DEF m, n, O
  <2>8. /\ restored' \in Seq(O) /\ DOMAIN restored' = 1..(n + 1) /\ Len(restored') = n + 1
        /\ restored'[n + 1] = m
        /\ \A k \in 1..n : restored'[k] = restored[k]
    <3>1. restored \in Seq(O)
      BY <2>4 DEF RR!TypeOK, O
    <3>2. /\ Append(restored, m) \in Seq(O) /\ Len(Append(restored, m)) = Len(restored) + 1
          /\ \A k \in 1..Len(restored) : Append(restored, m)[k] = restored[k]
          /\ Append(restored, m)[Len(restored) + 1] = m
      BY <2>6, <3>1, AppendProperties
    <3>3. DOMAIN Append(restored, m) = 1..(Len(restored) + 1)
      BY <3>2, LenProperties
    <3> QED
      BY <2>1, <2>5, <3>2, <3>3
  <2>9. RR!TypeOK'
    BY <2>1, <2>2, <2>4, <2>8 DEF RR!TypeOK, O
  <2>10. /\ n + 1 \in 1..(n + 1)
         /\ \A k \in 1..(n + 1) : k \in 1..n \/ k = n + 1
         /\ \A k \in 1..n : k # n + 1 /\ k \in 1..(n + 1)
    BY <2>5
  <2> DEFINE alone(k) == \A i \in O \ {OwnOf(k)} : history[i].signature # history[OwnOf(k)].signature
             Right(k) == /\ restored'[k] \in 1..OwnOf(k)
                         /\ O \subseteq kept => restored'[k] = OwnOf(k)
                         /\ provider = "deepseek" /\ alone(k) /\ history[OwnOf(k)].signature # Empty => restored'[k] = OwnOf(k)
  <2>11. ASSUME NEW k \in 1..n PROVE Right(k)
    <3>1. restored'[k] = restored[k] /\ k \in DOMAIN restored
      BY <2>5, <2>8
    <3> QED
      BY <2>4, <3>1 DEF RR!ReasoningIsItsOwn, Assistants, O, OwnOf
  <2>12. Right(n + 1)
    <3>1. restored'[n + 1] = m /\ OwnOf(n + 1) = RR!Own
      BY <2>7, <2>8
    <3>2. m \in Nat /\ m # 0 /\ RR!Own \in Nat
      BY <2>5, <2>6, <2>7
    <3>3. m \in 1..RR!Own
      BY <2>3, <3>2
    <3> QED
      BY <2>3, <3>1, <3>3
  <2>13. \A k, j \in 1..(n + 1) : restored'[j] = restored'[k] => j = k
    <3>1. \A k, j \in 1..n : restored[j] = restored[k] => j = k
      BY <2>4, <2>5 DEF RR!ReasoningIsItsOwn
    <3> QED
      BY <2>6, <2>8, <2>10, <3>1
  <2>14. RR!ReasoningIsItsOwn'
    <3>1. \A k \in 1..(n + 1) : Right(k)
      <4> HIDE DEF Right
      <4> QED
        BY <2>10, <2>11, <2>12
    <3> QED
      BY <2>1, <2>2, <2>8, <2>13, <3>1 DEF RR!ReasoningIsItsOwn, Assistants, O, OwnOf
  <2>15. kept' # DOMAIN history' /\ provider' = "vllm" =>
           \A k \in DOMAIN restored' : restored'[k] = RR!Nth(O, k - 1)
    <3> SUFFICES ASSUME kept # DOMAIN history, provider = "vllm", NEW k \in 1..(n + 1)
                 PROVE  restored'[k] = RR!Nth(O, k - 1)
      BY <2>1, <2>8
    <3>1. CASE k \in 1..n
      <4>1. restored[k] = RR!Nth(O, k - 1)
        BY <2>5, <3>1 DEF ReplayInv, O
      <4> QED
        BY <2>8, <3>1, <4>1
    <3>2. CASE k = n + 1
      <4>1. k - 1 = n
        BY <2>5, <3>2
      <4> QED
        BY <2>3, <2>8, <3>2, <4>1
    <3> QED
      BY <2>10, <3>1, <3>2
  <2>16. RR!Ordinal' <= RR!Cardinality(Assistants')
    <3>1. RR!Ordinal' = n + 1
      BY <2>8 DEF RR!Ordinal
    <3> QED
      BY <2>1, <2>2, <2>5, <3>1, SameCardinality
  <2> QED
    BY <2>2, <2>9, <2>14, <2>15, <2>16 DEF ReplayInv, O
<1> QED
  BY <1>1, <1>2

-----------------------------------------------------------------------------
(* The parts beside one another: the others rest while one of them runs.     *)

partsVars == <<part, vars, tcVars, oaVars, dtVars, rrVars>>

LEMMA PartsStep ==
  [PartsNext]_partsVars =>
    /\ [Next]_vars /\ [TC!Next]_tcVars /\ [OA!Next]_oaVars /\ [DT!Next]_dtVars /\ [RR!Next]_rrVars
<1> SUFFICES ASSUME [PartsNext]_partsVars
             PROVE  /\ [Next]_vars /\ [TC!Next]_tcVars /\ [OA!Next]_oaVars /\ [DT!Next]_dtVars /\ [RR!Next]_rrVars
  OBVIOUS
<1>1. CASE UNCHANGED partsVars
  <2>1. vars' = vars /\ tcVars' = tcVars /\ oaVars' = oaVars /\ dtVars' = dtVars /\ rrVars' = rrVars
    BY <1>1 DEF partsVars
  <2> QED
    BY <2>1
<1>2. CASE PartsNext
  BY <1>2 DEF PartsNext
<1> QED
  BY <1>1, <1>2

LEMMA PartsStart == PartsInit => Init /\ TC!Init /\ OA!Init /\ DT!Init /\ RR!Init
BY DEF PartsInit

(* What is known of each part holds in every state, whichever of them runs.  *)
PartsInv == Inv /\ CacheInv /\ TokensInv /\ TokensTypes /\ SearchInv /\ ReplayInv

THEOREM PartsInvariant == PartsSpec => []PartsInv
<1>1. PartsInit => PartsInv
  BY PartsAssumption, PartsStart, InitInv, CacheInitInv, OAInitInv, TokensTypesInit, SearchInitInv, ReplayInitInv
     DEF PartsInv
<1>2. PartsInv /\ [PartsNext]_partsVars => PartsInv'
  BY PartsAssumption, PartsStep, NextInv, CacheNextInv, OANextInv, TokensTypesStep, SearchNextInv, ReplayNextInv
     DEF PartsInv
<1> QED
  BY <1>1, <1>2, PTL DEF PartsSpec, partsVars

(* An edit of the configuration reaches the agents: GetCached returns no     *)
(* tools older than the last edit that a load could notice (mcp.go 549-639). *)
THEOREM EditsReachAgents == PartsSpec => []ToolsAreDue
<1>1. PartsInv => ToolsAreDue
  BY DEF PartsInv, CacheInv, ToolsAreDue
<1> QED
  BY <1>1, PartsInvariant, PTL

(* A token that is handed out again has expired for its server at most for   *)
(* the part of the longest delay that the skew does not cover, and not at    *)
(* all if the skew covers it, for any skew, lifetimes and delays             *)
(* (mcp.go 749-783, 834-877).                                                *)
THEOREM AcceptedTokens == PartsSpec => []TokensAreAccepted
<1>1. PartsInv => TokensAreAccepted
  BY TokensTyped DEF PartsInv
<1> QED
  BY <1>1, PartsInvariant, PTL

(* A token is replaced only when it will not do any more: callers that wait  *)
(* for the lock look again (mcp.go 749-775).                                 *)
THEOREM OneFetch == PartsSpec => ReplacedWhenExpiring
<1>1. PartsInv /\ [PartsNext]_partsVars => [OA!ReplaceStep]_oaVars
  BY PartsStep, OANextInv DEF PartsInv
<1> QED
  BY <1>1, PartsInvariant, PTL DEF PartsSpec, partsVars, ReplacedWhenExpiring

(* A schema is shown only if a search found it in the catalog of this build, *)
(* and what a search found can be called in all turns with the same catalog, *)
(* whatever lists and queries there are (capability/deferred.go, state.go    *)
(* MergePromoted).                                                           *)
THEOREM SearchesAreRemembered == PartsSpec => []SchemasFollowSearches
<1>1. PartsInv => SchemasFollowSearches
  BY PartsAssumption, SearchesAreFollowed DEF PartsInv
<1> QED
  BY <1>1, PartsInvariant, PTL

(* Reasoning returns to the message it was thought for, whatever messages a  *)
(* history has and whichever of them were dropped (model.go 482-543,         *)
(* 720-747).                                                                 *)
THEOREM ReasoningStays == PartsSpec => []ReasoningReturns
<1>1. PartsInv => ReasoningReturns
  BY DEF PartsInv, ReplayInv, ReasoningReturns
<1> QED
  BY <1>1, PartsInvariant, PTL

=============================================================================
