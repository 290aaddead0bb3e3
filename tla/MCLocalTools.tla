---------------------------- MODULE MCLocalTools ----------------------------
(***************************************************************************)
(* For TLC: the local sandboxes of the tools, and the loop detector that   *)
(* watches their calls.  They share no state: in a behaviour one of them   *)
(* runs and the other rests in its initial state.                          *)
(***************************************************************************)
EXTENDS LocalSandbox, TLC

CONSTANTS
  Runs, CallSets, Warn, HardLimit, WindowSize, FreqWarn, FreqHard, MaxTrackedThreads, MaxPerRun

VARIABLES
  detecting,      \* which of them runs
  history, order, warned, toolFreq, toolFreqWarned, pending, pendingOrder, streak, stopped

LD == INSTANCE LoopDetector

-----------------------------------------------------------------------------
(* The mounts below /mnt, which is left out of their paths: the skills are   *)
(* read-only at a path of their own, from a directory that is also reachable *)
(* below user-data.                                                          *)

MountTable ==
  {[container |-> <<"user-data">>, local |-> <<"user-data">>, readOnly |-> FALSE],
   [container |-> <<"user-data", "workspace">>, local |-> <<"user-data", "workspace">>, readOnly |-> FALSE],
   [container |-> <<"skills">>, local |-> <<"user-data", "skills">>, readOnly |-> TRUE]}

(* The thread whose workspace file the tools are told by its local path too. *)
Exposed == CHOOSE t \in Threads : TRUE

(* A file in the workspace, one in the read-only mount under its writable    *)
(* name, and a path under no mount.                                          *)
PathTable ==
  {<<"user-data", "workspace", "a">>, <<"user-data", "skills", "a">>}
    \union {<<Exposed, "user-data", "workspace", "a">>}

OtherTable == {<<"user-data", "workspace", "a">>}

ContentTable == {{<<"user-data", "skills", "a">>}}

(* Mount by mount, as replaceContainerPaths and reverseResolveOutput go      *)
(* through the text, the result is the same.                                 *)
Inward(t, x, m)  == IF IsPrefix(m.container, x) THEN Local(t, m) \o Rest(m.container, x) ELSE x
Outward(t, x, m) == IF IsPrefix(Local(t, m), x) THEN Shown(t, x) ELSE x

ASSUME PassesAssumption ==
  \A t \in Threads, x \in PathTable \union {<<"skills">>} :
    /\ FoldLeft(LAMBDA y, m : Inward(t, y, m), x,
                SetToSortSeq(Mounts, LAMBDA m, n : Len(m.container) > Len(n.container))) = Resolve(t, x)
    /\ FoldLeft(LAMBDA y, m : Outward(t, y, m), x,
                SetToSortSeq(Mounts, LAMBDA m, n : Len(m.local) > Len(n.local))) = Shown(t, x)

(* The same calls in other words, in another order, and others.              *)

ReadLines(a, b) == [name |-> "read_file", args |-> [path |-> "p", start_line |-> a, end_line |-> b]]
List(d)         == [name |-> "ls", args |-> [path |-> d, description |-> "look"]]

CallTable ==
  {<<ReadLines(1, 9), List("a")>>, <<List("a"), ReadLines(150, 2)>>, <<List("b"), List("a")>>}

WarnTable == [n \in {"read_file", "ls"} |-> 2]
HardTable == [n \in {"read_file", "ls"} |-> IF n = "ls" THEN 4 ELSE 5]

ASSUME BothAssumption == ConstantsAssumption /\ NestedAlike /\ NamesApart /\ LD!ConstantsAssumption

(* The threads are not alike: the local path is in the directory of one.     *)
Symmetry == Permutations(Calls) \union Permutations(Runs)

-----------------------------------------------------------------------------
ldVars == <<history, order, warned, toolFreq, toolFreqWarned, pending, pendingOrder, streak, stopped>>

BothInit == detecting \in BOOLEAN /\ Init /\ LD!Init

BothNext ==
  \/ ~detecting /\ Next /\ UNCHANGED <<detecting, ldVars>>
  \/ detecting /\ LD!Next /\ UNCHANGED <<detecting, vars>>

BothSpec == BothInit /\ [][BothNext]_<<detecting, vars, ldVars>>

(* A thread in a loop is warned, and then stopped. *)
LoopsAreCut == LD!LoopsAreCut

=============================================================================
