--------------------------- MODULE MCSubagentTask ---------------------------
(* Instances of SubagentTask for TLC. *)
EXTENDS SubagentTask

CONSTANTS read, bash, task

ToolList == <<task, read, bash>>

\* The two kinds of built-in types: one inherits and denies, one lists.
General == [allow |-> {}, deny |-> {task}]
Bash    == [allow |-> {{bash}}, deny |-> {task}]

OneType  == {General}
TwoTypes == {General, Bash}

(* What the indices select is what the loop of the filter appends.           *)
ASSUME SelectionIsTheFilter ==
  \A allow \in {{}} \union {{names} : names \in SUBSET Names}, deny \in SUBSET Names :
    Kept(ToolList, [allow |-> allow, deny |-> deny]) =
      SelectSeq(ToolList, LAMBDA n : n \notin deny /\ \A names \in allow : n \in names)
=============================================================================
