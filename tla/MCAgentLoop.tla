---------------------------- MODULE MCAgentLoop ----------------------------
(* Instance of AgentLoop for TLC: two of the calls read one skill file.      *)
EXTENDS AgentLoop

OneSkill == [id \in {1, 3} |-> "skill"]

=============================================================================
