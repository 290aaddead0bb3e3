---------------------------- MODULE MCRunManager ----------------------------
(* Small instances of RunManager for TLC. *)
EXTENDS RunManager, TLC

\* Each run has an Agent of its own.
OwnAgents == [r \in Runs |-> r]
=============================================================================
