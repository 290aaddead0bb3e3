---------------------------- MODULE MCSessionPool ----------------------------
(* Instances of SessionPool for TLC. *)
EXTENDS SessionPool, TLC

CallSymmetry == Permutations(Gets) \union Permutations(Closes) \union Permutations(Servers)
=============================================================================
