---------------------------- MODULE MCMemoryStore ----------------------------
(* Instances of MemoryStore for TLC. *)
EXTENDS MemoryStore, TLC

CONSTANTS tea, csv

P(c, n) == [content |-> c, confidence |-> n]

\* One fact too uncertain and one certain, twice; and a mention of an upload.
ModelAnswers == {<<P(tea, 0), P(tea, 2), P(tea, 1)>>, <<P(csv, 1), P(tea, 1)>>}

Symmetry == Permutations(Ops) \union Permutations(Keys)
=============================================================================
