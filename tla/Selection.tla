------------------------------ MODULE Selection ------------------------------
(***************************************************************************)
(* The loop `for _, x := range s { if keep(x) { out = append(out, x) } }`: *)
(* the elements of a sequence at the indices of a set, in their order.     *)
(***************************************************************************)
EXTENDS Naturals, Sequences, FiniteSets

Rank(I, i) == Cardinality({j \in I : j <= i})

Selection(s, I) == [k \in 1..Cardinality(I) |-> s[CHOOSE i \in I : Rank(I, i) = k]]
=============================================================================
