----------------------------- MODULE Subsequence -----------------------------
(***************************************************************************)
(* The elements of a sequence at given positions, in their order: what a   *)
(* compaction with a read and a write index keeps.  (SelectSeq says the    *)
(* same by recursion, which no proof can unfold.)                          *)
(***************************************************************************)
EXTENDS Integers, Sequences, FiniteSets

\* The k-th smallest element of I.
Nth(I, k) == CHOOSE i \in I : Cardinality({j \in I : j <= i}) = k

AtPositions(s, I) == [k \in 1 .. Cardinality(I) |-> s[Nth(I, k)]]
=============================================================================
