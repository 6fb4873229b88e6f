----------------------------- MODULE Selection -----------------------------
(***************************************************************************)
(* The elements of a sequence that belong to a set, in their order. This is  *)
(* the SelectSeq of the standard modules without its recursion: the element  *)
(* at place k is found by its rank, so that the lemmas of SelectionProofs     *)
(* can be proved. MCHAClient compares the two on short sequences.            *)
(***************************************************************************)
EXTENDS Integers, Sequences, FiniteSets

At(s, T)     == {i \in DOMAIN s : s[i] \in T}
UpTo(S, i)   == {j \in S : j <= i}
Ranked(S, k) == CHOOSE i \in S : Cardinality(UpTo(S, i)) = k

Select(s, T) == [k \in 1..Cardinality(At(s, T)) |-> s[Ranked(At(s, T), k)]]
=============================================================================
