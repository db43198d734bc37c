------------------------------ MODULE Filtering ------------------------------
(***************************************************************************)
(* The subsequence of `s' of the elements in `S'.  This is SelectSeq with a *)
(* set for its test and with a definition that proofs can expand.          *)
(***************************************************************************)
EXTENDS Naturals, Sequences, FiniteSets

\* The places of s that are kept, and how many of them come up to place i.
Places(s, S) == {i \in 1 .. Len(s) : s[i] \in S}

Rank(s, S, i) == Cardinality({j \in Places(s, S) : j <= i})

Kept(s, S) ==
    [k \in 1 .. Cardinality(Places(s, S)) |-> s[CHOOSE i \in Places(s, S) : Rank(s, S, i) = k]]
=============================================================================
