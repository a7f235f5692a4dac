---------------------------- MODULE Subsequences ----------------------------
(***************************************************************************)
(* What Array.prototype.filter keeps of a list: the elements at some of    *)
(* its positions, in the order they had.  SubsequenceTheorems says what    *)
(* there is to know of it.                                                 *)
(***************************************************************************)
EXTENDS Naturals, Sequences, FiniteSets

\* The members of a finite set of numbers, the smallest first.
Ascending(I) ==
    CHOOSE q \in [1 .. Cardinality(I) -> I] : \A j, k \in DOMAIN q : j < k => q[j] < q[k]

\* The elements of s at the positions I.
Subsequence(s, I) == LET at == Ascending(I) IN [k \in DOMAIN at |-> s[at[k]]]
=============================================================================
