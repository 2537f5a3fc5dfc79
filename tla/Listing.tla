------------------------------- MODULE Listing -------------------------------
(***************************************************************************)
(* Sets and sequences made into lists, as the sorts and filters of the     *)
(* code make them.  Where an element stands is said by counting those that *)
(* come before it.                                                         *)
(***************************************************************************)
EXTENDS Naturals, Sequences, FiniteSets

\* The members of S that the strict order R puts before x.
Preceding(S, R, x) == {y \in S : <<y, x>> \in R}

\* S as a list, in the order R (sort_by).
InOrder(S, R) ==
    [n \in 1 .. Cardinality(S) |->
        CHOOSE x \in S : Cardinality(Preceding(S, R, x)) = n - 1]

\* A set of numbers, the least first.
Rising(S) == InOrder(S, {ij \in S \X S : ij[1] < ij[2]})

\* The elements of s that are in T, as they come (filter).
Sifted(s, T) ==
    LET places == Rising({i \in DOMAIN s : s[i] \in T})
    IN  [n \in DOMAIN places |-> s[places[n]]]

=============================================================================
