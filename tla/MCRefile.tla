------------------------------ MODULE MCRefile ------------------------------
(***************************************************************************)
(* A library of one paper, an ingest that may add another (or bring the    *)
(* same bytes or the same work again), and the edits of Edits.  Bases b1   *)
(* and b2 make an edit move a paper between two families of keys, each     *)
(* with room for every file that can be under way.                         *)
(***************************************************************************)
EXTENDS Refile, TLC

CONSTANTS s1, o1, e1, e2, p1, p2, k1, k2, k3, j1, j2, j3, b1, b2, d1

MCVariants == [b \in Bases |-> IF b = b1 THEN <<k1, k2, k3>> ELSE <<j1, j2, j3>>]
MCDisposal == [s \in Subs |-> "archive"]

keyed == [base |-> b1, idents |-> {d1}, resolved |-> TRUE]
other == [base |-> b2, idents |-> {}, resolved |-> TRUE]
vague == [base |-> NoBase, idents |-> {}, resolved |-> FALSE]
MCMetas == {keyed, other, vague}

NoFiles == [p \in Paths |-> Absent]
OnePaper(path, meta) ==
    [i \in Papers |-> IF i = o1 THEN [content |-> p1, path |-> path, meta |-> meta,
                                      trashed |-> FALSE]
                      ELSE NoRow]

\* The paper resolved and filed; the paper in need of review under _unsorted,
\* as it was left by a refile to j1 that crashed between the copy and the
\* UPDATE; and the same after a crash within the copy.
MCPrior ==
    {[rows |-> OnePaper(k1, keyed), files |-> [NoFiles EXCEPT ![k1] = p1]],
     [rows |-> OnePaper(p1, vague), files |-> [NoFiles EXCEPT ![p1] = p1, ![j1] = p1]],
     [rows |-> OnePaper(p1, vague), files |-> [NoFiles EXCEPT ![p1] = p1, ![j1] = o1]]}

EditSymmetry == Permutations(Edits)

=============================================================================
