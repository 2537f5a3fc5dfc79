------------------------------ MODULE MCIngest ------------------------------
(***************************************************************************)
(* Two submissions of two PDFs, one of them by the watcher.  A             *)
(* resolution ends in one of three ways: a work with base b1 and the       *)
(* identifier d1, a work with base b1 and no identifier (the keys collide, *)
(* the works do not), or nothing confident but a DOI printed on the page,  *)
(* which leaves the PDF without a cite key.                                *)
(***************************************************************************)
EXTENDS Ingest, TLC

CONSTANTS s1, s2, old, p1, p2, k1, k2, k3, b1, d1

MCVariants == [b \in Bases |-> <<k1, k2, k3>>]
MCDisposal == [s \in Subs |-> IF s = s1 THEN "archive" ELSE "discard"]

keyed == [base |-> b1, idents |-> {d1}, resolved |-> TRUE]
plain == [base |-> b1, idents |-> {}, resolved |-> TRUE]
vague == [base |-> NoBase, idents |-> {d1}, resolved |-> FALSE]
MCMetas == {keyed, plain, vague}

\* An empty library; one paper filed under k1; a library in which a crash left
\* half a copy under k1; and one in which a crash came between the copy and
\* the INSERT.
NoRows == [i \in Papers |-> NoRow]
NoFiles == [p \in Paths |-> Absent]
MCPrior ==
    {[rows |-> NoRows, files |-> NoFiles],
     [rows |-> [NoRows EXCEPT ![old] =
          [content |-> p2, path |-> k1, meta |-> plain, trashed |-> FALSE]],
      files |-> [NoFiles EXCEPT ![k1] = p2]],
     [rows |-> NoRows, files |-> [NoFiles EXCEPT ![k1] = old]],
     [rows |-> NoRows, files |-> [NoFiles EXCEPT ![k1] = p1]]}

=============================================================================
