------------------------------ MODULE Library ------------------------------
(***************************************************************************)
(* The two stores every filing operation of xuewen works on: the `papers`  *)
(* table of the SQLite database and the tree of PDFs under library_root.   *)
(* Nothing ties them together but the order in which the operations of     *)
(* Ingest and Refile touch them: a SQL statement is atomic, a file copy is *)
(* not, and no lock or transaction spans the two.                          *)
(***************************************************************************)
EXTENDS Naturals, Sequences

CONSTANTS
    Papers,    \* paper ids; the id an ingest mints is the ingest's own name
    Writers,   \* everything that copies PDFs into the library
    Contents,  \* PDF byte strings, told apart by their SHA-256
    Keys,      \* cite keys
    Bases,     \* cite-key bases: surname, year, first title word
    Variants,  \* the keys tried for a base, in order: base, base+"a", ...
    Idents,    \* DOIs and arXiv ids
    Metas,     \* the metadata a resolution can end with
    Prior,     \* the libraries an earlier process may have left behind
    NoRow, NoBase, Absent

Meta == [base : Bases \cup {NoBase}, idents : SUBSET Idents, resolved : BOOLEAN]

\* A file is named <citekey>.pdf or _unsorted/<hash>.pdf.  The key (the hash)
\* stands for the path, and cite_key is NULL exactly on the latter: every
\* operation assigns rel_path and cite_key together.
Paths == Keys \cup Contents

\* What a path holds: nothing, a whole PDF, or the unfinished copy of a writer.
FileStates == {Absent} \cup Contents \cup Writers

Row == [content : Contents, path : Paths, meta : Metas, trashed : BOOLEAN]

Tables == [Papers -> Row \cup {NoRow}]
Trees == [Paths -> FileStates]

\* Every row's file holds the bytes the row was made for.  A file under
\* _unsorted may be caught half overwritten by a writer; it only ever belongs
\* to the row of the same bytes.
Intact(table, tree) ==
    \A i \in Papers : table[i] # NoRow =>
        \/ table[i].path \in Keys /\ tree[table[i].path] = table[i].content
        \/ /\ table[i].path = table[i].content
           /\ tree[table[i].path] \in {table[i].content} \cup Writers

\* content_hash, doi and arxiv_id are UNIQUE columns.
Distinct(table) ==
    \A i, j \in Papers : table[i] # NoRow /\ table[j] # NoRow /\ i # j =>
        /\ table[i].content # table[j].content
        /\ table[i].meta.idents \cap table[j].meta.idents = {}

ASSUME LibraryAssumption ==
    /\ Metas \subseteq Meta
    /\ Variants \in [Bases -> Seq(Keys)]
    /\ NoRow \notin Row
    /\ NoBase \notin Bases
    /\ Absent \notin Contents \cup Writers
    /\ Keys \cap Contents = {}
    /\ Contents \cap Writers = {}
    /\ Prior \subseteq [rows : Tables, files : Trees]
    /\ \A l \in Prior : Distinct(l.rows) /\ Intact(l.rows, l.files)

VARIABLES
    rows,   \* the papers table: the row of an id, or NoRow
    files   \* library_root: what each path holds

libraryVars == <<rows, files>>

LibraryInit == \E l \in Prior : rows = l.rows /\ files = l.files

Stored == {i \in Papers : rows[i] # NoRow}

----------------------------------------------------------------------------
(* Queries of db.rs.                                                       *)

\* SELECT ... WHERE content_hash = ?
WithHash(c) == {i \in Stored : rows[i].content = c}

\* SELECT ... WHERE doi = ?, then WHERE arxiv_id = ?
WithIdentifier(m) == {i \in Stored : rows[i].meta.idents \cap m.idents # {}}

\* Mutant of CiteKeysTaken: the query loses its "cite_key IS NOT NULL".
CiteKeysTaken_AnyPath(except) == {rows[i].path : i \in Stored \ except}

\* The cite keys of every row, trashed ones too, but for the row `except`.
CiteKeysTaken(except) == {rows[i].path : i \in Stored \ except} \cap Keys

\* Mutant of Unique: doi and arxiv_id are indexed, but not UNIQUE.
Unique_HashOnly(i, c, m) == WithHash(c) \subseteq {i}

\* The UNIQUE columns content_hash, doi and arxiv_id: whether row i may hold
\* content c and metadata m.
Unique(i, c, m) == (WithHash(c) \cup WithIdentifier(m)) \subseteq {i}

----------------------------------------------------------------------------
(* naming.rs: `k` is the first variant of `base` outside `taken`.          *)

Disambiguated(base, taken, k) ==
    \E n \in DOMAIN Variants[base] :
        /\ Variants[base][n] = k
        /\ k \notin taken
        /\ \A m \in 1 .. n - 1 : Variants[base][m] \in taken

----------------------------------------------------------------------------
(* The file operations of pipeline.rs, each of them two steps or one.      *)

\* Mutant of CreateNew: a plain fs::copy to the cite-key path.
CreateNew_Overwrites(w, p) == files' = [files EXCEPT ![p] = w]

\* create_new succeeds: the path now holds w's empty file.
CreateNew(w, p) == files[p] = Absent /\ files' = [files EXCEPT ![p] = w]

\* fs::copy opens its destination with O_TRUNC, whatever it held.
Truncate(w, p) == files' = [files EXCEPT ![p] = w]

\* The last byte of the copy is written.  If the file w opened was unlinked or
\* truncated by another writer since, what the path shows is no longer w's.
Fill(w, p, c) ==
    files' = IF files[p] = w THEN [files EXCEPT ![p] = c] ELSE files

\* remove_file: by name, whoever wrote what the path holds.
Remove(p) == files' = [files EXCEPT ![p] = Absent]

----------------------------------------------------------------------------
(* DELETE /api/papers/{id} and `xuewen delete`; POST .../restore.          *)

SoftDelete(i) ==
    /\ i \in Stored /\ ~rows[i].trashed
    /\ rows' = [rows EXCEPT ![i].trashed = TRUE]

Restore(i) ==
    /\ i \in Stored /\ rows[i].trashed
    /\ rows' = [rows EXCEPT ![i].trashed = FALSE]

=============================================================================
