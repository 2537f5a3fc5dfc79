---------------------------- MODULE SearchIndex ----------------------------
(***************************************************************************)
(* The background search indexer.  SQLite holds the papers, their notes,   *)
(* their chunks and a search_index row per paper with the hashes and the   *)
(* stamps of what was indexed; Tantivy holds a document per paper and      *)
(* Qdrant its vectors.  A sweep compares papers with rows and works the    *)
(* difference off paper by paper, while the user edits, trashes, restores  *)
(* and purges papers, any step can fail and the process can die.           *)
(* A version of a paper's metadata stands for its hashes (its content      *)
(* never changes), for the chunks derived from it and for their vectors.   *)
(***************************************************************************)
EXTENDS Naturals

CONSTANTS
    Papers,
    Versions,                     \* bound: the versions of metadata and of notes
    Gone, NoRow, NoDoc, NoMeta, NoPaper,
    Semantic,                     \* whether an embedder and Qdrant are configured
    Rare,                         \* the rare histories explored: see below
    MaxEdits,                     \* bound: what the user does, rebuilds included
    MaxFailures, MaxDeaths        \* bounds: steps that fail, deaths

\* Rare histories: a process that dies between the wipe of the Tantivy directory
\* and clear_stamps ("open"); one that dies, or cannot write, between the removal
\* of a paper's document and of its row ("deindex"); an edit that takes metadata
\* or notes back to an earlier version, hash and all ("revert").
ASSUME IndexAssumption ==
    /\ Versions \in Nat /\ NoMeta \notin Nat /\ NoPaper \notin Papers
    /\ Semantic \in BOOLEAN /\ Rare \subseteq {"open", "deindex", "revert"}
    /\ {MaxEdits, MaxFailures, MaxDeaths} \subseteq Nat

\* Metadata and notes by version; 0 is "no notes", whose hash is ''.
Metas == 0 .. Versions
Notes == 0 .. Versions
NoNotes == 0

VARIABLES
    papers,     \* the papers table and the notes of each paper
    index,      \* search_index
    chunks,     \* the version each paper's chunks were derived from
    docs,       \* the Tantivy documents
    points,     \* the version each paper's vectors are of
    dir,        \* the Tantivy directory
    ix,         \* the indexing process
    spent       \* how much of each bound is used

indexVars == <<papers, index, chunks, docs, points, dir, ix, spent>>

Paper == [meta : Metas, notes : Notes, trashed : BOOLEAN]
IndexRow == [meta : Metas \cup {NoMeta}, notes : Notes,
             fts : BOOLEAN, vectors : BOOLEAN,           \* stamped
             ftsWait : BOOLEAN, vecWait : BOOLEAN]       \* backing off
Work == [fts : BOOLEAN, reextract : BOOLEAN, vectors : BOOLEAN]
Doc == [meta : Metas, notes : Notes]
Scopes == {"serve", "fts", "vectors", "both"}

\* The process: `todo` and `dels` are what is left of the sweep's plan, `cur`
\* the paper at work with the version of it that was read, the chunks in hand
\* and the notes written; `scope` tells a server from an `index rebuild`.
Process ==
    [pc : {"down", "wipe", "open", "clear", "restamp", "recreate", "idle", "sweep",
           "load", "derive", "notes", "upsert", "mark_fts", "embed", "mark_vec",
           "del_doc", "del_points", "del_row"},
     scope : Scopes, todo : [Papers -> Work], dels : SUBSET Papers,
     cur : Papers \cup {NoPaper}, read : Metas \cup {NoMeta},
     held : Metas \cup {NoMeta}, notes : Notes]

ASSUME RowAssumption == NoRow \notin IndexRow

Live == {i \in Papers : papers[i] # Gone /\ ~papers[i].trashed}

NoWork == [fts |-> FALSE, reextract |-> FALSE, vectors |-> FALSE]
Idle == [pc |-> "idle", scope |-> "serve", todo |-> [i \in Papers |-> NoWork],
         dels |-> {}, cur |-> NoPaper, read |-> NoMeta, held |-> NoMeta,
         notes |-> NoNotes]

IndexInit ==
    /\ papers = [i \in Papers |-> [meta |-> 0, notes |-> NoNotes, trashed |-> FALSE]]
    /\ index = [i \in Papers |-> NoRow]
    /\ chunks = [i \in Papers |-> NoMeta]
    /\ docs = [i \in Papers |-> NoDoc]
    /\ points = [i \in Papers |-> NoMeta]
    /\ dir = "ok"
    /\ ix = Idle
    /\ spent = [edits |-> 0, failures |-> 0, deaths |-> 0]

Spend(what, max) ==
    spent[what] < max /\ spent' = [spent EXCEPT ![what] = @ + 1]

DataUnchanged == UNCHANGED <<index, chunks, docs, points, dir>>

----------------------------------------------------------------------------
(* The user.                                                               *)

EditPaper(i, p) ==
    /\ papers[i] # Gone
    /\ papers' = [papers EXCEPT ![i] = p]
    /\ Spend("edits", MaxEdits)
    /\ DataUnchanged /\ UNCHANGED ix

Edited(v, w) == w # v /\ (w < v => "revert" \in Rare)

EditMeta(i) ==
    /\ i \in Live
    /\ \E m \in Metas : Edited(papers[i].meta, m)
                        /\ EditPaper(i, [papers[i] EXCEPT !.meta = m])
EditNotes(i) ==
    /\ i \in Live
    /\ \E n \in Notes : Edited(papers[i].notes, n)
                        /\ EditPaper(i, [papers[i] EXCEPT !.notes = n])
Trash(i) == i \in Live /\ EditPaper(i, [papers[i] EXCEPT !.trashed = TRUE])
Restore(i) ==
    i \notin Live /\ papers[i] # Gone /\ EditPaper(i, [papers[i] EXCEPT !.trashed = FALSE])
Purge(i) == i \notin Live /\ EditPaper(i, Gone)

----------------------------------------------------------------------------
(* The plan.                                                               *)

ContentChanged(i) == index[i] = NoRow \/ index[i].meta # papers[i].meta
NotesChanged(i) == index[i] = NoRow \/ index[i].notes # papers[i].notes
Reextract(i) == ContentChanged(i) \/ ~index[i].fts

\* tier_staleness: what of a live paper needs indexing.
StaleFts(i) == Reextract(i) \/ NotesChanged(i)
StaleVectors(i) == Semantic /\ (ContentChanged(i) \/ ~index[i].vectors)

\* plan: each tier waits out its own backoff, and vectors wait for a stale
\* paper's text.
PlannedWork(i) ==
    LET fts == StaleFts(i) /\ (index[i] = NoRow \/ ~index[i].ftsWait)
        vec == /\ StaleVectors(i) /\ (index[i] = NoRow \/ ~index[i].vecWait)
               /\ Reextract(i) => fts
    IN  [fts |-> fts, reextract |-> Reextract(i) /\ fts, vectors |-> vec]

\* Mutant of Tombstones: a paper in the trash keeps its entries.
Tombstones_PurgedOnly == {i \in Papers : index[i] # NoRow /\ papers[i] = Gone}

\* The index rows whose paper is trashed or gone.
Tombstones == {i \in Papers : index[i] # NoRow} \ Live

\* sweep: papers and rows are read and compared.
Sweep ==
    /\ ix.pc = "idle"
    /\ ix' = [ix EXCEPT !.pc = "sweep", !.dels = Tombstones,
                 !.todo = [i \in Papers |-> IF i \in Live THEN PlannedWork(i) ELSE NoWork]]
    /\ DataUnchanged /\ UNCHANGED <<papers, spent>>

Pending == {i \in Papers : ix.todo[i] # NoWork}

NextTombstone(i) ==
    /\ ix.pc = "sweep" /\ i \in ix.dels
    /\ ix' = [ix EXCEPT !.pc = "del_doc", !.cur = i, !.dels = @ \ {i}]
    /\ DataUnchanged /\ UNCHANGED <<papers, spent>>

NextWork(i) ==
    /\ ix.pc = "sweep" /\ ix.dels = {} /\ i \in Pending
    /\ ix' = [ix EXCEPT !.pc = "load", !.cur = i]
    /\ DataUnchanged /\ UNCHANGED <<papers, spent>>

\* The server sleeps until woken or the tick elapses; a rebuild exits.
SweepEnds ==
    /\ ix.pc = "sweep" /\ ix.dels = {} /\ Pending = {}
    /\ ix' = IF ix.scope = "serve" THEN Idle ELSE [Idle EXCEPT !.pc = "down"]
    /\ DataUnchanged /\ UNCHANGED <<papers, spent>>

----------------------------------------------------------------------------
(* index_paper, for the paper `cur`.                                       *)

Cur == ix.cur
WorkDone == [ix EXCEPT !.pc = "sweep", !.cur = NoPaper, !.read = NoMeta, !.held = NoMeta,
                !.notes = NoNotes, !.todo[Cur] = NoWork]
Goto(pc) == ix' = [ix EXCEPT !.pc = pc]

BlankRow == [meta |-> NoMeta, notes |-> NoNotes, fts |-> FALSE, vectors |-> FALSE,
             ftsWait |-> FALSE, vecWait |-> FALSE]
RowOrBlank == IF index[Cur] = NoRow THEN BlankRow ELSE index[Cur]

\* A failed step ends the paper's work and charges the backoff of its tiers.
\* The charge is an upsert of its own, which may fail and is then ignored.
FailsWith(tiers) ==
    /\ Spend("failures", MaxFailures)
    /\ ix' = WorkDone
    /\ \/ index' = [index EXCEPT ![Cur] = [RowOrBlank EXCEPT
                        !.ftsWait = @ \/ "fts" \in tiers,
                        !.vecWait = @ \/ "vectors" \in tiers]]
       \/ UNCHANGED index
    /\ UNCHANGED papers

PreTier == IF Semantic THEN {"fts", "vectors"} ELSE {"fts"}

\* The paper is read again: gone, its work is dropped; trashed, it goes on.
Load ==
    /\ ix.pc = "load"
    /\ \/ /\ ix' = IF papers[Cur] = Gone THEN WorkDone
                   ELSE [ix EXCEPT !.pc = "derive", !.read = papers[Cur].meta]
          /\ UNCHANGED <<papers, index, spent>>
       \/ FailsWith(PreTier)
    /\ UNCHANGED <<chunks, docs, points, dir>>

AfterDerive == IF ix.todo[Cur].fts THEN "notes" ELSE "embed"

\* Mutants of ReplacedRow: the vectors' stamp is kept; the version is not written.
ReplacedRow_KeepsVectors == [RowOrBlank EXCEPT !.meta = ix.read, !.fts = FALSE]
ReplacedRow_KeepsMeta == [RowOrBlank EXCEPT !.fts = FALSE, !.vectors = FALSE]

\* The row after replace_chunks: the hashes of the version read, no stamps.
ReplacedRow == [RowOrBlank EXCEPT !.meta = ix.read, !.fts = FALSE, !.vectors = FALSE]

\* derive_chunks: the text is extracted, and the chunks and the row replaced in
\* one transaction; or the stored chunks are taken.
Derive ==
    /\ ix.pc = "derive"
    /\ \/ /\ ix.todo[Cur].reextract
          /\ chunks' = [chunks EXCEPT ![Cur] = ix.read]
          /\ index' = [index EXCEPT ![Cur] = ReplacedRow]
          /\ ix' = [ix EXCEPT !.pc = AfterDerive, !.held = ix.read]
          /\ UNCHANGED <<papers, spent>>
       \/ /\ ~ix.todo[Cur].reextract
          /\ ix' = [ix EXCEPT !.pc = AfterDerive, !.held = chunks[Cur]]
          /\ UNCHANGED <<papers, chunks, index, spent>>
       \/ FailsWith(PreTier) /\ UNCHANGED chunks
    /\ UNCHANGED <<docs, points, dir>>

\* index_fts: the notes are read, the document written, the row stamped with
\* the hash of the notes written.  Tantivy can fail after its commit, when the
\* reader reloads.
ReadNotes ==
    /\ ix.pc = "notes"
    /\ \/ /\ ix' = [ix EXCEPT !.pc = "upsert",
                 !.notes = IF papers[Cur] = Gone THEN NoNotes ELSE papers[Cur].notes]
          /\ UNCHANGED <<papers, index, spent>>
       \/ FailsWith({"fts"})
    /\ UNCHANGED <<chunks, docs, points, dir>>

UpsertDoc ==
    /\ ix.pc = "upsert"
    /\ LET written == [docs EXCEPT ![Cur] = [meta |-> ix.read, notes |-> ix.notes]]
       IN  \/ docs' = written /\ Goto("mark_fts") /\ UNCHANGED <<papers, index, spent>>
           \/ FailsWith({"fts"}) /\ docs' \in {docs, written}
    /\ UNCHANGED <<chunks, points, dir>>

\* Mutant of NotesStamped: the notes as they are now.
NotesStamped_Now == IF papers[Cur] = Gone THEN NoNotes ELSE papers[Cur].notes

\* The notes mark_fts_done is given.
NotesStamped == ix.notes

AfterFts == IF ix.todo[Cur].vectors THEN [ix EXCEPT !.pc = "embed"] ELSE WorkDone

MarkFts ==
    /\ ix.pc = "mark_fts"
    /\ \/ /\ index' = IF index[Cur] = NoRow THEN index
                      ELSE [index EXCEPT ![Cur].fts = TRUE, ![Cur].notes = NotesStamped,
                                         ![Cur].ftsWait = FALSE]
          /\ ix' = AfterFts /\ UNCHANGED <<papers, spent>>
       \/ FailsWith({"fts"})
    /\ UNCHANGED <<chunks, docs, points, dir>>

\* index_vectors: the chunks are embedded and their points written, in batches
\* the failure of one of which leaves a mixture.
Embed ==
    /\ ix.pc = "embed"
    /\ \/ points' = [points EXCEPT ![Cur] = ix.held]
          /\ Goto("mark_vec") /\ UNCHANGED <<papers, index, spent>>
       \/ /\ FailsWith({"vectors"})
          /\ \/ UNCHANGED points
             \/ points' = [points EXCEPT ![Cur] = NoMeta]
    /\ UNCHANGED <<chunks, docs, dir>>

MarkVectors ==
    /\ ix.pc = "mark_vec"
    /\ \/ /\ index' = IF index[Cur] = NoRow THEN index
                      ELSE [index EXCEPT ![Cur].vectors = TRUE, ![Cur].vecWait = FALSE]
          /\ ix' = WorkDone /\ UNCHANGED <<papers, spent>>
       \/ FailsWith({"vectors"})
    /\ UNCHANGED <<chunks, docs, points, dir>>

\* A backoff of at most an hour elapses.
Elapse(i) ==
    /\ index[i] # NoRow /\ (index[i].ftsWait \/ index[i].vecWait)
    /\ \/ index[i].ftsWait /\ index' = [index EXCEPT ![i].ftsWait = FALSE]
       \/ index[i].vecWait /\ index' = [index EXCEPT ![i].vecWait = FALSE]
    /\ UNCHANGED <<papers, chunks, docs, points, dir, ix, spent>>

----------------------------------------------------------------------------
(* deindex_paper: the document, the points if Qdrant answers, the row.     *)

DelDoc ==
    /\ ix.pc = "del_doc"
    /\ \/ docs' = [docs EXCEPT ![Cur] = NoDoc]
          /\ Goto("del_points") /\ UNCHANGED spent
       \/ /\ Spend("failures", MaxFailures) /\ ix' = WorkDone
          /\ \/ UNCHANGED docs
             \/ "deindex" \in Rare /\ docs' = [docs EXCEPT ![Cur] = NoDoc]
    /\ UNCHANGED <<papers, index, chunks, points, dir>>

DelPoints ==
    /\ ix.pc = "del_points"
    /\ \/ points' = [points EXCEPT ![Cur] = NoMeta] /\ UNCHANGED spent
       \/ Semantic /\ Spend("failures", MaxFailures) /\ UNCHANGED points
    /\ Goto("del_row")
    /\ UNCHANGED <<papers, index, chunks, docs, dir>>

\* remove_index_entry: the chunks, then the row, either of which may fail.
DelRow ==
    /\ ix.pc = "del_row"
    /\ \/ /\ chunks' = [chunks EXCEPT ![Cur] = NoMeta]
          /\ index' = [index EXCEPT ![Cur] = NoRow]
          /\ UNCHANGED spent
       \/ /\ "deindex" \in Rare /\ Spend("failures", MaxFailures)
          /\ \/ UNCHANGED chunks
             \/ chunks' = [chunks EXCEPT ![Cur] = NoMeta]
          /\ UNCHANGED index
    /\ ix' = WorkDone
    /\ UNCHANGED <<papers, docs, points, dir>>

----------------------------------------------------------------------------
(* The life of the process.                                                *)

Deindexing == {"del_points", "del_row"}

\* A death, anywhere but within an update it may not tear.
Dies ==
    /\ ix.pc # "down" /\ Spend("deaths", MaxDeaths)
    /\ ix.pc \in Deindexing => "deindex" \in Rare
    /\ ix.pc = "clear" => "open" \in Rare
    /\ ix' = [Idle EXCEPT !.pc = "down"]
    /\ DataUnchanged /\ UNCHANGED papers

\* The directory becomes corrupt, or a new build has another schema version.
DirBreaks ==
    /\ ix.pc = "down" /\ dir = "ok" /\ dir' = "broken"
    /\ UNCHANGED <<papers, index, chunks, docs, points, ix, spent>>

Boot ==
    /\ ix.pc = "down" /\ Goto("open")
    /\ DataUnchanged /\ UNCHANGED <<papers, spent>>

\* `index rebuild`, with the server stopped: the Tantivy directory is removed.
Rebuild ==
    /\ ix.pc = "down" /\ Spend("edits", MaxEdits)
    /\ \E s \in {"fts", "vectors", "both"} :
         /\ s # "fts" => Semantic
         /\ ix' = [ix EXCEPT !.pc = IF s = "vectors" THEN "open" ELSE "wipe", !.scope = s]
    /\ DataUnchanged /\ UNCHANGED papers

NoDocs == [i \in Papers |-> NoDoc]

Wipe ==
    /\ ix.pc = "wipe"
    /\ docs' = NoDocs /\ dir' = "missing" /\ Goto("open")
    /\ UNCHANGED <<papers, index, chunks, points, spent>>

Opened == IF ix.scope = "serve" THEN "idle" ELSE "restamp"

\* FtsIndex::open: a missing or unusable directory is created anew, and the
\* stamps are then to be cleared.
Open ==
    /\ ix.pc = "open"
    /\ dir' = "ok"
    /\ IF dir = "ok" THEN Goto(Opened) /\ UNCHANGED docs
                     ELSE Goto("clear") /\ docs' = NoDocs
    /\ UNCHANGED <<papers, index, chunks, points, spent>>

\* clear_stamps, with the attempts of the tiers it clears.
Cleared(fts, vec) ==
    [i \in Papers |-> IF index[i] = NoRow THEN NoRow ELSE
        [index[i] EXCEPT !.fts = @ /\ ~fts, !.ftsWait = @ /\ ~fts,
                         !.vectors = @ /\ ~vec, !.vecWait = @ /\ ~vec]]

ClearStamps ==
    /\ ix.pc = "clear"
    /\ index' = Cleared(TRUE, FALSE) /\ Goto(Opened)
    /\ UNCHANGED <<papers, chunks, docs, points, dir, spent>>

\* rebuild clears the stamps of its scope, then recreates the collection.
Restamp ==
    /\ ix.pc = "restamp"
    /\ index' = Cleared(ix.scope # "vectors", ix.scope # "fts")
    /\ Goto(IF ix.scope = "fts" THEN "idle" ELSE "recreate")
    /\ UNCHANGED <<papers, chunks, docs, points, dir, spent>>

Recreate ==
    /\ ix.pc = "recreate"
    /\ points' = [i \in Papers |-> NoMeta] /\ Goto("idle")
    /\ UNCHANGED <<papers, index, chunks, docs, dir, spent>>

----------------------------------------------------------------------------

Indexer ==
    \/ Sweep \/ SweepEnds \/ Load \/ Derive \/ ReadNotes \/ UpsertDoc \/ MarkFts
    \/ Embed \/ MarkVectors \/ DelDoc \/ DelPoints \/ DelRow
    \/ Boot \/ Wipe \/ Open \/ ClearStamps \/ Restamp \/ Recreate
    \/ \E i \in Papers : NextTombstone(i) \/ NextWork(i)

IndexNext ==
    \/ Indexer \/ Dies \/ DirBreaks \/ Rebuild
    \/ \E i \in Papers : EditMeta(i) \/ EditNotes(i) \/ Trash(i) \/ Restore(i)
                         \/ Purge(i) \/ Elapse(i)

\* The loop sweeps at least every tick and awaits each step; a stopped server
\* is started again; time passes.
IndexSpec ==
    /\ IndexInit /\ [][IndexNext]_indexVars
    /\ WF_indexVars(Indexer)
    /\ \A i \in Papers : WF_indexVars(Elapse(i))

----------------------------------------------------------------------------

\* Type correctness, with the chunks a row accounts for: a row that names a
\* version has that version's chunks, for they are replaced in one transaction.
IndexTypeOK ==
    /\ papers \in [Papers -> Paper \cup {Gone}]
    /\ index \in [Papers -> IndexRow \cup {NoRow}]
    /\ chunks \in [Papers -> Metas \cup {NoMeta}]
    /\ docs \in [Papers -> Doc \cup {NoDoc}]
    /\ points \in [Papers -> Metas \cup {NoMeta}]
    /\ dir \in {"ok", "broken", "missing"}
    /\ ix \in Process
    /\ \A i \in Papers :
         index[i] # NoRow /\ "deindex" \notin Rare => chunks[i] = index[i].meta

\* A wiped index whose stamps the process at work has still to clear, and a
\* paper it is removing from the index.
Opening == dir # "ok" \/ ix.pc = "clear"
BeingRemoved(i) == ix.pc \in Deindexing /\ ix.cur = i

\* Indexed means indexed: a live paper that the planner, and the status page,
\* count as indexed for full text has a document with its present metadata and
\* notes, whatever edits, failures and deaths came between (tier_staleness).
FtsFresh ==
    \A i \in Live : ~StaleFts(i) =>
        \/ docs[i] = [meta |-> papers[i].meta, notes |-> papers[i].notes]
        \/ Opening \/ BeingRemoved(i)

\* The same of the vectors.
VectorsFresh ==
    \A i \in Live : Semantic /\ ~StaleVectors(i) =>
        points[i] = papers[i].meta \/ BeingRemoved(i)

\* Once the user and the failures rest, the sweeps leave nothing to do: every
\* live paper is searchable as it is now, and nothing is left of the others
\* but, where Qdrant failed, vectors (plan, backoff_elapsed, run).
Settles ==
    <>[] \A i \in Papers :
        IF i \in Live
        THEN /\ docs[i] = [meta |-> papers[i].meta, notes |-> papers[i].notes]
             /\ Semantic => points[i] = papers[i].meta
        ELSE docs[i] = NoDoc /\ index[i] = NoRow /\ chunks[i] = NoMeta

=============================================================================
