------------------------- MODULE SearchIndex_proofs -------------------------
(***************************************************************************)
(* Proofs about module SearchIndex, for any number of papers, of versions  *)
(* of them, of edits, failures and deaths.                                 *)
(***************************************************************************)
EXTENDS SearchIndex, TLAPS

AtPaper == {"load", "derive", "notes", "upsert", "mark_fts", "embed", "mark_vec",
            "del_doc", "del_points", "del_row"}
\* The stages of index_paper that have read the paper, and those that have its
\* chunks in hand.
Reading == {"derive", "notes", "upsert", "mark_fts", "embed", "mark_vec"}
Holding == Reading \ {"derive"}

HasRow(i) == index[i] # NoRow
At(i, pcs) == ix.pc \in pcs /\ ix.cur = i

\* The chunks and the row's hashes go together, and a stage that reads or
\* writes for a paper has one, in the version it has read.
IndexTypeInv ==
    /\ IndexTypeOK
    /\ "deindex" \notin Rare =>
           \A i \in Papers : ~HasRow(i) => chunks[i] = NoMeta
    /\ ix.pc \in AtPaper => ix.cur \in Papers
    /\ ix.pc \in Reading => ix.read \in Metas

\* The planned work of a paper is what its row calls for: whatever is not to be
\* extracted again has chunks, and vectors not stamped.
Planned(i) ==
    /\ At(i, {"load"} \cup Reading) => ix.todo[i] # NoWork
    /\ ix.todo[i] # NoWork /\ HasRow(i) =>
         \/ ix.todo[i].reextract
         \/ /\ index[i].meta # NoMeta
            /\ ix.todo[i].vectors => ~index[i].vectors

\* The chunks in hand are those of the row, which is not stamped yet if vectors
\* are to be made of them.
Held(i) ==
    At(i, Holding) /\ HasRow(i) =>
        /\ index[i].meta # NoMeta
        /\ ix.held = index[i].meta
        /\ ix.todo[i].vectors \/ ix.pc \in {"embed", "mark_vec"} => ~index[i].vectors
        /\ ix.pc = "mark_vec" => points[i] = ix.held

\* A stamp of the vectors stands for points of the row's version.
Embedded(i) ==
    HasRow(i) /\ index[i].vectors => points[i] = index[i].meta \/ BeingRemoved(i)

VectorsInv ==
    /\ \A i \in Papers : Planned(i) /\ Held(i) /\ Embedded(i)
    /\ ix.pc = "recreate" => \A i \in Papers : HasRow(i) => ~index[i].vectors

\* While no edit goes back, a row has no version its paper has not had ...
RowBehind(i) ==
    papers[i] # Gone /\ HasRow(i) =>
        /\ index[i].meta # NoMeta => index[i].meta <= papers[i].meta
        /\ index[i].notes <= papers[i].notes

\* ... what the indexer has read of it lies between the row and the paper ...
ReadBetween(i) ==
    papers[i] # Gone =>
        /\ At(i, Reading) =>
             /\ ix.read <= papers[i].meta
             /\ HasRow(i) /\ index[i].meta # NoMeta => index[i].meta <= ix.read
        /\ At(i, {"upsert", "mark_fts"}) =>
             /\ ix.notes <= papers[i].notes
             /\ HasRow(i) => index[i].notes <= ix.notes
        /\ At(i, {"mark_fts"}) => docs[i] = [meta |-> ix.read, notes |-> ix.notes]

\* ... and so does the document of a stamped row.
DocBetween(i) ==
    papers[i] # Gone /\ HasRow(i) /\ index[i].fts /\ ~Opening /\ ~BeingRemoved(i) =>
        /\ docs[i] \in Doc /\ index[i].meta # NoMeta
        /\ index[i].meta <= docs[i].meta /\ docs[i].meta <= papers[i].meta
        /\ index[i].notes <= docs[i].notes /\ docs[i].notes <= papers[i].notes

FtsInv == \A i \in Papers : RowBehind(i) /\ ReadBetween(i) /\ DocBetween(i)

----------------------------------------------------------------------------
(* The steps of the process.                                               *)

\* What the process does for the paper at work.
PaperStep ==
    \/ Load \/ Derive \/ ReadNotes \/ UpsertDoc \/ MarkFts \/ Embed \/ MarkVectors
    \/ DelDoc \/ DelPoints \/ DelRow

\* What it does between papers, and what becomes of it.
ProcessStep ==
    \/ Sweep \/ SweepEnds \/ Dies \/ Boot \/ Rebuild
    \/ \E i \in Papers : NextTombstone(i) \/ NextWork(i)

StoreStep == DirBreaks \/ Wipe \/ Open \/ ClearStamps \/ Restamp \/ Recreate

UserStep(i) == EditMeta(i) \/ EditNotes(i) \/ Trash(i) \/ Restore(i) \/ Purge(i)

LEMMA NextSteps ==
    [IndexNext]_indexVars <=>
        \/ PaperStep \/ ProcessStep \/ StoreStep
        \/ \E i \in Papers : UserStep(i) \/ Elapse(i)
        \/ UNCHANGED indexVars
BY DEF IndexNext, Indexer, PaperStep, ProcessStep, StoreStep, UserStep

LEMMA WorkDoneIs ==
    ASSUME IndexTypeInv, ix.cur \in Papers
    PROVE  /\ WorkDone \in Process
           /\ WorkDone.pc = "sweep" /\ WorkDone.cur = NoPaper
           /\ WorkDone.todo[ix.cur] = NoWork
           /\ \A i \in Papers \ {ix.cur} : WorkDone.todo[i] = ix.todo[i]
<1>1. ix \in Process /\ NoWork \in Work
  BY DEF IndexTypeInv, IndexTypeOK, NoWork, Work
<1>2. /\ NoWork \in Work /\ NoPaper \in Papers \cup {NoPaper} /\ NoNotes \in Notes
      /\ NoMeta \in Metas \cup {NoMeta}
  BY <1>1, IndexAssumption DEF Notes, NoNotes
<1>3. [ix.todo EXCEPT ![ix.cur] = NoWork] \in [Papers -> Work]
  BY <1>1 DEF Process
<1> QED
  BY <1>1, <1>2, <1>3 DEF WorkDone, Cur, Process

LEMMA GoneTo ==
    ASSUME IndexTypeInv, NEW pc, Goto(pc)
    PROVE  /\ ix'.pc = pc
           /\ ix'.scope = ix.scope /\ ix'.todo = ix.todo /\ ix'.dels = ix.dels
           /\ ix'.cur = ix.cur /\ ix'.read = ix.read /\ ix'.held = ix.held
           /\ ix'.notes = ix.notes
BY DEF IndexTypeInv, IndexTypeOK, Process, Goto

LEMMA RowTyped ==
    ASSUME IndexTypeInv, ix.cur \in Papers
    PROVE  /\ BlankRow \in IndexRow /\ RowOrBlank \in IndexRow
           /\ index[ix.cur] # NoRow => RowOrBlank = index[ix.cur]
           /\ index[ix.cur] = NoRow => RowOrBlank = BlankRow
<1>1. BlankRow \in IndexRow
  BY IndexAssumption DEF BlankRow, IndexRow, Notes, NoNotes
<1>2. index[ix.cur] \in IndexRow \cup {NoRow}
  BY DEF IndexTypeInv, IndexTypeOK
<1> QED
  BY <1>1, <1>2 DEF RowOrBlank, Cur

\* A failed step of a paper gives up its work, and charges its row at most.
LEMMA FailureCharges ==
    ASSUME IndexTypeInv, ix.cur \in Papers, NEW tiers, FailsWith(tiers)
    PROVE  /\ ix' = WorkDone /\ UNCHANGED papers
           /\ index' \in [Papers -> IndexRow \cup {NoRow}]
           /\ \A i \in Papers \ {ix.cur} : index'[i] = index[i]
           /\ \/ index'[ix.cur] = index[ix.cur]
              \/ /\ index'[ix.cur] \in IndexRow
                 /\ index'[ix.cur].meta = RowOrBlank.meta
                 /\ index'[ix.cur].notes = RowOrBlank.notes
                 /\ index'[ix.cur].fts = RowOrBlank.fts
                 /\ index'[ix.cur].vectors = RowOrBlank.vectors
<1> DEFINE charged == [RowOrBlank EXCEPT !.ftsWait = @ \/ "fts" \in tiers,
                                         !.vecWait = @ \/ "vectors" \in tiers]
<1>1. /\ charged \in IndexRow
      /\ charged.meta = RowOrBlank.meta /\ charged.notes = RowOrBlank.notes
      /\ charged.fts = RowOrBlank.fts /\ charged.vectors = RowOrBlank.vectors
  BY RowTyped DEF IndexRow
<1>2. index' = index \/ index' = [index EXCEPT ![ix.cur] = charged]
  BY DEF FailsWith, Cur
<1>3. index \in [Papers -> IndexRow \cup {NoRow}]
  BY DEF IndexTypeInv, IndexTypeOK
<1> HIDE DEF charged
<1>4. CASE index' = index
  BY <1>3, <1>4 DEF FailsWith
<1>5. CASE index' = [index EXCEPT ![ix.cur] = charged]
  BY <1>1, <1>3, <1>5 DEF FailsWith
<1> QED
  BY <1>2, <1>4, <1>5


LEMMA CurAtPaper ==
    ASSUME IndexTypeInv, PaperStep
    PROVE  ix.pc \in AtPaper /\ ix.cur \in Papers
BY DEF IndexTypeInv, PaperStep, Load, Derive, ReadNotes, UpsertDoc, MarkFts, Embed, MarkVectors,
   DelDoc, DelPoints, DelRow, AtPaper

\* The process stays at the paper, with its plan, or is done with it.
LEMMA PaperStays ==
    ASSUME IndexTypeInv, PaperStep
    PROVE  \/ ix' = WorkDone
           \/ /\ ix'.pc \in AtPaper /\ ix'.cur = ix.cur
              /\ ix'.todo = ix.todo /\ ix'.dels = ix.dels /\ ix'.scope = ix.scope
<1>t. ix \in Process
  BY DEF IndexTypeInv, IndexTypeOK
<1>1. CASE ix' = WorkDone
  BY <1>1
<1>2. ASSUME ~(ix' = WorkDone)
      PROVE  \/ \E pc \in AtPaper : Goto(pc)
             \/ \E pc \in AtPaper, r \in Metas : ix' = [ix EXCEPT !.pc = pc, !.read = r]
             \/ \E pc \in AtPaper, h \in Metas \cup {NoMeta} : ix' = [ix EXCEPT !.pc = pc, !.held = h]
             \/ \E pc \in AtPaper, n \in Notes : ix' = [ix EXCEPT !.pc = pc, !.notes = n]
  <2>k. ix.cur \in Papers
    BY CurAtPaper
  <2>p. /\ papers[ix.cur] # Gone => papers[ix.cur].meta \in Metas /\ papers[ix.cur].notes \in Notes
        /\ NoNotes \in Notes /\ chunks[ix.cur] \in Metas \cup {NoMeta}
    BY <2>k, IndexAssumption DEF IndexTypeInv, IndexTypeOK, Paper, Notes, NoNotes
  <2>1. CASE Load
    <3>1. papers[ix.cur] # Gone /\ ix' = [ix EXCEPT !.pc = "derive", !.read = papers[ix.cur].meta]
      BY <1>2, <2>1 DEF Load, FailsWith, Cur
    <3> QED
      BY <2>p, <3>1 DEF AtPaper
  <2>2. CASE Derive
    <3>1. \/ ix' = [ix EXCEPT !.pc = AfterDerive, !.held = ix.read] /\ ix.pc = "derive"
          \/ ix' = [ix EXCEPT !.pc = AfterDerive, !.held = chunks[ix.cur]]
      BY <1>2, <2>2 DEF Derive, FailsWith, Cur
    <3>2. AfterDerive \in AtPaper
      BY DEF AfterDerive, AtPaper
    <3> QED
      BY <2>p, <3>1, <3>2 DEF IndexTypeInv, Reading
  <2>3. CASE ReadNotes
    <3>1. \E n \in Notes : ix' = [ix EXCEPT !.pc = "upsert", !.notes = n]
      BY <1>2, <2>3, <2>p DEF ReadNotes, FailsWith, Cur
    <3> QED
      BY <3>1 DEF AtPaper
  <2>4. CASE UpsertDoc \/ Embed \/ DelDoc \/ DelPoints
    <3>1. Goto("mark_fts") \/ Goto("mark_vec") \/ Goto("del_points") \/ Goto("del_row")
      BY <1>2, <2>4, Zenon DEF UpsertDoc, Embed, DelDoc, DelPoints, FailsWith
    <3> QED
      BY <3>1 DEF AtPaper
  <2>5. CASE MarkFts
    <3>1. Goto("embed")
      BY <1>2, <2>5 DEF MarkFts, AfterFts, FailsWith, Goto
    <3> QED
      BY <3>1 DEF AtPaper
  <2>6. CASE MarkVectors \/ DelRow
    BY <1>2, <2>6 DEF MarkVectors, DelRow, FailsWith
  <2> QED
    BY <2>1, <2>2, <2>3, <2>4, <2>5, <2>6 DEF PaperStep
<1> QED
  BY <1>t, <1>1, <1>2 DEF Process, Goto

\* Whatever fails, the process works on one paper at a time.
LEMMA OthersKept ==
    ASSUME IndexTypeInv, PaperStep, NEW i \in Papers \ {ix.cur}
    PROVE  /\ papers' = papers /\ dir' = dir
           /\ index'[i] = index[i] /\ chunks'[i] = chunks[i]
           /\ docs'[i] = docs[i] /\ points'[i] = points[i]
           /\ ix'.todo[i] = ix.todo[i]
           /\ ix'.cur # i
<1>t. ix.cur \in Papers /\ NoPaper \notin Papers
  BY CurAtPaper, IndexAssumption
<1>1. ix'.todo[i] = ix.todo[i] /\ ix'.cur # i
  BY <1>t, PaperStays, WorkDoneIs
<1>2. ASSUME NEW tiers, FailsWith(tiers)
      PROVE  papers' = papers /\ index'[i] = index[i]
  BY <1>t, <1>2, FailureCharges
<1>3. /\ chunks \in [Papers -> Metas \cup {NoMeta}] /\ docs \in [Papers -> Doc \cup {NoDoc}]
      /\ points \in [Papers -> Metas \cup {NoMeta}] /\ index \in [Papers -> IndexRow \cup {NoRow}]
  BY DEF IndexTypeInv, IndexTypeOK
<1>4. papers' = papers /\ index'[i] = index[i] /\ dir' = dir
  <2>1. CASE \E tiers : FailsWith(tiers)
    BY <1>2, <2>1 DEF PaperStep, Load, Derive, ReadNotes, UpsertDoc, MarkFts, Embed, MarkVectors,
       DelDoc, DelPoints, DelRow
  <2>2. CASE ~\E tiers : FailsWith(tiers)
    BY <1>3, <2>2 DEF PaperStep, Load, Derive, ReadNotes, UpsertDoc, MarkFts, Embed, MarkVectors,
       DelDoc, DelPoints, DelRow, Cur
  <2> QED
    BY <2>1, <2>2
<1>5. chunks'[i] = chunks[i] /\ docs'[i] = docs[i] /\ points'[i] = points[i]
  BY <1>3 DEF PaperStep, Load, Derive, ReadNotes, UpsertDoc, MarkFts, Embed, MarkVectors,
     DelDoc, DelPoints, DelRow, Cur
<1> QED
  BY <1>1, <1>4, <1>5

----------------------------------------------------------------------------
(* Types.                                                                  *)

LEMMA IndexTypeInit == IndexInit => IndexTypeInv
<1> SUFFICES ASSUME IndexInit PROVE IndexTypeInv
  OBVIOUS
<1>1. 0 \in Metas /\ 0 \in Notes /\ NoWork \in Work
  BY IndexAssumption DEF Metas, Notes, NoWork, Work
<1>2. papers \in [Papers -> Paper \cup {Gone}]
  BY <1>1 DEF IndexInit, Paper, NoNotes
<1>3. ix \in Process
  BY <1>1 DEF IndexInit, Idle, Process, Scopes, NoNotes
<1>4. /\ index \in [Papers -> IndexRow \cup {NoRow}]
      /\ chunks \in [Papers -> Metas \cup {NoMeta}]
      /\ docs \in [Papers -> Doc \cup {NoDoc}]
      /\ points \in [Papers -> Metas \cup {NoMeta}]
      /\ dir \in {"ok", "broken", "missing"}
      /\ \A i \in Papers : index[i] = NoRow /\ chunks[i] = NoMeta
  BY DEF IndexInit
<1>5. ix.pc = "idle"
  BY DEF IndexInit, Idle
<1> QED
  BY <1>2, <1>3, <1>4, <1>5 DEF IndexTypeInv, IndexTypeOK, HasRow, AtPaper, Reading

\* The stores, typed apart from the process.
StoresTyped ==
    /\ papers \in [Papers -> Paper \cup {Gone}]
    /\ index \in [Papers -> IndexRow \cup {NoRow}]
    /\ chunks \in [Papers -> Metas \cup {NoMeta}]
    /\ docs \in [Papers -> Doc \cup {NoDoc}]
    /\ points \in [Papers -> Metas \cup {NoMeta}]
    /\ dir \in {"ok", "broken", "missing"}

ChunksOf(i) ==
    "deindex" \notin Rare => chunks[i] = IF HasRow(i) THEN index[i].meta ELSE NoMeta

LEMMA TypesParted ==
    IndexTypeInv <=>
        /\ StoresTyped /\ ix \in Process
        /\ \A i \in Papers : ChunksOf(i)
        /\ ix.pc \in AtPaper => ix.cur \in Papers
        /\ ix.pc \in Reading => ix.read \in Metas
BY DEF IndexTypeInv, IndexTypeOK, StoresTyped, ChunksOf, HasRow

LEMMA ReplacedRowTyped ==
    ASSUME IndexTypeInv, ix.cur \in Papers, ix.read \in Metas
    PROVE  /\ ReplacedRow \in IndexRow /\ ReplacedRow.meta = ix.read
           /\ ReplacedRow.notes = RowOrBlank.notes
           /\ ~ReplacedRow.fts /\ ~ReplacedRow.vectors
BY RowTyped DEF ReplacedRow, IndexRow

\* A failed step leaves the rows typed, and a row made for the charge has no
\* version: it accounts for no chunks.
LEMMA FailureTyped ==
    ASSUME IndexTypeInv, NEW c \in Papers, c = ix.cur, NEW tiers, FailsWith(tiers), UNCHANGED chunks
    PROVE  /\ index' \in [Papers -> IndexRow \cup {NoRow}]
           /\ ix' = WorkDone
           /\ ChunksOf(c)'
<1>1. /\ ix' = WorkDone
      /\ index' \in [Papers -> IndexRow \cup {NoRow}]
      /\ \/ index'[c] = index[c]
         \/ index'[c] \in IndexRow /\ index'[c].meta = RowOrBlank.meta
  BY FailureCharges
<1>2. ChunksOf(c) /\ BlankRow.meta = NoMeta
  BY TypesParted DEF BlankRow
<1> QED
  BY <1>1, <1>2, RowTyped, RowAssumption DEF ChunksOf, HasRow

LEMMA PaperStepTyped ==
    ASSUME IndexTypeInv, PaperStep
    PROVE  IndexTypeInv'
<1>0. PICK c \in Papers : c = ix.cur
  BY CurAtPaper
<1>c. c = ix.cur /\ ix.pc \in AtPaper
  BY <1>0, CurAtPaper
<1>t. /\ StoresTyped /\ ix \in Process /\ \A i \in Papers : ChunksOf(i)
      /\ ix.pc \in Reading => ix.read \in Metas
  BY TypesParted
<1>w. WorkDone \in Process /\ WorkDone.pc = "sweep"
  BY <1>c, WorkDoneIs
<1>o. ASSUME NEW i \in Papers \ {c} PROVE ChunksOf(i)'
  BY <1>t, <1>c, OthersKept DEF ChunksOf, HasRow
<1>s. ASSUME StoresTyped', ix' \in Process, ChunksOf(c)',
             ix'.pc \in Reading => ix'.read \in Metas
      PROVE  IndexTypeInv'
  <2>1. ix'.pc \in AtPaper => ix'.cur \in Papers
    BY <1>c, <1>w, PaperStays DEF AtPaper
  <2>2. \A i \in Papers : ChunksOf(i)'
    BY <1>o, <1>s
  <2> QED
    BY <1>s, <2>1, <2>2 DEF IndexTypeInv, IndexTypeOK, StoresTyped, ChunksOf, HasRow
<1>f. ASSUME NEW tiers, FailsWith(tiers), UNCHANGED <<chunks, dir>>,
             docs' \in [Papers -> Doc \cup {NoDoc}],
             points' \in [Papers -> Metas \cup {NoMeta}]
      PROVE  IndexTypeInv'
  <2>1. /\ index' \in [Papers -> IndexRow \cup {NoRow}] /\ ix' = WorkDone
        /\ ChunksOf(c)' /\ papers' = papers
    BY <1>c, <1>f, FailureTyped, FailureCharges
  <2> QED
    BY <1>s, <1>f, <1>t, <1>w, <2>1 DEF StoresTyped, Reading
<1>g. ASSUME NEW pc \in {"mark_fts", "mark_vec", "del_points", "del_row", "embed"}, Goto(pc),
             ix.pc \in Reading \/ pc \in {"del_points", "del_row"}
      PROVE  ix' \in Process /\ (ix'.pc \in Reading => ix'.read \in Metas)
  BY <1>t, <1>g DEF Goto, Process, Reading
<1>1. CASE Load
  <2>1. CASE papers[c] = Gone /\ ix' = WorkDone /\ UNCHANGED <<papers, index>>
    BY <1>s, <1>t, <1>w, <1>c, <1>1, <2>1 DEF Load, StoresTyped, Reading, ChunksOf, HasRow
  <2>2. CASE papers[c] # Gone /\ ix' = [ix EXCEPT !.pc = "derive", !.read = papers[c].meta]
             /\ UNCHANGED <<papers, index>>
    <3>1. papers[c].meta \in Metas
      BY <1>c, <1>t, <2>2 DEF StoresTyped, Paper
    <3>2. ix' \in Process /\ ix'.read \in Metas
      BY <1>t, <2>2, <3>1 DEF Process
    <3> QED
      BY <1>s, <1>t, <1>c, <1>1, <2>2, <3>2 DEF Load, StoresTyped, ChunksOf, HasRow
  <2>3. CASE FailsWith(PreTier)
    BY <1>f, <1>t, <1>1, <2>3 DEF Load, StoresTyped
  <2> QED
    BY <1>c, <1>1, <2>1, <2>2, <2>3 DEF Load, Cur
<1>2. CASE Derive
  <2>r. ix.read \in Metas
    BY <1>t, <1>2 DEF Derive, Reading
  <2>a. AfterDerive \in {"notes", "embed"}
    BY DEF AfterDerive
  <2>1. CASE /\ chunks' = [chunks EXCEPT ![c] = ix.read]
             /\ index' = [index EXCEPT ![c] = ReplacedRow]
             /\ ix' = [ix EXCEPT !.pc = AfterDerive, !.held = ix.read] /\ papers' = papers
    <3>1. ix' \in Process /\ ix'.read \in Metas
      BY <1>t, <2>r, <2>a, <2>1 DEF Process
    <3>2. StoresTyped'
      BY <1>t, <1>c, <1>2, <2>r, <2>1, ReplacedRowTyped DEF StoresTyped, Derive
    <3>3. ChunksOf(c)'
      BY <1>t, <1>c, <2>r, <2>1, ReplacedRowTyped, RowAssumption DEF StoresTyped, ChunksOf, HasRow
    <3> QED
      BY <1>s, <3>1, <3>2, <3>3
  <2>2. CASE ix' = [ix EXCEPT !.pc = AfterDerive, !.held = chunks[c]]
             /\ UNCHANGED <<papers, chunks, index>>
    <3>1. ix' \in Process /\ ix'.read \in Metas
      BY <1>t, <1>c, <2>r, <2>a, <2>2 DEF Process, StoresTyped
    <3> QED
      BY <1>s, <1>t, <1>c, <1>2, <2>2, <3>1 DEF Derive, StoresTyped, ChunksOf, HasRow
  <2>3. CASE FailsWith(PreTier) /\ UNCHANGED chunks
    BY <1>f, <1>t, <1>2, <2>3 DEF Derive, StoresTyped
  <2> QED
    BY <1>c, <1>2, <2>1, <2>2, <2>3 DEF Derive, Cur
<1>3. CASE ReadNotes
  <2>1. CASE FailsWith({"fts"})
    BY <1>f, <1>t, <1>3, <2>1 DEF ReadNotes, StoresTyped
  <2>2. CASE UNCHANGED <<papers, index>> /\ \E n \in Notes : ix' = [ix EXCEPT !.pc = "upsert", !.notes = n]
    <3>1. ix' \in Process /\ ix'.read = ix.read
      BY <1>t, <2>2 DEF Process
    <3>2. ix.read \in Metas
      BY <1>t, <1>3 DEF ReadNotes, Reading
    <3> QED
      BY <1>s, <1>t, <1>c, <1>3, <2>2, <3>1, <3>2 DEF ReadNotes, StoresTyped, ChunksOf, HasRow
  <2>3. NoNotes \in Notes /\ (papers[c] # Gone => papers[c].notes \in Notes)
    BY <1>t, <1>c, IndexAssumption DEF StoresTyped, Paper, Notes, NoNotes
  <2> QED
    BY <1>c, <1>3, <2>1, <2>2, <2>3 DEF ReadNotes, Cur
<1>4. CASE UpsertDoc
  <2> DEFINE written == [docs EXCEPT ![c] = [meta |-> ix.read, notes |-> ix.notes]]
  <2>1. written \in [Papers -> Doc \cup {NoDoc}]
    <3>1. ix.read \in Metas /\ ix.notes \in Notes
      BY <1>t, <1>4 DEF UpsertDoc, Reading, Process
    <3> QED
      BY <1>t, <1>c, <3>1 DEF Doc, StoresTyped
  <2>2. CASE FailsWith({"fts"}) /\ docs' \in {docs, written}
    BY <1>f, <1>t, <1>4, <2>1, <2>2 DEF UpsertDoc, StoresTyped
  <2>3. CASE docs' = written /\ Goto("mark_fts") /\ UNCHANGED <<papers, index>>
    BY <1>s, <1>g, <1>t, <1>c, <1>4, <2>1, <2>3 DEF UpsertDoc, StoresTyped, Reading, ChunksOf, HasRow
  <2> QED
    BY <1>c, <1>4, <2>2, <2>3 DEF UpsertDoc, Cur
<1>5. CASE MarkFts
  <2>1. CASE FailsWith({"fts"})
    BY <1>f, <1>t, <1>5, <2>1 DEF MarkFts, StoresTyped
  <2>2. CASE /\ index' = IF index[c] = NoRow THEN index
                         ELSE [index EXCEPT ![c].fts = TRUE, ![c].notes = NotesStamped,
                                            ![c].ftsWait = FALSE]
             /\ ix' = AfterFts /\ papers' = papers
    <3>1. ix' = WorkDone \/ Goto("embed")
      BY <2>2 DEF AfterFts, Goto
    <3>2. ix' \in Process /\ (ix'.pc \in Reading => ix'.read \in Metas)
      BY <1>g, <1>w, <1>5, <3>1 DEF MarkFts, Reading
    <3>3. /\ index' \in [Papers -> IndexRow \cup {NoRow}]
          /\ index[c] = NoRow <=> index'[c] = NoRow
          /\ index[c] # NoRow => index'[c].meta = index[c].meta
      <4>1. NotesStamped \in Notes
        BY <1>t DEF NotesStamped, Process
      <4>2. CASE index[c] = NoRow
        BY <1>t, <2>2, <4>2 DEF StoresTyped
      <4>3. CASE index[c] # NoRow
        <5>1. index[c] \in IndexRow
          BY <1>t, <1>c, <4>3 DEF StoresTyped
        <5>2. [[[index[c] EXCEPT !.fts = TRUE] EXCEPT !.notes = NotesStamped]
                  EXCEPT !.ftsWait = FALSE] \in IndexRow
          BY <4>1, <5>1 DEF IndexRow
        <5>3. index'[c] \in IndexRow /\ index'[c].meta = index[c].meta
          BY <1>t, <1>c, <2>2, <4>1, <4>3, <5>1 DEF StoresTyped, IndexRow
        <5>4. \A i \in Papers \ {c} : index'[i] = index[i]
          BY <1>c, <1>5, OthersKept DEF PaperStep
        <5>5. index' = [i \in Papers |-> index'[i]]
          BY <1>t, <2>2, <4>3 DEF StoresTyped
        <5> QED
          BY <1>t, <1>c, <4>3, <5>3, <5>4, <5>5, RowAssumption DEF StoresTyped
      <4> QED
        BY <4>2, <4>3
    <3> QED
      BY <1>s, <1>t, <1>c, <1>5, <2>2, <3>2, <3>3 DEF MarkFts, StoresTyped, ChunksOf, HasRow
  <2> QED
    BY <1>c, <1>5, <2>1, <2>2 DEF MarkFts, Cur
<1>6. CASE Embed
  <2>1. CASE FailsWith({"vectors"}) /\ points' \in {points, [points EXCEPT ![c] = NoMeta]}
    BY <1>f, <1>t, <1>6, <2>1 DEF Embed, StoresTyped
  <2>2. CASE points' = [points EXCEPT ![c] = ix.held] /\ Goto("mark_vec") /\ UNCHANGED <<papers, index>>
    <3>1. points' \in [Papers -> Metas \cup {NoMeta}]
      BY <1>t, <2>2 DEF StoresTyped, Process
    <3> QED
      BY <1>s, <1>g, <1>t, <1>c, <1>6, <2>2, <3>1 DEF Embed, StoresTyped, Reading, ChunksOf, HasRow
  <2> QED
    BY <1>c, <1>6, <2>1, <2>2 DEF Embed, Cur
<1>7. CASE MarkVectors
  <2>1. CASE FailsWith({"vectors"})
    BY <1>f, <1>t, <1>7, <2>1 DEF MarkVectors, StoresTyped
  <2>2. CASE /\ index' = IF index[c] = NoRow THEN index
                         ELSE [index EXCEPT ![c].vectors = TRUE, ![c].vecWait = FALSE]
             /\ ix' = WorkDone /\ papers' = papers
    <3>3. /\ index' \in [Papers -> IndexRow \cup {NoRow}]
          /\ index[c] = NoRow <=> index'[c] = NoRow
          /\ index[c] # NoRow => index'[c].meta = index[c].meta
      <4>2. CASE index[c] = NoRow
        BY <1>t, <2>2, <4>2 DEF StoresTyped
      <4>3. CASE index[c] # NoRow
        <5>1. index[c] \in IndexRow
          BY <1>t, <1>c, <4>3 DEF StoresTyped
        <5>3. index'[c] \in IndexRow /\ index'[c].meta = index[c].meta
          BY <1>t, <1>c, <2>2, <4>3, <5>1 DEF StoresTyped, IndexRow
        <5>4. \A i \in Papers \ {c} : index'[i] = index[i]
          BY <1>c, <1>7, OthersKept DEF PaperStep
        <5>5. index' = [i \in Papers |-> index'[i]]
          BY <1>t, <2>2, <4>3 DEF StoresTyped
        <5> QED
          BY <1>t, <1>c, <4>3, <5>3, <5>4, <5>5, RowAssumption DEF StoresTyped
      <4> QED
        BY <4>2, <4>3
    <3> QED
      BY <1>s, <1>t, <1>c, <1>w, <1>7, <2>2, <3>3 DEF MarkVectors, StoresTyped, Reading, ChunksOf, HasRow
  <2> QED
    BY <1>c, <1>7, <2>1, <2>2 DEF MarkVectors, Cur
<1>8. CASE DelDoc \/ DelPoints
  <2>1. /\ UNCHANGED <<papers, index, chunks, dir>>
        /\ docs' \in {docs, [docs EXCEPT ![c] = NoDoc]}
        /\ points' \in {points, [points EXCEPT ![c] = NoMeta]}
    BY <1>c, <1>8 DEF DelDoc, DelPoints, Cur
  <2>2. ix' = WorkDone \/ Goto("del_points") \/ Goto("del_row")
    BY <1>8 DEF DelDoc, DelPoints
  <2>3. ix' \in Process /\ (ix'.pc \in Reading => ix'.read \in Metas)
    BY <1>g, <1>w, <2>2 DEF Reading
  <2> QED
    BY <1>s, <1>t, <1>c, <2>1, <2>3 DEF StoresTyped, ChunksOf, HasRow
<1>9. CASE DelRow
  <2>1. /\ UNCHANGED <<papers, docs, points, dir>> /\ ix' = WorkDone
        /\ \/ /\ chunks' = [chunks EXCEPT ![c] = NoMeta]
              /\ index' = [index EXCEPT ![c] = NoRow]
           \/ /\ "deindex" \in Rare /\ UNCHANGED index
              /\ chunks' \in {chunks, [chunks EXCEPT ![c] = NoMeta]}
    BY <1>c, <1>9 DEF DelRow, Cur
  <2>2. StoresTyped' /\ ChunksOf(c)'
    BY <1>t, <1>c, <2>1 DEF StoresTyped, ChunksOf, HasRow
  <2> QED
    BY <1>s, <1>w, <2>1, <2>2 DEF Reading
<1> QED
  BY <1>1, <1>2, <1>3, <1>4, <1>5, <1>6, <1>7, <1>8, <1>9 DEF PaperStep


\* The plan is well typed.
LEMMA PlanTyped ==
    ASSUME IndexTypeInv, NEW i \in Live
    PROVE  PlannedWork(i) \in Work
<1>1. /\ papers[i] \in Paper
      /\ index[i] # NoRow => index[i] \in IndexRow
  BY DEF IndexTypeInv, IndexTypeOK, Live
<1>2. Reextract(i) \in BOOLEAN /\ StaleFts(i) \in BOOLEAN /\ StaleVectors(i) \in BOOLEAN
  BY DEF Reextract, StaleFts, StaleVectors, ContentChanged
<1> QED
  BY <1>1, <1>2 DEF PlannedWork, Work

LEMMA ProcessStepTyped ==
    ASSUME IndexTypeInv, ProcessStep
    PROVE  /\ ix' \in Process /\ DataUnchanged /\ UNCHANGED papers
           /\ ix'.pc \in AtPaper => ix'.cur \in Papers
           /\ ix'.pc \notin Reading
<1>t. ix \in Process /\ IndexTypeOK
  BY DEF IndexTypeInv, IndexTypeOK
<1>i. Idle \in Process /\ Idle.pc = "idle"
  BY IndexAssumption DEF Idle, Process, Scopes, NoWork, Work, Notes, NoNotes
<1>0. DataUnchanged /\ UNCHANGED papers
  BY DEF ProcessStep, Sweep, SweepEnds, Dies, Boot, Rebuild, NextTombstone, NextWork
<1>1. CASE Sweep
  <2>1. [i \in Papers |-> IF i \in Live THEN PlannedWork(i) ELSE NoWork] \in [Papers -> Work]
    BY PlanTyped DEF NoWork, Work
  <2>2. Tombstones \in SUBSET Papers
    BY DEF Tombstones
  <2> QED
    BY <1>t, <1>0, <1>1, <2>1, <2>2 DEF Sweep, Process, AtPaper, Reading
<1>2. CASE SweepEnds \/ Dies
  <2>1. ix' \in {Idle, [Idle EXCEPT !.pc = "down"]}
    BY <1>2 DEF SweepEnds, Dies
  <2> QED
    BY <1>0, <1>i, <2>1 DEF Process, AtPaper, Reading
<1>3. CASE Boot
  BY <1>t, <1>0, <1>3 DEF Boot, Goto, Process, AtPaper, Reading
<1>4. CASE Rebuild
  BY <1>t, <1>0, <1>4, ZenonT(30) DEF Rebuild, Process, AtPaper, Reading, Scopes
<1>5. ASSUME NEW i \in Papers, NextTombstone(i) \/ NextWork(i)
      PROVE  ix' \in Process /\ ix'.pc \notin Reading /\ ix'.cur \in Papers
  BY <1>t, <1>5, ZenonT(30) DEF NextTombstone, NextWork, Process, Reading
<1> QED
  BY <1>0, <1>1, <1>2, <1>3, <1>4, <1>5 DEF ProcessStep

LEMMA ClearedTyped ==
    ASSUME IndexTypeInv, NEW fts \in BOOLEAN, NEW vec \in BOOLEAN
    PROVE  /\ Cleared(fts, vec) \in [Papers -> IndexRow \cup {NoRow}]
           /\ \A i \in Papers :
                /\ index[i] = NoRow <=> Cleared(fts, vec)[i] = NoRow
                /\ HasRow(i) =>
                     /\ Cleared(fts, vec)[i].meta = index[i].meta
                     /\ Cleared(fts, vec)[i].notes = index[i].notes
                     /\ Cleared(fts, vec)[i].fts <=> index[i].fts /\ ~fts
                     /\ Cleared(fts, vec)[i].vectors <=> index[i].vectors /\ ~vec
<1> DEFINE row(i) == [index[i] EXCEPT !.fts = @ /\ ~fts, !.ftsWait = @ /\ ~fts,
                                      !.vectors = @ /\ ~vec, !.vecWait = @ /\ ~vec]
<1>1. ASSUME NEW i \in Papers, HasRow(i)
      PROVE  /\ row(i) \in IndexRow
             /\ row(i).meta = index[i].meta /\ row(i).notes = index[i].notes
             /\ row(i).fts <=> index[i].fts /\ ~fts
             /\ row(i).vectors <=> index[i].vectors /\ ~vec
  <2>1. index[i] \in IndexRow
    BY <1>1 DEF IndexTypeInv, IndexTypeOK, HasRow
  <2> QED
    BY <2>1 DEF IndexRow
<1>2. Cleared(fts, vec) = [i \in Papers |-> IF index[i] = NoRow THEN NoRow ELSE row(i)]
  BY DEF Cleared
<1> HIDE DEF row
<1> QED
  BY <1>1, <1>2, RowAssumption DEF HasRow

LEMMA StoreStepTyped ==
    ASSUME IndexTypeInv, StoreStep
    PROVE  IndexTypeInv'
<1>t. /\ StoresTyped /\ ix \in Process /\ \A i \in Papers : ChunksOf(i)
  BY TypesParted
<1>0. UNCHANGED <<papers, chunks>>
  BY DEF StoreStep, DirBreaks, Wipe, Open, ClearStamps, Restamp, Recreate
<1>1. /\ docs' \in [Papers -> Doc \cup {NoDoc}] /\ points' \in [Papers -> Metas \cup {NoMeta}]
      /\ dir' \in {"ok", "broken", "missing"}
  BY <1>t DEF StoreStep, DirBreaks, Wipe, Open, ClearStamps, Restamp, Recreate, NoDocs, StoresTyped
<1>2. \/ ix' = ix /\ ix.pc = "down"
      \/ \E pc \in {"open", "idle", "restamp", "clear", "recreate"} : Goto(pc)
  BY DEF StoreStep, DirBreaks, Wipe, Open, ClearStamps, Restamp, Recreate, Opened
<1>3. ix' \in Process /\ ix'.pc \notin AtPaper /\ ix'.pc \notin Reading
  BY <1>t, <1>2 DEF Goto, Process, AtPaper, Reading
<1>4. \/ UNCHANGED index
      \/ \E fts, vec \in BOOLEAN : index' = Cleared(fts, vec)
  BY DEF StoreStep, DirBreaks, Wipe, Open, ClearStamps, Restamp, Recreate
<1>5. /\ index' \in [Papers -> IndexRow \cup {NoRow}]
      /\ \A i \in Papers : ChunksOf(i)'
  <2>1. CASE UNCHANGED index
    BY <1>t, <1>0, <2>1 DEF StoresTyped, ChunksOf, HasRow
  <2>2. ASSUME NEW fts \in BOOLEAN, NEW vec \in BOOLEAN, index' = Cleared(fts, vec)
        PROVE  /\ index' \in [Papers -> IndexRow \cup {NoRow}]
               /\ \A i \in Papers : ChunksOf(i)'
    BY <1>t, <1>0, <2>2, ClearedTyped DEF ChunksOf, HasRow
  <2> QED
    BY <1>4, <2>1, <2>2
<1> QED
  BY <1>t, <1>0, <1>1, <1>3, <1>5 DEF IndexTypeInv, IndexTypeOK, StoresTyped, ChunksOf, HasRow

\* The user changes papers, and time the backoffs.
LEMMA UserMoves ==
    ASSUME IndexTypeInv, NEW i \in Papers, UserStep(i)
    PROVE  /\ papers' \in [Papers -> Paper \cup {Gone}] /\ papers[i] # Gone
           /\ \A j \in Papers \ {i} : papers'[j] = papers[j]
           /\ DataUnchanged /\ UNCHANGED ix
           /\ \/ papers'[i] = Gone
              \/ /\ papers[i].meta \in Metas /\ papers'[i].meta \in Metas
                 /\ papers[i].notes \in Notes /\ papers'[i].notes \in Notes
                 /\ "revert" \notin Rare => papers[i].meta <= papers'[i].meta
                                            /\ papers[i].notes <= papers'[i].notes
<1>t. papers \in [Papers -> Paper \cup {Gone}]
  BY DEF IndexTypeInv, IndexTypeOK
<1>1. ASSUME NEW p, EditPaper(i, p)
      PROVE  /\ papers' = [papers EXCEPT ![i] = p]
             /\ papers[i] \in Paper /\ papers[i] # Gone /\ DataUnchanged /\ UNCHANGED ix
  BY <1>t, <1>1 DEF EditPaper
<1>n. Metas \subseteq Nat /\ Notes \subseteq Nat
  BY IndexAssumption DEF Metas, Notes
<1>6. ASSUME NEW p \in Paper, EditPaper(i, p),
             "revert" \notin Rare => papers[i].meta <= p.meta /\ papers[i].notes <= p.notes
      PROVE  /\ papers' \in [Papers -> Paper \cup {Gone}]
             /\ \A j \in Papers \ {i} : papers'[j] = papers[j]
             /\ papers[i].meta \in Metas /\ papers'[i].meta \in Metas
             /\ papers[i].notes \in Notes /\ papers'[i].notes \in Notes
             /\ "revert" \notin Rare => papers[i].meta <= papers'[i].meta
                                        /\ papers[i].notes <= papers'[i].notes
  <2>1. papers' = [papers EXCEPT ![i] = p] /\ papers[i] \in Paper
    BY <1>1, <1>6
  <2>2. papers'[i] = p
    BY <1>t, <2>1
  <2>3. \A q \in Paper : q.meta \in Metas /\ q.notes \in Notes
    BY DEF Paper
  <2> QED
    BY <1>t, <1>6, <2>1, <2>2, <2>3
<1>2. CASE EditMeta(i)
  <2>1. PICK m \in Metas : Edited(papers[i].meta, m) /\ EditPaper(i, [papers[i] EXCEPT !.meta = m])
    BY <1>2 DEF EditMeta
  <2>2. papers[i].meta \in Metas /\ papers[i].notes \in Notes
    BY <1>1, <2>1 DEF Paper
  <2>3. "revert" \notin Rare => papers[i].meta <= m
    BY <2>1, <2>2, IndexAssumption DEF Edited, Metas
  <2>4. /\ [papers[i] EXCEPT !.meta = m] \in Paper
        /\ [papers[i] EXCEPT !.meta = m].meta = m
        /\ [papers[i] EXCEPT !.meta = m].notes = papers[i].notes
    BY <1>1, <2>1 DEF Paper
  <2> QED
    <3> DEFINE edited == [papers[i] EXCEPT !.meta = m]
    <3>1. /\ edited \in Paper /\ EditPaper(i, edited)
          /\ "revert" \notin Rare => papers[i].meta <= edited.meta /\ papers[i].notes <= edited.notes
      BY <1>n, <2>1, <2>2, <2>3, <2>4
    <3> HIDE DEF edited
    <3> QED
      BY <1>1, <1>6, <3>1
<1>3. CASE EditNotes(i)
  <2>1. PICK n \in Notes : Edited(papers[i].notes, n) /\ EditPaper(i, [papers[i] EXCEPT !.notes = n])
    BY <1>3 DEF EditNotes
  <2>2. papers[i].meta \in Metas /\ papers[i].notes \in Notes
    BY <1>1, <2>1 DEF Paper
  <2>3. "revert" \notin Rare => papers[i].notes <= n
    BY <2>1, <2>2, IndexAssumption DEF Edited, Notes
  <2>4. /\ [papers[i] EXCEPT !.notes = n] \in Paper
        /\ [papers[i] EXCEPT !.notes = n].meta = papers[i].meta
        /\ [papers[i] EXCEPT !.notes = n].notes = n
    BY <1>1, <2>1 DEF Paper
  <2> QED
    <3> DEFINE edited == [papers[i] EXCEPT !.notes = n]
    <3>1. /\ edited \in Paper /\ EditPaper(i, edited)
          /\ "revert" \notin Rare => papers[i].meta <= edited.meta /\ papers[i].notes <= edited.notes
      BY <1>n, <2>1, <2>2, <2>3, <2>4
    <3> HIDE DEF edited
    <3> QED
      BY <1>1, <1>6, <3>1
<1>4. CASE Trash(i) \/ Restore(i)
  <2>1. PICK b \in BOOLEAN : EditPaper(i, [papers[i] EXCEPT !.trashed = b])
    BY <1>4 DEF Trash, Restore
  <2>2. papers[i].meta \in Metas /\ papers[i].notes \in Notes
    BY <1>1, <2>1 DEF Paper
  <2>3. /\ [papers[i] EXCEPT !.trashed = b] \in Paper
        /\ [papers[i] EXCEPT !.trashed = b].meta = papers[i].meta
        /\ [papers[i] EXCEPT !.trashed = b].notes = papers[i].notes
    BY <1>1, <2>1 DEF Paper
  <2> QED
    <3> DEFINE edited == [papers[i] EXCEPT !.trashed = b]
    <3>1. /\ edited \in Paper /\ EditPaper(i, edited)
          /\ "revert" \notin Rare => papers[i].meta <= edited.meta /\ papers[i].notes <= edited.notes
      BY <1>n, <2>1, <2>2, <2>3
    <3> HIDE DEF edited
    <3> QED
      BY <1>1, <1>6, <3>1
<1>5. CASE Purge(i)
  <2>1. EditPaper(i, Gone)
    BY <1>5 DEF Purge
  <2> QED
    BY <1>1, <1>t, <2>1
<1> QED
  BY <1>2, <1>3, <1>4, <1>5 DEF UserStep

LEMMA ElapseMoves ==
    ASSUME IndexTypeInv, NEW i \in Papers, Elapse(i)
    PROVE  /\ UNCHANGED <<papers, chunks, docs, points, dir, ix>>
           /\ index' \in [Papers -> IndexRow \cup {NoRow}]
           /\ \A j \in Papers :
                /\ index[j] = NoRow <=> index'[j] = NoRow
                /\ HasRow(j) => /\ index'[j].meta = index[j].meta
                                /\ index'[j].notes = index[j].notes
                                /\ index'[j].fts = index[j].fts
                                /\ index'[j].vectors = index[j].vectors
<1>1. index[i] \in IndexRow /\ index \in [Papers -> IndexRow \cup {NoRow}]
  BY DEF Elapse, IndexTypeInv, IndexTypeOK
<1>2. ASSUME NEW r \in IndexRow, index' = [index EXCEPT ![i] = r],
             r.meta = index[i].meta, r.notes = index[i].notes,
             r.fts = index[i].fts, r.vectors = index[i].vectors
      PROVE  /\ index' \in [Papers -> IndexRow \cup {NoRow}]
             /\ \A j \in Papers :
                  /\ index[j] = NoRow <=> index'[j] = NoRow
                  /\ HasRow(j) => /\ index'[j].meta = index[j].meta
                                  /\ index'[j].notes = index[j].notes
                                  /\ index'[j].fts = index[j].fts
                                  /\ index'[j].vectors = index[j].vectors
  BY <1>1, <1>2, RowAssumption DEF HasRow
<1>3. \/ index' = [index EXCEPT ![i] = [index[i] EXCEPT !.ftsWait = FALSE]]
      \/ index' = [index EXCEPT ![i] = [index[i] EXCEPT !.vecWait = FALSE]]
  BY DEF Elapse
<1>4. /\ [index[i] EXCEPT !.ftsWait = FALSE] \in IndexRow
      /\ [index[i] EXCEPT !.vecWait = FALSE] \in IndexRow
  BY <1>1 DEF IndexRow
<1>5. UNCHANGED <<papers, chunks, docs, points, dir, ix>>
  BY DEF Elapse
<1> QED
  BY <1>1, <1>2, <1>3, <1>4, <1>5 DEF IndexRow

LEMMA IndexTypeNext ==
    ASSUME IndexTypeInv, [IndexNext]_indexVars
    PROVE  IndexTypeInv'
<1>t. /\ StoresTyped /\ ix \in Process /\ \A i \in Papers : ChunksOf(i)
      /\ ix.pc \in AtPaper => ix.cur \in Papers
      /\ ix.pc \in Reading => ix.read \in Metas
  BY TypesParted
<1>1. CASE PaperStep
  BY <1>1, PaperStepTyped
<1>2. CASE ProcessStep
  <2>1. /\ ix' \in Process /\ DataUnchanged /\ UNCHANGED papers
        /\ ix'.pc \in AtPaper => ix'.cur \in Papers
        /\ ix'.pc \notin Reading
    BY <1>2, ProcessStepTyped
  <2> QED
    BY <2>1 DEF DataUnchanged, IndexTypeInv, IndexTypeOK, HasRow
<1>3. CASE StoreStep
  BY <1>3, StoreStepTyped
<1>4. ASSUME NEW i \in Papers, UserStep(i) PROVE IndexTypeInv'
  <2>1. papers' \in [Papers -> Paper \cup {Gone}] /\ DataUnchanged /\ UNCHANGED ix
    BY <1>4, UserMoves
  <2> QED
    BY <2>1 DEF DataUnchanged, IndexTypeInv, IndexTypeOK, HasRow
<1>5. ASSUME NEW i \in Papers, Elapse(i) PROVE IndexTypeInv'
  <2>1. /\ UNCHANGED <<papers, chunks, docs, points, dir, ix>>
        /\ index' \in [Papers -> IndexRow \cup {NoRow}]
    BY <1>5, ElapseMoves
  <2>2. \A j \in Papers : ChunksOf(j)'
    BY <1>t, <1>5, ElapseMoves DEF ChunksOf, HasRow
  <2> QED
    BY <1>t, <2>1, <2>2 DEF IndexTypeInv, IndexTypeOK, StoresTyped, ChunksOf, HasRow
<1>6. CASE UNCHANGED indexVars
  BY <1>6 DEF indexVars, IndexTypeInv, IndexTypeOK, HasRow, BeingRemoved
<1> QED
  BY <1>1, <1>2, <1>3, <1>4, <1>5, <1>6, NextSteps

\* Every reachable state is well typed, and the chunks of a paper are those of
\* the version its row names (replace_chunks, remove_index_entry), but for a
\* removal cut short between the two.
THEOREM IndexTypeHolds == IndexSpec => []IndexTypeOK
<1>1. IndexTypeInv => IndexTypeOK
  BY DEF IndexTypeInv
<1> QED
  BY <1>1, IndexTypeInit, IndexTypeNext, PTL DEF IndexSpec

----------------------------------------------------------------------------
(* The vectors.                                                            *)

\* The work of a paper given up or done: its stamps are all that is left to say.
LEMMA DoneKeepsVectors ==
    ASSUME IndexTypeInv, NEW c \in Papers, c = ix.cur, ix' = WorkDone,
           HasRow(c)' /\ index'[c].vectors => points'[c] = index'[c].meta
    PROVE  Planned(c)' /\ Held(c)' /\ Embedded(c)'
<1>1. ix'.pc = "sweep" /\ ix'.cur # c /\ ix'.todo[c] = NoWork
  BY WorkDoneIs, IndexAssumption
<1> QED
  BY <1>1 DEF Planned, Held, Embedded, At

LEMMA FailureKeepsVectors ==
    ASSUME "deindex" \notin Rare, IndexTypeInv, NEW c \in Papers, c = ix.cur,
           ix.pc \notin Deindexing,
           NEW tiers, FailsWith(tiers),
           \/ UNCHANGED points /\ Embedded(c)
           \/ HasRow(c) => ~index[c].vectors
    PROVE  Planned(c)' /\ Held(c)' /\ Embedded(c)'
<1>1. /\ ix' = WorkDone
      /\ \/ index'[c] = index[c]
         \/ index'[c].meta = RowOrBlank.meta /\ index'[c].vectors = RowOrBlank.vectors
  BY FailureCharges
<1>2. /\ HasRow(c) => RowOrBlank = index[c]
      /\ ~HasRow(c) => ~RowOrBlank.vectors
  BY RowTyped DEF HasRow, BlankRow
<1>3. HasRow(c)' /\ index'[c].vectors => points'[c] = index'[c].meta
  BY <1>1, <1>2 DEF HasRow, Embedded, BeingRemoved
<1> QED
  BY <1>1, <1>3, DoneKeepsVectors

LEMMA PaperKeepsVectors ==
    ASSUME "deindex" \notin Rare, IndexTypeInv, VectorsInv, PaperStep
    PROVE  VectorsInv'
<1>0. PICK c \in Papers : c = ix.cur
  BY CurAtPaper
<1>t. /\ StoresTyped /\ ix \in Process /\ \A i \in Papers : ChunksOf(i)
      /\ ix.pc \in Reading => ix.read \in Metas
  BY TypesParted
<1>h. Planned(c) /\ Held(c) /\ Embedded(c)
  BY DEF VectorsInv
<1>1. ASSUME NEW i \in Papers \ {c} PROVE Planned(i)' /\ Held(i)' /\ Embedded(i)'
  <2>1. /\ index'[i] = index[i] /\ points'[i] = points[i]
        /\ ix'.todo[i] = ix.todo[i] /\ ix'.cur # i /\ ix.cur # i
    BY <1>0, OthersKept
  <2> QED
    BY <2>1 DEF VectorsInv, Planned, Held, Embedded, At, HasRow, BeingRemoved
<1>2. ix'.pc # "recreate"
  BY <1>0, PaperStays, WorkDoneIs DEF AtPaper
<1>3. Planned(c)' /\ Held(c)' /\ Embedded(c)'
  <2>g. ASSUME NEW pc \in AtPaper, Goto(pc), UNCHANGED index,
               pc \in {"load"} \cup Reading => ix.pc \in {"load"} \cup Reading
        PROVE  Planned(c)'
    <3>1. ix'.pc = pc /\ ix'.todo = ix.todo
      BY <2>g, GoneTo
    <3> QED
      BY <1>0, <1>h, <2>g, <3>1 DEF Planned, At, HasRow
  <2>1. CASE Load
    <3>1. CASE FailsWith(PreTier)
      BY <1>0, <1>h, <2>1, <3>1, FailureKeepsVectors DEF Load, Deindexing
    <3>2. CASE UNCHANGED index /\ ix' = WorkDone
      BY <1>0, <1>h, <2>1, <3>2, DoneKeepsVectors DEF Load, Deindexing, Embedded, BeingRemoved, HasRow
    <3>3. CASE UNCHANGED index /\ ix' = [ix EXCEPT !.pc = "derive", !.read = papers[c].meta]
      <4>1. ix'.pc = "derive" /\ ix'.todo = ix.todo /\ ix'.cur = c /\ ix.pc = "load" /\ UNCHANGED points
        BY <1>0, <1>t, <2>1, <3>3 DEF Load, Process
      <4> QED
        BY <1>0, <1>h, <3>3, <4>1 DEF Planned, Held, Embedded, At, HasRow, BeingRemoved, Holding,
           Reading, Deindexing
    <3> QED
      BY <1>0, <2>1, <3>1, <3>2, <3>3 DEF Load, Cur
  <2>2. CASE Derive
    <3>p. ix.pc = "derive" /\ UNCHANGED points /\ ix.read \in Metas /\ ix.read # NoMeta
      BY <1>t, <2>2, IndexAssumption DEF Derive, Reading, Metas
    <3>w. ix.todo[c] \in Work /\ ix.todo[c] # NoWork
      BY <1>0, <1>h, <1>t, <3>p DEF Planned, At, Reading, Process
    <3>a. /\ AfterDerive \in {"notes", "embed"}
          /\ AfterDerive = "embed" => ~ix.todo[c].fts
      BY <1>0 DEF AfterDerive, Cur
    <3>1. CASE FailsWith(PreTier)
      BY <1>0, <1>h, <3>p, <3>1, FailureKeepsVectors DEF Deindexing
    <3>2. CASE /\ ix.todo[c].reextract
               /\ index' = [index EXCEPT ![c] = ReplacedRow]
               /\ ix' = [ix EXCEPT !.pc = AfterDerive, !.held = ix.read]
      <4>1. /\ ix'.pc = AfterDerive /\ ix'.todo = ix.todo /\ ix'.cur = c /\ ix'.held = ix.read
        BY <1>0, <1>t, <3>2 DEF Process
      <4>2. index'[c] = ReplacedRow /\ ReplacedRow.meta = ix.read /\ ~ReplacedRow.vectors
        BY <1>0, <1>t, <3>p, <3>2, ReplacedRowTyped DEF StoresTyped
      <4> QED
        BY <3>p, <3>w, <3>a, <3>2, <4>1, <4>2 DEF Planned, Held, Embedded, At, Holding, Reading
    <3>3. CASE /\ ~ix.todo[c].reextract /\ UNCHANGED index
               /\ ix' = [ix EXCEPT !.pc = AfterDerive, !.held = chunks[c]]
      <4>1. /\ ix'.pc = AfterDerive /\ ix'.todo = ix.todo /\ ix'.cur = c /\ ix'.held = chunks[c]
        BY <1>0, <1>t, <3>3 DEF Process
      <4>2. HasRow(c) => /\ index[c].meta # NoMeta /\ chunks[c] = index[c].meta
                         /\ ix.todo[c].vectors => ~index[c].vectors
        BY <1>h, <1>t, <3>w, <3>3 DEF Planned, ChunksOf
      <4>3. AfterDerive = "embed" => ix.todo[c].vectors
        BY <3>w, <3>a, <3>3 DEF Work, NoWork
      <4>4. Planned(c)'
        BY <1>h, <3>w, <3>3, <4>1 DEF Planned, HasRow
      <4>5. Held(c)'
        BY <3>3, <3>a, <4>1, <4>2, <4>3 DEF Held, HasRow
      <4>6. Embedded(c)'
        BY <1>h, <3>p, <3>3 DEF Embedded, BeingRemoved, Deindexing, HasRow
      <4> QED
        BY <4>4, <4>5, <4>6
    <3> QED
      BY <1>0, <2>2, <3>1, <3>2, <3>3 DEF Derive, Cur
  <2>3. CASE ReadNotes
    <3>1. CASE FailsWith({"fts"})
      BY <1>0, <1>h, <2>3, <3>1, FailureKeepsVectors DEF ReadNotes, Deindexing
    <3>2. CASE UNCHANGED index /\ \E n \in Notes : ix' = [ix EXCEPT !.pc = "upsert", !.notes = n]
      <4>1. /\ ix'.pc = "upsert" /\ ix'.todo = ix.todo /\ ix'.cur = c /\ ix'.held = ix.held
            /\ ix.pc = "notes" /\ UNCHANGED points
        BY <1>0, <1>t, <2>3, <3>2 DEF ReadNotes, Process
      <4> QED
        BY <1>0, <1>h, <3>2, <4>1 DEF Planned, Held, Embedded, At, HasRow, BeingRemoved, Holding,
           Reading, Deindexing
    <3>3. NoNotes \in Notes /\ (papers[c] # Gone => papers[c].notes \in Notes)
      BY <1>t, IndexAssumption DEF StoresTyped, Paper, Notes, NoNotes
    <3> QED
      BY <1>0, <2>3, <3>1, <3>2, <3>3 DEF ReadNotes, Cur
  <2>4. CASE UpsertDoc
    <3>1. CASE FailsWith({"fts"})
      BY <1>0, <1>h, <2>4, <3>1, FailureKeepsVectors DEF UpsertDoc, Deindexing
    <3>2. CASE Goto("mark_fts") /\ UNCHANGED index
      <4>1. /\ ix'.pc = "mark_fts" /\ ix'.todo = ix.todo /\ ix'.cur = c /\ ix'.held = ix.held
            /\ ix.pc = "upsert" /\ UNCHANGED points
        BY <1>0, <2>4, <3>2, GoneTo DEF UpsertDoc
      <4> QED
        BY <1>0, <1>h, <3>2, <4>1 DEF Planned, Held, Embedded, At, HasRow, BeingRemoved, Holding,
           Reading, Deindexing
    <3> QED
      BY <2>4, <3>1, <3>2 DEF UpsertDoc
  <2>5. CASE MarkFts
    <3>1. CASE FailsWith({"fts"})
      BY <1>0, <1>h, <2>5, <3>1, FailureKeepsVectors DEF MarkFts, Deindexing
    <3>2. CASE /\ index' = IF index[c] = NoRow THEN index
                           ELSE [index EXCEPT ![c].fts = TRUE, ![c].notes = NotesStamped,
                                              ![c].ftsWait = FALSE]
               /\ ix' = AfterFts
      <4>1. ix.pc = "mark_fts" /\ UNCHANGED points
        BY <2>5 DEF MarkFts
      <4>2. /\ HasRow(c)' => HasRow(c)
            /\ HasRow(c) => index'[c].meta = index[c].meta /\ index'[c].vectors = index[c].vectors
        BY <1>t, <3>2 DEF StoresTyped, IndexRow, HasRow
      <4>3. Embedded(c) /\ ~BeingRemoved(c)
        BY <1>h, <4>1 DEF BeingRemoved, Deindexing
      <4>4. CASE ix' = WorkDone
        BY <1>0, <4>1, <4>2, <4>3, <4>4, DoneKeepsVectors DEF Embedded
      <4>5. CASE Goto("embed") /\ ix.todo[c].vectors
        <5>1. ix'.pc = "embed" /\ ix'.todo = ix.todo /\ ix'.cur = c /\ ix'.held = ix.held
          BY <1>0, <4>5, GoneTo
        <5>2. Held(c)' /\ Embedded(c)'
          BY <1>0, <1>h, <4>1, <4>2, <4>3, <4>5, <5>1 DEF Held, Embedded, At, Holding, Reading
        <5>3. Planned(c)'
          BY <1>0, <1>h, <4>1, <4>2, <5>1 DEF Planned, At, Reading
        <5> QED
          BY <5>2, <5>3
      <4> QED
        BY <1>0, <3>2, <4>4, <4>5 DEF AfterFts, Goto, Cur
    <3> QED
      BY <1>0, <2>5, <3>1, <3>2 DEF MarkFts, Cur
  <2>6. CASE Embed
    <3>0. ix.pc = "embed" /\ (HasRow(c) => ~index[c].vectors /\ ix.held = index[c].meta
                                          /\ index[c].meta # NoMeta)
      BY <1>0, <1>h, <2>6 DEF Embed, Held, At, Holding, Reading
    <3>1. CASE FailsWith({"vectors"})
      BY <1>0, <1>h, <3>0, <3>1, FailureKeepsVectors DEF Deindexing
    <3>2. CASE points' = [points EXCEPT ![c] = ix.held] /\ Goto("mark_vec") /\ UNCHANGED index
      <4>1. ix'.pc = "mark_vec" /\ ix'.todo = ix.todo /\ ix'.cur = c /\ ix'.held = ix.held
        BY <1>0, <3>2, GoneTo
      <4>2. points'[c] = ix.held
        BY <1>t, <3>2 DEF StoresTyped
      <4>3. Planned(c)'
        BY <2>g, <3>0, <3>2 DEF AtPaper, Reading
      <4> QED
        BY <3>0, <3>2, <4>1, <4>2, <4>3 DEF Held, Embedded, HasRow
    <3> QED
      BY <1>0, <2>6, <3>1, <3>2 DEF Embed, Cur
  <2>7. CASE MarkVectors
    <3>0. /\ ix.pc = "mark_vec" /\ UNCHANGED points
          /\ HasRow(c) => ~index[c].vectors /\ points[c] = index[c].meta
      BY <1>0, <1>h, <2>7 DEF MarkVectors, Held, At, Holding, Reading
    <3>1. CASE FailsWith({"vectors"})
      BY <1>0, <1>h, <3>0, <3>1, FailureKeepsVectors DEF Deindexing
    <3>2. CASE /\ index' = IF index[c] = NoRow THEN index
                           ELSE [index EXCEPT ![c].vectors = TRUE, ![c].vecWait = FALSE]
               /\ ix' = WorkDone
      <4>1. (HasRow(c)' => HasRow(c)) /\ (HasRow(c) => index'[c].meta = index[c].meta)
        BY <1>t, <3>2 DEF StoresTyped, IndexRow, HasRow
      <4> QED
        BY <1>0, <3>0, <3>2, <4>1, DoneKeepsVectors
    <3> QED
      BY <1>0, <2>7, <3>1, <3>2 DEF MarkVectors, Cur
  <2>8. CASE DelDoc \/ DelPoints
    <3>1. UNCHANGED index /\ ix.pc \in {"del_doc", "del_points"}
      BY <2>8 DEF DelDoc, DelPoints
    <3>2. CASE ix' = WorkDone
      <4>1. UNCHANGED points /\ ix.pc = "del_doc"
        <5>1. ~DelPoints
          BY <1>0, <3>2, WorkDoneIs, GoneTo DEF DelPoints
        <5> QED
          BY <2>8, <5>1 DEF DelDoc
      <4> QED
        BY <1>0, <1>h, <3>1, <3>2, <4>1, DoneKeepsVectors DEF Embedded, BeingRemoved, Deindexing, HasRow
    <3>3. ASSUME NEW pc \in Deindexing, Goto(pc)
          PROVE  Planned(c)' /\ Held(c)' /\ Embedded(c)'
      <4>1. ix'.pc = pc /\ ix'.cur = c
        BY <1>0, <3>3, GoneTo
      <4>2. Planned(c)'
        BY <2>g, <3>1, <3>3 DEF AtPaper, Reading, Deindexing
      <4> QED
        BY <4>1, <4>2 DEF Held, Embedded, At, Holding, Reading, BeingRemoved, Deindexing
    <3> QED
      BY <2>8, <3>2, <3>3 DEF DelDoc, DelPoints, Deindexing
  <2>9. CASE DelRow
    <3>1. ix' = WorkDone /\ ~HasRow(c)'
      BY <1>0, <1>t, <2>9 DEF DelRow, Cur, StoresTyped, HasRow
    <3> QED
      BY <1>0, <3>1, DoneKeepsVectors
  <2> QED
    BY <2>1, <2>2, <2>3, <2>4, <2>5, <2>6, <2>7, <2>8, <2>9 DEF PaperStep
<1> QED
  BY <1>1, <1>2, <1>3 DEF VectorsInv


\* What the process does between papers leaves the stores alone, plans what the
\* rows call for, and takes up planned work only.
LEMMA PlanCallsFor ==
    ASSUME IndexTypeInv, NEW i \in Live, PlannedWork(i) # NoWork, HasRow(i),
           ~PlannedWork(i).reextract
    PROVE  /\ index[i].meta = papers[i].meta /\ index[i].meta # NoMeta
           /\ PlannedWork(i).vectors => ~index[i].vectors
<1> DEFINE fts == StaleFts(i) /\ (index[i] = NoRow \/ ~index[i].ftsWait)
           vec == /\ StaleVectors(i) /\ (index[i] = NoRow \/ ~index[i].vecWait)
                  /\ Reextract(i) => fts
<1>1. PlannedWork(i) = [fts |-> fts, reextract |-> Reextract(i) /\ fts, vectors |-> vec]
  BY DEF PlannedWork
<1>2. papers[i] \in Paper /\ index[i] \in IndexRow /\ i \in Papers
  BY DEF IndexTypeInv, IndexTypeOK, Live, HasRow
<1>3. papers[i].meta \in Metas /\ papers[i].meta # NoMeta
  BY <1>2, IndexAssumption DEF Paper, Metas
<1>f. PICK f \in BOOLEAN, r \in BOOLEAN, v \in BOOLEAN :
          /\ f <=> fts
          /\ r <=> Reextract(i) /\ fts
          /\ v <=> vec
          /\ PlannedWork(i) = [fts |-> f, reextract |-> r, vectors |-> v]
  <2>1. fts \in BOOLEAN /\ (Reextract(i) /\ fts) \in BOOLEAN /\ vec \in BOOLEAN
    OBVIOUS
  <2> QED
    BY <1>1, <2>1, Zenon
<1> HIDE DEF fts, vec
<1>4. ~(Reextract(i) /\ fts)
  BY <1>f
<1>5. PlannedWork(i).vectors => vec
  BY <1>f
<1>6. ~Reextract(i)
  <2>1. ASSUME Reextract(i) PROVE FALSE
    <3>1. ~fts /\ ~vec
      BY <1>4, <2>1 DEF vec
    <3>2. PlannedWork(i) = [fts |-> FALSE, reextract |-> FALSE, vectors |-> FALSE]
      BY <1>f, <3>1
    <3> QED
      BY <3>2 DEF NoWork
  <2> QED
    BY <2>1
<1>7. ~ContentChanged(i)
  BY <1>6 DEF Reextract
<1> QED
  BY <1>3, <1>5, <1>7 DEF vec, ContentChanged, StaleVectors

LEMMA ProcessMoves ==
    ASSUME "deindex" \notin Rare, IndexTypeInv, ProcessStep
    PROVE  /\ ix.pc \notin Deindexing
           /\ ix'.pc \notin Reading \cup Deindexing \cup {"recreate", "clear"}
           /\ \/ Sweep
              \/ \A i \in Papers : ix'.todo[i] \in {ix.todo[i], NoWork}
           /\ ix'.pc = "load" => ix'.cur \in Pending /\ ix'.todo = ix.todo
<1>t. ix \in Process
  BY DEF IndexTypeInv, IndexTypeOK
<1>1. CASE Sweep
  BY <1>t, <1>1 DEF Sweep, Process, Reading, Deindexing
<1>2. CASE SweepEnds \/ Dies
  <2>1. ix' \in {Idle, [Idle EXCEPT !.pc = "down"]}
    BY <1>2 DEF SweepEnds, Dies
  <2>2. ix'.pc \in {"idle", "down"} /\ \A i \in Papers : ix'.todo[i] = NoWork
    BY <2>1 DEF Idle
  <2> QED
    BY <1>2, <2>2 DEF SweepEnds, Dies, Reading, Deindexing
<1>3. CASE Boot \/ Rebuild
  BY <1>t, <1>3 DEF Boot, Rebuild, Goto, Process, Reading, Deindexing
<1>4. ASSUME NEW i \in Papers, NextTombstone(i) \/ NextWork(i)
      PROVE  /\ ix.pc = "sweep" /\ ix'.todo = ix.todo
             /\ \/ ix'.pc = "del_doc"
                \/ ix'.pc = "load" /\ ix'.cur \in Pending
  BY <1>t, <1>4 DEF NextTombstone, NextWork, Process
<1> QED
  BY <1>1, <1>2, <1>3, <1>4 DEF ProcessStep, Reading, Deindexing

LEMMA StoreMoves ==
    ASSUME IndexTypeInv, StoreStep
    PROVE  /\ ix.pc \notin Deindexing /\ ix'.pc \notin AtPaper /\ ix'.todo = ix.todo
           /\ UNCHANGED <<papers, chunks>>
           /\ \/ UNCHANGED index
              \/ \E fts, vec \in BOOLEAN : index' = Cleared(fts, vec)
           /\ UNCHANGED points \/ ix.pc = "recreate"
           /\ ix'.pc = "recreate" => \E fts \in BOOLEAN : index' = Cleared(fts, TRUE)
<1>1. \/ ix' = ix /\ ix.pc = "down"
      \/ \E pc \in {"open", "idle", "restamp", "clear", "recreate"} : Goto(pc)
  BY DEF StoreStep, DirBreaks, Wipe, Open, ClearStamps, Restamp, Recreate, Opened
<1>2. ix'.pc \notin AtPaper /\ ix'.todo = ix.todo
  BY <1>1, GoneTo DEF AtPaper
<1>3. ix'.pc = "recreate" => Restamp /\ ix.scope # "fts"
  <2>1. ASSUME ~Restamp PROVE ix'.pc # "recreate"
    <3>1. \/ ix' = ix /\ ix.pc = "down"
          \/ \E pc \in {"open", "idle", "restamp", "clear"} : Goto(pc)
      BY <2>1 DEF StoreStep, DirBreaks, Wipe, Open, ClearStamps, Recreate, Opened
    <3> QED
      BY <3>1, GoneTo
  <2>2. ASSUME Restamp, ix.scope = "fts" PROVE ix'.pc # "recreate"
    BY <2>2, GoneTo DEF Restamp
  <2> QED
    BY <2>1, <2>2
<1>4. ix'.pc = "recreate" => \E fts \in BOOLEAN : index' = Cleared(fts, TRUE)
  BY <1>3 DEF Restamp
<1>5. /\ ix.pc \notin Deindexing /\ UNCHANGED <<papers, chunks>>
      /\ \/ UNCHANGED index
         \/ \E fts, vec \in BOOLEAN : index' = Cleared(fts, vec)
      /\ UNCHANGED points \/ ix.pc = "recreate"
  BY DEF StoreStep, DirBreaks, Wipe, Open, ClearStamps, Restamp, Recreate, Deindexing
<1> QED
  BY <1>2, <1>4, <1>5

LEMMA VectorsInvNext ==
    ASSUME "deindex" \notin Rare, IndexTypeInv, VectorsInv, [IndexNext]_indexVars
    PROVE  VectorsInv'
<1>h. /\ \A i \in Papers : Planned(i) /\ Held(i) /\ Embedded(i)
      /\ ix.pc = "recreate" => \A i \in Papers : HasRow(i) => ~index[i].vectors
  BY DEF VectorsInv
<1>1. CASE PaperStep
  BY <1>1, PaperKeepsVectors
<1>2. CASE ProcessStep
  <2>1. UNCHANGED <<index, points, papers>> /\ ix' \in Process
    BY <1>2, ProcessStepTyped DEF DataUnchanged
  <2>2. ASSUME NEW i \in Papers PROVE Planned(i)'
    <3>1. At(i, {"load"} \cup Reading)' => ix'.todo[i] # NoWork
      BY <1>2, ProcessMoves DEF At, Pending
    <3>2. ASSUME ix'.todo[i] # NoWork, HasRow(i), ~ix'.todo[i].reextract
          PROVE  index[i].meta # NoMeta /\ (ix'.todo[i].vectors => ~index[i].vectors)
      <4>1. CASE ix'.todo[i] = ix.todo[i]
        BY <1>h, <3>2, <4>1 DEF Planned
      <4>2. CASE Sweep
        <5>1. ix'.todo[i] = IF i \in Live THEN PlannedWork(i) ELSE NoWork
          BY <4>2 DEF Sweep, IndexTypeInv, IndexTypeOK, Process
        <5> QED
          BY <3>2, <5>1, PlanCallsFor
      <4> QED
        BY <1>2, <3>2, <4>1, <4>2, ProcessMoves
    <3> QED
      BY <2>1, <3>1, <3>2 DEF Planned, HasRow
  <2>3. ASSUME NEW i \in Papers PROVE Held(i)' /\ Embedded(i)'
    BY <1>h, <1>2, <2>1, ProcessMoves DEF Held, Embedded, At, Holding, HasRow, BeingRemoved
  <2> QED
    BY <1>2, <2>2, <2>3, ProcessMoves DEF VectorsInv
<1>3. CASE StoreStep
  <2>m. /\ ix.pc \notin Deindexing /\ ix'.pc \notin AtPaper /\ ix'.todo = ix.todo
        /\ UNCHANGED points \/ ix.pc = "recreate"
    BY <1>3, StoreMoves
  <2>1. ASSUME NEW i \in Papers
        PROVE  /\ HasRow(i)' <=> HasRow(i)
               /\ HasRow(i) => /\ index'[i].meta = index[i].meta
                               /\ index'[i].vectors => index[i].vectors
               /\ ix'.pc = "recreate" /\ HasRow(i) => ~index'[i].vectors
    <3>1. ASSUME NEW fts \in BOOLEAN, NEW vec \in BOOLEAN, index' = Cleared(fts, vec)
          PROVE  /\ HasRow(i)' <=> HasRow(i)
                 /\ HasRow(i) => /\ index'[i].meta = index[i].meta
                                 /\ index'[i].vectors <=> index[i].vectors /\ ~vec
      BY <3>1, ClearedTyped DEF HasRow
    <3> QED
      BY <1>3, <3>1, StoreMoves DEF HasRow
  <2>2. ASSUME NEW i \in Papers PROVE Planned(i)' /\ Held(i)' /\ Embedded(i)'
    <3>1. {"load"} \cup Reading \subseteq AtPaper /\ Holding \subseteq AtPaper
      BY DEF Reading, Holding, AtPaper
    <3>2. Planned(i)' /\ Held(i)'
      BY <1>h, <2>m, <2>1, <3>1 DEF Planned, Held, At
    <3>3. Embedded(i)'
      BY <1>h, <2>m, <2>1 DEF Embedded, BeingRemoved
    <3> QED
      BY <3>2, <3>3
  <2> QED
    BY <2>1, <2>2 DEF VectorsInv
<1>4. ASSUME NEW i \in Papers, UserStep(i) PROVE VectorsInv'
  <2>1. UNCHANGED <<index, points, ix>>
    BY <1>4, UserMoves DEF DataUnchanged
  <2> QED
    BY <1>h, <2>1 DEF VectorsInv, Planned, Held, Embedded, At, HasRow, BeingRemoved
<1>5. ASSUME NEW i \in Papers, Elapse(i) PROVE VectorsInv'
  <2>1. /\ UNCHANGED <<points, ix>>
        /\ \A j \in Papers :
             /\ index[j] = NoRow <=> index'[j] = NoRow
             /\ HasRow(j) => /\ index'[j].meta = index[j].meta
                             /\ index'[j].vectors = index[j].vectors
    BY <1>5, ElapseMoves
  <2> QED
    BY <1>h, <2>1 DEF VectorsInv, Planned, Held, Embedded, At, HasRow, BeingRemoved
<1>6. CASE UNCHANGED indexVars
  BY <1>h, <1>6 DEF indexVars, VectorsInv, Planned, Held, Embedded, At, HasRow, BeingRemoved
<1> QED
  BY <1>1, <1>2, <1>3, <1>4, <1>5, <1>6, NextSteps

LEMMA VectorsInvInit == IndexInit => VectorsInv
<1> SUFFICES ASSUME IndexInit PROVE VectorsInv
  OBVIOUS
<1>1. \A i \in Papers : ~HasRow(i)
  BY DEF IndexInit, HasRow
<1>2. ix.pc = "idle"
  BY DEF IndexInit, Idle
<1> QED
  BY <1>1, <1>2 DEF VectorsInv, Planned, Held, Embedded, At, Reading

\* A paper that counts as indexed for semantic search has vectors of its present
\* metadata, whatever edits, failures, deaths and rebuilds came between
\* (tier_staleness, replace_chunks' reset of the stamps), as long as no removal
\* from the index is cut short before the row.
THEOREM VectorsFreshHolds ==
    ASSUME "deindex" \notin Rare
    PROVE  IndexSpec => []VectorsFresh
<1>1. IndexTypeInv /\ VectorsInv => VectorsFresh
  BY DEF VectorsInv, Embedded, VectorsFresh, StaleVectors, ContentChanged, HasRow, Live
<1>2. IndexTypeInv /\ VectorsInv /\ [IndexNext]_indexVars => (IndexTypeInv /\ VectorsInv)'
  BY VectorsInvNext, IndexTypeNext
<1> QED
  BY <1>1, <1>2, IndexTypeInit, VectorsInvInit, PTL DEF IndexSpec

----------------------------------------------------------------------------
(* Full text.                                                              *)

LEMMA Numbers ==
    /\ Metas \subseteq Nat /\ Notes \subseteq Nat /\ NoNotes \in Notes
    /\ NoMeta \notin Metas /\ \A n \in Notes : NoNotes <= n
BY IndexAssumption DEF Metas, Notes, NoNotes

\* The versions that the order of FtsInv is about.
LEMMA VersionsTyped ==
    ASSUME IndexTypeInv, NEW i \in Papers
    PROVE  /\ papers[i] # Gone => papers[i].meta \in Metas /\ papers[i].notes \in Notes
           /\ HasRow(i) => /\ index[i] \in IndexRow
                           /\ index[i].meta \in Metas \cup {NoMeta} /\ index[i].notes \in Notes
           /\ docs[i] \in Doc => docs[i].meta \in Metas /\ docs[i].notes \in Notes
           /\ ix.notes \in Notes
<1>1. papers[i] # Gone => papers[i] \in Paper
  BY DEF IndexTypeInv, IndexTypeOK
<1>2. HasRow(i) => index[i] \in IndexRow
  BY DEF IndexTypeInv, IndexTypeOK, HasRow
<1>3. ix \in Process
  BY DEF IndexTypeInv, IndexTypeOK
<1> QED
  BY <1>1, <1>2, <1>3 DEF Paper, IndexRow, Doc, Process

\* A row that keeps its versions and stamp, or that a failed step made, and a
\* document left alone.
SameRow(c) ==
    \/ /\ HasRow(c)' <=> HasRow(c)
       /\ HasRow(c) => /\ index'[c].meta = index[c].meta
                       /\ index'[c].notes = index[c].notes
                       /\ index'[c].fts = index[c].fts
    \/ ~HasRow(c) /\ index'[c].meta = NoMeta /\ index'[c].notes = NoNotes /\ ~index'[c].fts

LEMMA FailureKeepsRow ==
    ASSUME IndexTypeInv, NEW c \in Papers, c = ix.cur, NEW tiers, FailsWith(tiers)
    PROVE  SameRow(c) /\ ix' = WorkDone
<1>1. /\ ix' = WorkDone
      /\ \/ index'[c] = index[c]
         \/ /\ index'[c] \in IndexRow
            /\ index'[c].meta = RowOrBlank.meta /\ index'[c].notes = RowOrBlank.notes
            /\ index'[c].fts = RowOrBlank.fts
  BY FailureCharges
<1>2. /\ HasRow(c) => RowOrBlank = index[c]
      /\ ~HasRow(c) => RowOrBlank = BlankRow
  BY RowTyped DEF HasRow
<1>3. BlankRow.meta = NoMeta /\ BlankRow.notes = NoNotes /\ ~BlankRow.fts
  BY DEF BlankRow
<1> QED
  BY <1>1, <1>2, <1>3, RowAssumption DEF SameRow, HasRow

LEMMA SameRowBehind ==
    ASSUME IndexTypeInv, NEW c \in Papers, SameRow(c), UNCHANGED papers, RowBehind(c)
    PROVE  RowBehind(c)'
BY Numbers, VersionsTyped DEF SameRow, RowBehind, HasRow

\* The process leaves the paper: nothing read of it is in hand any more.
LEMMA DoneReads ==
    ASSUME IndexTypeInv, NEW c \in Papers, c = ix.cur, ix' = WorkDone
    PROVE  ReadBetween(c)' /\ ix'.pc = "sweep"
<1>1. ix'.pc = "sweep" /\ ix'.cur # c
  BY WorkDoneIs, IndexAssumption
<1> QED
  BY <1>1 DEF ReadBetween, At

LEMMA SameDocBetween ==
    ASSUME IndexTypeInv, NEW c \in Papers, SameRow(c), UNCHANGED <<papers, dir>>,
           docs'[c] = docs[c], ix.pc \notin Deindexing \cup {"clear"},
           DocBetween(c)
    PROVE  DocBetween(c)'
BY DEF SameRow, DocBetween, Opening, BeingRemoved, HasRow

LEMMA PaperKeepsFts ==
    ASSUME Rare = {}, IndexTypeInv, VectorsInv, FtsInv, PaperStep
    PROVE  FtsInv'
<1>0. PICK c \in Papers : c = ix.cur
  BY CurAtPaper
<1>t. /\ StoresTyped /\ ix \in Process
      /\ ix.pc \in Reading => ix.read \in Metas
  BY TypesParted
<1>v. /\ papers[c] # Gone => papers[c].meta \in Metas /\ papers[c].notes \in Notes
      /\ HasRow(c) => /\ index[c] \in IndexRow
                      /\ index[c].meta \in Metas \cup {NoMeta} /\ index[c].notes \in Notes
      /\ docs[c] \in Doc => docs[c].meta \in Metas /\ docs[c].notes \in Notes
      /\ ix.notes \in Notes
  BY VersionsTyped
<1>h. RowBehind(c) /\ ReadBetween(c) /\ DocBetween(c) /\ Held(c)
  BY DEF FtsInv, VectorsInv
<1>u. UNCHANGED <<papers, dir>>
  BY DEF PaperStep, Load, Derive, ReadNotes, UpsertDoc, MarkFts, Embed, MarkVectors, DelDoc,
     DelPoints, DelRow, FailsWith
<1>1. ASSUME NEW i \in Papers \ {c} PROVE RowBehind(i)' /\ ReadBetween(i)' /\ DocBetween(i)'
  <2>1. /\ index'[i] = index[i] /\ docs'[i] = docs[i] /\ ix'.cur # i /\ ix.cur # i
    BY <1>0, OthersKept
  <2>2. ix.pc # "clear"
    BY CurAtPaper DEF AtPaper
  <2> QED
    BY <1>u, <2>1, <2>2 DEF FtsInv, RowBehind, ReadBetween, DocBetween, At, HasRow, BeingRemoved,
       Opening
<1>2. RowBehind(c)' /\ ReadBetween(c)' /\ DocBetween(c)'
  <2>f. ASSUME NEW tiers, FailsWith(tiers), ix.pc \notin Deindexing \cup {"clear"},
               docs'[c] = docs[c]
        PROVE  RowBehind(c)' /\ ReadBetween(c)' /\ DocBetween(c)'
    BY <1>0, <1>h, <1>u, <2>f, FailureKeepsRow, SameRowBehind, DoneReads, SameDocBetween
  <2>1. CASE Load
    <3>0. ix.pc = "load" /\ UNCHANGED docs
      BY <2>1 DEF Load
    <3>1. CASE FailsWith(PreTier)
      BY <2>f, <3>0, <3>1 DEF Deindexing
    <3>2. CASE UNCHANGED index /\ ix' = WorkDone
      <4>1. SameRow(c)
        BY <3>2 DEF SameRow, HasRow
      <4> QED
        BY <1>0, <1>h, <1>u, <3>0, <3>2, <4>1, SameRowBehind, DoneReads, SameDocBetween DEF Deindexing
    <3>3. CASE UNCHANGED index /\ papers[c] # Gone
               /\ ix' = [ix EXCEPT !.pc = "derive", !.read = papers[c].meta]
      <4>1. ix'.pc = "derive" /\ ix'.read = papers[c].meta /\ SameRow(c)
        BY <1>t, <3>3 DEF Process, SameRow, HasRow
      <4>2. ReadBetween(c)'
        BY <1>h, <1>u, <1>v, <3>3, <4>1, Numbers DEF ReadBetween, RowBehind, At, HasRow
      <4> QED
        BY <1>h, <1>u, <3>0, <4>1, <4>2, SameRowBehind, SameDocBetween DEF Deindexing
    <3> QED
      BY <1>0, <2>1, <3>1, <3>2, <3>3 DEF Load, Cur
  <2>2. CASE Derive
    <3>0. ix.pc = "derive" /\ UNCHANGED docs /\ ix.read \in Metas
      BY <1>t, <2>2 DEF Derive, Reading
    <3>a. AfterDerive \in {"notes", "embed"}
      BY DEF AfterDerive
    <3>h. papers[c] # Gone =>
              /\ ix.read <= papers[c].meta
              /\ HasRow(c) /\ index[c].meta # NoMeta => index[c].meta <= ix.read
      BY <1>0, <1>h, <3>0 DEF ReadBetween, At, Reading
    <3>1. CASE FailsWith(PreTier)
      BY <2>f, <3>0, <3>1 DEF Deindexing
    <3>2. CASE /\ index' = [index EXCEPT ![c] = ReplacedRow]
               /\ ix' = [ix EXCEPT !.pc = AfterDerive, !.held = ix.read]
      <4>1. ix'.pc = AfterDerive /\ ix'.read = ix.read
        BY <1>t, <3>2 DEF Process
      <4>2. /\ index'[c] = ReplacedRow /\ ReplacedRow.meta = ix.read
            /\ ~ReplacedRow.fts /\ ReplacedRow.notes = RowOrBlank.notes
        BY <1>0, <1>t, <3>0, <3>2, ReplacedRowTyped DEF StoresTyped
      <4>3. RowOrBlank.notes = IF HasRow(c) THEN index[c].notes ELSE NoNotes
        BY <1>0, RowTyped DEF HasRow, BlankRow
      <4>4. RowBehind(c)'
        BY <1>h, <1>u, <1>v, <3>h, <4>2, <4>3, Numbers DEF RowBehind
      <4>5. ReadBetween(c)'
        <5>1. ix.read \in Nat
          BY <3>0, IndexAssumption DEF Metas
        <5>2. ix.read <= ix.read
          BY <5>1
        <5>3. ix'.pc \in {"notes", "embed"} /\ index'[c].meta = ix.read
          BY <3>a, <4>1, <4>2
        <5> QED
          BY <1>u, <3>h, <4>1, <5>2, <5>3 DEF ReadBetween, At
      <4>6. DocBetween(c)'
        BY <4>2 DEF DocBetween
      <4> QED
        BY <4>4, <4>5, <4>6
    <3>3. CASE UNCHANGED index /\ ix' = [ix EXCEPT !.pc = AfterDerive, !.held = chunks[c]]
      <4>1. ix'.pc = AfterDerive /\ ix'.read = ix.read /\ SameRow(c)
        BY <1>t, <3>3 DEF Process, SameRow, HasRow
      <4>2. ReadBetween(c)'
        BY <1>u, <3>a, <3>h, <3>3, <4>1 DEF ReadBetween, At, HasRow
      <4> QED
        BY <1>h, <1>u, <3>0, <4>1, <4>2, SameRowBehind, SameDocBetween DEF Deindexing
    <3> QED
      BY <1>0, <2>2, <3>1, <3>2, <3>3 DEF Derive, Cur
  <2>3. CASE ReadNotes
    <3>0. ix.pc = "notes" /\ UNCHANGED docs
      BY <2>3 DEF ReadNotes
    <3>1. CASE FailsWith({"fts"})
      BY <2>f, <3>0, <3>1 DEF Deindexing
    <3>2. CASE UNCHANGED index
               /\ ix' = [ix EXCEPT !.pc = "upsert",
                             !.notes = IF papers[c] = Gone THEN NoNotes ELSE papers[c].notes]
      <4>1. /\ ix'.pc = "upsert" /\ ix'.read = ix.read /\ SameRow(c)
            /\ papers[c] # Gone => ix'.notes = papers[c].notes
        BY <1>t, <3>2 DEF Process, SameRow, HasRow
      <4>2. ReadBetween(c)'
        BY <1>0, <1>h, <1>u, <1>v, <3>0, <3>2, <4>1, Numbers
           DEF ReadBetween, RowBehind, At, Reading, HasRow
      <4> QED
        BY <1>h, <1>u, <3>0, <4>1, <4>2, SameRowBehind, SameDocBetween DEF Deindexing
    <3> QED
      BY <1>0, <2>3, <3>1, <3>2 DEF ReadNotes, Cur
  <2>4. CASE UpsertDoc
    <3> DEFINE doc == [meta |-> ix.read, notes |-> ix.notes]
    <3>0. ix.pc = "upsert" /\ ix.read \in Metas
      BY <1>t, <2>4 DEF UpsertDoc, Reading
    <3>h. papers[c] # Gone =>
              /\ ix.read <= papers[c].meta /\ ix.notes <= papers[c].notes
              /\ HasRow(c) => /\ index[c].meta # NoMeta => index[c].meta <= ix.read
                              /\ index[c].notes <= ix.notes
      BY <1>0, <1>h, <3>0 DEF ReadBetween, At, Reading
    <3>d. doc \in Doc /\ doc.meta = ix.read /\ doc.notes = ix.notes
      BY <1>v, <3>0 DEF Doc
    <3>1. ASSUME docs' = [docs EXCEPT ![c] = doc], SameRow(c)
          PROVE  docs'[c] = doc /\ DocBetween(c)'
      <4>1. docs'[c] = doc
        BY <1>t, <3>1 DEF StoresTyped
      <4>2. SUFFICES ASSUME papers[c] # Gone, HasRow(c)', index'[c].fts, ~Opening'
                     PROVE  DocBetween(c)'
        BY <1>u, <4>1 DEF DocBetween
      <4>3. HasRow(c) /\ index[c].fts /\ ~Opening /\ ~BeingRemoved(c)
        BY <1>u, <3>0, <3>1, <4>2 DEF SameRow, Opening, BeingRemoved, Deindexing
      <4>4. index[c].meta # NoMeta
        BY <1>h, <4>2, <4>3 DEF DocBetween
      <4>5. index'[c].meta = index[c].meta /\ index'[c].notes = index[c].notes
        BY <3>1, <4>3 DEF SameRow
      <4> QED
        BY <1>u, <3>d, <3>h, <4>1, <4>2, <4>3, <4>4, <4>5 DEF DocBetween
    <3>2. CASE FailsWith({"fts"})
      <4>1. docs' = docs \/ docs' = [docs EXCEPT ![c] = doc]
        BY <1>0, <2>4 DEF UpsertDoc, Cur
      <4>2. CASE docs' = docs
        BY <2>f, <3>0, <3>2, <4>2 DEF Deindexing
      <4>3. CASE docs' = [docs EXCEPT ![c] = doc]
        BY <1>0, <1>h, <1>u, <3>1, <3>2, <4>3, FailureKeepsRow, SameRowBehind, DoneReads
      <4> QED
        BY <4>1, <4>2, <4>3
    <3>3. CASE UNCHANGED index /\ Goto("mark_fts") /\ docs' = [docs EXCEPT ![c] = doc]
      <4>1. /\ ix'.pc = "mark_fts" /\ ix'.read = ix.read /\ ix'.notes = ix.notes /\ SameRow(c)
        BY <3>3, GoneTo DEF SameRow, HasRow
      <4>2. ReadBetween(c)'
        BY <1>u, <3>h, <3>1, <3>3, <4>1 DEF ReadBetween, At, HasRow
      <4> QED
        BY <1>h, <1>u, <3>1, <3>3, <4>1, <4>2, SameRowBehind
    <3> QED
      BY <1>0, <2>4, <3>2, <3>3 DEF UpsertDoc, Cur
  <2>5. CASE MarkFts
    <3>0. ix.pc = "mark_fts" /\ UNCHANGED docs /\ ix.read \in Metas
      BY <1>t, <2>5 DEF MarkFts, Reading
    <3>h. /\ papers[c] # Gone =>
              /\ ix.read <= papers[c].meta /\ ix.notes <= papers[c].notes
              /\ HasRow(c) => /\ index[c].meta # NoMeta => index[c].meta <= ix.read
                              /\ index[c].notes <= ix.notes
              /\ docs[c] = [meta |-> ix.read, notes |-> ix.notes]
          /\ HasRow(c) => index[c].meta # NoMeta
      BY <1>0, <1>h, <3>0 DEF ReadBetween, Held, At, Reading, Holding
    <3>1. CASE FailsWith({"fts"})
      BY <2>f, <3>0, <3>1 DEF Deindexing
    <3>2. CASE /\ index' = IF index[c] = NoRow THEN index
                           ELSE [index EXCEPT ![c].fts = TRUE, ![c].notes = NotesStamped,
                                              ![c].ftsWait = FALSE]
               /\ ix' = AfterFts
      <4>1. /\ HasRow(c)' => HasRow(c)
            /\ HasRow(c) => index'[c].meta = index[c].meta /\ index'[c].notes = ix.notes
        BY <1>t, <1>v, <3>2 DEF StoresTyped, IndexRow, HasRow, NotesStamped
      <4>2. RowBehind(c)'
        BY <1>h, <1>u, <3>h, <4>1 DEF RowBehind
      <4>3. DocBetween(c)'
        <5>1. [meta |-> ix.read, notes |-> ix.notes] \in Doc
          BY <1>v, <3>0 DEF Doc
        <5>2. ix.notes <= ix.notes
          <6>1. ix.notes \in Notes
            BY <1>v
          <6>2. ix.notes \in Nat
            BY <6>1, IndexAssumption DEF Notes
          <6> QED
            BY <6>2
        <5> QED
          BY <1>u, <3>0, <3>h, <4>1, <5>1, <5>2 DEF DocBetween
      <4>4. ReadBetween(c)'
        <5>1. CASE ix' = WorkDone
          BY <1>0, <5>1, DoneReads
        <5>2. CASE Goto("embed")
          <6>1. ix'.pc = "embed" /\ ix'.read = ix.read
            BY <5>2, GoneTo
          <6> QED
            BY <1>u, <3>h, <4>1, <6>1 DEF ReadBetween, At
        <5> QED
          BY <3>2, <5>1, <5>2 DEF AfterFts, Goto
      <4> QED
        BY <4>2, <4>3, <4>4
    <3> QED
      BY <1>0, <2>5, <3>1, <3>2 DEF MarkFts, Cur
  <2>6. CASE Embed
    <3>0. ix.pc = "embed" /\ UNCHANGED docs
      BY <2>6 DEF Embed
    <3>1. CASE FailsWith({"vectors"})
      BY <2>f, <3>0, <3>1 DEF Deindexing
    <3>2. CASE Goto("mark_vec") /\ UNCHANGED index
      <4>1. ix'.pc = "mark_vec" /\ ix'.read = ix.read /\ SameRow(c)
        BY <3>2, GoneTo DEF SameRow, HasRow
      <4>2. ReadBetween(c)'
        BY <1>0, <1>h, <1>u, <3>0, <3>2, <4>1 DEF ReadBetween, At, Reading, HasRow
      <4> QED
        BY <1>h, <1>u, <3>0, <4>1, <4>2, SameRowBehind, SameDocBetween DEF Deindexing
    <3> QED
      BY <2>6, <3>1, <3>2 DEF Embed
  <2>7. CASE MarkVectors
    <3>0. ix.pc = "mark_vec" /\ UNCHANGED docs
      BY <2>7 DEF MarkVectors
    <3>1. CASE FailsWith({"vectors"})
      BY <2>f, <3>0, <3>1 DEF Deindexing
    <3>2. CASE /\ index' = IF index[c] = NoRow THEN index
                           ELSE [index EXCEPT ![c].vectors = TRUE, ![c].vecWait = FALSE]
               /\ ix' = WorkDone
      <4>1. SameRow(c)
        <5>1. CASE ~HasRow(c)
          BY <3>2, <5>1 DEF SameRow, HasRow
        <5>2. CASE HasRow(c)
          <6>1. /\ index'[c] \in IndexRow /\ index'[c].meta = index[c].meta
                /\ index'[c].notes = index[c].notes /\ index'[c].fts = index[c].fts
            BY <1>t, <1>v, <3>2, <5>2 DEF StoresTyped, IndexRow, HasRow
          <6> QED
            BY <5>2, <6>1, RowAssumption DEF SameRow, HasRow
        <5> QED
          BY <5>1, <5>2
      <4> QED
        BY <1>0, <1>h, <1>u, <3>0, <3>2, <4>1, SameRowBehind, DoneReads, SameDocBetween DEF Deindexing
    <3> QED
      BY <1>0, <2>7, <3>1, <3>2 DEF MarkVectors, Cur
  <2>8. CASE DelDoc \/ DelPoints
    <3>1. UNCHANGED index /\ SameRow(c)
      BY <2>8 DEF DelDoc, DelPoints, SameRow, HasRow
    <3>2. CASE ix' = WorkDone
      <4>1. UNCHANGED docs /\ ix.pc = "del_doc"
        <5>1. ~DelPoints /\ ~Goto("del_points")
          BY <1>0, <3>2, WorkDoneIs, GoneTo DEF DelPoints
        <5> QED
          BY <2>8, <5>1 DEF DelDoc
      <4> QED
        BY <1>0, <1>h, <1>u, <3>1, <3>2, <4>1, SameRowBehind, DoneReads, SameDocBetween DEF Deindexing
    <3>3. ASSUME NEW pc \in Deindexing, Goto(pc)
          PROVE  ReadBetween(c)' /\ DocBetween(c)'
      <4>1. ix'.pc = pc /\ ix'.cur = c
        BY <1>0, <3>3, GoneTo
      <4> QED
        BY <4>1 DEF ReadBetween, DocBetween, At, Reading, BeingRemoved, Deindexing
    <3> QED
      BY <1>h, <1>u, <2>8, <3>1, <3>2, <3>3, SameRowBehind DEF DelDoc, DelPoints, Deindexing
  <2>9. CASE DelRow
    <3>1. ix' = WorkDone /\ ~HasRow(c)'
      BY <1>0, <1>t, <2>9 DEF DelRow, Cur, StoresTyped, HasRow
    <3> QED
      BY <1>0, <3>1, DoneReads DEF RowBehind, DocBetween
  <2> QED
    BY <2>1, <2>2, <2>3, <2>4, <2>5, <2>6, <2>7, <2>8, <2>9 DEF PaperStep
<1> QED
  BY <1>1, <1>2 DEF FtsInv


\* The directory is made anew only on the way to clearing the stamps.
LEMMA StoreKeepsFts ==
    ASSUME IndexTypeInv, FtsInv, StoreStep
    PROVE  FtsInv'
<1>m. ix'.pc \notin AtPaper /\ ix.pc \notin Deindexing /\ UNCHANGED papers
  BY StoreMoves
<1>1. ASSUME NEW i \in Papers
      PROVE  /\ HasRow(i)' <=> HasRow(i)
             /\ HasRow(i) => /\ index'[i].meta = index[i].meta
                             /\ index'[i].notes = index[i].notes
                             /\ index'[i].fts => index[i].fts /\ ~ClearStamps
  <2>1. ASSUME NEW fts \in BOOLEAN, NEW vec \in BOOLEAN, index' = Cleared(fts, vec)
        PROVE  /\ HasRow(i)' <=> HasRow(i)
               /\ HasRow(i) => /\ index'[i].meta = index[i].meta
                               /\ index'[i].notes = index[i].notes
                               /\ index'[i].fts <=> index[i].fts /\ ~fts
    BY <2>1, ClearedTyped DEF HasRow
  <2>2. CASE ClearStamps
    BY <2>1, <2>2 DEF ClearStamps
  <2>3. CASE ~ClearStamps
    BY <2>1, <2>3, StoreMoves DEF HasRow
  <2> QED
    BY <2>2, <2>3
<1>2. \/ Opening'
      \/ ClearStamps
      \/ ~Opening /\ UNCHANGED docs
  <2>1. CASE DirBreaks \/ Wipe
    BY <2>1 DEF DirBreaks, Wipe, Opening
  <2>2. CASE Open /\ dir = "ok"
    BY <2>2 DEF Open, Opening
  <2>3. CASE Open /\ dir # "ok"
    BY <2>3, GoneTo DEF Open, Opening
  <2>4. CASE Restamp \/ Recreate
    BY <2>4 DEF Restamp, Recreate, Opening
  <2> QED
    BY <2>1, <2>2, <2>3, <2>4 DEF StoreStep
<1>3. ASSUME NEW i \in Papers PROVE RowBehind(i)' /\ ReadBetween(i)' /\ DocBetween(i)'
  <2>h. RowBehind(i) /\ DocBetween(i)
    BY DEF FtsInv
  <2>1. RowBehind(i)'
    BY <1>m, <1>1, <2>h DEF RowBehind
  <2>2. ReadBetween(i)'
    BY <1>m DEF ReadBetween, At, Reading, AtPaper
  <2>3. DocBetween(i)'
    <3>1. SUFFICES ASSUME papers[i] # Gone, HasRow(i), index'[i].fts, ~Opening'
                   PROVE  DocBetween(i)'
      BY <1>m, <1>1 DEF DocBetween
    <3>2. ~Opening /\ UNCHANGED docs /\ index[i].fts /\ ~BeingRemoved(i)
      BY <1>m, <1>1, <1>2, <3>1 DEF BeingRemoved
    <3> QED
      BY <1>m, <1>1, <2>h, <3>1, <3>2 DEF DocBetween
  <2> QED
    BY <2>1, <2>2, <2>3
<1> QED
  BY <1>3 DEF FtsInv

LEMMA FtsInvNext ==
    ASSUME Rare = {}, IndexTypeInv, VectorsInv, FtsInv, [IndexNext]_indexVars
    PROVE  FtsInv'
<1>h. \A i \in Papers : RowBehind(i) /\ ReadBetween(i) /\ DocBetween(i)
  BY DEF FtsInv
<1>1. CASE PaperStep
  BY <1>1, PaperKeepsFts
<1>2. CASE ProcessStep
  <2>1. UNCHANGED <<index, docs, dir, papers>>
    BY <1>2, ProcessStepTyped DEF DataUnchanged
  <2>2. ix.pc \notin Deindexing /\ ix'.pc \notin Reading
    BY <1>2, ProcessMoves
  <2>3. ix.pc # "clear"
    BY <1>2 DEF ProcessStep, Sweep, SweepEnds, Dies, Boot, Rebuild, NextTombstone, NextWork
  <2>4. ASSUME NEW i \in Papers PROVE RowBehind(i)' /\ ReadBetween(i)' /\ DocBetween(i)'
    <3>1. RowBehind(i)'
      BY <1>h, <2>1 DEF RowBehind, HasRow
    <3>2. ReadBetween(i)'
      BY <2>2 DEF ReadBetween, At, Reading
    <3>3. DocBetween(i)'
      BY <1>h, <2>1, <2>2, <2>3 DEF DocBetween, HasRow, Opening, BeingRemoved
    <3> QED
      BY <3>1, <3>2, <3>3
  <2> QED
    BY <2>4 DEF FtsInv
<1>3. CASE StoreStep
  BY <1>3, StoreKeepsFts
<1>4. ASSUME NEW i \in Papers, UserStep(i) PROVE FtsInv'
  <2>1. /\ UNCHANGED <<index, docs, dir, ix>> /\ papers[i] # Gone
        /\ \A j \in Papers \ {i} : papers'[j] = papers[j]
    BY <1>4, UserMoves DEF DataUnchanged
  <2>2. \/ papers'[i] = Gone
        \/ /\ papers[i].meta \in Nat /\ papers'[i].meta \in Nat
           /\ papers[i].notes \in Nat /\ papers'[i].notes \in Nat
           /\ papers[i].meta <= papers'[i].meta /\ papers[i].notes <= papers'[i].notes
    BY <1>4, UserMoves, Numbers
  <2>3. ASSUME NEW j \in Papers \ {i}
        PROVE  RowBehind(j)' /\ ReadBetween(j)' /\ DocBetween(j)'
    BY <1>h, <2>1 DEF RowBehind, ReadBetween, DocBetween, HasRow, At, Opening, BeingRemoved
  <2>4. RowBehind(i)' /\ ReadBetween(i)' /\ DocBetween(i)'
    <3>1. CASE papers'[i] = Gone
      BY <3>1 DEF RowBehind, ReadBetween, DocBetween
    <3>2. CASE papers'[i] # Gone
      <4>1. /\ HasRow(i) => index[i].notes \in Nat /\ index[i].meta \in Nat \cup {NoMeta}
            /\ docs[i] \in Doc => docs[i].meta \in Nat /\ docs[i].notes \in Nat
            /\ ix.notes \in Nat
            /\ At(i, Reading) => ix.read \in Nat
        BY VersionsTyped, Numbers DEF IndexTypeInv, At
      <4>2. RowBehind(i)'
        BY <1>h, <2>1, <2>2, <3>2, <4>1 DEF RowBehind, HasRow
      <4>3. ReadBetween(i)'
        BY <1>h, <2>1, <2>2, <3>2, <4>1 DEF ReadBetween, HasRow, At
      <4>4. DocBetween(i)'
        BY <1>h, <2>1, <2>2, <3>2, <4>1 DEF DocBetween, HasRow, Opening, BeingRemoved
      <4> QED
        BY <4>2, <4>3, <4>4
    <3> QED
      BY <3>1, <3>2
  <2> QED
    BY <2>3, <2>4 DEF FtsInv
<1>5. ASSUME NEW i \in Papers, Elapse(i) PROVE FtsInv'
  <2>1. /\ UNCHANGED <<papers, docs, dir, ix>>
        /\ \A j \in Papers :
             /\ index[j] = NoRow <=> index'[j] = NoRow
             /\ HasRow(j) => /\ index'[j].meta = index[j].meta
                             /\ index'[j].notes = index[j].notes
                             /\ index'[j].fts = index[j].fts
    BY <1>5, ElapseMoves
  <2> QED
    BY <1>h, <2>1 DEF FtsInv, RowBehind, ReadBetween, DocBetween, HasRow, At, Opening,
       BeingRemoved
<1>6. CASE UNCHANGED indexVars
  BY <1>h, <1>6 DEF indexVars, FtsInv, RowBehind, ReadBetween, DocBetween, HasRow, At, Opening,
     BeingRemoved
<1> QED
  BY <1>1, <1>2, <1>3, <1>4, <1>5, <1>6, NextSteps

LEMMA FtsInvInit == IndexInit => FtsInv
<1> SUFFICES ASSUME IndexInit PROVE FtsInv
  OBVIOUS
<1>1. \A i \in Papers : ~HasRow(i)
  BY DEF IndexInit, HasRow
<1>2. ix.pc = "idle"
  BY DEF IndexInit, Idle
<1> QED
  BY <1>1, <1>2 DEF FtsInv, RowBehind, ReadBetween, DocBetween, At, Reading

\* A paper that counts as indexed for full text has a document with its present
\* metadata and notes (tier_staleness, upsert_paper, mark_fts_done), as long as
\* none of the rare histories happens: without "revert" what the indexer wrote
\* lies between the row and the paper, and so is both when they agree.
THEOREM FtsFreshHolds ==
    ASSUME Rare = {}
    PROVE  IndexSpec => []FtsFresh
<1>1. IndexTypeInv /\ FtsInv => FtsFresh
  <2> SUFFICES ASSUME IndexTypeInv, FtsInv, NEW i \in Live, ~StaleFts(i),
                      ~Opening, ~BeingRemoved(i)
               PROVE  docs[i] = [meta |-> papers[i].meta, notes |-> papers[i].notes]
    BY DEF FtsFresh
  <2>1. /\ i \in Papers /\ papers[i] # Gone /\ HasRow(i) /\ index[i].fts
        /\ index[i].meta = papers[i].meta /\ index[i].notes = papers[i].notes
    BY DEF Live, StaleFts, Reextract, ContentChanged, NotesChanged, HasRow
  <2>2. /\ docs[i] \in Doc
        /\ papers[i].meta <= docs[i].meta /\ docs[i].meta <= papers[i].meta
        /\ papers[i].notes <= docs[i].notes /\ docs[i].notes <= papers[i].notes
    BY <2>1 DEF FtsInv, DocBetween
  <2>3. /\ papers[i].meta \in Nat /\ papers[i].notes \in Nat
        /\ docs[i].meta \in Nat /\ docs[i].notes \in Nat
    BY <2>1, <2>2, VersionsTyped, Numbers
  <2>4. docs[i].meta = papers[i].meta /\ docs[i].notes = papers[i].notes
    BY <2>2, <2>3
  <2> QED
    BY <2>2, <2>4 DEF Doc
<1>2. IndexTypeInv /\ VectorsInv /\ FtsInv /\ [IndexNext]_indexVars
          => (IndexTypeInv /\ VectorsInv /\ FtsInv)'
  BY VectorsInvNext, IndexTypeNext, FtsInvNext
<1> QED
  BY <1>1, <1>2, IndexTypeInit, VectorsInvInit, FtsInvInit, PTL DEF IndexSpec

=============================================================================
