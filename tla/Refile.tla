------------------------------- MODULE Refile -------------------------------
(***************************************************************************)
(* The operations on papers already in the library: identify (a match the  *)
(* user confirmed), refresh (re-resolution of the stored PDF) and purge.   *)
(* Each reads a paper once, works on that snapshot across network calls    *)
(* and prompts, and writes it back; identify and refresh then re-file the  *)
(* PDF to the cite key their metadata implies.  They run beside the        *)
(* ingests of module Ingest and beside each other: identify in the server, *)
(* refresh and purge in other `xuewen` processes.                          *)
(***************************************************************************)
EXTENDS Ingest, FiniteSets

CONSTANTS
    Edits,      \* the operations run: each is one operation on one paper
    Ops,        \* which of "identify", "refresh" and "purge" they may be
    MaxEdits,   \* bound: how many may be under way at once
    Nobody

ASSUME RefileAssumption ==
    /\ Edits \subseteq Writers
    /\ Edits \cap Subs = {}
    /\ Ops \subseteq {"identify", "refresh", "purge"}
    /\ MaxEdits \in Nat
    /\ Nobody \notin Papers
    /\ \A l \in Prior : \A p \in Paths : l.files[p] \notin Edits

VARIABLE edit

refileVars == <<rows, files, sub, edit>>

Editing == {"match", "guard", "reresolve", "rekey", "create", "adopt", "fill",
            "update", "rollback", "remove_old", "purge_file", "purge_row"}
EditEnded == {"applied", "refused", "failed", "crashed"}

Edit ==
    [pc    : {"idle"} \cup Editing \cup EditEnded,
     paper : Papers \cup {Nobody},
     snap  : Row \cup {NoRow},     \* the row as read, then as it will be written
     meta  : Metas \cup {NoMeta},  \* the match found
     to    : Paths \cup {NoPath},  \* where the PDF should move
     from  : Paths \cup {NoPath},  \* where it moved, or was purged, from
     sure  : BOOLEAN,              \* history: the row was read as resolved
     stayed : Paths \cup {NoPath}] \* history: a file that would not be removed

NoEdit == [pc |-> "idle", paper |-> Nobody, snap |-> NoRow, meta |-> NoMeta,
           to |-> NoPath, from |-> NoPath, sure |-> FALSE, stayed |-> NoPath]

RefileInit == Init /\ edit = [e \in Edits |-> NoEdit]

----------------------------------------------------------------------------

Active == {e \in Edits : edit[e].pc \in Editing}
EditGoto(e, pc) == edit' = [edit EXCEPT ![e].pc = pc]

\* The operation is over and its locals are gone; a purge that got as far as
\* the row is remembered, with its paper and the file it removed.
End(e, pc) ==
    LET kept == IF edit[e].pc = "purge_row" THEN edit[e] ELSE NoEdit
    IN  edit' = [edit EXCEPT ![e] =
            [NoEdit EXCEPT !.pc = pc, !.paper = kept.paper, !.from = kept.from]]

StoresUnchanged == UNCHANGED <<rows, files, sub>>

\* The paper is read: the snapshot everything below works on.
Begin(e, op, i, pc) ==
    /\ edit[e].pc = "idle" /\ Cardinality(Active) < MaxEdits
    /\ op \in Ops /\ i \in Stored
    /\ edit' = [edit EXCEPT ![e].pc = pc, ![e].paper = i,
                            ![e].snap = rows[i],
                            ![e].sure = rows[i].meta.resolved]
    /\ StoresUnchanged

BeginIdentify(e, i) == Begin(e, "identify", i, "match")
BeginRefresh(e, i) == ~rows[i].trashed /\ Begin(e, "refresh", i, "reresolve")
BeginPurge(e, i) == rows[i].trashed /\ Begin(e, "purge", i, "purge_file")

\* identify: the candidate, DOI or arXiv id is resolved online.  A match is a
\* confident resolution; none is a 404.
FindMatch(e) ==
    /\ edit[e].pc = "match"
    /\ \/ \E m \in {x \in Metas : x.resolved} :
            edit' = [edit EXCEPT ![e].pc = "guard", ![e].meta = m]
       \/ End(e, "refused")
    /\ StoresUnchanged

\* apply_match: refuse a paper read as trashed, and an identifier another paper
\* has; else the match replaces the metadata block.  find_by_identifier returns
\* one paper even if the DOI and the arXiv id are on two.
GuardMatch(e) ==
    LET hits == WithIdentifier(edit[e].meta)
        Replace == edit' = [edit EXCEPT ![e].pc = "rekey", ![e].snap.meta = edit[e].meta]
    IN  /\ edit[e].pc = "guard"
        /\ \/ edit[e].snap.trashed /\ End(e, "refused")
           \/ /\ ~edit[e].snap.trashed
              /\ \/ hits \ {edit[e].paper} # {} /\ End(e, "refused")
                 \/ (hits = {} \/ edit[e].paper \in hits) /\ Replace
        /\ StoresUnchanged

\* Mutant of ReResolve: an unconfident answer replaces resolved metadata.
ReResolve_Downgrades(e) ==
    /\ edit[e].pc = "reresolve"
    /\ \/ files[edit[e].snap.path] = Absent /\ End(e, "refused")
       \/ /\ files[edit[e].snap.path] # Absent
          /\ \E m \in Metas :
               edit' = [edit EXCEPT ![e].pc = "rekey", ![e].snap.meta = m]
    /\ StoresUnchanged

\* refresh_one: skip a paper whose file is gone.  A record that needs review
\* is always resolved again, a resolved one under --all; a resolver error or an
\* unconfident answer for a paper read as resolved keeps the old metadata.
ReResolve(e) ==
    /\ edit[e].pc = "reresolve"
    /\ \/ files[edit[e].snap.path] = Absent /\ End(e, "refused")
       \/ /\ files[edit[e].snap.path] # Absent
          /\ \/ EditGoto(e, "rekey")
             \/ \E m \in Metas :
                  /\ m.resolved \/ ~edit[e].snap.meta.resolved
                  /\ edit' = [edit EXCEPT ![e].pc = "rekey", ![e].snap.meta = m]
    /\ StoresUnchanged

\* save_and_refile: the path the metadata implies, given the keys other papers
\* have now.
Rekey(e) ==
    /\ edit[e].pc = "rekey"
    /\ \E p \in Paths :
         /\ IF edit[e].snap.meta.base = NoBase THEN p = edit[e].snap.content
            ELSE Disambiguated(edit[e].snap.meta.base,
                               CiteKeysTaken({edit[e].paper}), p)
         /\ edit' = [edit EXCEPT ![e].to = p,
                ![e].pc = IF p = edit[e].snap.path THEN "update" ELSE "create"]
    /\ StoresUnchanged

CreateCopy(e) ==
    /\ edit[e].pc = "create"
    /\ \/ CreateNew(e, edit[e].to) /\ EditGoto(e, "fill")
       \/ files[edit[e].to] # Absent /\ EditGoto(e, "adopt") /\ UNCHANGED files
    /\ UNCHANGED <<rows, sub>>

\* The snapshot now has the PDF at its new path and key.
Moved(e) ==
    edit' = [edit EXCEPT ![e].pc = "update", ![e].from = edit[e].snap.path,
                         ![e].snap.path = edit[e].to]

\* Mutant of AdoptOrLeave: the occupying file is adopted unread.
AdoptOrLeave_Unverified(e) ==
    /\ edit[e].pc = "adopt"
    /\ Moved(e)
    /\ StoresUnchanged

\* The destination is occupied: adopt a file that hashes to this paper's
\* content_hash, else leave the PDF where it is.
AdoptOrLeave(e) ==
    /\ edit[e].pc = "adopt"
    /\ IF files[edit[e].to] = edit[e].snap.content THEN Moved(e) ELSE EditGoto(e, "update")
    /\ StoresUnchanged

\* The bytes copied are whatever the old path holds now.
CopyOld(e) ==
    LET bytes == files[edit[e].snap.path]
    IN  /\ edit[e].pc = "fill" /\ bytes # Absent
        /\ Fill(e, edit[e].to, IF bytes \in Contents THEN bytes ELSE e)
        /\ Moved(e)
        /\ UNCHANGED <<rows, sub>>

\* The old file is missing, or the copy fails: the new file is removed if the
\* file system lets it be, and only the metadata is saved.
CopyOldFails(e) ==
    /\ edit[e].pc = "fill"
    /\ \/ Remove(edit[e].to) /\ EditGoto(e, "update")
       \/ /\ edit' = [edit EXCEPT ![e].pc = "update", ![e].stayed = edit[e].to]
          /\ UNCHANGED files
    /\ UNCHANGED <<rows, sub>>

\* UPDATE papers SET rel_path, metadata, cite_key, status, deleted_at, all
\* from the snapshot.  A row purged meanwhile makes it a no-op, an identifier
\* another row took meanwhile makes it fail.
Update(e) ==
    LET i == edit[e].paper
    IN  /\ edit[e].pc = "update"
        /\ IF i \in Stored /\ ~Unique(i, edit[e].snap.content, edit[e].snap.meta)
           THEN EditGoto(e, "rollback") /\ UNCHANGED rows
           ELSE /\ rows' = IF i \in Stored THEN [rows EXCEPT ![i] = edit[e].snap] ELSE rows
                /\ EditGoto(e, "remove_old")
        /\ UNCHANGED <<files, sub>>

UpdateFails(e) ==
    /\ edit[e].pc = "update"
    /\ EditGoto(e, "rollback")
    /\ StoresUnchanged

\* Mutant of Rollback: the error is returned before the new file is removed.
Rollback_KeepsCopy(e) ==
    /\ edit[e].pc = "rollback"
    /\ End(e, "failed")
    /\ StoresUnchanged

\* The operation ends as pc with the file p removed, if there is one; it stays
\* where the file system refuses.
EndRemoving(e, pc, p) ==
    /\ \/ p = NoPath /\ End(e, pc) /\ UNCHANGED files
       \/ p # NoPath /\ Remove(p) /\ End(e, pc)
       \/ /\ p # NoPath /\ UNCHANGED files
          /\ edit' = [edit EXCEPT ![e] = [NoEdit EXCEPT !.pc = pc, !.stayed = p]]
    /\ UNCHANGED <<rows, sub>>

\* The error path removes the new file, adopted or copied, whatever comes of it.
Rollback(e) ==
    /\ edit[e].pc = "rollback"
    /\ EndRemoving(e, "failed", IF edit[e].from = NoPath THEN NoPath ELSE edit[e].to)

\* The old file goes last; failing to remove it is only logged.
RemoveOld(e) == edit[e].pc = "remove_old" /\ EndRemoving(e, "applied", edit[e].from)

\* purge_paper: the file the snapshot names, then the sidecars, then the row.  A
\* file that cannot be removed is warned of, and the purge goes on.
PurgeFile(e) ==
    /\ edit[e].pc = "purge_file"
    /\ \/ /\ Remove(edit[e].snap.path)
          /\ edit' = [edit EXCEPT ![e].pc = "purge_row", ![e].from = edit[e].snap.path]
       \/ /\ edit' = [edit EXCEPT ![e].pc = "purge_row", ![e].stayed = edit[e].snap.path]
          /\ UNCHANGED files
    /\ UNCHANGED <<rows, sub>>

PurgeRow(e) ==
    /\ edit[e].pc = "purge_row"
    /\ \/ rows' = [rows EXCEPT ![edit[e].paper] = NoRow] /\ End(e, "applied")
       \/ End(e, "failed") /\ UNCHANGED rows
    /\ UNCHANGED <<files, sub>>

EditCrash(e) ==
    /\ edit[e].pc \in Editing
    /\ End(e, "crashed")
    /\ StoresUnchanged

EditStep(e) ==
    \/ FindMatch(e) \/ GuardMatch(e) \/ ReResolve(e) \/ Rekey(e) \/ CreateCopy(e)
    \/ AdoptOrLeave(e) \/ CopyOld(e) \/ CopyOldFails(e) \/ Update(e) \/ UpdateFails(e)
    \/ Rollback(e) \/ RemoveOld(e) \/ PurgeFile(e) \/ PurgeRow(e)

RefileNext ==
    \/ Next /\ UNCHANGED edit
    \/ \E e \in Edits :
         \/ \E i \in Stored :
              BeginIdentify(e, i) \/ BeginRefresh(e, i) \/ BeginPurge(e, i)
         \/ EditStep(e)
         \/ EditCrash(e)

RefileSpec == RefileInit /\ [][RefileNext]_refileVars

----------------------------------------------------------------------------
(* Properties.                                                             *)

\* Types of the stores, the submissions and the local state of every edit.
RefileTypeOK == TypeOK /\ edit \in [Edits -> Edit]

\* A purge has removed paper i's file, or the file at i's path, and stopped, or
\* not yet come to the row.
HalfPurged(i) ==
    \E e \in Edits : /\ edit[e].pc \in {"purge_row", "failed", "crashed"}
                     /\ edit[e].from # NoPath
                     /\ edit[e].paper = i \/ edit[e].from = rows[i].path

\* Whatever an identify or a refresh does, and wherever it fails or crashes,
\* the path in the database holds the paper's own bytes: the copy comes before
\* the UPDATE and the removal after it, and a file found at the destination is
\* adopted only if it is this paper's.  Only a purge leaves a row without its
\* file, when it stops between the two deletions.
FiledUnlessPurged ==
    \A i \in Stored :
        \/ files[rows[i].path] = rows[i].content
        \/ rows[i].path \in Contents /\ files[rows[i].path] \in Writers
        \/ HalfPurged(i)

\* The paths edit e will still account for: the file it is writing, then the
\* pair of old and new file.
Claims(e) ==
    IF edit[e].pc = "fill" THEN {edit[e].to}
    ELSE IF edit[e].from # NoPath THEN {edit[e].to, edit[e].from} ELSE {}

\* A file under a cite key that no row names and nobody works on.
Abandoned(k) == Stranded(k) /\ \A e \in Active : k \notin Claims(e)

\* No failing step of an edit leaves a second copy of the PDF behind.  Only two
\* things do: a process that dies, and a file system that refuses a removal, be
\* it of the copy (pipeline.rs:370, 716), of the old file once the row points at
\* the new one (375), or of the file of a paper whose row is then purged (427).
AbandonedOnlyByFault ==
    [][\A k \in Keys : Abandoned(k)' =>
           \/ Abandoned(k)
           \/ \E s \in Subs : (sub'[s].pc = "crashed" \/ sub'[s].stayed) /\ sub'[s].path = k
           \/ \E e \in Edits : edit[e].pc # "crashed" /\ edit'[e].pc = "crashed"
           \/ \E e \in Edits : edit[e].stayed # k /\ edit'[e].stayed = k
           \/ \E e \in Edits : edit[e].pc = "purge_row" /\ edit[e].stayed = k]_refileVars

\* refresh.rs:87, "Never downgrade an already-resolved record": metadata the
\* user confirmed or a resolver was sure of is not replaced by a guess.
NoDowngrade ==
    [][\A i \in Papers :
         rows[i] # NoRow /\ rows'[i] # NoRow /\ rows[i].meta.resolved
             => rows'[i].meta.resolved]_refileVars

\* What the code does keep of it: a resolved row is downgraded only by an edit
\* that read it as unresolved, before somebody else resolved it; an edit that
\* read a resolved row never writes a guess, whatever it is told.
DowngradeOnlyWhenStale ==
    [][\A i \in Papers :
         rows[i] # NoRow /\ rows'[i] # NoRow /\ rows[i].meta.resolved
             => \/ rows'[i].meta.resolved
                \/ \E e \in Edits : /\ edit[e].pc = "update" /\ edit[e].paper = i
                                    /\ ~edit[e].sure]_refileVars

\* The comment on save_and_refile (pipeline.rs:318) says that "a failure at any
\* step never leaves the DB pointing at a missing file".
NeverMissing ==
    \A i \in Stored : files[rows[i].path] # Absent \/ HalfPurged(i)

=============================================================================
