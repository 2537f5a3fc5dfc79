------------------------------- MODULE Ingest -------------------------------
(***************************************************************************)
(* The ingest pipeline, IngestCtx::ingest_file_with_hint: any number of    *)
(* submissions (an inbox file taken by the watcher, a web upload, a URL    *)
(* import, a second `xuewen` process) run it concurrently on the same      *)
(* table and file tree.  One action stands for one await: the code between *)
(* two of them runs without a lock, so every other submission can move.    *)
(***************************************************************************)
EXTENDS Library

CONSTANTS
    Subs,        \* the submissions
    Disposal,    \* "archive" for the watcher's inbox file, which is moved to
                 \* _processed; "discard" for the copy any other caller stages
    NoContent, NoMeta, NoPath

ASSUME IngestAssumption ==
    /\ Subs \subseteq Papers
    /\ Subs \subseteq Writers
    /\ Disposal \in [Subs -> {"archive", "discard"}]
    /\ \A l \in Prior : /\ \A s \in Subs : l.rows[s] = NoRow
                       /\ \A p \in Paths : l.files[p] \notin Subs
    /\ NoContent \notin Contents
    /\ NoMeta \notin Metas
    /\ NoPath \notin Paths
    /\ NoRow \notin [content : Contents, idents : SUBSET Idents, trashed : BOOLEAN]

VARIABLE sub     \* the local state of each submission

vars == <<rows, files, sub>>

\* The awaits of the pipeline, in order, and its three ends.
Working == {"hash", "resolve", "identify", "keys", "copy", "fill", "insert",
            "cleanup", "recover", "dispose", "fail"}
Ended == {"done", "failed", "crashed"}

Verdicts == {"none", "ingested", "duplicate", "same_work", "in_trash", "error"}

Submission ==
    [pc       : {"idle"} \cup Working \cup Ended,
     content  : Contents \cup {NoContent},
     source   : {"present", "processed", "deleted"},
     meta     : Metas \cup {NoMeta},
     taken    : SUBSET Keys,
     path     : Paths \cup {NoPath},
     collided : BOOLEAN,
     stayed   : BOOLEAN,   \* history: the file at `path` would not be removed
     verdict  : Verdicts]

Unsubmitted ==
    [pc |-> "idle", content |-> NoContent, source |-> "present", meta |-> NoMeta, taken |-> {},
     path |-> NoPath, collided |-> FALSE, stayed |-> FALSE, verdict |-> "none"]

Init ==
    /\ LibraryInit
    /\ sub = [s \in Subs |-> Unsubmitted]

----------------------------------------------------------------------------

Goto(s, pc) == sub' = [sub EXCEPT ![s].pc = pc]

\* An outcome is reached: what remains is the disposal of the source.
Conclude(s, verdict) ==
    sub' = [sub EXCEPT ![s].pc = "dispose", ![s].verdict = verdict]

\* What finding row i says of a submission: Duplicate or SameWork for an
\* active row, InTrash for a trashed one.
VerdictOn(i, active) == IF rows[i].trashed THEN "in_trash" ELSE active

\* A PDF arrives.
Submit(s) ==
    /\ sub[s].pc = "idle"
    /\ \E c \in Contents : sub' = [sub EXCEPT ![s].pc = "hash", ![s].content = c]
    /\ UNCHANGED libraryVars

\* Steps 1 and 2: hash the file and look the hash up.
DedupByHash(s) ==
    /\ sub[s].pc = "hash"
    /\ \/ \E i \in WithHash(sub[s].content) : Conclude(s, VerdictOn(i, "duplicate"))
       \/ WithHash(sub[s].content) = {} /\ Goto(s, "resolve")
    /\ UNCHANGED libraryVars

\* Steps 3 and 4: text extraction, GROBID and the online resolvers.  They
\* degrade to poorer metadata on any network failure.
Resolve(s) ==
    /\ sub[s].pc = "resolve"
    /\ \E m \in Metas : sub' = [sub EXCEPT ![s].pc = "identify", ![s].meta = m]
    /\ UNCHANGED libraryVars

\* Step 4b: another file of a work the library has?
DedupByIdentifier(s) ==
    /\ sub[s].pc = "identify"
    /\ \/ \E i \in WithIdentifier(sub[s].meta) : Conclude(s, VerdictOn(i, "same_work"))
       \/ WithIdentifier(sub[s].meta) = {} /\ Goto(s, "keys")
    /\ UNCHANGED libraryVars

\* Step 5: the keys taken, as the table has them now.
ReadKeys(s) ==
    /\ sub[s].pc = "keys"
    /\ sub' = [sub EXCEPT ![s].pc = "copy", ![s].taken = CiteKeysTaken({})]
    /\ UNCHANGED libraryVars

\* The filing loop ends, and its set of taken keys goes out of scope.
Opened(s, p) ==
    sub' = [sub EXCEPT ![s].pc = "fill", ![s].path = p, ![s].taken = {}]

\* Mutant of CreateExclusive: the loser of a key queries the table again
\* instead of remembering the key.
CreateExclusive_Requeries(s) ==
    /\ sub[s].pc = "copy" /\ sub[s].meta.base # NoBase
    /\ \E k \in Keys :
         /\ Disambiguated(sub[s].meta.base, sub[s].taken, k)
         /\ \/ CreateNew(s, k) /\ Opened(s, k)
            \/ /\ files[k] # Absent
               /\ sub' = [sub EXCEPT ![s].taken = CiteKeysTaken({})]
               /\ UNCHANGED files
    /\ UNCHANGED rows

\* The filing loop: create the first free key's file exclusively; a key whose
\* file exists joins the local taken set and the loop goes round.
CreateExclusive(s) ==
    /\ sub[s].pc = "copy" /\ sub[s].meta.base # NoBase
    /\ \E k \in Keys :
         /\ Disambiguated(sub[s].meta.base, sub[s].taken, k)
         /\ \/ CreateNew(s, k) /\ Opened(s, k)
            \/ /\ files[k] # Absent
               /\ sub' = [sub EXCEPT ![s].taken = @ \cup {k}]
               /\ UNCHANGED files
    /\ UNCHANGED rows

\* No cite key: _unsorted/<hash>.pdf is overwritten in place.
OverwriteUnsorted(s) ==
    /\ sub[s].pc = "copy" /\ sub[s].meta.base = NoBase
    /\ Truncate(s, sub[s].content) /\ Opened(s, sub[s].content)
    /\ UNCHANGED rows

FinishCopy(s) ==
    /\ sub[s].pc = "fill"
    /\ Fill(s, sub[s].path, sub[s].content)
    /\ Goto(s, "insert")
    /\ UNCHANGED rows

\* Mutant of CopyFails: the partial file stays.
CopyFails_LeavesPartial(s) ==
    /\ sub[s].pc = "fill"
    /\ Goto(s, "fail")
    /\ UNCHANGED libraryVars

\* On to pc once the file this submission created exclusively is removed.  No
\* one looks at the result: where the file system refuses (`let _ =`), the file
\* stays.
Discard(s, pc) ==
    \/ sub[s].path \in Keys /\ Remove(sub[s].path) /\ Goto(s, pc)
    \/ /\ sub[s].path \in Keys
       /\ sub' = [sub EXCEPT ![s].pc = pc, ![s].stayed = TRUE]
       /\ UNCHANGED files
    \/ sub[s].path \notin Keys /\ Goto(s, pc) /\ UNCHANGED files

\* The copy fails (disk full, source gone).  copy_to_excl removes the file it
\* created, copy_to leaves what it truncated.
CopyFails(s) ==
    /\ sub[s].pc = "fill"
    /\ Discard(s, "fail")
    /\ UNCHANGED rows

\* Step 6: INSERT INTO papers; the database has the last word on uniqueness.
Insert(s) ==
    /\ sub[s].pc = "insert"
    /\ \/ /\ Unique(s, sub[s].content, sub[s].meta)
          /\ rows' = [rows EXCEPT ![s] =
                 [content |-> sub[s].content, path |-> sub[s].path,
                  meta |-> sub[s].meta, trashed |-> FALSE]]
          /\ Conclude(s, "ingested")
       \/ /\ ~Unique(s, sub[s].content, sub[s].meta)
          /\ sub' = [sub EXCEPT ![s].pc = "cleanup", ![s].collided = TRUE]
          /\ UNCHANGED rows
    /\ UNCHANGED files

\* Mutant of InsertFails: a failed INSERT is only logged.
InsertFails_Ignored(s) ==
    /\ sub[s].pc = "insert"
    /\ Conclude(s, "ingested")
    /\ UNCHANGED libraryVars

\* Any other database error (locked, read-only, disk full).
InsertFails(s) ==
    /\ sub[s].pc = "insert"
    /\ Goto(s, "cleanup")
    /\ UNCHANGED libraryVars

\* Remove the file, but only one created exclusively by this submission.
Cleanup(s) ==
    /\ sub[s].pc = "cleanup"
    /\ Discard(s, IF sub[s].collided THEN "recover" ELSE "fail")
    /\ UNCHANGED rows

\* recover_unique_collision: the answer the checks above would have given.
RecoverCollision(s) ==
    LET sameHash == WithHash(sub[s].content)
        sameWork == WithIdentifier(sub[s].meta)
    IN  /\ sub[s].pc = "recover"
        /\ \/ \E i \in sameHash : Conclude(s, VerdictOn(i, "duplicate"))
           \/ /\ sameHash = {}
              /\ \E i \in sameWork : Conclude(s, VerdictOn(i, "same_work"))
           \/ sameHash \cup sameWork = {} /\ Goto(s, "fail")
        /\ UNCHANGED libraryVars

\* The one disposal point, shared by every outcome.
Dispose(s) ==
    /\ sub[s].pc = "dispose"
    /\ sub' = [sub EXCEPT ![s].pc = "done",
           ![s].source = IF Disposal[s] = "archive" THEN "processed" ELSE "deleted"]
    /\ UNCHANGED libraryVars

\* Resolution, disposal or a query fails.
StepFails(s) ==
    /\ sub[s].pc \in {"hash", "resolve", "identify", "keys", "copy", "recover", "dispose"}
    /\ Goto(s, "fail")
    /\ UNCHANGED libraryVars

\* Err: an inbox file stays for the watcher's retry, ingest_bytes deletes the
\* copy it staged.
Fail(s) ==
    /\ sub[s].pc = "fail"
    /\ sub' = [sub EXCEPT ![s].pc = "failed",
           ![s].verdict = IF @ = "none" THEN "error" ELSE @,
           ![s].source = IF Disposal[s] = "discard" THEN "deleted" ELSE @]
    /\ UNCHANGED libraryVars

\* The process is killed, or a client disconnects and its handler is dropped
\* at an await: nothing more of this submission runs.
Crash(s) ==
    /\ sub[s].pc \in Working
    /\ Goto(s, "crashed")
    /\ UNCHANGED libraryVars

Trash(i) == SoftDelete(i) /\ UNCHANGED <<files, sub>>
Untrash(i) == Restore(i) /\ UNCHANGED <<files, sub>>

\* An await returns what it was asked for.
Advance(s) ==
    \/ DedupByHash(s) \/ Resolve(s) \/ DedupByIdentifier(s) \/ ReadKeys(s)
    \/ CreateExclusive(s) \/ OverwriteUnsorted(s) \/ FinishCopy(s)
    \/ Insert(s) \/ Cleanup(s) \/ RecoverCollision(s) \/ Dispose(s) \/ Fail(s)

Step(s) == Advance(s) \/ CopyFails(s) \/ InsertFails(s) \/ StepFails(s)

Next ==
    \/ \E s \in Subs : Submit(s) \/ Step(s) \/ Crash(s)
    \/ \E i \in Papers : Trash(i) \/ Untrash(i)

\* A task that is running keeps being polled and its awaits return; nothing
\* makes one of them fail, a user submit, trash or restore, or a process crash.
Fairness == \A s \in Subs : WF_vars(Advance(s))

Spec == Init /\ [][Next]_vars

FairSpec == Spec /\ Fairness

----------------------------------------------------------------------------
(* Properties.                                                             *)

\* Types of the two stores and of every submission's local state.
TypeOK ==
    /\ rows \in [Papers -> Row \cup {NoRow}]
    /\ files \in [Paths -> FileStates]
    /\ sub \in [Subs -> Submission]

\* The path of every row with a cite key holds exactly the bytes the row was
\* made for: no concurrent ingest of the same key, no cleanup after a failed
\* insert and no crash ever replaces, truncates or removes a filed PDF.  (A
\* path under _unsorted can be caught half overwritten, but only ever by the
\* same bytes.)
FiledIntact == Intact(rows, files)

\* An answer that lets the caller give the source up (anything but an error)
\* means the work is in the library: admitted under this submission's own id,
\* or held by a row with the same bytes or a shared identifier.
SourceSafe ==
    \A s \in Subs :
        /\ sub[s].verdict = "ingested" =>
               s \in Stored /\ rows[s].content = sub[s].content
        /\ sub[s].verdict = "duplicate" => WithHash(sub[s].content) # {}
        /\ sub[s].verdict = "same_work" => WithIdentifier(sub[s].meta) # {}
        /\ sub[s].source # "present" /\ sub[s].verdict = "in_trash" =>
               \/ WithHash(sub[s].content) # {}
               \/ sub[s].meta # NoMeta /\ WithIdentifier(sub[s].meta) # {}
        /\ sub[s].source = "processed" => sub[s].verdict # "error"

\* A file under a cite key that no row names and no submission works on.  It
\* would hold its key against every later paper.
Stranded(k) ==
    /\ files[k] # Absent
    /\ \A i \in Stored : rows[i].path # k
    /\ \A s \in Subs :
         ~(sub[s].path = k /\ sub[s].pc \in {"fill", "insert", "cleanup"})

\* Whatever step of an ingest fails, the file it created is removed before the
\* error is reported.  Only two things strand a file: a crash, and a file system
\* that refuses the removal, which pipeline.rs:242 and 716 pass over.
StrandedOnlyByFault ==
    [][\A k \in Keys : Stranded(k)' =>
           \/ Stranded(k)
           \/ \E s \in Subs : sub[s].pc # "crashed" /\ sub'[s].pc = "crashed"
           \/ \E s \in Subs : sub'[s].stayed /\ sub'[s].path = k]_vars

\* Every submission comes to an end: the loop that looks for a free key goes
\* round finitely often, because each collision removes a key from the tries.
IngestEnds == \A s \in Subs : sub[s].pc \in Working ~> sub[s].pc \in Ended

\* The comment at pipeline.rs:224 says overwriting an _unsorted file "is a
\* repair, never a clobber": once nobody is writing it, the file of a row
\* without a cite key is whole.
UnsortedRepaired ==
    \A i \in Stored : rows[i].path \in Contents =>
        \/ files[rows[i].path] = rows[i].content
        \/ \E s \in Subs : sub[s].pc = "fill" /\ sub[s].path = rows[i].path

\* The pipeline, seen without its steps, is the atomic catalog.
EntryOf(i) ==
    IF rows[i] = NoRow THEN NoRow
    ELSE [content |-> rows[i].content, idents |-> rows[i].meta.idents,
          trashed |-> rows[i].trashed]

Promise == INSTANCE Catalog WITH
    NoEntry <- NoRow,
    entries <- [i \in Papers |-> EntryOf(i)],
    offer <- [s \in Subs |-> sub[s].content],
    answer <- [s \in Subs |-> sub[s].verdict]

\* Check-then-insert over three queries and a copy answers every submission
\* as one atomic step on the catalog would, races included.
ImplementsCatalog == Promise!Spec

=============================================================================
