--------------------------- MODULE Library_proofs ---------------------------
(***************************************************************************)
(* Proofs about modules Ingest and Refile, for every number of             *)
(* submissions, edits, papers, keys and contents, and every library an     *)
(* earlier process may have left.  The ingest comes first: its invariants  *)
(* are those the re-filing keeps beside its own.                           *)
(***************************************************************************)
EXTENDS Refile, FiniteSetTheorems, TLAPS

\* Which of a submission's locals are set at which await.
Progress ==
    \A s \in Subs :
        /\ sub[s].pc # "idle" => sub[s].content \in Contents
        /\ sub[s].pc \in {"identify", "keys", "copy", "fill", "insert", "cleanup", "recover"}
               => sub[s].meta \in Metas
        /\ sub[s].pc \in {"fill", "insert", "cleanup", "recover"} => sub[s].path \in Paths

TypeInv == TypeOK /\ Progress

LEMMA TypeInvInit == Init => TypeInv
BY LibraryAssumption, IngestAssumption
   DEF Init, LibraryInit, TypeInv, TypeOK, Progress, Unsubmitted, Submission, Working,
       Ended, Verdicts, Tables, Trees

\* An update of one submission's locals keeps the types and the progress of
\* all others.
LEMMA OneSubmission ==
    ASSUME TypeInv, NEW s \in Subs, NEW r \in Submission, sub' = [sub EXCEPT ![s] = r],
           r.pc # "idle" => r.content \in Contents,
           r.pc \in {"identify", "keys", "copy", "fill", "insert", "cleanup", "recover"}
               => r.meta \in Metas,
           r.pc \in {"fill", "insert", "cleanup", "recover"} => r.path \in Paths
    PROVE  sub' \in [Subs -> Submission] /\ Progress'
BY DEF TypeInv, TypeOK, Progress

LEMMA GotoKeepsType ==
    ASSUME TypeInv, NEW s \in Subs, NEW pc, Goto(s, pc),
           pc \in Working \cup Ended,
           sub[s].pc # "idle",
           pc \in {"identify", "keys", "copy", "fill", "insert", "cleanup", "recover"}
               => sub[s].meta \in Metas,
           pc \in {"fill", "insert", "cleanup", "recover"} => sub[s].path \in Paths
    PROVE  sub' \in [Subs -> Submission] /\ Progress'
<1> DEFINE r == [sub[s] EXCEPT !.pc = pc]
<1>1. r \in Submission
  BY DEF TypeInv, TypeOK, Submission
<1>2. sub' = [sub EXCEPT ![s] = r]
  BY DEF Goto
<1>3. r.pc = pc /\ r.content = sub[s].content /\ r.meta = sub[s].meta /\ r.path = sub[s].path
  BY DEF TypeInv, TypeOK, Submission
<1> QED
  BY <1>1, <1>2, <1>3, OneSubmission DEF TypeInv, Progress

LEMMA ConcludeKeepsType ==
    ASSUME TypeInv, NEW s \in Subs, NEW verdict \in Verdicts, Conclude(s, verdict),
           sub[s].pc # "idle"
    PROVE  sub' \in [Subs -> Submission] /\ Progress'
<1> DEFINE r == [sub[s] EXCEPT !.pc = "dispose", !.verdict = verdict]
<1>1. r \in Submission
  BY ZenonT(30) DEF TypeInv, TypeOK, Submission, Working
<1>2. sub' = [sub EXCEPT ![s] = r]
  BY DEF Conclude
<1>3. r.pc = "dispose" /\ r.content = sub[s].content
  BY DEF TypeInv, TypeOK, Submission
<1> QED
  BY <1>1, <1>2, <1>3, OneSubmission DEF TypeInv, Progress

\* A clean-up removes the file the submission made, or is refused and says so
\* in `stayed`; the submission goes on either way.
LEMMA DiscardIs ==
    ASSUME TypeInv, NEW s \in Subs, NEW pc \in {"fail", "recover"}, Discard(s, pc)
    PROVE  /\ sub' \in [Subs -> Submission]
           /\ sub'[s].pc = pc /\ sub'[s].content = sub[s].content
           /\ sub'[s].meta = sub[s].meta /\ sub'[s].path = sub[s].path
           /\ sub'[s].source = sub[s].source /\ sub'[s].verdict = sub[s].verdict
           /\ \A t \in Subs \ {s} : sub'[t] = sub[t]
           /\ \/ sub[s].path \in Keys /\ Remove(sub[s].path)
              \/ UNCHANGED files /\ (sub[s].path \in Keys => sub'[s].stayed)
<1>1. CASE Goto(s, pc)
  <2> DEFINE r == [sub[s] EXCEPT !.pc = pc]
  <2>1. r \in Submission
    BY ZenonT(30) DEF TypeInv, TypeOK, Submission, Working
  <2>2. /\ r.pc = pc /\ r.content = sub[s].content /\ r.meta = sub[s].meta
        /\ r.path = sub[s].path /\ r.source = sub[s].source /\ r.verdict = sub[s].verdict
    BY DEF TypeInv, TypeOK, Submission
  <2>3. sub' = [sub EXCEPT ![s] = r]
    BY <1>1 DEF Goto
  <2> HIDE DEF r
  <2>4. sub' \in [Subs -> Submission] /\ sub'[s] = r /\ \A t \in Subs \ {s} : sub'[t] = sub[t]
    BY <2>1, <2>3 DEF TypeInv, TypeOK
  <2>5. \/ sub[s].path \in Keys /\ Remove(sub[s].path)
        \/ sub[s].path \notin Keys /\ UNCHANGED files
        \/ sub' = [sub EXCEPT ![s].pc = pc, ![s].stayed = TRUE] /\ UNCHANGED files
    BY DEF Discard
  <2>6. ASSUME sub' = [sub EXCEPT ![s].pc = pc, ![s].stayed = TRUE] PROVE sub'[s].stayed
    BY <2>6 DEF TypeInv, TypeOK, Submission
  <2> QED
    BY <2>2, <2>4, <2>5, <2>6
<1>2. CASE sub' = [sub EXCEPT ![s].pc = pc, ![s].stayed = TRUE] /\ UNCHANGED files
  <2> DEFINE r == [sub[s] EXCEPT !.pc = pc, !.stayed = TRUE]
  <2>1. r \in Submission
    BY ZenonT(30) DEF TypeInv, TypeOK, Submission, Working
  <2>2. /\ r.pc = pc /\ r.content = sub[s].content /\ r.meta = sub[s].meta /\ r.stayed
        /\ r.path = sub[s].path /\ r.source = sub[s].source /\ r.verdict = sub[s].verdict
    BY DEF TypeInv, TypeOK, Submission
  <2>3. sub' = [sub EXCEPT ![s] = r]
    BY <1>2
  <2> HIDE DEF r
  <2>4. sub' \in [Subs -> Submission] /\ sub'[s] = r /\ \A t \in Subs \ {s} : sub'[t] = sub[t]
    BY <2>1, <2>3 DEF TypeInv, TypeOK
  <2> QED
    BY <1>2, <2>2, <2>4
<1> QED
  BY <1>1, <1>2 DEF Discard

LEMMA DiscardKeepsType ==
    ASSUME TypeInv, NEW s \in Subs, NEW pc \in {"fail", "recover"}, Discard(s, pc),
           sub[s].pc \in {"fill", "cleanup"}, UNCHANGED rows
    PROVE  TypeInv'
<1>1. sub' \in [Subs -> Submission]
  BY DiscardIs
<1>2. /\ sub'[s].pc = pc /\ sub'[s].content = sub[s].content
      /\ sub'[s].meta = sub[s].meta /\ sub'[s].path = sub[s].path
      /\ \A t \in Subs \ {s} : sub'[t] = sub[t]
  BY DiscardIs
<1>3. Progress'
  BY <1>2 DEF TypeInv, Progress
<1>4. Remove(sub[s].path) \/ UNCHANGED files
  BY DiscardIs
<1>5. Absent \in FileStates /\ sub[s].path \in Paths
  BY DEF TypeInv, Progress, FileStates
<1>6. files' \in [Paths -> FileStates]
  BY <1>4, <1>5 DEF Remove, TypeInv, TypeOK
<1> QED
  BY <1>1, <1>3, <1>6 DEF TypeInv, TypeOK

\* One step per action: the two stores first, the locals by the lemmas above.
LEMMA TypeInvNext == TypeInv /\ [Next]_vars => TypeInv'
<1> SUFFICES ASSUME TypeInv, [Next]_vars PROVE TypeInv'
  OBVIOUS
<1>w. Subs \subseteq FileStates /\ Keys \subseteq Paths
  BY IngestAssumption DEF FileStates, Paths
<1>u. ASSUME UNCHANGED libraryVars, sub' \in [Subs -> Submission], Progress'
      PROVE  TypeInv'
  BY <1>u DEF TypeInv, TypeOK, libraryVars
<1>f. ASSUME NEW p \in Paths, NEW v \in FileStates, files' = [files EXCEPT ![p] = v],
             UNCHANGED rows, sub' \in [Subs -> Submission], Progress'
      PROVE  TypeInv'
  BY <1>f DEF TypeInv, TypeOK
<1>1. ASSUME NEW s \in Subs, Submit(s) PROVE TypeInv'
  <2>1. PICK c \in Contents : sub' = [sub EXCEPT ![s].pc = "hash", ![s].content = c]
    BY <1>1 DEF Submit
  <2> DEFINE r == [sub[s] EXCEPT !.pc = "hash", !.content = c]
  <2>2. r \in Submission
    BY ZenonT(30) DEF TypeInv, TypeOK, Submission, Working
  <2>3. r.pc = "hash" /\ r.content = c
    BY DEF TypeInv, TypeOK, Submission
  <2>4. sub' = [sub EXCEPT ![s] = r]
    BY <2>1
  <2> HIDE DEF r
  <2> QED
    BY <1>1, <1>u, <2>2, <2>3, <2>4, OneSubmission DEF Submit
<1>2. ASSUME NEW s \in Subs, DedupByHash(s) PROVE TypeInv'
  <2>1. CASE \E i \in WithHash(sub[s].content) : Conclude(s, VerdictOn(i, "duplicate"))
    BY <1>2, <1>u, <2>1, ConcludeKeepsType DEF DedupByHash, VerdictOn, Verdicts
  <2>2. CASE Goto(s, "resolve")
    BY <1>2, <1>u, <2>2, GotoKeepsType DEF DedupByHash, Working
  <2> QED
    BY <1>2, <2>1, <2>2 DEF DedupByHash
<1>3. ASSUME NEW s \in Subs, Resolve(s) PROVE TypeInv'
  <2>1. PICK m \in Metas : sub' = [sub EXCEPT ![s].pc = "identify", ![s].meta = m]
    BY <1>3 DEF Resolve
  <2> DEFINE r == [sub[s] EXCEPT !.pc = "identify", !.meta = m]
  <2>2. r \in Submission
    BY ZenonT(30) DEF TypeInv, TypeOK, Submission, Working
  <2>3. r.pc = "identify" /\ r.meta = m /\ r.content = sub[s].content
    BY DEF TypeInv, TypeOK, Submission
  <2>4. sub' = [sub EXCEPT ![s] = r]
    BY <2>1
  <2> HIDE DEF r
  <2> QED
    BY <1>3, <1>u, <2>2, <2>3, <2>4, OneSubmission DEF Resolve, TypeInv, Progress
<1>4. ASSUME NEW s \in Subs, DedupByIdentifier(s) PROVE TypeInv'
  <2>1. CASE \E i \in WithIdentifier(sub[s].meta) : Conclude(s, VerdictOn(i, "same_work"))
    BY <1>4, <1>u, <2>1, ConcludeKeepsType DEF DedupByIdentifier, VerdictOn, Verdicts
  <2>2. CASE Goto(s, "keys")
    BY <1>4, <1>u, <2>2, GotoKeepsType DEF DedupByIdentifier, Working, TypeInv, Progress
  <2> QED
    BY <1>4, <2>1, <2>2 DEF DedupByIdentifier
<1>5. ASSUME NEW s \in Subs, ReadKeys(s) PROVE TypeInv'
  <2> DEFINE r == [sub[s] EXCEPT !.pc = "copy", !.taken = CiteKeysTaken({})]
  <2>1. r \in Submission
    BY ZenonT(30) DEF TypeInv, TypeOK, Submission, Working, CiteKeysTaken
  <2>2. r.pc = "copy" /\ r.meta = sub[s].meta /\ r.content = sub[s].content
    BY DEF TypeInv, TypeOK, Submission
  <2>3. sub' = [sub EXCEPT ![s] = r]
    BY <1>5 DEF ReadKeys
  <2> QED
    BY <1>5, <1>u, <2>1, <2>2, <2>3, OneSubmission DEF ReadKeys, TypeInv, Progress
<1>o. ASSUME NEW s \in Subs, NEW p \in Paths, Opened(s, p), sub[s].pc = "copy"
      PROVE  sub' \in [Subs -> Submission] /\ Progress'
  <2> DEFINE r == [sub[s] EXCEPT !.pc = "fill", !.path = p, !.taken = {}]
  <2>1. r \in Submission
    BY ZenonT(30) DEF TypeInv, TypeOK, Submission, Working
  <2>2. r.pc = "fill" /\ r.meta = sub[s].meta /\ r.content = sub[s].content /\ r.path = p
    BY DEF TypeInv, TypeOK, Submission
  <2>3. sub' = [sub EXCEPT ![s] = r]
    BY <1>o DEF Opened
  <2> QED
    BY <1>o, <2>1, <2>2, <2>3, OneSubmission DEF TypeInv, Progress
<1>6. ASSUME NEW s \in Subs, CreateExclusive(s) PROVE TypeInv'
  <2>1. PICK k \in Keys : \/ CreateNew(s, k) /\ Opened(s, k)
                          \/ /\ sub' = [sub EXCEPT ![s].taken = @ \cup {k}]
                             /\ UNCHANGED files
    BY <1>6 DEF CreateExclusive
  <2>2. CASE CreateNew(s, k) /\ Opened(s, k)
    BY <1>6, <1>f, <1>o, <1>w, <2>2 DEF CreateExclusive, CreateNew
  <2>3. CASE sub' = [sub EXCEPT ![s].taken = @ \cup {k}] /\ UNCHANGED files
    <3> DEFINE r == [sub[s] EXCEPT !.taken = @ \cup {k}]
    <3>1. r \in Submission
      BY DEF TypeInv, TypeOK, Submission
    <3>2. r.pc = "copy" /\ r.meta = sub[s].meta /\ r.content = sub[s].content
      BY <1>6 DEF TypeInv, TypeOK, Submission, CreateExclusive
    <3> QED
      BY <1>6, <1>u, <2>3, <3>1, <3>2, OneSubmission
      DEF CreateExclusive, TypeInv, Progress, libraryVars
  <2> QED
    BY <2>1, <2>2, <2>3
<1>7. ASSUME NEW s \in Subs, OverwriteUnsorted(s) PROVE TypeInv'
  <2>1. sub[s].content \in Paths
    BY <1>7 DEF OverwriteUnsorted, TypeInv, Progress, Paths
  <2> QED
    BY <1>7, <1>f, <1>o, <1>w, <2>1 DEF OverwriteUnsorted, Truncate
<1>8. ASSUME NEW s \in Subs, FinishCopy(s) PROVE TypeInv'
  <2>1. sub' \in [Subs -> Submission] /\ Progress'
    BY <1>8, GotoKeepsType DEF FinishCopy, Working, TypeInv, Progress
  <2>2. sub[s].path \in Paths /\ sub[s].content \in FileStates
    BY <1>8 DEF FinishCopy, TypeInv, Progress, FileStates
  <2> QED
    BY <1>8, <1>f, <1>u, <2>1, <2>2 DEF FinishCopy, Fill, libraryVars
<1>9. ASSUME NEW s \in Subs, CopyFails(s) PROVE TypeInv'
  BY <1>9, DiscardKeepsType DEF CopyFails
<1>10. ASSUME NEW s \in Subs, Insert(s) PROVE TypeInv'
  <2>1. CASE /\ rows' = [rows EXCEPT ![s] =
                  [content |-> sub[s].content, path |-> sub[s].path,
                   meta |-> sub[s].meta, trashed |-> FALSE]]
             /\ Conclude(s, "ingested")
    <3>1. sub' \in [Subs -> Submission] /\ Progress'
      BY <1>10, <2>1, ConcludeKeepsType DEF Insert, Verdicts
    <3>2. rows' \in [Papers -> Row \cup {NoRow}]
      BY <1>10, <2>1 DEF Insert, TypeInv, TypeOK, Progress, Row
    <3> QED
      BY <1>10, <3>1, <3>2 DEF Insert, TypeInv, TypeOK
  <2>2. CASE /\ sub' = [sub EXCEPT ![s].pc = "cleanup", ![s].collided = TRUE]
             /\ UNCHANGED rows
    <3> DEFINE r == [sub[s] EXCEPT !.pc = "cleanup", !.collided = TRUE]
    <3>1. r \in Submission
      BY ZenonT(30) DEF TypeInv, TypeOK, Submission, Working
    <3>2. /\ r.pc = "cleanup" /\ r.meta = sub[s].meta /\ r.content = sub[s].content
          /\ r.path = sub[s].path
      BY DEF TypeInv, TypeOK, Submission
    <3>3. sub' = [sub EXCEPT ![s] = r]
      BY <2>2
    <3> HIDE DEF r
    <3> QED
      BY <1>10, <1>u, <2>2, <3>1, <3>2, <3>3, OneSubmission
      DEF Insert, TypeInv, Progress, libraryVars
  <2> QED
    BY <1>10, <2>1, <2>2 DEF Insert
<1>11. ASSUME NEW s \in Subs, InsertFails(s) PROVE TypeInv'
  BY <1>11, <1>u, GotoKeepsType DEF InsertFails, Working, TypeInv, Progress
<1>12. ASSUME NEW s \in Subs, Cleanup(s) PROVE TypeInv'
  BY <1>12, DiscardKeepsType DEF Cleanup
<1>13. ASSUME NEW s \in Subs, RecoverCollision(s) PROVE TypeInv'
  <2>1. CASE \E i \in Papers : \/ Conclude(s, VerdictOn(i, "duplicate"))
                               \/ Conclude(s, VerdictOn(i, "same_work"))
    BY <1>13, <1>u, <2>1, ConcludeKeepsType DEF RecoverCollision, VerdictOn, Verdicts
  <2>2. CASE Goto(s, "fail")
    BY <1>13, <1>u, <2>2, GotoKeepsType DEF RecoverCollision, Working
  <2> QED
    BY <1>13, <2>1, <2>2 DEF RecoverCollision, WithHash, WithIdentifier, Stored
<1>14. ASSUME NEW s \in Subs, Dispose(s) PROVE TypeInv'
  <2> DEFINE source == IF Disposal[s] = "archive" THEN "processed" ELSE "deleted"
             r == [sub[s] EXCEPT !.pc = "done", !.source = source]
  <2>1. r \in Submission
    BY DEF TypeInv, TypeOK, Submission, Ended
  <2>2. r.pc = "done" /\ r.content = sub[s].content
    BY DEF TypeInv, TypeOK, Submission
  <2>3. sub' = [sub EXCEPT ![s] = r]
    BY <1>14 DEF Dispose
  <2> HIDE DEF r
  <2> QED
    BY <1>14, <1>u, <2>1, <2>2, <2>3, OneSubmission DEF Dispose, TypeInv, Progress
<1>15. ASSUME NEW s \in Subs, StepFails(s) PROVE TypeInv'
  BY <1>15, <1>u, GotoKeepsType DEF StepFails, Working
<1>16. ASSUME NEW s \in Subs, Fail(s) PROVE TypeInv'
  <2> DEFINE verdict == IF sub[s].verdict = "none" THEN "error" ELSE sub[s].verdict
             source == IF Disposal[s] = "discard" THEN "deleted" ELSE sub[s].source
             r == [sub[s] EXCEPT !.pc = "failed", !.verdict = verdict, !.source = source]
  <2>1. r \in Submission
    BY ZenonT(30) DEF TypeInv, TypeOK, Submission, Ended, Verdicts
  <2>2. r.pc = "failed" /\ r.content = sub[s].content
    BY DEF TypeInv, TypeOK, Submission
  <2>3. sub' = [sub EXCEPT ![s] = r]
    BY <1>16 DEF Fail
  <2> HIDE DEF r
  <2> QED
    BY <1>16, <1>u, <2>1, <2>2, <2>3, OneSubmission DEF Fail, TypeInv, Progress
<1>17. ASSUME NEW s \in Subs, Crash(s) PROVE TypeInv'
  BY <1>17, <1>u, GotoKeepsType DEF Crash, Working, Ended
<1>18. ASSUME NEW i \in Papers, Trash(i) \/ Untrash(i) PROVE TypeInv'
  <2>1. PICK t \in BOOLEAN : i \in Stored /\ rows' = [rows EXCEPT ![i].trashed = t]
    BY <1>18 DEF Trash, Untrash, SoftDelete, Restore
  <2>2. rows[i] \in Row
    BY <2>1 DEF TypeInv, TypeOK, Stored
  <2>3. [rows[i] EXCEPT !.trashed = t] \in Row
    BY <2>2 DEF Row
  <2>4. rows' \in [Papers -> Row \cup {NoRow}]
    BY <2>1, <2>3 DEF TypeInv, TypeOK
  <2> QED
    BY <1>18, <2>4 DEF Trash, Untrash, TypeInv, TypeOK, Progress
<1>19. CASE UNCHANGED vars
  BY <1>19 DEF vars, TypeInv, TypeOK, Progress
<1> QED
  BY <1>1, <1>2, <1>3, <1>4, <1>5, <1>6, <1>7, <1>8, <1>9, <1>10, <1>11, <1>12, <1>13,
     <1>14, <1>15, <1>16, <1>17, <1>18, <1>19 DEF Next, Step, Advance

\* Every local variable of every submission, and both stores, keep their type.
THEOREM TypeOKHolds == Spec => []TypeOK
<1>1. TypeInv => TypeOK
  BY DEF TypeInv
<1> QED
  BY <1>1, TypeInvInit, TypeInvNext, PTL DEF Spec

----------------------------------------------------------------------------
(* No filed PDF is damaged.  FiledIntact is not inductive: it takes, beside *)
(* it, that a submission between its exclusive create and its INSERT (or    *)
(* the clean-up after it) owns its cite key's file alone.                   *)

Holding == {"fill", "insert", "cleanup"}

\* The exclusive create makes the file of a cite key the creator's own: no row
\* names it, no other submission holds it, and it holds the creator's copy.  A
\* path under _unsorted is shared, but only by the same bytes.
Owns(s) ==
    /\ sub[s].path \in Keys \/ sub[s].path = sub[s].content
    /\ sub[s].path \in Keys =>
         /\ files[sub[s].path] = IF sub[s].pc = "fill" THEN s ELSE sub[s].content
         /\ \A i \in Stored : rows[i].path # sub[s].path
         /\ \A t \in Subs \ {s} : sub[t].pc \in Holding => sub[t].path # sub[s].path
    /\ sub[s].path \notin Keys => files[sub[s].path] \in {sub[s].content} \cup Writers

Ownership == \A s \in Subs : sub[s].pc \in Holding => Owns(s)

FiledInv == TypeInv /\ FiledIntact /\ Ownership

LEMMA FiledInvInit == Init => FiledInv
<1> SUFFICES ASSUME Init PROVE FiledInv
  OBVIOUS
<1>1. TypeInv
  BY TypeInvInit
<1>2. FiledIntact
  BY LibraryAssumption DEF Init, LibraryInit, FiledIntact
<1>3. \A s \in Subs : sub[s].pc \notin Holding
  BY DEF Init, Unsubmitted, Holding
<1> QED
  BY <1>1, <1>2, <1>3 DEF FiledInv, Ownership

\* A step that touches neither store, and whose submission does not start to
\* hold a path.
LEMMA QuietStep ==
    ASSUME FiledInv, TypeInv', NEW s \in Subs, UNCHANGED libraryVars,
           \A t \in Subs \ {s} : sub'[t] = sub[t],
           \/ sub'[s].pc \notin Holding
           \/ /\ sub[s].pc \in {"insert", "cleanup"}
              /\ sub'[s].pc \in {"insert", "cleanup"}
              /\ sub'[s].path = sub[s].path /\ sub'[s].content = sub[s].content
    PROVE  FiledInv'
<1>1. FiledIntact' /\ Stored' = Stored
  BY DEF FiledInv, FiledIntact, Intact, Ownership, Stored, libraryVars
<1>2. ASSUME NEW t \in Subs, sub'[t].pc \in Holding PROVE Owns(t)'
  <2>1. sub[t].pc \in Holding /\ Owns(t)
    BY <1>2 DEF FiledInv, Ownership, Holding
  <2>2. sub'[t].path = sub[t].path /\ sub'[t].content = sub[t].content
    BY <1>2
  <2>3. sub'[t].pc = "fill" <=> sub[t].pc = "fill"
    BY <1>2
  <2>4. ASSUME NEW u \in Subs \ {t}, sub'[u].pc \in Holding
        PROVE  sub[u].pc \in Holding /\ sub'[u].path = sub[u].path
    BY <2>4 DEF Holding
  <2> QED
    BY <1>1, <2>1, <2>2, <2>3, <2>4 DEF Owns, libraryVars
<1> QED
  BY <1>1, <1>2 DEF FiledInv, Ownership

\* Exclusive create: the path was free, so no row and no submission had it.
LEMMA CreateStep ==
    ASSUME FiledInv, TypeInv', NEW s \in Subs, NEW k \in Keys,
           CreateNew(s, k), Opened(s, k), UNCHANGED rows, sub[s].pc = "copy"
    PROVE  FiledInv'
<1>1. /\ sub'[s].pc = "fill" /\ sub'[s].path = k
      /\ \A t \in Subs \ {s} : sub'[t] = sub[t]
  BY DEF Opened, FiledInv, TypeInv, TypeOK, Submission
<1>2. /\ files[k] = Absent /\ files'[k] = s
      /\ \A p \in Paths \ {k} : files'[p] = files[p]
  BY DEF CreateNew, FiledInv, TypeInv, TypeOK, Paths
<1>3. \A i \in Stored : rows[i].path # k /\ rows[i].path \in Paths /\ rows[i] \in Row
  BY <1>2, LibraryAssumption
  DEF FiledInv, FiledIntact, Intact, Stored, TypeInv, TypeOK, Row
<1>4. \A t \in Subs \ {s} : sub[t].pc \in Holding => sub[t].path # k /\ sub[t].path \in Paths
  BY <1>2, LibraryAssumption, IngestAssumption
  DEF FiledInv, Ownership, Owns, Holding, TypeInv, Progress
<1>5. FiledIntact' /\ Stored' = Stored
  BY <1>2, <1>3 DEF FiledInv, FiledIntact, Intact, Ownership, Stored
<1>6. Owns(s)'
  BY <1>1, <1>2, <1>3, <1>4, <1>5 DEF Owns
<1>7. ASSUME NEW t \in Subs \ {s}, sub'[t].pc \in Holding PROVE Owns(t)'
  <2>1. Owns(t) /\ sub'[t] = sub[t] /\ sub[t].path # k /\ files'[sub[t].path] = files[sub[t].path]
    BY <1>1, <1>2, <1>4, <1>7 DEF FiledInv, Ownership
  <2>2. \A u \in Subs \ {t} : sub'[u].pc \in Holding /\ sub[t].path \in Keys
                                  => sub'[u].path # sub[t].path
    BY <1>1, <2>1 DEF Owns
  <2> QED
    BY <1>5, <2>1, <2>2 DEF Owns
<1> QED
  BY <1>5, <1>6, <1>7 DEF FiledInv, Ownership

\* The path under _unsorted is overwritten by a writer of the same bytes.
LEMMA OverwriteStep ==
    ASSUME FiledInv, TypeInv', NEW s \in Subs, OverwriteUnsorted(s)
    PROVE  FiledInv'
<1> DEFINE c == sub[s].content
<1>1. /\ sub'[s].pc = "fill" /\ sub'[s].path = c /\ sub'[s].content = c
      /\ \A t \in Subs \ {s} : sub'[t] = sub[t]
  BY DEF OverwriteUnsorted, Opened, FiledInv, TypeInv, TypeOK, Submission
<1>2. c \in Contents /\ c \in Paths /\ c \notin Keys /\ s \in Writers
  BY LibraryAssumption, IngestAssumption
  DEF OverwriteUnsorted, FiledInv, TypeInv, Progress, Paths
<1>3. files'[c] = s /\ \A p \in Paths \ {c} : files'[p] = files[p]
  BY <1>2 DEF OverwriteUnsorted, Truncate, FiledInv, TypeInv, TypeOK
<1>4. \A i \in Stored : rows[i].path \in Paths
  BY DEF FiledInv, TypeInv, TypeOK, Stored, Row
<1>5. FiledIntact' /\ Stored' = Stored
  BY <1>2, <1>3, <1>4
  DEF OverwriteUnsorted, FiledInv, FiledIntact, Intact, Ownership, Stored
<1>6. Owns(s)'
  BY <1>1, <1>2, <1>3 DEF Owns
<1>7. ASSUME NEW t \in Subs \ {s}, sub'[t].pc \in Holding PROVE Owns(t)'
  <2>1. Owns(t) /\ sub'[t] = sub[t] /\ sub[t].path \in Paths
    BY <1>1, <1>7 DEF FiledInv, Ownership, TypeInv, Progress, Holding
  <2>2. CASE sub[t].path \in Keys
    <3>1. \A u \in Subs \ {t} : sub'[u].pc \in Holding => sub'[u].path # sub[t].path
      BY <1>1, <1>2, <2>1, <2>2 DEF Owns
    <3> QED
      BY <1>2, <1>3, <1>5, <2>1, <2>2, <3>1 DEF Owns, OverwriteUnsorted
  <2>3. CASE sub[t].path \notin Keys
    BY <1>2, <1>3, <2>1, <2>3 DEF Owns
  <2> QED
    BY <2>2, <2>3
<1> QED
  BY <1>5, <1>6, <1>7 DEF FiledInv, Ownership

\* The copy is complete: nobody else's file is written.
LEMMA FinishStep ==
    ASSUME FiledInv, TypeInv', NEW s \in Subs, FinishCopy(s)
    PROVE  FiledInv'
<1> DEFINE c == sub[s].content
           p == sub[s].path
<1>1. /\ sub'[s].pc = "insert" /\ sub'[s].path = p /\ sub'[s].content = c
      /\ \A t \in Subs \ {s} : sub'[t] = sub[t]
  BY DEF FinishCopy, Goto, FiledInv, TypeInv, TypeOK, Submission
<1>2. c \in Contents /\ p \in Paths /\ Owns(s)
  BY DEF FinishCopy, FiledInv, Ownership, Holding, TypeInv, Progress
<1>3. /\ \A q \in Paths \ {p} : files'[q] = files[q]
      /\ files'[p] = IF files[p] = s THEN c ELSE files[p]
  BY <1>2 DEF FinishCopy, Fill, FiledInv, TypeInv, TypeOK
<1>4. \A i \in Stored : rows[i].path \in Paths
  BY DEF FiledInv, TypeInv, TypeOK, Stored, Row
<1>5. UNCHANGED rows /\ Stored' = Stored
  BY DEF FinishCopy, Stored
<1>6. FiledIntact'
  BY <1>2, <1>3, <1>4, <1>5
  DEF Owns, FiledInv, FiledIntact, Intact, Ownership, Stored
<1>7. ASSUME NEW t \in Subs, sub'[t].pc \in Holding PROVE Owns(t)'
  <2>1. /\ sub[t].pc \in Holding /\ Owns(t) /\ sub[t].path \in Paths
        /\ sub'[t].path = sub[t].path /\ sub'[t].content = sub[t].content
    BY <1>1, <1>7 DEF FinishCopy, FiledInv, Ownership, TypeInv, Progress, Holding
  <2>2. \A u \in Subs \ {t} : sub'[u].pc \in Holding
                        => sub[u].pc \in Holding /\ sub'[u].path = sub[u].path
    BY <1>1 DEF FinishCopy, Holding
  <2>3. CASE t = s
    BY <1>1, <1>2, <1>3, <1>5, <2>1, <2>2, <2>3 DEF Owns, FinishCopy
  <2>4. CASE t # s
    BY <1>1, <1>2, <1>3, <1>5, <2>1, <2>2, <2>4 DEF Owns, FinishCopy, Holding
  <2> QED
    BY <2>3, <2>4
<1> QED
  BY <1>6, <1>7 DEF FiledInv, Ownership

\* The file removed after a failure is the submission's own.
LEMMA RemoveStep ==
    ASSUME FiledInv, TypeInv', NEW s \in Subs, sub[s].pc \in {"fill", "cleanup"},
           UNCHANGED rows, NEW pc \in {"fail", "recover"}, Discard(s, pc)
    PROVE  FiledInv'
<1>1. /\ sub'[s].pc \notin Holding
      /\ \A t \in Subs \ {s} : sub'[t] = sub[t]
  BY DiscardIs DEF FiledInv, Holding
<1>2. CASE UNCHANGED files
  BY <1>1, <1>2, QuietStep DEF libraryVars
<1>3. CASE sub[s].path \in Keys /\ Remove(sub[s].path)
  <2> DEFINE k == sub[s].path
  <2>1. Owns(s) /\ k \in Paths
    BY <1>3 DEF FiledInv, Ownership, Holding, Paths
  <2>2. \A p \in Paths \ {k} : files'[p] = files[p]
    BY <1>3, <2>1 DEF Remove, FiledInv, TypeInv, TypeOK
  <2>3. \A i \in Stored : rows[i].path \in Paths /\ rows[i].path # k
    BY <1>3, <2>1 DEF Owns, FiledInv, TypeInv, TypeOK, Stored, Row
  <2>4. FiledIntact' /\ Stored' = Stored
    BY <2>2, <2>3 DEF FiledInv, FiledIntact, Intact, Ownership, Stored
  <2>5. ASSUME NEW t \in Subs, sub'[t].pc \in Holding PROVE Owns(t)'
    <3>1. t # s /\ sub'[t] = sub[t] /\ Owns(t) /\ sub[t].path \in Paths
      BY <1>1, <2>5 DEF FiledInv, Ownership, TypeInv, Progress, Holding
    <3>2. sub[t].path # k
      BY <1>3, <2>1, <2>5, <3>1 DEF Owns
    <3>3. \A u \in Subs \ {t} : sub'[u].pc \in Holding => sub'[u] = sub[u]
      BY <1>1
    <3> QED
      BY <2>2, <2>4, <3>1, <3>2, <3>3 DEF Owns
  <2> QED
    BY <2>4, <2>5 DEF FiledInv, Ownership
<1> QED
  BY <1>2, <1>3, DiscardIs DEF FiledInv

\* The row admitted names the file its submission owns, and the submission
\* lets go of it.
LEMMA InsertStep ==
    ASSUME FiledInv, TypeInv', NEW s \in Subs, sub[s].pc = "insert", UNCHANGED files,
           rows' = [rows EXCEPT ![s] =
               [content |-> sub[s].content, path |-> sub[s].path,
                meta |-> sub[s].meta, trashed |-> FALSE]],
           Conclude(s, "ingested")
    PROVE  FiledInv'
<1>1. sub'[s].pc = "dispose" /\ \A t \in Subs \ {s} : sub'[t] = sub[t]
  BY DEF Conclude, FiledInv, TypeInv, TypeOK, Submission
<1>2. /\ rows'[s].content = sub[s].content /\ rows'[s].path = sub[s].path
      /\ \A i \in Papers \ {s} : rows'[i] = rows[i]
  BY IngestAssumption DEF FiledInv, TypeInv, TypeOK
<1>3. Owns(s)
  BY DEF FiledInv, Ownership, Holding
<1>4. FiledIntact'
  BY <1>2, <1>3 DEF FiledInv, FiledIntact, Intact, Owns
<1>5. ASSUME NEW t \in Subs, sub'[t].pc \in Holding PROVE Owns(t)'
  <2>1. t # s /\ sub'[t] = sub[t] /\ Owns(t)
    BY <1>1, <1>5 DEF FiledInv, Ownership, Holding
  <2>2. sub[t].path \in Keys => \A i \in Stored' : rows'[i].path # sub[t].path
    BY <1>2, <2>1 DEF Owns, Stored, Holding
  <2>3. \A u \in Subs \ {t} : sub'[u].pc \in Holding => sub'[u] = sub[u]
    BY <1>1 DEF Holding
  <2> QED
    BY <2>1, <2>2, <2>3 DEF Owns
<1> QED
  BY <1>4, <1>5 DEF FiledInv, Ownership

LEMMA FiledInvNext == FiledInv /\ [Next]_vars => FiledInv'
<1> SUFFICES ASSUME FiledInv, [Next]_vars PROVE FiledInv'
  OBVIOUS
<1>t. TypeInv'
  BY TypeInvNext DEF FiledInv
<1>h. /\ "resolve" \notin Holding /\ "keys" \notin Holding /\ "dispose" \notin Holding
      /\ "fail" \notin Holding /\ "crashed" \notin Holding
  BY DEF Holding
<1>g. ASSUME NEW s \in Subs, UNCHANGED libraryVars, NEW pc, pc \notin Holding, Goto(s, pc)
      PROVE  FiledInv'
  <2>1. sub'[s].pc = pc /\ \A t \in Subs \ {s} : sub'[t] = sub[t]
    BY <1>g DEF Goto, FiledInv, TypeInv, TypeOK, Submission
  <2> QED
    BY <1>g, <1>t, <2>1, QuietStep
<1>c. ASSUME NEW s \in Subs, UNCHANGED libraryVars, NEW v, Conclude(s, v)
      PROVE  FiledInv'
  <2>1. sub'[s].pc = "dispose" /\ \A t \in Subs \ {s} : sub'[t] = sub[t]
    BY <1>c DEF Conclude, FiledInv, TypeInv, TypeOK, Submission
  <2> QED
    BY <1>c, <1>h, <1>t, <2>1, QuietStep
<1>1. ASSUME NEW s \in Subs, Submit(s) PROVE FiledInv'
  <2>1. sub'[s].pc = "hash" /\ \A t \in Subs \ {s} : sub'[t] = sub[t]
    BY <1>1 DEF Submit, FiledInv, TypeInv, TypeOK, Submission
  <2> QED
    BY <1>1, <1>t, <2>1, QuietStep DEF Submit, Holding
<1>2. ASSUME NEW s \in Subs, DedupByHash(s) PROVE FiledInv'
  BY <1>2, <1>h, <1>g, <1>c DEF DedupByHash
<1>3. ASSUME NEW s \in Subs, Resolve(s) PROVE FiledInv'
  <2>1. sub'[s].pc = "identify" /\ \A t \in Subs \ {s} : sub'[t] = sub[t]
    BY <1>3 DEF Resolve, FiledInv, TypeInv, TypeOK, Submission
  <2> QED
    BY <1>3, <1>t, <2>1, QuietStep DEF Resolve, Holding
<1>4. ASSUME NEW s \in Subs, DedupByIdentifier(s) PROVE FiledInv'
  BY <1>4, <1>h, <1>g, <1>c DEF DedupByIdentifier
<1>5. ASSUME NEW s \in Subs, ReadKeys(s) PROVE FiledInv'
  <2>1. sub'[s].pc = "copy" /\ \A t \in Subs \ {s} : sub'[t] = sub[t]
    BY <1>5 DEF ReadKeys, FiledInv, TypeInv, TypeOK, Submission
  <2> QED
    BY <1>5, <1>t, <2>1, QuietStep DEF ReadKeys, Holding
<1>6. ASSUME NEW s \in Subs, CreateExclusive(s) PROVE FiledInv'
  <2>1. PICK k \in Keys : \/ CreateNew(s, k) /\ Opened(s, k)
                          \/ /\ sub' = [sub EXCEPT ![s].taken = @ \cup {k}]
                             /\ UNCHANGED files
    BY <1>6 DEF CreateExclusive
  <2>2. CASE CreateNew(s, k) /\ Opened(s, k)
    BY <1>6, <1>t, <2>2, CreateStep DEF CreateExclusive
  <2>3. CASE sub' = [sub EXCEPT ![s].taken = @ \cup {k}] /\ UNCHANGED files
    <3>1. sub'[s].pc = "copy" /\ \A t \in Subs \ {s} : sub'[t] = sub[t]
      BY <1>6, <2>3 DEF CreateExclusive, FiledInv, TypeInv, TypeOK, Submission
    <3> QED
      BY <1>6, <1>t, <2>3, <3>1, QuietStep DEF CreateExclusive, Holding, libraryVars
  <2> QED
    BY <2>1, <2>2, <2>3
<1>7. ASSUME NEW s \in Subs, OverwriteUnsorted(s) PROVE FiledInv'
  BY <1>7, <1>t, OverwriteStep
<1>8. ASSUME NEW s \in Subs, FinishCopy(s) PROVE FiledInv'
  BY <1>8, <1>t, FinishStep
<1>9. ASSUME NEW s \in Subs, CopyFails(s) PROVE FiledInv'
  BY <1>9, <1>t, RemoveStep DEF CopyFails
<1>10. ASSUME NEW s \in Subs, Insert(s) PROVE FiledInv'
  <2>1. CASE UNCHANGED rows
    <3>1. /\ sub'[s].pc \in {"cleanup", "dispose"}
          /\ sub'[s].path = sub[s].path /\ sub'[s].content = sub[s].content
          /\ \A t \in Subs \ {s} : sub'[t] = sub[t]
      BY <1>10 DEF Insert, Conclude, FiledInv, TypeInv, TypeOK, Submission
    <3> QED
      BY <1>10, <1>t, <2>1, <3>1, QuietStep DEF Insert, libraryVars, Holding
  <2>2. CASE /\ Conclude(s, "ingested")
             /\ rows' = [rows EXCEPT ![s] =
                    [content |-> sub[s].content, path |-> sub[s].path,
                     meta |-> sub[s].meta, trashed |-> FALSE]]
    BY <1>10, <1>t, <2>2, InsertStep DEF Insert
  <2> QED
    BY <1>10, <2>1, <2>2 DEF Insert
<1>11. ASSUME NEW s \in Subs, InsertFails(s) PROVE FiledInv'
  <2>1. /\ sub'[s].pc = "cleanup" /\ \A t \in Subs \ {s} : sub'[t] = sub[t]
        /\ sub'[s].path = sub[s].path /\ sub'[s].content = sub[s].content
    BY <1>11 DEF InsertFails, Goto, FiledInv, TypeInv, TypeOK, Submission
  <2> QED
    BY <1>11, <1>t, <2>1, QuietStep DEF InsertFails
<1>12. ASSUME NEW s \in Subs, Cleanup(s) PROVE FiledInv'
  BY <1>12, <1>t, RemoveStep DEF Cleanup
<1>13. ASSUME NEW s \in Subs, RecoverCollision(s) PROVE FiledInv'
  BY <1>13, <1>h, <1>g, <1>c DEF RecoverCollision
<1>14. ASSUME NEW s \in Subs, Dispose(s) PROVE FiledInv'
  <2>1. sub'[s].pc = "done" /\ \A t \in Subs \ {s} : sub'[t] = sub[t]
    BY <1>14 DEF Dispose, FiledInv, TypeInv, TypeOK, Submission
  <2> QED
    BY <1>14, <1>t, <2>1, QuietStep DEF Dispose, Holding
<1>15. ASSUME NEW s \in Subs, StepFails(s) PROVE FiledInv'
  BY <1>15, <1>h, <1>g DEF StepFails
<1>16. ASSUME NEW s \in Subs, Fail(s) PROVE FiledInv'
  <2>1. sub'[s].pc = "failed" /\ \A t \in Subs \ {s} : sub'[t] = sub[t]
    BY <1>16 DEF Fail, FiledInv, TypeInv, TypeOK, Submission
  <2> QED
    BY <1>16, <1>t, <2>1, QuietStep DEF Fail, Holding
<1>17. ASSUME NEW s \in Subs, Crash(s) PROVE FiledInv'
  BY <1>17, <1>h, <1>g DEF Crash
<1>18. ASSUME NEW i \in Papers, Trash(i) \/ Untrash(i) PROVE FiledInv'
  <2>1. /\ Stored' = Stored
        /\ \A j \in Stored : rows'[j].path = rows[j].path /\ rows'[j].content = rows[j].content
    <3>1. PICK t \in BOOLEAN : i \in Stored /\ rows' = [rows EXCEPT ![i].trashed = t]
      BY <1>18 DEF Trash, Untrash, SoftDelete, Restore
    <3>2. rows[i] \in Row /\ rows[i] # NoRow
      BY <3>1 DEF FiledInv, TypeInv, TypeOK, Stored
    <3> DEFINE r == [rows[i] EXCEPT !.trashed = t]
    <3>3. r \in Row /\ r.path = rows[i].path /\ r.content = rows[i].content
      BY <3>2 DEF Row
    <3>4. rows' = [rows EXCEPT ![i] = r]
      BY <3>1
    <3> HIDE DEF r
    <3> QED
      BY <3>1, <3>2, <3>3, <3>4, LibraryAssumption DEF FiledInv, TypeInv, TypeOK, Stored
  <2>2. UNCHANGED <<files, sub>>
    BY <1>18 DEF Trash, Untrash
  <2>3. FiledIntact'
    BY <2>1, <2>2 DEF FiledInv, FiledIntact, Intact, Stored
  <2> QED
    BY <1>t, <2>1, <2>2, <2>3 DEF FiledInv, Ownership, Owns
<1>19. CASE UNCHANGED vars
  BY <1>t, <1>19 DEF vars, FiledInv, FiledIntact, Intact, Ownership, Owns, Stored
<1> QED
  BY <1>1, <1>2, <1>3, <1>4, <1>5, <1>6, <1>7, <1>8, <1>9, <1>10, <1>11, <1>12, <1>13,
     <1>14, <1>15, <1>16, <1>17, <1>18, <1>19 DEF Next, Step, Advance

\* Whatever the interleaving of ingests, failures and crashes, the path of every
\* row with a cite key holds the row's own bytes.
THEOREM FiledIntactHolds == Spec => []FiledIntact
<1>1. FiledInv => FiledIntact
  BY DEF FiledInv
<1> QED
  BY <1>1, FiledInvInit, FiledInvNext, PTL DEF Spec

----------------------------------------------------------------------------
(* What an ingest answers stays true, what it leaves behind, and that it   *)
(* implements the catalog.                                                 *)

\* The awaits before an answer is reached.
Asking == {"idle", "hash", "resolve", "identify", "keys", "copy", "fill", "insert",
           "cleanup", "recover"}

\* What the place a submission has come to says of its answer and its source.
Placed(s) ==
    /\ sub[s].pc \in Asking => sub[s].verdict = "none"
    /\ sub[s].pc \in {"dispose", "done"} => sub[s].verdict \notin {"none", "error"}
    /\ sub[s].source = "processed" => sub[s].pc = "done"

\* Only an admitted submission has a row.
Admitted(s) == s \in Stored => sub[s].verdict = "ingested"

\* The answer given, if any, is justified by the table as it is now.
Justified(s) ==
    /\ sub[s].verdict = "ingested" =>
           s \in Stored /\ rows[s].content = sub[s].content
    /\ sub[s].verdict = "duplicate" => WithHash(sub[s].content) # {}
    /\ sub[s].verdict = "same_work" => WithIdentifier(sub[s].meta) # {}
    /\ sub[s].verdict = "in_trash" =>
           \/ WithHash(sub[s].content) # {}
           \/ sub[s].meta # NoMeta /\ WithIdentifier(sub[s].meta) # {}

AnswerInv == \A s \in Subs : Placed(s) /\ Admitted(s) /\ Justified(s)

\* No row goes, and none changes its bytes or its metadata.
Grows ==
    \A i \in Stored : /\ i \in Stored'
                      /\ rows'[i].content = rows[i].content
                      /\ rows'[i].meta = rows[i].meta

LEMMA AnswerInvInit == Init => AnswerInv
BY IngestAssumption
   DEF Init, LibraryInit, AnswerInv, Placed, Admitted, Justified, Unsubmitted, Stored, Asking

\* A justified answer stays justified as the table grows.
LEMMA AnswerStands ==
    ASSUME NEW s \in Subs, Grows, Justified(s), sub'[s].verdict = sub[s].verdict,
           sub'[s].content = sub[s].content, sub'[s].meta = sub[s].meta
    PROVE  Justified(s)'
<1>1. WithHash(sub[s].content) \subseteq WithHash(sub[s].content)'
  BY DEF Grows, WithHash
<1>2. WithIdentifier(sub[s].meta) \subseteq WithIdentifier(sub[s].meta)'
  BY DEF Grows, WithIdentifier
<1> QED
  BY <1>1, <1>2 DEF Justified, Grows

\* A step of one submission leaves the others' answers standing.
LEMMA OneMoves ==
    ASSUME AnswerInv, Grows, NEW s \in Subs, \A t \in Subs \ {s} : sub'[t] = sub[t],
           Stored' \subseteq Stored \cup {s}, Placed(s)', Admitted(s)', Justified(s)'
    PROVE  AnswerInv'
<1>1. ASSUME NEW t \in Subs \ {s} PROVE Placed(t)' /\ Admitted(t)' /\ Justified(t)'
  BY AnswerStands DEF AnswerInv, Placed, Admitted
<1> QED
  BY <1>1 DEF AnswerInv

LEMMA SameRowsGrow == UNCHANGED rows => Grows /\ Stored' = Stored
BY DEF Grows, Stored

\* A step before the answer that reaches none.
LEMMA AskingStep ==
    ASSUME AnswerInv, UNCHANGED rows, NEW s \in Subs, sub[s].pc \in Asking,
           \A t \in Subs \ {s} : sub'[t] = sub[t],
           sub'[s].verdict = sub[s].verdict, sub'[s].source = sub[s].source,
           sub'[s].pc \notin {"dispose", "done"}
    PROVE  AnswerInv'
<1>1. /\ sub'[s].verdict = "none" /\ s \notin Stored /\ sub'[s].source # "processed"
  BY DEF AnswerInv, Placed, Admitted, Asking
<1>2. Placed(s)' /\ Admitted(s)' /\ Justified(s)'
  BY <1>1, SameRowsGrow DEF Placed, Admitted, Justified
<1> QED
  BY <1>2, SameRowsGrow, OneMoves

\* An answer other than "ingested" is reached, with a row that justifies it.
LEMMA ConcludeStep ==
    ASSUME TypeInv, AnswerInv, UNCHANGED rows, NEW s \in Subs, sub[s].pc \in Asking,
           NEW v \in {"duplicate", "same_work", "in_trash"}, Conclude(s, v),
           v = "duplicate" => WithHash(sub[s].content) # {},
           v = "same_work" => WithIdentifier(sub[s].meta) # {},
           v = "in_trash" => \/ WithHash(sub[s].content) # {}
                             \/ sub[s].meta # NoMeta /\ WithIdentifier(sub[s].meta) # {}
    PROVE  AnswerInv'
<1>1. /\ sub'[s].pc = "dispose" /\ sub'[s].verdict = v /\ sub'[s].source = sub[s].source
      /\ sub'[s].content = sub[s].content /\ sub'[s].meta = sub[s].meta
      /\ \A t \in Subs \ {s} : sub'[t] = sub[t]
  BY DEF Conclude, TypeInv, TypeOK, Submission
<1>2. sub[s].source # "processed" /\ s \notin Stored
  BY DEF AnswerInv, Placed, Admitted, Asking
<1>3. Placed(s)' /\ Admitted(s)'
  BY <1>1, <1>2, SameRowsGrow DEF Placed, Admitted, Asking
<1>4. Justified(s)'
  BY <1>1 DEF Justified, WithHash, WithIdentifier, Stored
<1> QED
  BY <1>1, <1>3, <1>4, SameRowsGrow, OneMoves

LEMMA AnswerInvNext == TypeInv /\ AnswerInv /\ [Next]_vars => AnswerInv'
<1> SUFFICES ASSUME TypeInv, AnswerInv, [Next]_vars PROVE AnswerInv'
  OBVIOUS
<1>g. ASSUME NEW s \in Subs, NEW pc, Goto(s, pc)
      PROVE  /\ sub'[s].pc = pc /\ sub'[s].verdict = sub[s].verdict
             /\ sub'[s].source = sub[s].source /\ sub'[s].content = sub[s].content
             /\ sub'[s].meta = sub[s].meta
             /\ \A t \in Subs \ {s} : sub'[t] = sub[t]
  BY <1>g DEF Goto, TypeInv, TypeOK, Submission
<1>m. ASSUME NEW s \in Subs, sub[s].pc \in {"identify", "recover"} PROVE sub[s].meta # NoMeta
  BY <1>m, IngestAssumption DEF TypeInv, Progress
<1>1. ASSUME NEW s \in Subs, Submit(s) PROVE AnswerInv'
  <2>1. /\ sub'[s].pc = "hash" /\ sub'[s].verdict = sub[s].verdict
        /\ sub'[s].source = sub[s].source /\ \A t \in Subs \ {s} : sub'[t] = sub[t]
    BY <1>1 DEF Submit, TypeInv, TypeOK, Submission
  <2> QED
    BY <1>1, <2>1, AskingStep DEF Submit, libraryVars, Asking
<1>2. ASSUME NEW s \in Subs, DedupByHash(s) PROVE AnswerInv'
  <2>0. UNCHANGED rows /\ sub[s].pc \in Asking
    BY <1>2 DEF DedupByHash, libraryVars, Asking
  <2>1. ASSUME NEW i \in WithHash(sub[s].content), Conclude(s, VerdictOn(i, "duplicate"))
        PROVE  AnswerInv'
    <3>1. VerdictOn(i, "duplicate") \in {"duplicate", "in_trash"}
      BY DEF VerdictOn
    <3> QED
      BY <2>0, <2>1, <3>1, ConcludeStep
  <2>2. CASE Goto(s, "resolve")
    BY <2>0, <2>2, <1>g, AskingStep
  <2> QED
    BY <1>2, <2>1, <2>2 DEF DedupByHash
<1>3. ASSUME NEW s \in Subs, Resolve(s) PROVE AnswerInv'
  <2>1. /\ sub'[s].pc = "identify" /\ sub'[s].verdict = sub[s].verdict
        /\ sub'[s].source = sub[s].source /\ \A t \in Subs \ {s} : sub'[t] = sub[t]
    BY <1>3 DEF Resolve, TypeInv, TypeOK, Submission
  <2> QED
    BY <1>3, <2>1, AskingStep DEF Resolve, libraryVars, Asking
<1>4. ASSUME NEW s \in Subs, DedupByIdentifier(s) PROVE AnswerInv'
  <2>0. UNCHANGED rows /\ sub[s].pc \in Asking /\ sub[s].meta # NoMeta
    BY <1>4, <1>m DEF DedupByIdentifier, libraryVars, Asking
  <2>1. ASSUME NEW i \in WithIdentifier(sub[s].meta), Conclude(s, VerdictOn(i, "same_work"))
        PROVE  AnswerInv'
    <3>1. VerdictOn(i, "same_work") \in {"same_work", "in_trash"}
      BY DEF VerdictOn
    <3> QED
      BY <2>0, <2>1, <3>1, ConcludeStep
  <2>2. CASE Goto(s, "keys")
    BY <2>0, <2>2, <1>g, AskingStep
  <2> QED
    BY <1>4, <2>1, <2>2 DEF DedupByIdentifier
<1>5. ASSUME NEW s \in Subs, ReadKeys(s) PROVE AnswerInv'
  <2>1. /\ sub'[s].pc = "copy" /\ sub'[s].verdict = sub[s].verdict
        /\ sub'[s].source = sub[s].source /\ \A t \in Subs \ {s} : sub'[t] = sub[t]
    BY <1>5 DEF ReadKeys, TypeInv, TypeOK, Submission
  <2> QED
    BY <1>5, <2>1, AskingStep DEF ReadKeys, libraryVars, Asking
<1>6. ASSUME NEW s \in Subs, CreateExclusive(s) \/ OverwriteUnsorted(s) PROVE AnswerInv'
  <2> DEFINE Quiet == /\ sub'[s].pc \in {"copy", "fill"}
                      /\ sub'[s].verdict = sub[s].verdict
                      /\ sub'[s].source = sub[s].source
                      /\ \A t \in Subs \ {s} : sub'[t] = sub[t]
  <2>1. Quiet
    <3>1. ASSUME NEW p, Opened(s, p) PROVE Quiet
      BY <3>1 DEF Opened, TypeInv, TypeOK, Submission
    <3>2. ASSUME sub[s].pc = "copy", NEW k, sub' = [sub EXCEPT ![s].taken = @ \cup {k}]
          PROVE  Quiet
      BY <3>2 DEF TypeInv, TypeOK, Submission
    <3> QED
      BY <1>6, <3>1, <3>2 DEF CreateExclusive, OverwriteUnsorted
  <2>2. UNCHANGED rows /\ sub[s].pc \in Asking
    BY <1>6 DEF CreateExclusive, OverwriteUnsorted, Asking
  <2> QED
    BY <2>1, <2>2, AskingStep
<1>7. ASSUME NEW s \in Subs, FinishCopy(s) \/ CopyFails(s) \/ InsertFails(s) \/ Cleanup(s)
      PROVE  AnswerInv'
  <2>1. UNCHANGED rows /\ sub[s].pc \in Asking
    BY <1>7 DEF FinishCopy, CopyFails, InsertFails, Cleanup, libraryVars, Asking
  <2>2. \/ \E pc \in {"insert", "cleanup"} : Goto(s, pc)
        \/ \E pc \in {"fail", "recover"} : Discard(s, pc)
    BY <1>7 DEF FinishCopy, CopyFails, InsertFails, Cleanup
  <2>3. /\ \A t \in Subs \ {s} : sub'[t] = sub[t]
        /\ sub'[s].verdict = sub[s].verdict /\ sub'[s].source = sub[s].source
        /\ sub'[s].pc \in {"insert", "cleanup", "fail", "recover"}
    BY <2>2, <1>g, DiscardIs
  <2> QED
    BY <2>1, <2>3, AskingStep
<1>8. ASSUME NEW s \in Subs, Insert(s) PROVE AnswerInv'
  <2>0. sub[s].pc = "insert" /\ sub[s].verdict = "none" /\ s \notin Stored
        /\ sub[s].source # "processed"
    BY <1>8 DEF Insert, AnswerInv, Placed, Admitted, Asking
  <2>1. CASE ~Unique(s, sub[s].content, sub[s].meta)
    <3>1. /\ sub'[s].pc = "cleanup" /\ sub'[s].verdict = sub[s].verdict
          /\ sub'[s].source = sub[s].source /\ \A t \in Subs \ {s} : sub'[t] = sub[t]
      BY <1>8, <2>1 DEF Insert, TypeInv, TypeOK, Submission
    <3> QED
      BY <1>8, <2>0, <2>1, <3>1, AskingStep DEF Insert, Asking
  <2>2. CASE Unique(s, sub[s].content, sub[s].meta)
    <3> DEFINE r == [content |-> sub[s].content, path |-> sub[s].path,
                     meta |-> sub[s].meta, trashed |-> FALSE]
    <3>1. /\ rows' = [rows EXCEPT ![s] = r] /\ Conclude(s, "ingested")
      BY <1>8, <2>2 DEF Insert
    <3>2. /\ sub'[s].pc = "dispose" /\ sub'[s].verdict = "ingested"
          /\ sub'[s].source = sub[s].source /\ sub'[s].content = sub[s].content
          /\ \A t \in Subs \ {s} : sub'[t] = sub[t]
      BY <3>1 DEF Conclude, TypeInv, TypeOK, Submission
    <3>3. r \in Row /\ r.content = sub[s].content
      BY <2>0 DEF Row, TypeInv, TypeOK, Progress, Submission
    <3>4. /\ rows'[s] = r /\ r # NoRow /\ s \in Papers
          /\ \A i \in Papers \ {s} : rows'[i] = rows[i]
      BY <3>1, <3>3, IngestAssumption, LibraryAssumption DEF TypeInv, TypeOK
    <3> HIDE DEF r
    <3>5. Grows /\ s \in Stored' /\ Stored' \subseteq Stored \cup {s}
      BY <2>0, <3>4 DEF Grows, Stored
    <3>6. Placed(s)' /\ Admitted(s)' /\ Justified(s)'
      BY <2>0, <3>2, <3>3, <3>4, <3>5 DEF Placed, Admitted, Justified, Asking
    <3> QED
      BY <3>2, <3>5, <3>6, OneMoves
  <2> QED
    BY <2>1, <2>2
<1>9. ASSUME NEW s \in Subs, RecoverCollision(s) PROVE AnswerInv'
  <2>0. UNCHANGED rows /\ sub[s].pc \in Asking /\ sub[s].meta # NoMeta
    BY <1>9, <1>m DEF RecoverCollision, libraryVars, Asking
  <2>1. ASSUME NEW i \in WithHash(sub[s].content), Conclude(s, VerdictOn(i, "duplicate"))
        PROVE  AnswerInv'
    <3>1. VerdictOn(i, "duplicate") \in {"duplicate", "in_trash"}
      BY DEF VerdictOn
    <3> QED
      BY <2>0, <2>1, <3>1, ConcludeStep
  <2>2. ASSUME NEW i \in WithIdentifier(sub[s].meta), Conclude(s, VerdictOn(i, "same_work"))
        PROVE  AnswerInv'
    <3>1. VerdictOn(i, "same_work") \in {"same_work", "in_trash"}
      BY DEF VerdictOn
    <3> QED
      BY <2>0, <2>2, <3>1, ConcludeStep
  <2>3. CASE Goto(s, "fail")
    BY <2>0, <2>3, <1>g, AskingStep
  <2> QED
    BY <1>9, <2>1, <2>2, <2>3 DEF RecoverCollision
<1>10. ASSUME NEW s \in Subs, Dispose(s) PROVE AnswerInv'
  <2>1. /\ sub[s].pc = "dispose" /\ sub'[s].pc = "done"
        /\ sub'[s].verdict = sub[s].verdict /\ sub'[s].content = sub[s].content
        /\ sub'[s].meta = sub[s].meta /\ \A t \in Subs \ {s} : sub'[t] = sub[t]
    BY <1>10 DEF Dispose, TypeInv, TypeOK, Submission
  <2>2. Grows /\ Stored' = Stored
    BY <1>10, SameRowsGrow DEF Dispose, libraryVars
  <2>3. Placed(s)' /\ Admitted(s)'
    BY <2>1, <2>2 DEF AnswerInv, Placed, Admitted, Asking
  <2>4. Justified(s)'
    BY <2>1, <2>2, AnswerStands DEF AnswerInv
  <2> QED
    BY <2>1, <2>2, <2>3, <2>4, OneMoves
<1>11. ASSUME NEW s \in Subs, StepFails(s) \/ Crash(s) PROVE AnswerInv'
  <2>1. PICK pc \in {"fail", "crashed"} : Goto(s, pc)
    BY <1>11 DEF StepFails, Crash
  <2>2. UNCHANGED rows /\ sub[s].pc \in Asking \cup {"dispose", "fail"}
    BY <1>11 DEF StepFails, Crash, libraryVars, Asking, Working
  <2>3. CASE sub[s].pc \in Asking
    BY <2>1, <2>2, <2>3, <1>g, AskingStep
  <2>4. CASE sub[s].pc \in {"dispose", "fail"}
    <3>1. Placed(s)' /\ Admitted(s)'
      BY <2>1, <2>2, <2>4, <1>g, SameRowsGrow DEF AnswerInv, Placed, Admitted, Asking
    <3>2. Justified(s)'
      BY <2>1, <2>2, <1>g, SameRowsGrow, AnswerStands DEF AnswerInv
    <3> QED
      BY <2>1, <2>2, <3>1, <3>2, <1>g, SameRowsGrow, OneMoves
  <2> QED
    BY <2>2, <2>3, <2>4
<1>12. ASSUME NEW s \in Subs, Fail(s) PROVE AnswerInv'
  <2>1. /\ sub[s].pc = "fail" /\ sub'[s].pc = "failed"
        /\ sub'[s].verdict = IF sub[s].verdict = "none" THEN "error" ELSE sub[s].verdict
        /\ sub'[s].source \in {"deleted", sub[s].source}
        /\ sub'[s].content = sub[s].content /\ sub'[s].meta = sub[s].meta
        /\ \A t \in Subs \ {s} : sub'[t] = sub[t]
    BY <1>12 DEF Fail, TypeInv, TypeOK, Submission
  <2>2. Grows /\ Stored' = Stored
    BY <1>12, SameRowsGrow DEF Fail, libraryVars
  <2>3. Placed(s)' /\ Admitted(s)'
    BY <2>1, <2>2 DEF AnswerInv, Placed, Admitted, Asking
  <2>4. Justified(s)'
    <3>1. CASE sub[s].verdict = "none"
      BY <2>1, <3>1 DEF Justified
    <3>2. CASE sub[s].verdict # "none"
      BY <2>1, <2>2, <3>2, AnswerStands DEF AnswerInv
    <3> QED
      BY <3>1, <3>2
  <2> QED
    BY <2>1, <2>2, <2>3, <2>4, OneMoves
<1>13. ASSUME NEW i \in Papers, Trash(i) \/ Untrash(i) PROVE AnswerInv'
  <2>1. PICK t \in BOOLEAN : i \in Stored /\ rows' = [rows EXCEPT ![i].trashed = t]
    BY <1>13 DEF Trash, Untrash, SoftDelete, Restore
  <2>2. rows[i] \in Row
    BY <2>1 DEF TypeInv, TypeOK, Stored
  <2> DEFINE r == [rows[i] EXCEPT !.trashed = t]
  <2>3. r \in Row /\ r.content = rows[i].content /\ r.meta = rows[i].meta
    BY <2>2 DEF Row
  <2>4. rows'[i] = r /\ \A j \in Papers \ {i} : rows'[j] = rows[j]
    BY <2>1 DEF TypeInv, TypeOK
  <2> HIDE DEF r
  <2>5. Grows /\ Stored' = Stored
    BY <2>1, <2>3, <2>4, LibraryAssumption DEF Grows, Stored
  <2>6. UNCHANGED sub
    BY <1>13 DEF Trash, Untrash
  <2> QED
    BY <2>5, <2>6, AnswerStands DEF AnswerInv, Placed, Admitted
<1>14. CASE UNCHANGED vars
  BY <1>14, SameRowsGrow, AnswerStands DEF vars, AnswerInv, Placed, Admitted
<1> QED
  BY <1>1, <1>2, <1>3, <1>4, <1>5, <1>6, <1>7, <1>8, <1>9, <1>10, <1>11, <1>12, <1>13, <1>14
     DEF Next, Step, Advance

LEMMA AnswerInvSafe == AnswerInv => SourceSafe
BY DEF AnswerInv, Placed, Justified, SourceSafe

\* Whatever races, failures and crashes: the caller is told a work is in the
\* library, and its source disposed of, only when a row with the same bytes or
\* a shared identifier is there, and stays there (ingest_inner's outcomes and
\* the disposal in ingest_file_with_hint).
THEOREM SourceSafeHolds == Spec => []SourceSafe
<1>1. Init => TypeInv /\ AnswerInv
  BY TypeInvInit, AnswerInvInit
<1>2. (TypeInv /\ AnswerInv) /\ [Next]_vars => (TypeInv /\ AnswerInv)'
  BY TypeInvNext, AnswerInvNext
<1>3. TypeInv /\ AnswerInv => SourceSafe
  BY AnswerInvSafe
<1> QED
  BY <1>1, <1>2, <1>3, PTL DEF Spec

----------------------------------------------------------------------------
(* What an ingest leaves behind: the proof of StrandedOnlyByFault.         *)

\* No row goes, and none changes its path.
NamesKept == \A i \in Stored : i \in Stored' /\ rows'[i].path = rows[i].path

LEMMA SameRowsKept == UNCHANGED rows => NamesKept
BY DEF NamesKept, Stored

\* A step of submission s strands no file under k, unless it lets go of one.
LEMMA NothingDropped ==
    ASSUME NEW k \in Keys, NEW s \in Subs, NamesKept,
           \A t \in Subs \ {s} : sub'[t] = sub[t],
           files[k] = Absent => files'[k] = Absent,
           sub[s].path = k /\ sub[s].pc \in Holding =>
               \/ sub'[s].path = k /\ sub'[s].pc \in Holding
               \/ files'[k] = Absent
               \/ \E i \in Stored' : rows'[i].path = k
    PROVE  Stranded(k)' => Stranded(k)
BY DEF Stranded, NamesKept, Holding

\* The same of a step that touches neither store and holds no file.
LEMMA QuietLocals ==
    ASSUME NEW k \in Keys, NEW s \in Subs, UNCHANGED libraryVars,
           \A t \in Subs \ {s} : sub'[t] = sub[t], sub[s].pc \notin Holding
    PROVE  Stranded(k)' => Stranded(k)
BY SameRowsKept, NothingDropped DEF libraryVars

\* A removal of the file a submission holds.
LEMMA RemovalStrandsNothing ==
    ASSUME TypeInv, NEW k \in Keys, NEW s \in Subs, UNCHANGED rows,
           \A t \in Subs \ {s} : sub'[t] = sub[t], sub[s].pc \in Holding,
           Remove(sub[s].path) \/ (sub[s].path # k /\ UNCHANGED files)
    PROVE  Stranded(k)' => Stranded(k)
<1>1. k \in Paths /\ (sub[s].path = k => files'[k] = Absent)
      /\ (files[k] = Absent => files'[k] = Absent)
  BY DEF Remove, TypeInv, TypeOK, Paths
<1> QED
  BY <1>1, SameRowsKept, NothingDropped

LEMMA StrandedNext ==
    ASSUME TypeInv, AnswerInv, [Next]_vars, NEW k \in Keys, Stranded(k)'
    PROVE  \/ Stranded(k)
           \/ \E s \in Subs : sub[s].pc # "crashed" /\ sub'[s].pc = "crashed"
           \/ \E s \in Subs : sub'[s].stayed /\ sub'[s].path = k
<1>k. k \in Paths
  BY DEF Paths
<1>h. \A pc \in Holding : pc \notin {"idle", "hash", "resolve", "identify", "keys", "copy",
                                  "recover", "dispose", "fail"}
  BY DEF Holding
<1>o. ASSUME NEW s \in Subs, \E r : sub' = [sub EXCEPT ![s] = r]
      PROVE  \A t \in Subs \ {s} : sub'[t] = sub[t]
  BY <1>o DEF TypeInv, TypeOK
<1>1. ASSUME NEW s \in Subs,
             \/ Submit(s) \/ DedupByHash(s) \/ Resolve(s) \/ DedupByIdentifier(s)
             \/ ReadKeys(s) \/ RecoverCollision(s) \/ Dispose(s) \/ StepFails(s) \/ Fail(s)
      PROVE  Stranded(k)
  <2>1. UNCHANGED libraryVars /\ sub[s].pc \notin Holding
    BY <1>1, <1>h DEF Submit, DedupByHash, Resolve, DedupByIdentifier, ReadKeys,
       RecoverCollision, Dispose, StepFails, Fail
  <2>2. \E r : sub' = [sub EXCEPT ![s] = r]
    BY <1>1 DEF Submit, DedupByHash, Resolve, DedupByIdentifier, ReadKeys,
       RecoverCollision, Dispose, StepFails, Fail, Goto, Conclude
  <2> QED
    BY <2>1, <2>2, <1>o, QuietLocals
<1>2. ASSUME NEW s \in Subs, CreateExclusive(s) PROVE Stranded(k)
  <2>0. sub[s].pc = "copy" /\ sub[s].pc \notin Holding /\ UNCHANGED rows
    BY <1>2, <1>h DEF CreateExclusive
  <2>1. PICK p \in Keys : \/ CreateNew(s, p) /\ Opened(s, p)
                          \/ /\ sub' = [sub EXCEPT ![s].taken = @ \cup {p}]
                             /\ UNCHANGED files
    BY <1>2 DEF CreateExclusive
  <2>2. CASE CreateNew(s, p) /\ Opened(s, p)
    <3>1. /\ sub'[s].pc = "fill" /\ sub'[s].path = p
          /\ \A t \in Subs \ {s} : sub'[t] = sub[t]
      BY <2>2 DEF Opened, TypeInv, TypeOK, Submission
    <3>2. p # k
      BY <3>1 DEF Stranded
    <3>3. files'[k] = files[k]
      BY <2>2, <3>2, <1>k DEF CreateNew, TypeInv, TypeOK
    <3> QED
      BY <2>0, <3>1, <3>3, SameRowsKept, NothingDropped
  <2>3. CASE sub' = [sub EXCEPT ![s].taken = @ \cup {p}] /\ UNCHANGED files
    <3>1. \A t \in Subs \ {s} : sub'[t] = sub[t]
      BY <2>3 DEF TypeInv, TypeOK
    <3> QED
      BY <2>0, <2>3, <3>1, QuietLocals DEF libraryVars
  <2> QED
    BY <2>1, <2>2, <2>3
<1>3. ASSUME NEW s \in Subs, OverwriteUnsorted(s) PROVE Stranded(k)
  <2>1. /\ sub[s].pc \notin Holding /\ UNCHANGED rows
        /\ \A t \in Subs \ {s} : sub'[t] = sub[t]
    BY <1>3, <1>h DEF OverwriteUnsorted, Opened, TypeInv, TypeOK
  <2>2. sub[s].content \in Contents
    BY <1>3 DEF OverwriteUnsorted, TypeInv, Progress
  <2>3. files'[k] = files[k]
    BY <1>3, <1>k, <2>2, LibraryAssumption DEF OverwriteUnsorted, Truncate, TypeInv, TypeOK
  <2> QED
    BY <2>1, <2>3, SameRowsKept, NothingDropped
<1>4. ASSUME NEW s \in Subs, FinishCopy(s) PROVE Stranded(k)
  <2>1. /\ sub'[s].pc = "insert" /\ sub'[s].path = sub[s].path /\ UNCHANGED rows
        /\ \A t \in Subs \ {s} : sub'[t] = sub[t]
    BY <1>4 DEF FinishCopy, Goto, TypeInv, TypeOK, Submission
  <2>2. files[k] = Absent => files'[k] = Absent
    BY <1>4, <1>k, LibraryAssumption, IngestAssumption DEF FinishCopy, Fill, TypeInv, TypeOK
  <2> QED
    BY <2>1, <2>2, SameRowsKept, NothingDropped DEF Holding
<1>5. ASSUME NEW s \in Subs, CopyFails(s) \/ Cleanup(s)
      PROVE  Stranded(k) \/ (sub'[s].stayed /\ sub'[s].path = k)
  <2>1. sub[s].pc \in Holding /\ UNCHANGED rows
    BY <1>5 DEF CopyFails, Cleanup, Holding
  <2>2. PICK pc \in {"fail", "recover"} : Discard(s, pc)
    BY <1>5 DEF CopyFails, Cleanup
  <2>3. /\ \A t \in Subs \ {s} : sub'[t] = sub[t]
        /\ sub'[s].path = sub[s].path
        /\ Remove(sub[s].path) \/ (UNCHANGED files /\ (sub[s].path \in Keys => sub'[s].stayed))
    BY <2>2, DiscardIs
  <2> QED
    BY <2>1, <2>3, RemovalStrandsNothing
<1>6. ASSUME NEW s \in Subs,
             InsertFails(s) \/ (Insert(s) /\ ~Unique(s, sub[s].content, sub[s].meta))
      PROVE  Stranded(k)
  <2>1. UNCHANGED libraryVars
    BY <1>6 DEF InsertFails, Insert, libraryVars
  <2>2. /\ sub'[s].pc = "cleanup" /\ sub'[s].path = sub[s].path
        /\ \A t \in Subs \ {s} : sub'[t] = sub[t]
    BY <1>6 DEF InsertFails, Insert, Goto, TypeInv, TypeOK, Submission
  <2> QED
    BY <2>1, <2>2, SameRowsKept, NothingDropped DEF Holding, libraryVars
<1>7. ASSUME NEW s \in Subs, Insert(s), Unique(s, sub[s].content, sub[s].meta)
      PROVE  Stranded(k)
  <2> DEFINE r == [content |-> sub[s].content, path |-> sub[s].path,
                   meta |-> sub[s].meta, trashed |-> FALSE]
  <2>1. rows' = [rows EXCEPT ![s] = r] /\ UNCHANGED files /\ sub[s].pc = "insert"
        /\ Conclude(s, "ingested")
    BY <1>7 DEF Insert
  <2>2. s \notin Stored
    BY <2>1 DEF AnswerInv, Placed, Admitted, Asking
  <2>3. r \in Row /\ r.path = sub[s].path
    BY <2>1 DEF Row, TypeInv, TypeOK, Progress, Submission
  <2>4. /\ rows'[s] = r /\ r # NoRow /\ s \in Papers
        /\ \A i \in Papers \ {s} : rows'[i] = rows[i]
    BY <2>1, <2>3, IngestAssumption, LibraryAssumption DEF TypeInv, TypeOK
  <2> HIDE DEF r
  <2>5. NamesKept /\ s \in Stored' /\ rows'[s].path = sub[s].path
    BY <2>2, <2>3, <2>4 DEF NamesKept, Stored
  <2>6. \A t \in Subs \ {s} : sub'[t] = sub[t]
    BY <2>1, <1>o DEF Conclude
  <2> QED
    BY <2>1, <2>5, <2>6, NothingDropped
<1>8. ASSUME NEW s \in Subs, Crash(s)
      PROVE  \E t \in Subs : sub[t].pc # "crashed" /\ sub'[t].pc = "crashed"
  <2>1. sub[s].pc # "crashed"
    BY <1>8 DEF Crash, Working
  <2>2. sub'[s].pc = "crashed"
    BY <1>8 DEF Crash, Goto, TypeInv, TypeOK, Submission
  <2> QED
    BY <2>1, <2>2
<1>9. ASSUME NEW i \in Papers, Trash(i) \/ Untrash(i) PROVE Stranded(k)
  <2>1. PICK t \in BOOLEAN : i \in Stored /\ rows' = [rows EXCEPT ![i].trashed = t]
    BY <1>9 DEF Trash, Untrash, SoftDelete, Restore
  <2>2. rows[i] \in Row
    BY <2>1 DEF TypeInv, TypeOK, Stored
  <2> DEFINE r == [rows[i] EXCEPT !.trashed = t]
  <2>3. r \in Row /\ r.path = rows[i].path
    BY <2>2 DEF Row
  <2>4. rows'[i] = r /\ \A j \in Papers \ {i} : rows'[j] = rows[j]
    BY <2>1 DEF TypeInv, TypeOK
  <2> HIDE DEF r
  <2>5. NamesKept
    BY <2>1, <2>3, <2>4, LibraryAssumption DEF NamesKept, Stored
  <2>6. UNCHANGED <<files, sub>>
    BY <1>9 DEF Trash, Untrash
  <2> QED
    BY <2>5, <2>6 DEF Stranded, NamesKept
<1>10. CASE UNCHANGED vars
  BY <1>10 DEF vars, Stranded, Stored
<1> QED
  BY <1>1, <1>2, <1>3, <1>4, <1>5, <1>6, <1>7, <1>8, <1>9, <1>10 DEF Next, Step, Advance

\* No failing step of an ingest leaves a file that no row names and nobody
\* works on (copy_to_excl's and ingest_inner's clean-up), whatever the other
\* ingests do: only a crash and a refused removal do.
THEOREM StrandedOnlyByFaultHolds == Spec => StrandedOnlyByFault
<1>1. Init => TypeInv /\ AnswerInv
  BY TypeInvInit, AnswerInvInit
<1>2. (TypeInv /\ AnswerInv) /\ [Next]_vars => (TypeInv /\ AnswerInv)'
  BY TypeInvNext, AnswerInvNext
<1> DEFINE StrandedStep ==
      \A k \in Keys : Stranded(k)' =>
          \/ Stranded(k)
          \/ \E s \in Subs : sub[s].pc # "crashed" /\ sub'[s].pc = "crashed"
          \/ \E s \in Subs : sub'[s].stayed /\ sub'[s].path = k
<1>3. (TypeInv /\ AnswerInv) /\ [Next]_vars => [StrandedStep]_vars
  BY StrandedNext
<1>4. StrandedOnlyByFault <=> [][StrandedStep]_vars
  BY DEF StrandedOnlyByFault
<1> HIDE DEF StrandedStep
<1> QED
  BY <1>1, <1>2, <1>3, <1>4, PTL DEF Spec

----------------------------------------------------------------------------
(* The ingest implements the catalog: every step of it is, seen through    *)
(* Promise, a step of the catalog or none.                                 *)

\* A submission that has not begun offers nothing.
Unoffered == \A s \in Subs : sub[s].pc = "idle" => sub[s].content = NoContent

CatalogInv == TypeInv /\ AnswerInv /\ Unoffered

LEMMA UnofferedNext == TypeInv /\ Unoffered /\ [Next]_vars => Unoffered'
<1> SUFFICES ASSUME TypeInv, Unoffered, [Next]_vars PROVE Unoffered'
  OBVIOUS
<1>1. ASSUME NEW s \in Subs, \A t \in Subs \ {s} : sub'[t] = sub[t], sub'[s].pc # "idle"
      PROVE  Unoffered'
  BY <1>1 DEF Unoffered
<1>2. ASSUME NEW s \in Subs, Step(s) \/ Submit(s) \/ Crash(s) PROVE Unoffered'
  <2> DEFINE Begun == (\A t \in Subs \ {s} : sub'[t] = sub[t]) /\ sub'[s].pc # "idle"
  <2>1. ASSUME NEW pc, pc # "idle", Goto(s, pc) PROVE Begun
    BY <2>1 DEF Goto, TypeInv, TypeOK, Submission
  <2>2. ASSUME NEW v, Conclude(s, v) PROVE Begun
    BY <2>2 DEF Conclude, TypeInv, TypeOK, Submission
  <2>3. ASSUME NEW p, Opened(s, p) PROVE Begun
    BY <2>3 DEF Opened, TypeInv, TypeOK, Submission
  <2>4. ASSUME NEW i \in Papers, NEW v, Conclude(s, VerdictOn(i, v)) PROVE Begun
    BY <2>4 DEF Conclude, TypeInv, TypeOK, Submission
  <2>5. CASE CreateExclusive(s)
    <3>1. ASSUME NEW k, sub[s].pc = "copy", sub' = [sub EXCEPT ![s].taken = @ \cup {k}]
          PROVE  Begun
      BY <3>1 DEF TypeInv, TypeOK, Submission
    <3> QED
      BY <1>1, <2>3, <2>5, <3>1 DEF CreateExclusive
  <2>6. CASE OverwriteUnsorted(s)
    <3>1. Begun
      BY <2>6 DEF OverwriteUnsorted, Opened, TypeInv, TypeOK, Submission
    <3> QED
      BY <1>1, <3>1
  <2>7. CASE Submit(s) \/ Resolve(s) \/ ReadKeys(s) \/ Dispose(s) \/ Fail(s)
    <3>1. Begun
      BY <2>7 DEF Submit, Resolve, ReadKeys, Dispose, Fail, TypeInv, TypeOK, Submission
    <3> QED
      BY <1>1, <3>1
  <2>8. CASE Insert(s)
    <3>1. Begun
      BY <2>8 DEF Insert, Conclude, TypeInv, TypeOK, Submission
    <3> QED
      BY <1>1, <3>1
  <2>10. CASE CopyFails(s) \/ Cleanup(s)
    <3>1. \E pc \in {"fail", "recover"} : Discard(s, pc)
      BY <2>10 DEF CopyFails, Cleanup
    <3>2. Begun
      BY <3>1, DiscardIs
    <3> QED
      BY <1>1, <3>2
  <2>9. CASE \/ DedupByHash(s) \/ DedupByIdentifier(s) \/ FinishCopy(s)
             \/ InsertFails(s) \/ RecoverCollision(s) \/ StepFails(s) \/ Crash(s)
    <3> HIDE DEF Begun
    <3>1. Begun
      BY <2>1, <2>4, <2>9
         DEF DedupByHash, DedupByIdentifier, FinishCopy, InsertFails,
             RecoverCollision, StepFails, Crash, WithHash, WithIdentifier, Stored
    <3> QED
      BY <1>1, <3>1 DEF Begun
  <2> QED
    BY <1>2, <2>5, <2>6, <2>7, <2>8, <2>9, <2>10 DEF Step, Advance
<1>3. CASE UNCHANGED sub
  BY <1>3 DEF Unoffered
<1> QED
  BY <1>2, <1>3 DEF Next, Trash, Untrash, vars

LEMMA CatalogInvInit == Init => CatalogInv
BY TypeInvInit, AnswerInvInit DEF CatalogInv, Init, Unoffered, Unsubmitted

LEMMA CatalogInvNext == CatalogInv /\ [Next]_vars => CatalogInv'
BY TypeInvNext, AnswerInvNext, UnofferedNext DEF CatalogInv

----------------------------------------------------------------------------

\* The catalog lists exactly the stored papers.
LEMMA ListedIsStored == TypeOK => Promise!Listed = Stored
<1> SUFFICES ASSUME TypeOK PROVE Promise!Listed = Stored
  OBVIOUS
<1>1. ASSUME NEW i \in Papers, rows[i] # NoRow PROVE EntryOf(i) # NoRow
  <2>1. rows[i] \in Row /\ rows[i].meta \in Meta
    BY <1>1, LibraryAssumption DEF TypeOK, Row
  <2>2. EntryOf(i) \in [content : Contents, idents : SUBSET Idents, trashed : BOOLEAN]
    BY <1>1, <2>1 DEF EntryOf, Row, Meta
  <2> QED
    BY <2>2, IngestAssumption
<1>2. ASSUME NEW i \in Papers, rows[i] = NoRow PROVE EntryOf(i) = NoRow
  BY <1>2 DEF EntryOf
<1> QED
  BY <1>1, <1>2 DEF Promise!Listed, Stored

LEMMA CatalogInit == Init => Promise!Init
<1> SUFFICES ASSUME Init PROVE Promise!Init
  OBVIOUS
<1>1. TypeOK
  BY TypeInvInit DEF TypeInv
<1>2. Distinct(rows)
  BY LibraryAssumption DEF Init, LibraryInit
<1>3. [i \in Papers |-> EntryOf(i)] \in [Papers -> Promise!Entry \cup {NoRow}]
  BY <1>1, LibraryAssumption DEF TypeOK, EntryOf, Row, Meta, Promise!Entry
<1>4. ASSUME NEW i \in Stored, NEW j \in Stored, i # j
      PROVE  /\ EntryOf(i).content # EntryOf(j).content
             /\ EntryOf(i).idents \cap EntryOf(j).idents = {}
  BY <1>2, <1>4 DEF Distinct, EntryOf, Stored
<1>5. \A s \in Subs : sub[s].content = NoContent /\ sub[s].verdict = "none"
  BY DEF Init, Unsubmitted
<1> QED
  BY <1>1, <1>3, <1>4, <1>5, ListedIsStored DEF Promise!Init, Stored

\* A step that leaves rows, offers and answers alone is none of the catalog.
LEMMA Unseen ==
    ASSUME UNCHANGED rows,
           \A s \in Subs : sub'[s].content = sub[s].content /\ sub'[s].verdict = sub[s].verdict
    PROVE  UNCHANGED Promise!catalogVars
BY DEF Promise!catalogVars, EntryOf

\* A step of one submission that leaves them alone.
LEMMA UnseenOne ==
    ASSUME UNCHANGED rows, NEW s \in Subs, \A t \in Subs \ {s} : sub'[t] = sub[t],
           sub'[s].content = sub[s].content, sub'[s].verdict = sub[s].verdict
    PROVE  UNCHANGED Promise!catalogVars
BY Unseen

\* A verdict answers the catalog's pending submission.
LEMMA Answers ==
    ASSUME CatalogInv, NEW s \in Subs, sub[s].content \in Contents, sub[s].verdict = "none",
           \A t \in Subs \ {s} : sub'[t] = sub[t], NEW v, sub'[s].verdict = v,
           sub'[s].content = sub[s].content
    PROVE  /\ Promise!Answer(s, v)
           /\ [t \in Subs |-> sub[t].content]' = [t \in Subs |-> sub[t].content]
BY IngestAssumption DEF Promise!Answer, Promise!Pending

\* What a conclusion over row i is to the catalog.
LEMMA ConcludeDeclines ==
    ASSUME CatalogInv, UNCHANGED rows, NEW s \in Subs, NEW i \in Stored, NEW v,
           sub[s].content \in Contents, sub[s].pc \in Asking, Conclude(s, VerdictOn(i, v)),
           \/ v = "duplicate" /\ i \in WithHash(sub[s].content)
           \/ v = "same_work" /\ sub[s].meta \in Metas /\ i \in WithIdentifier(sub[s].meta)
    PROVE  Promise!Next
<1> DEFINE ids == IF v = "same_work" THEN sub[s].meta.idents ELSE {}
<1>1. ids \in SUBSET Idents
  BY LibraryAssumption DEF Meta
<1>2. i \in Promise!Listed /\ i \in Papers
  BY ListedIsStored DEF CatalogInv, TypeInv, Stored
<1>3. /\ EntryOf(i).content = rows[i].content /\ EntryOf(i).trashed = rows[i].trashed
      /\ EntryOf(i).idents = rows[i].meta.idents
  BY DEF EntryOf, Stored
<1>4. /\ sub'[s].verdict = VerdictOn(i, v) /\ sub'[s].content = sub[s].content
      /\ \A t \in Subs \ {s} : sub'[t] = sub[t]
  BY DEF Conclude, CatalogInv, TypeInv, TypeOK, Submission
<1>5. sub[s].verdict = "none"
  BY DEF CatalogInv, AnswerInv, Placed
<1>6. PICK w \in {"duplicate", "same_work", "in_trash"} : w = VerdictOn(i, v)
  BY DEF VerdictOn
<1>7. /\ Promise!Answer(s, w)
      /\ [t \in Subs |-> sub[t].content]' = [t \in Subs |-> sub[t].content]
  BY <1>4, <1>5, <1>6, Answers
<1>8. [j \in Papers |-> EntryOf(j)]' = [j \in Papers |-> EntryOf(j)]
  BY DEF EntryOf
<1>9. \/ v = "duplicate" /\ rows[i].content = sub[s].content
      \/ v = "same_work" /\ rows[i].meta.idents \cap ids # {}
  BY DEF WithHash, WithIdentifier
<1>10. /\ [j \in Papers |-> EntryOf(j)][i] = EntryOf(i)
       /\ [t \in Subs |-> sub[t].content][s] = sub[s].content
  BY <1>2
<1>11. \/ w = "in_trash" /\ rows[i].trashed
       \/ w = v /\ ~rows[i].trashed
  BY <1>6 DEF VerdictOn
<1> HIDE DEF ids
<1>12. Promise!Decline(s, i, ids)
  BY <1>3, <1>7, <1>8, <1>9, <1>10, <1>11 DEF Promise!Decline
<1> QED
  BY <1>1, <1>2, <1>12 DEF Promise!Next

LEMMA InsertAdmits ==
    ASSUME CatalogInv, NEW s \in Subs, Insert(s), Unique(s, sub[s].content, sub[s].meta)
    PROVE  Promise!Next
<1> DEFINE r == [content |-> sub[s].content, path |-> sub[s].path,
                 meta |-> sub[s].meta, trashed |-> FALSE]
           ids == sub[s].meta.idents
<1>1. /\ rows' = [rows EXCEPT ![s] = r] /\ Conclude(s, "ingested") /\ sub[s].pc = "insert"
  BY DEF Insert
<1>2. /\ sub'[s].verdict = "ingested" /\ sub'[s].content = sub[s].content
      /\ \A t \in Subs \ {s} : sub'[t] = sub[t]
  BY <1>1 DEF Conclude, CatalogInv, TypeInv, TypeOK, Submission
<1>3. /\ sub[s].content \in Contents /\ sub[s].meta \in Metas
      /\ sub[s].verdict = "none" /\ s \notin Stored
  BY <1>1 DEF CatalogInv, TypeInv, Progress, AnswerInv, Placed, Admitted, Asking
<1>4. ids \in SUBSET Idents
  BY <1>3, LibraryAssumption DEF Meta
<1>5. /\ Promise!Answer(s, "ingested")
      /\ [t \in Subs |-> sub[t].content]' = [t \in Subs |-> sub[t].content]
  BY <1>2, <1>3, Answers
<1>6. ASSUME NEW i \in Stored
      PROVE  EntryOf(i).content # sub[s].content /\ EntryOf(i).idents \cap ids = {}
  BY <1>3 DEF Unique, WithHash, WithIdentifier, EntryOf, Stored
<1>7. r \in Row
  BY <1>1, <1>3 DEF Row, CatalogInv, TypeInv, TypeOK, Progress
<1>8. /\ s \in Papers /\ rows'[s] = r /\ r # NoRow /\ \A i \in Papers \ {s} : rows'[i] = rows[i]
  BY <1>1, <1>7, IngestAssumption, LibraryAssumption DEF CatalogInv, TypeInv, TypeOK
<1>9. [i \in Papers |-> EntryOf(i)]' = [[i \in Papers |-> EntryOf(i)] EXCEPT ![s] =
          [content |-> sub[s].content, idents |-> ids, trashed |-> FALSE]]
  <2>1. EntryOf(s)' = [content |-> sub[s].content, idents |-> ids, trashed |-> FALSE]
    BY <1>8 DEF EntryOf
  <2>2. \A i \in Papers \ {s} : EntryOf(i)' = EntryOf(i)
    BY <1>8 DEF EntryOf
  <2> QED
    BY <1>8, <2>1, <2>2
<1> HIDE DEF ids, r
<1>10. Promise!Listed = Stored
  BY ListedIsStored DEF CatalogInv, TypeInv
<1>11. Promise!Admit(s, ids)
  BY <1>5, <1>6, <1>9, <1>10, <1>2 DEF Promise!Admit, Stored
<1> QED
  BY <1>4, <1>11 DEF Promise!Next

LEMMA CatalogNext == CatalogInv /\ [Next]_vars => [Promise!Next]_Promise!catalogVars
<1> SUFFICES ASSUME CatalogInv, [Next]_vars
             PROVE  Promise!Next \/ UNCHANGED Promise!catalogVars
  BY DEF Promise!catalogVars
<1> USE DEF CatalogInv
<1>g. ASSUME NEW s \in Subs, NEW pc, Goto(s, pc), UNCHANGED rows
      PROVE  UNCHANGED Promise!catalogVars
  <2>1. /\ sub'[s].content = sub[s].content /\ sub'[s].verdict = sub[s].verdict
        /\ \A t \in Subs \ {s} : sub'[t] = sub[t]
    BY <1>g DEF Goto, TypeInv, TypeOK, Submission
  <2> QED
    BY <1>g, <2>1, UnseenOne
<1>1. ASSUME NEW s \in Subs, Submit(s) PROVE Promise!Next
  <2>1. PICK c \in Contents : sub' = [sub EXCEPT ![s].pc = "hash", ![s].content = c]
    BY <1>1 DEF Submit
  <2>2. /\ sub'[s].content = c /\ sub'[s].verdict = sub[s].verdict
        /\ \A t \in Subs \ {s} : sub'[t] = sub[t]
    BY <2>1 DEF TypeInv, TypeOK, Submission
  <2>3. sub[s].content = NoContent
    BY <1>1 DEF Submit, Unoffered
  <2>4. UNCHANGED rows
    BY <1>1 DEF Submit, libraryVars
  <2>5. Promise!Offer(s)
    BY <2>2, <2>3, <2>4 DEF Promise!Offer, EntryOf
  <2> QED
    BY <2>5 DEF Promise!Next
<1>2. ASSUME NEW s \in Subs, DedupByHash(s) PROVE Promise!Next \/ UNCHANGED Promise!catalogVars
  <2>1. UNCHANGED rows /\ sub[s].pc \in Asking /\ sub[s].content \in Contents
    BY <1>2 DEF DedupByHash, libraryVars, Asking, TypeInv, Progress
  <2>2. ASSUME NEW i \in WithHash(sub[s].content), Conclude(s, VerdictOn(i, "duplicate"))
        PROVE  Promise!Next
    BY <2>1, <2>2, ConcludeDeclines DEF WithHash
  <2> QED
    BY <1>2, <2>1, <2>2, <1>g DEF DedupByHash
<1>3. ASSUME NEW s \in Subs, Resolve(s) \/ ReadKeys(s) \/ Dispose(s)
      PROVE  UNCHANGED Promise!catalogVars
  <2>1. /\ sub'[s].content = sub[s].content /\ sub'[s].verdict = sub[s].verdict
        /\ \A t \in Subs \ {s} : sub'[t] = sub[t]
    BY <1>3 DEF Resolve, ReadKeys, Dispose, TypeInv, TypeOK, Submission
  <2> QED
    BY <1>3, <2>1, UnseenOne DEF Resolve, ReadKeys, Dispose, libraryVars
<1>4. ASSUME NEW s \in Subs, DedupByIdentifier(s)
      PROVE  Promise!Next \/ UNCHANGED Promise!catalogVars
  <2>1. /\ UNCHANGED rows /\ sub[s].pc \in Asking /\ sub[s].content \in Contents
        /\ sub[s].meta \in Metas
    BY <1>4 DEF DedupByIdentifier, libraryVars, Asking, TypeInv, Progress
  <2>2. ASSUME NEW i \in WithIdentifier(sub[s].meta), Conclude(s, VerdictOn(i, "same_work"))
        PROVE  Promise!Next
    BY <2>1, <2>2, ConcludeDeclines DEF WithIdentifier
  <2> QED
    BY <1>4, <2>1, <2>2, <1>g DEF DedupByIdentifier
<1>5. ASSUME NEW s \in Subs, CreateExclusive(s) \/ OverwriteUnsorted(s)
      PROVE  UNCHANGED Promise!catalogVars
  <2> DEFINE Quiet == /\ sub'[s].content = sub[s].content
                      /\ sub'[s].verdict = sub[s].verdict
                      /\ \A t \in Subs \ {s} : sub'[t] = sub[t]
  <2>1. ASSUME NEW p, Opened(s, p) PROVE Quiet
    BY <2>1 DEF Opened, TypeInv, TypeOK, Submission
  <2>2. ASSUME NEW k, sub' = [sub EXCEPT ![s].taken = @ \cup {k}] PROVE Quiet
    BY <2>2 DEF TypeInv, TypeOK, Submission
  <2>3. Quiet /\ UNCHANGED rows
    BY <1>5, <2>1, <2>2 DEF CreateExclusive, OverwriteUnsorted
  <2> QED
    BY <2>3, UnseenOne
<1>6. ASSUME NEW s \in Subs, \/ FinishCopy(s) \/ CopyFails(s) \/ InsertFails(s)
                             \/ Cleanup(s) \/ StepFails(s) \/ Crash(s)
      PROVE  UNCHANGED Promise!catalogVars
  <2>1. CASE FinishCopy(s) \/ InsertFails(s) \/ StepFails(s) \/ Crash(s)
    BY <2>1, <1>g DEF FinishCopy, InsertFails, StepFails, Crash, libraryVars
  <2>2. CASE CopyFails(s) \/ Cleanup(s)
    <3>1. UNCHANGED rows /\ \E pc \in {"fail", "recover"} : Discard(s, pc)
      BY <2>2 DEF CopyFails, Cleanup
    <3> QED
      BY <3>1, DiscardIs, UnseenOne DEF CatalogInv
  <2> QED
    BY <1>6, <2>1, <2>2
<1>7. ASSUME NEW s \in Subs, Insert(s) PROVE Promise!Next \/ UNCHANGED Promise!catalogVars
  <2>1. CASE Unique(s, sub[s].content, sub[s].meta)
    BY <1>7, <2>1, InsertAdmits
  <2>2. CASE ~Unique(s, sub[s].content, sub[s].meta)
    <3>1. /\ sub'[s].content = sub[s].content /\ sub'[s].verdict = sub[s].verdict
          /\ \A t \in Subs \ {s} : sub'[t] = sub[t]
      BY <1>7, <2>2 DEF Insert, TypeInv, TypeOK, Submission
    <3> QED
      BY <1>7, <2>2, <3>1, UnseenOne DEF Insert
  <2> QED
    BY <2>1, <2>2
<1>8. ASSUME NEW s \in Subs, RecoverCollision(s)
      PROVE  Promise!Next \/ UNCHANGED Promise!catalogVars
  <2>1. /\ UNCHANGED rows /\ sub[s].pc \in Asking /\ sub[s].content \in Contents
        /\ sub[s].meta \in Metas
    BY <1>8 DEF RecoverCollision, libraryVars, Asking, TypeInv, Progress
  <2>2. ASSUME NEW i \in WithHash(sub[s].content), Conclude(s, VerdictOn(i, "duplicate"))
        PROVE  Promise!Next
    BY <2>1, <2>2, ConcludeDeclines DEF WithHash
  <2>3. ASSUME NEW i \in WithIdentifier(sub[s].meta), Conclude(s, VerdictOn(i, "same_work"))
        PROVE  Promise!Next
    BY <2>1, <2>3, ConcludeDeclines DEF WithIdentifier
  <2> QED
    BY <1>8, <2>1, <2>2, <2>3, <1>g DEF RecoverCollision
<1>9. ASSUME NEW s \in Subs, Fail(s) PROVE Promise!Next \/ UNCHANGED Promise!catalogVars
  <2>1. /\ sub'[s].verdict = IF sub[s].verdict = "none" THEN "error" ELSE sub[s].verdict
        /\ sub'[s].content = sub[s].content /\ \A t \in Subs \ {s} : sub'[t] = sub[t]
    BY <1>9 DEF Fail, TypeInv, TypeOK, Submission
  <2>2. UNCHANGED rows /\ sub[s].content \in Contents
    BY <1>9 DEF Fail, libraryVars, TypeInv, Progress
  <2>3. CASE sub[s].verdict = "none"
    <3>1. /\ Promise!Answer(s, "error")
          /\ [t \in Subs |-> sub[t].content]' = [t \in Subs |-> sub[t].content]
      BY <2>1, <2>2, <2>3, Answers
    <3>2. [i \in Papers |-> EntryOf(i)]' = [i \in Papers |-> EntryOf(i)]
      BY <2>2 DEF EntryOf
    <3> QED
      BY <3>1, <3>2 DEF Promise!GiveUp, Promise!Next
  <2>4. CASE sub[s].verdict # "none"
    BY <2>1, <2>2, <2>4, UnseenOne
  <2> QED
    BY <2>3, <2>4
<1>10. ASSUME NEW i \in Papers, Trash(i) \/ Untrash(i) PROVE Promise!Next
  <2>1. PICK t \in BOOLEAN : i \in Stored /\ rows' = [rows EXCEPT ![i].trashed = t]
    BY <1>10 DEF Trash, Untrash, SoftDelete, Restore
  <2>2. rows[i] \in Row /\ rows[i] # NoRow
    BY <2>1 DEF TypeInv, TypeOK, Stored
  <2> DEFINE r == [rows[i] EXCEPT !.trashed = t]
  <2>3. r \in Row /\ r.content = rows[i].content /\ r.meta = rows[i].meta /\ r.trashed = t
    BY <2>2 DEF Row
  <2>4. rows'[i] = r /\ \A j \in Papers \ {i} : rows'[j] = rows[j]
    BY <2>1 DEF TypeInv, TypeOK
  <2> HIDE DEF r
  <2>5. r # NoRow
    BY <2>3, LibraryAssumption
  <2>6. EntryOf(i)' = [EntryOf(i) EXCEPT !.trashed = t]
    BY <2>2, <2>3, <2>4, <2>5 DEF EntryOf
  <2>7. [j \in Papers |-> EntryOf(j)]'
            = [[j \in Papers |-> EntryOf(j)] EXCEPT ![i].trashed = t]
    BY <2>4, <2>6 DEF EntryOf
  <2>8. UNCHANGED sub
    BY <1>10 DEF Trash, Untrash
  <2>9. Promise!SetTrashed(i) /\ i \in Promise!Listed
    BY <2>1, <2>7, <2>8, ListedIsStored DEF Promise!SetTrashed, TypeInv
  <2> QED
    BY <2>9 DEF Promise!Next
<1>11. CASE UNCHANGED vars
  BY <1>11, Unseen DEF vars
<1> QED
  BY <1>1, <1>2, <1>3, <1>4, <1>5, <1>6, <1>7, <1>8, <1>9, <1>10, <1>11 DEF Next, Step, Advance

\* However ingests interleave, fail and crash, each is answered as one atomic
\* step on a catalog in which bytes and identifiers are unique
\* (ingest_file_with_hint against Catalog).
THEOREM ImplementsCatalogHolds == Spec => ImplementsCatalog
<1>1. Init => CatalogInv /\ Promise!Init
  BY CatalogInvInit, CatalogInit
<1> QED
  BY <1>1, CatalogInvNext, CatalogNext, PTL DEF Spec, ImplementsCatalog, Promise!Spec

----------------------------------------------------------------------------
(* Re-filing.                                                              *)

\* The awaits before an edit has moved the PDF, or a purge removed it.
Early == {"idle", "match", "guard", "reresolve", "rekey", "create", "adopt", "fill",
          "purge_file"}

\* Which of an edit's locals are set at which await; the snapshot of a row read
\* as resolved stays so.
Fit(x) ==
    /\ x.pc \in Editing => x.paper \in Papers /\ x.snap \in Row
    /\ x.pc \in Editing /\ x.sure => x.snap.meta.resolved
    /\ x.pc = "guard" => x.meta \in Metas /\ x.meta.resolved
    /\ \/ x.pc \in {"create", "adopt", "fill"}
       \/ x.pc \in {"update", "rollback", "remove_old"} /\ x.from # NoPath
       => x.to \in Paths
    /\ x.pc = "purge_row" => x.from \in Paths \/ x.stayed = x.snap.path
    /\ x.pc \in Early => x.from = NoPath /\ x.stayed = NoPath
    /\ x.pc \in {"update", "rollback", "remove_old"} /\ x.from # NoPath => x.stayed = NoPath

EditTypeInv == edit \in [Edits -> Edit] /\ \A e \in Edits : Fit(edit[e])

RefileTypeInv == TypeInv /\ EditTypeInv

----------------------------------------------------------------------------
(* Types.                                                                  *)

LEMMA RefileTypeInit == RefileInit => RefileTypeInv
<1> SUFFICES ASSUME RefileInit PROVE RefileTypeInv
  OBVIOUS
<1>1. TypeInv
  BY TypeInvInit DEF RefileInit
<1>2. NoEdit \in Edit /\ Fit(NoEdit)
  BY DEF NoEdit, Edit, Fit, Editing, Early
<1> QED
  BY <1>1, <1>2 DEF RefileInit, RefileTypeInv, EditTypeInv

\* One edit's locals change.
LEMMA OneEdit ==
    ASSUME EditTypeInv, NEW e \in Edits, NEW x \in Edit, Fit(x),
           edit' = [edit EXCEPT ![e] = x]
    PROVE  EditTypeInv' /\ edit'[e] = x /\ \A f \in Edits \ {e} : edit'[f] = edit[f]
BY DEF EditTypeInv

LEMMA EndIs ==
    ASSUME EditTypeInv, NEW e \in Edits, NEW pc \in EditEnded, End(e, pc)
    PROVE  /\ EditTypeInv'
           /\ edit'[e].pc = pc
           /\ edit'[e].from = IF edit[e].pc = "purge_row" THEN edit[e].from ELSE NoPath
           /\ edit'[e].paper = IF edit[e].pc = "purge_row" THEN edit[e].paper ELSE Nobody
           /\ edit'[e].stayed = NoPath
           /\ \A f \in Edits \ {e} : edit'[f] = edit[f]
<1> DEFINE kept == IF edit[e].pc = "purge_row" THEN edit[e] ELSE NoEdit
           x == [NoEdit EXCEPT !.pc = pc, !.paper = kept.paper, !.from = kept.from]
<1>1. kept \in Edit /\ NoEdit \in Edit /\ NoEdit.stayed = NoPath
  BY DEF EditTypeInv, NoEdit, Edit
<1> HIDE DEF kept
<1>2. /\ x \in Edit /\ x.pc = pc /\ x.paper = kept.paper /\ x.from = kept.from
      /\ x.stayed = NoPath
  BY <1>1 DEF Edit, EditEnded
<1>4. edit' = [edit EXCEPT ![e] = x]
  BY DEF End, kept
<1>5. kept.from = IF edit[e].pc = "purge_row" THEN edit[e].from ELSE NoPath
  BY DEF NoEdit, kept
<1>6. kept.paper = IF edit[e].pc = "purge_row" THEN edit[e].paper ELSE Nobody
  BY DEF NoEdit, kept
<1> HIDE DEF x
<1>3. Fit(x)
  BY <1>2 DEF Fit, EditEnded, Editing, Early
<1>7. EditTypeInv' /\ edit'[e] = x /\ \A f \in Edits \ {e} : edit'[f] = edit[f]
  BY <1>2, <1>3, <1>4, OneEdit
<1> QED
  BY <1>2, <1>5, <1>6, <1>7

\* The last file an edit owns goes, or is refused and named in `stayed`.
LEMMA EndRemovingIs ==
    ASSUME EditTypeInv, NEW e \in Edits, NEW pc \in {"failed", "applied"},
           NEW p \in Paths \cup {NoPath}, EndRemoving(e, pc, p), edit[e].pc # "purge_row"
    PROVE  /\ EditTypeInv' /\ UNCHANGED <<rows, sub>>
           /\ edit'[e].pc = pc /\ edit'[e].from = NoPath
           /\ \A f \in Edits \ {e} : edit'[f] = edit[f]
           /\ \/ p = NoPath /\ UNCHANGED files
              \/ p # NoPath /\ Remove(p)
              \/ p # NoPath /\ UNCHANGED files /\ edit'[e].stayed = p
<1>1. CASE End(e, pc)
  <2>1. /\ UNCHANGED <<rows, sub>>
        /\ \/ p = NoPath /\ UNCHANGED files
           \/ p # NoPath /\ Remove(p)
           \/ /\ p # NoPath /\ UNCHANGED files
              /\ edit' = [edit EXCEPT ![e] = [NoEdit EXCEPT !.pc = pc, !.stayed = p]]
    BY DEF EndRemoving
  <2>2. /\ EditTypeInv' /\ edit'[e].pc = pc /\ edit'[e].from = NoPath
        /\ \A f \in Edits \ {e} : edit'[f] = edit[f]
    BY <1>1, EndIs DEF EditEnded
  <2>3. ASSUME edit' = [edit EXCEPT ![e] = [NoEdit EXCEPT !.pc = pc, !.stayed = p]]
        PROVE  edit'[e].stayed = p
    BY <2>3 DEF EditTypeInv, NoEdit
  <2> QED
    BY <2>1, <2>2, <2>3
<1>2. CASE /\ p # NoPath /\ UNCHANGED files
           /\ edit' = [edit EXCEPT ![e] = [NoEdit EXCEPT !.pc = pc, !.stayed = p]]
  <2> DEFINE x == [NoEdit EXCEPT !.pc = pc, !.stayed = p]
  <2>1. x \in Edit /\ x.pc = pc /\ x.from = NoPath /\ x.stayed = p
    BY DEF NoEdit, Edit, EditEnded
  <2>2. Fit(x)
    BY <2>1 DEF Fit, Editing, Early
  <2>3. edit' = [edit EXCEPT ![e] = x]
    BY <1>2
  <2> HIDE DEF x
  <2>4. EditTypeInv' /\ edit'[e] = x /\ \A f \in Edits \ {e} : edit'[f] = edit[f]
    BY <2>1, <2>2, <2>3, OneEdit
  <2> QED
    BY <1>2, <2>1, <2>4 DEF EndRemoving
<1> QED
  BY <1>1, <1>2 DEF EndRemoving

LEMMA EditGotoIs ==
    ASSUME EditTypeInv, NEW e \in Edits, NEW pc \in Editing, EditGoto(e, pc),
           edit[e].pc \in Editing, pc # "guard",
           \/ pc \in {"create", "adopt", "fill"}
           \/ pc \in {"update", "rollback", "remove_old"} /\ edit[e].from # NoPath
           => edit[e].to \in Paths,
           pc # "purge_row", pc \in Early => edit[e].from = NoPath /\ edit[e].stayed = NoPath,
           edit[e].from # NoPath => edit[e].stayed = NoPath
    PROVE  /\ EditTypeInv'
           /\ edit'[e] = [edit[e] EXCEPT !.pc = pc]
           /\ edit'[e].pc = pc /\ edit'[e].from = edit[e].from /\ edit'[e].to = edit[e].to
           /\ edit'[e].snap = edit[e].snap /\ edit'[e].paper = edit[e].paper
           /\ edit'[e].stayed = edit[e].stayed
           /\ \A f \in Edits \ {e} : edit'[f] = edit[f]
<1> DEFINE x == [edit[e] EXCEPT !.pc = pc]
<1>1. edit[e] \in Edit /\ Fit(edit[e])
  BY DEF EditTypeInv
<1>2. /\ x \in Edit /\ x.pc = pc /\ x.from = edit[e].from /\ x.to = edit[e].to
      /\ x.snap = edit[e].snap /\ x.paper = edit[e].paper
      /\ x.sure = edit[e].sure /\ x.stayed = edit[e].stayed
  BY <1>1 DEF Edit
<1>3. Fit(x)
  BY <1>1, <1>2 DEF Fit, Editing, Early
<1>4. edit' = [edit EXCEPT ![e] = x]
  BY DEF EditGoto, EditTypeInv
<1>5. EditTypeInv' /\ edit'[e] = x /\ \A f \in Edits \ {e} : edit'[f] = edit[f]
  BY <1>2, <1>3, <1>4, OneEdit
<1> QED
  BY <1>2, <1>5

\* The PDF has moved, in the snapshot.
LEMMA MovedIs ==
    ASSUME EditTypeInv, NEW e \in Edits, Moved(e), edit[e].pc \in {"adopt", "fill"}
    PROVE  /\ EditTypeInv'
           /\ edit'[e].pc = "update" /\ edit'[e].from = edit[e].snap.path
           /\ edit'[e].to = edit[e].to /\ edit'[e].paper = edit[e].paper
           /\ edit'[e].snap = [edit[e].snap EXCEPT !.path = edit[e].to]
           /\ \A f \in Edits \ {e} : edit'[f] = edit[f]
<1> DEFINE r == [edit[e].snap EXCEPT !.path = edit[e].to]
           x == [edit[e] EXCEPT !.pc = "update", !.from = edit[e].snap.path, !.snap = r]
<1>1. edit[e] \in Edit /\ Fit(edit[e])
  BY DEF EditTypeInv
<1>2. /\ edit[e].snap \in Row /\ edit[e].to \in Paths /\ edit[e].snap.path \in Paths
      /\ edit[e].paper \in Papers
  BY <1>1 DEF Fit, Editing, Row
<1>3. r \in Row /\ r.meta = edit[e].snap.meta
  BY <1>2 DEF Row
<1> HIDE DEF r
<1>4. /\ x \in Edit /\ x.sure = edit[e].sure /\ x.stayed = edit[e].stayed
      /\ x.pc = "update" /\ x.from = edit[e].snap.path /\ x.to = edit[e].to
      /\ x.paper = edit[e].paper /\ x.snap = r
  BY <1>1, <1>2, <1>3 DEF Edit, Editing
<1>5. Fit(x)
  BY <1>1, <1>2, <1>3, <1>4 DEF Fit, Early, Editing
<1>6. edit' = [edit EXCEPT ![e] = x]
  BY DEF Moved, EditTypeInv, r
<1> HIDE DEF x
<1>7. EditTypeInv' /\ edit'[e] = x /\ \A f \in Edits \ {e} : edit'[f] = edit[f]
  BY <1>4, <1>5, <1>6, OneEdit
<1> QED
  BY <1>4, <1>7 DEF r

\* The stores keep their types under an edit, which leaves submissions alone.
LEMMA StoresTyped ==
    ASSUME TypeInv, UNCHANGED sub,
           rows' \in [Papers -> Row \cup {NoRow}], files' \in [Paths -> FileStates]
    PROVE  TypeInv'
BY DEF TypeInv, TypeOK, Progress

LEMMA FileSet ==
    ASSUME TypeInv, NEW p \in Paths, NEW v \in FileStates, files' = [files EXCEPT ![p] = v]
    PROVE  /\ files' \in [Paths -> FileStates] /\ files'[p] = v
           /\ \A q \in Paths \ {p} : files'[q] = files[q]
BY DEF TypeInv, TypeOK

\* A paper is read.
LEMMA BeginIs ==
    ASSUME RefileTypeInv, NEW e \in Edits, NEW op, NEW i \in Stored, Begin(e, op, i, "match")
              \/ Begin(e, op, i, "reresolve") \/ Begin(e, op, i, "purge_file")
    PROVE  /\ EditTypeInv' /\ UNCHANGED <<rows, files, sub>>
           /\ edit[e].pc = "idle"
           /\ edit'[e].pc \in {"match", "reresolve", "purge_file"}
           /\ edit'[e].paper = i /\ edit'[e].snap = rows[i] /\ edit'[e].from = NoPath
           /\ edit'[e].to = edit[e].to
           /\ \A f \in Edits \ {e} : edit'[f] = edit[f]
<1>1. PICK pc \in {"match", "reresolve", "purge_file"} : Begin(e, op, i, pc)
  OBVIOUS
<1> DEFINE x == [edit[e] EXCEPT !.pc = pc, !.paper = i, !.snap = rows[i],
                             !.sure = rows[i].meta.resolved]
<1>2. /\ edit[e] \in Edit /\ edit[e].pc = "idle" /\ edit[e].from = NoPath
      /\ edit[e].stayed = NoPath
  BY <1>1 DEF RefileTypeInv, EditTypeInv, Fit, Begin, Early
<1>3. i \in Papers /\ rows[i] \in Row
  BY DEF RefileTypeInv, TypeInv, TypeOK, Stored
<1>r. rows[i].meta.resolved \in BOOLEAN
  BY <1>3, LibraryAssumption DEF Row, Meta
<1>4. /\ x \in Edit /\ x.pc = pc /\ x.paper = i /\ x.snap = rows[i] /\ x.from = NoPath
      /\ x.to = edit[e].to /\ x.sure = rows[i].meta.resolved /\ x.stayed = NoPath
  BY <1>2, <1>3, <1>r DEF Edit, Editing
<1>5. Fit(x)
  BY <1>3, <1>4 DEF Fit, Early
<1>6. edit' = [edit EXCEPT ![e] = x] /\ UNCHANGED <<rows, files, sub>>
  BY <1>1 DEF Begin, StoresUnchanged, RefileTypeInv, EditTypeInv
<1> HIDE DEF x
<1>7. EditTypeInv' /\ edit'[e] = x /\ \A f \in Edits \ {e} : edit'[f] = edit[f]
  BY <1>4, <1>5, <1>6, OneEdit DEF RefileTypeInv
<1> QED
  BY <1>2, <1>4, <1>6, <1>7

\* The metadata of an edit is decided: the snapshot keeps its bytes and path.
LEMMA DecideIs ==
    ASSUME RefileTypeInv, NEW e \in Edits, FindMatch(e) \/ GuardMatch(e) \/ ReResolve(e)
    PROVE  /\ EditTypeInv' /\ UNCHANGED <<rows, files, sub>>
           /\ \A f \in Edits \ {e} : edit'[f] = edit[f]
           /\ \/ edit'[e].pc = "refused" /\ edit'[e].from = NoPath
              \/ /\ edit'[e].pc \in {"guard", "rekey"}
                 /\ edit'[e].paper = edit[e].paper /\ edit'[e].from = edit[e].from
                 /\ edit'[e].snap.content = edit[e].snap.content
                 /\ edit'[e].snap.path = edit[e].snap.path
                 /\ \/ edit'[e].snap.meta = edit[e].snap.meta
                    \/ edit'[e].snap.meta.resolved \/ ~edit[e].snap.meta.resolved
           /\ edit[e].pc \in {"match", "guard", "reresolve"}
<1> DEFINE Meant(x) ==
      /\ x.pc \in {"guard", "rekey"}
      /\ x.paper = edit[e].paper /\ x.from = edit[e].from
      /\ x.snap.content = edit[e].snap.content /\ x.snap.path = edit[e].snap.path
      /\ \/ x.snap.meta = edit[e].snap.meta
         \/ x.snap.meta.resolved \/ ~edit[e].snap.meta.resolved
<1>e. edit[e] \in Edit /\ Fit(edit[e]) /\ EditTypeInv
  BY DEF RefileTypeInv, EditTypeInv
<1>p. edit[e].pc \in {"match", "guard", "reresolve"} /\ UNCHANGED <<rows, files, sub>>
  BY DEF FindMatch, GuardMatch, ReResolve, StoresUnchanged
<1>s. edit[e].paper \in Papers /\ edit[e].snap \in Row
  BY <1>e, <1>p DEF Fit, Editing
<1>r. ASSUME End(e, "refused")
      PROVE  /\ EditTypeInv' /\ \A f \in Edits \ {e} : edit'[f] = edit[f]
             /\ edit'[e].pc = "refused" /\ edit'[e].from = NoPath
  BY <1>e, <1>p, <1>r, EndIs DEF EditEnded
<1>1. CASE FindMatch(e)
  <2>1. CASE \E m \in {x \in Metas : x.resolved} :
               edit' = [edit EXCEPT ![e].pc = "guard", ![e].meta = m]
    <3>1. PICK m \in Metas :
            m.resolved /\ edit' = [edit EXCEPT ![e].pc = "guard", ![e].meta = m]
      BY <2>1
    <3> DEFINE x == [edit[e] EXCEPT !.pc = "guard", !.meta = m]
    <3>2. /\ x \in Edit /\ x.pc = "guard" /\ x.meta = m /\ x.snap = edit[e].snap
          /\ x.sure = edit[e].sure /\ x.stayed = edit[e].stayed
          /\ x.paper = edit[e].paper /\ x.from = edit[e].from
      BY <1>e DEF Edit, Editing
    <3>3. Fit(x)
      BY <1>e, <1>p, <1>s, <3>1, <3>2 DEF Fit, Early, Editing
    <3>4. edit' = [edit EXCEPT ![e] = x]
      BY <3>1 DEF RefileTypeInv, EditTypeInv
    <3> HIDE DEF x
    <3>5. EditTypeInv' /\ edit'[e] = x /\ \A f \in Edits \ {e} : edit'[f] = edit[f]
      BY <1>e, <3>2, <3>3, <3>4, OneEdit
    <3> QED
      BY <1>p, <3>2, <3>5
  <2>2. CASE End(e, "refused")
    BY <1>p, <1>r, <2>2
  <2> QED
    BY <1>1, <2>1, <2>2 DEF FindMatch
<1>k. ASSUME NEW m \in Metas, m.resolved \/ ~edit[e].snap.meta.resolved,
             edit' = [edit EXCEPT ![e].pc = "rekey", ![e].snap.meta = m]
      PROVE  /\ EditTypeInv' /\ \A f \in Edits \ {e} : edit'[f] = edit[f]
             /\ Meant(edit'[e])
  <2> DEFINE r == [edit[e].snap EXCEPT !.meta = m]
             x == [edit[e] EXCEPT !.pc = "rekey", !.snap = r]
  <2>1. /\ r \in Row /\ r.meta = m /\ r.content = edit[e].snap.content
        /\ r.path = edit[e].snap.path
    BY <1>s, LibraryAssumption DEF Row
  <2> HIDE DEF r
  <2>2. /\ x \in Edit /\ x.pc = "rekey" /\ x.snap = r
        /\ x.sure = edit[e].sure /\ x.stayed = edit[e].stayed
        /\ x.paper = edit[e].paper /\ x.from = edit[e].from
    BY <1>e, <2>1 DEF Edit, Editing
  <2>3. Fit(x)
    BY <1>e, <1>k, <1>p, <1>s, <2>1, <2>2 DEF Fit, Early, Editing
  <2>4. edit' = [edit EXCEPT ![e] = x]
    BY <1>k DEF RefileTypeInv, EditTypeInv, r
  <2> HIDE DEF x
  <2>5. EditTypeInv' /\ edit'[e] = x /\ \A f \in Edits \ {e} : edit'[f] = edit[f]
    BY <1>e, <2>2, <2>3, <2>4, OneEdit
  <2> QED
    BY <1>k, <2>1, <2>2, <2>5
<1>2. CASE GuardMatch(e)
  <2>1. CASE End(e, "refused")
    BY <1>p, <1>r, <2>1
  <2>2. CASE edit' = [edit EXCEPT ![e].pc = "rekey", ![e].snap.meta = edit[e].meta]
    <3>1. edit[e].meta \in Metas /\ edit[e].meta.resolved
      BY <1>e, <1>2 DEF GuardMatch, Fit
    <3> QED
      BY <1>p, <1>k, <2>2, <3>1
  <2> QED
    BY <1>2, <2>1, <2>2 DEF GuardMatch
<1>3. CASE ReResolve(e)
  <2>1. CASE End(e, "refused")
    BY <1>p, <1>r, <2>1
  <2>2. CASE EditGoto(e, "rekey")
    BY <1>e, <1>p, <2>2, EditGotoIs DEF Editing, Early, Fit
  <2>3. CASE \E m \in Metas : /\ m.resolved \/ ~edit[e].snap.meta.resolved
                             /\ edit' = [edit EXCEPT ![e].pc = "rekey", ![e].snap.meta = m]
    BY <1>p, <1>k, <2>3
  <2> QED
    BY <1>3, <2>1, <2>2, <2>3 DEF ReResolve
<1> QED
  BY <1>1, <1>2, <1>3

\* The path an edit's metadata imply.
LEMMA RekeyIs ==
    ASSUME RefileTypeInv, NEW e \in Edits, Rekey(e)
    PROVE  /\ EditTypeInv' /\ UNCHANGED <<rows, files, sub>> /\ edit[e].pc = "rekey"
           /\ \A f \in Edits \ {e} : edit'[f] = edit[f]
           /\ edit'[e].to \in Paths
           /\ edit'[e].pc = IF edit'[e].to = edit[e].snap.path THEN "update" ELSE "create"
           /\ edit'[e].to \in Contents => edit'[e].to = edit[e].snap.content
           /\ edit'[e].paper = edit[e].paper /\ edit'[e].from = edit[e].from
           /\ edit'[e].snap = edit[e].snap
<1>e. edit[e] \in Edit /\ Fit(edit[e]) /\ EditTypeInv /\ edit[e].pc = "rekey"
  BY DEF RefileTypeInv, EditTypeInv, Rekey
<1>1. PICK p \in Paths :
        /\ IF edit[e].snap.meta.base = NoBase THEN p = edit[e].snap.content
           ELSE Disambiguated(edit[e].snap.meta.base, CiteKeysTaken({edit[e].paper}), p)
        /\ edit' = [edit EXCEPT ![e].to = p,
                       ![e].pc = IF p = edit[e].snap.path THEN "update" ELSE "create"]
  BY DEF Rekey
<1>s. /\ edit[e].paper \in Papers /\ edit[e].snap \in Row /\ edit[e].from = NoPath
      /\ edit[e].stayed = NoPath /\ (edit[e].sure => edit[e].snap.meta.resolved)
  BY <1>e DEF Fit, Editing, Early
<1>2. p \in Contents => p = edit[e].snap.content
  <2>1. CASE edit[e].snap.meta.base # NoBase
    <3>1. edit[e].snap.meta.base \in Bases
      BY <1>s, <2>1, LibraryAssumption DEF Row, Meta
    <3>2. Variants[edit[e].snap.meta.base] \in Seq(Keys)
      BY <3>1, LibraryAssumption
    <3>3. p \in Keys
      BY <1>1, <2>1, <3>2 DEF Disambiguated
    <3> QED
      BY <3>3, LibraryAssumption
  <2> QED
    BY <1>1, <2>1
<1> DEFINE pc == IF p = edit[e].snap.path THEN "update" ELSE "create"
           x == [edit[e] EXCEPT !.to = p, !.pc = pc]
<1>3. pc \in {"update", "create"}
  OBVIOUS
<1> HIDE DEF pc
<1>4. /\ x \in Edit /\ x.pc = pc /\ x.to = p /\ x.from = edit[e].from
      /\ x.sure = edit[e].sure /\ x.stayed = edit[e].stayed
      /\ x.snap = edit[e].snap /\ x.paper = edit[e].paper
  BY <1>e, <1>3 DEF Edit, Editing
<1>5. Fit(x)
  BY <1>s, <1>3, <1>4 DEF Fit, Early
<1>6. edit' = [edit EXCEPT ![e] = x]
  BY <1>1, <1>e DEF EditTypeInv, pc
<1> HIDE DEF x
<1>7. EditTypeInv' /\ edit'[e] = x /\ \A f \in Edits \ {e} : edit'[f] = edit[f]
  BY <1>e, <1>4, <1>5, <1>6, OneEdit
<1> QED
  BY <1>e, <1>2, <1>4, <1>7 DEF Rekey, StoresUnchanged, pc

\* An edit's steps from the copy on keep its paper, and what they do to the
\* snapshot is the move.
LEMMA CopyingIs ==
    ASSUME RefileTypeInv, NEW e \in Edits,
           CreateCopy(e) \/ AdoptOrLeave(e) \/ CopyOld(e) \/ CopyOldFails(e)
    PROVE  /\ EditTypeInv' /\ UNCHANGED <<rows, sub>>
           /\ edit[e].pc \in {"create", "adopt", "fill"}
           /\ edit[e].from = NoPath /\ edit[e].to \in Paths /\ edit[e].snap \in Row
           /\ \A f \in Edits \ {e} : edit'[f] = edit[f]
           /\ edit'[e].paper = edit[e].paper /\ edit'[e].to = edit[e].to
           /\ \/ /\ edit'[e].snap = edit[e].snap /\ edit'[e].from = NoPath
                 /\ \/ /\ edit[e].pc = "create" /\ edit'[e].pc = "fill"
                       /\ CreateNew(e, edit[e].to)
                    \/ /\ edit[e].pc = "create" /\ edit'[e].pc = "adopt" /\ UNCHANGED files
                    \/ /\ edit[e].pc = "adopt" /\ edit'[e].pc = "update" /\ UNCHANGED files
                    \/ /\ edit[e].pc = "fill" /\ edit'[e].pc = "update"
                       /\ Remove(edit[e].to)
                    \/ /\ edit[e].pc = "fill" /\ edit'[e].pc = "update" /\ UNCHANGED files
                       /\ edit[e].stayed = NoPath /\ edit'[e].stayed = edit[e].to
              \/ /\ edit'[e].snap = [edit[e].snap EXCEPT !.path = edit[e].to]
                 /\ edit'[e].from = edit[e].snap.path /\ edit'[e].pc = "update"
                 /\ \/ /\ edit[e].pc = "adopt" /\ UNCHANGED files
                       /\ files[edit[e].to] = edit[e].snap.content
                    \/ /\ edit[e].pc = "fill"
                       /\ LET bytes == files[edit[e].snap.path] IN
                          Fill(e, edit[e].to, IF bytes \in Contents THEN bytes ELSE e)
<1>e. edit[e] \in Edit /\ Fit(edit[e]) /\ EditTypeInv
  BY DEF RefileTypeInv, EditTypeInv
<1>p. edit[e].pc \in {"create", "adopt", "fill"}
  BY DEF CreateCopy, AdoptOrLeave, CopyOld, CopyOldFails
<1>s. /\ edit[e].from = NoPath /\ edit[e].to \in Paths /\ edit[e].snap \in Row
      /\ edit[e].stayed = NoPath
  BY <1>e, <1>p DEF Fit, Early, Editing
<1>g. ASSUME NEW pc \in {"adopt", "fill", "update"}, EditGoto(e, pc)
      PROVE  /\ EditTypeInv' /\ edit'[e].pc = pc /\ edit'[e].from = NoPath
             /\ edit'[e].to = edit[e].to
             /\ edit'[e].snap = edit[e].snap /\ edit'[e].paper = edit[e].paper
             /\ \A f \in Edits \ {e} : edit'[f] = edit[f]
  BY <1>e, <1>p, <1>s, <1>g, EditGotoIs DEF Editing
<1>1. CASE CreateCopy(e)
  <2>1. CASE CreateNew(e, edit[e].to) /\ EditGoto(e, "fill")
    BY <1>1, <1>g, <1>s, <2>1 DEF CreateCopy
  <2>2. CASE EditGoto(e, "adopt") /\ UNCHANGED files
    BY <1>1, <1>g, <1>s, <2>2 DEF CreateCopy
  <2> QED
    BY <1>1, <2>1, <2>2 DEF CreateCopy
<1>2. CASE AdoptOrLeave(e)
  <2>1. CASE files[edit[e].to] = edit[e].snap.content
    <3>1. Moved(e) /\ edit[e].pc = "adopt" /\ UNCHANGED <<rows, files, sub>>
      BY <1>2, <2>1 DEF AdoptOrLeave, StoresUnchanged
    <3> QED
      BY <1>e, <1>s, <2>1, <3>1, MovedIs
  <2>2. CASE files[edit[e].to] # edit[e].snap.content
    <3>1. EditGoto(e, "update") /\ edit[e].pc = "adopt" /\ UNCHANGED <<rows, files, sub>>
      BY <1>2, <2>2 DEF AdoptOrLeave, StoresUnchanged
    <3> QED
      BY <1>g, <1>s, <3>1
  <2> QED
    BY <2>1, <2>2
<1>3. CASE CopyOld(e)
  <2>1. Moved(e) /\ edit[e].pc = "fill" /\ UNCHANGED <<rows, sub>>
    BY <1>3 DEF CopyOld
  <2>2. LET bytes == files[edit[e].snap.path] IN
        Fill(e, edit[e].to, IF bytes \in Contents THEN bytes ELSE e)
    BY <1>3 DEF CopyOld
  <2> QED
    BY <1>e, <1>s, <2>1, <2>2, MovedIs
<1>4. CASE CopyOldFails(e)
  <2>1. edit[e].pc = "fill" /\ UNCHANGED <<rows, sub>>
    BY <1>4 DEF CopyOldFails
  <2>2. CASE Remove(edit[e].to) /\ EditGoto(e, "update")
    BY <1>g, <1>s, <2>1, <2>2
  <2>3. CASE /\ edit' = [edit EXCEPT ![e].pc = "update", ![e].stayed = edit[e].to]
             /\ UNCHANGED files
    <3> DEFINE x == [edit[e] EXCEPT !.pc = "update", !.stayed = edit[e].to]
    <3>1. /\ x \in Edit /\ x.pc = "update" /\ x.stayed = edit[e].to /\ x.from = NoPath
          /\ x.to = edit[e].to /\ x.snap = edit[e].snap /\ x.paper = edit[e].paper
          /\ x.sure = edit[e].sure
      BY <1>e, <1>s DEF Edit, Editing
    <3>2. Fit(x)
      BY <1>e, <1>s, <2>1, <3>1 DEF Fit, Editing, Early
    <3>3. edit' = [edit EXCEPT ![e] = x]
      BY <1>e, <2>3 DEF EditTypeInv
    <3> HIDE DEF x
    <3>4. EditTypeInv' /\ edit'[e] = x /\ \A f \in Edits \ {e} : edit'[f] = edit[f]
      BY <1>e, <3>1, <3>2, <3>3, OneEdit
    <3> QED
      BY <1>s, <2>1, <2>3, <3>1, <3>4
  <2> QED
    BY <1>4, <2>2, <2>3 DEF CopyOldFails
<1> QED
  BY <1>1, <1>2, <1>3, <1>4

\* The UPDATE and what follows it.
LEMMA FinishingIs ==
    ASSUME RefileTypeInv, NEW e \in Edits,
           Update(e) \/ UpdateFails(e) \/ Rollback(e) \/ RemoveOld(e)
    PROVE  /\ EditTypeInv' /\ UNCHANGED sub
           /\ edit[e].paper \in Papers /\ edit[e].snap \in Row
           /\ edit[e].from # NoPath => edit[e].from \in Paths /\ edit[e].to \in Paths
           /\ \A f \in Edits \ {e} : edit'[f] = edit[f]
           /\ \/ /\ edit[e].pc = "update" /\ UNCHANGED files
                 /\ edit'[e].paper = edit[e].paper /\ edit'[e].snap = edit[e].snap
                 /\ edit'[e].from = edit[e].from /\ edit'[e].to = edit[e].to
                 /\ \/ edit'[e].pc = "rollback" /\ UNCHANGED rows
                    \/ /\ edit'[e].pc = "remove_old"
                       /\ rows' = IF edit[e].paper \in Stored
                                  THEN [rows EXCEPT ![edit[e].paper] = edit[e].snap] ELSE rows
              \/ /\ edit[e].pc = "rollback" /\ edit'[e].pc = "failed" /\ UNCHANGED rows
                 /\ edit'[e].from = NoPath
                 /\ \/ edit[e].from = NoPath /\ UNCHANGED files
                    \/ edit[e].from # NoPath /\ Remove(edit[e].to)
                    \/ /\ edit[e].from # NoPath /\ UNCHANGED files
                       /\ edit[e].stayed = NoPath /\ edit'[e].stayed = edit[e].to
              \/ /\ edit[e].pc = "remove_old" /\ edit'[e].pc = "applied" /\ UNCHANGED rows
                 /\ edit'[e].from = NoPath
                 /\ \/ edit[e].from = NoPath /\ UNCHANGED files
                    \/ edit[e].from # NoPath /\ Remove(edit[e].from)
                    \/ /\ edit[e].from # NoPath /\ UNCHANGED files
                       /\ edit[e].stayed = NoPath /\ edit'[e].stayed = edit[e].from
<1>e. edit[e] \in Edit /\ Fit(edit[e]) /\ EditTypeInv
  BY DEF RefileTypeInv, EditTypeInv
<1>p. edit[e].pc \in {"update", "rollback", "remove_old"} /\ UNCHANGED sub
  BY DEF Update, UpdateFails, Rollback, RemoveOld, EndRemoving, StoresUnchanged
<1>s. /\ edit[e].paper \in Papers /\ edit[e].snap \in Row
      /\ edit[e].from # NoPath =>
            edit[e].from \in Paths /\ edit[e].to \in Paths /\ edit[e].stayed = NoPath
  <2>1. edit[e].from # NoPath => edit[e].from \in Paths
    BY <1>e DEF Edit
  <2> QED
    BY <1>e, <1>p, <2>1 DEF Fit, Editing
<1>g. ASSUME NEW pc \in {"rollback", "remove_old"}, EditGoto(e, pc)
      PROVE  /\ EditTypeInv' /\ edit'[e].pc = pc /\ edit'[e].from = edit[e].from
             /\ edit'[e].to = edit[e].to
             /\ edit'[e].snap = edit[e].snap /\ edit'[e].paper = edit[e].paper
             /\ \A f \in Edits \ {e} : edit'[f] = edit[f]
  BY <1>e, <1>p, <1>s, <1>g, EditGotoIs DEF Editing, Early
<1>1. CASE Update(e)
  <2>1. edit[e].pc = "update" /\ UNCHANGED files
    BY <1>1 DEF Update
  <2>2. CASE EditGoto(e, "rollback") /\ UNCHANGED rows
    BY <1>g, <1>p, <1>s, <2>1, <2>2
  <2>3. CASE /\ rows' = IF edit[e].paper \in Stored
                        THEN [rows EXCEPT ![edit[e].paper] = edit[e].snap] ELSE rows
             /\ EditGoto(e, "remove_old")
    BY <1>g, <1>p, <1>s, <2>1, <2>3
  <2> QED
    BY <1>1, <2>2, <2>3 DEF Update
<1>2. CASE UpdateFails(e)
  BY <1>2, <1>g, <1>p, <1>s DEF UpdateFails, StoresUnchanged
<1>3. CASE Rollback(e)
  <2> DEFINE p == IF edit[e].from = NoPath THEN NoPath ELSE edit[e].to
  <2>1. edit[e].pc = "rollback" /\ EndRemoving(e, "failed", p) /\ p \in Paths \cup {NoPath}
    BY <1>3, <1>s DEF Rollback
  <2>2. edit[e].from # NoPath => p = edit[e].to /\ p # NoPath
    BY <1>s, IngestAssumption
  <2>3. edit[e].from = NoPath => p = NoPath
    OBVIOUS
  <2> HIDE DEF p
  <2>4. /\ EditTypeInv' /\ UNCHANGED <<rows, sub>>
        /\ edit'[e].pc = "failed" /\ edit'[e].from = NoPath
        /\ \A f \in Edits \ {e} : edit'[f] = edit[f]
        /\ \/ p = NoPath /\ UNCHANGED files
           \/ p # NoPath /\ Remove(p)
           \/ p # NoPath /\ UNCHANGED files /\ edit'[e].stayed = p
    BY <1>e, <2>1, EndRemovingIs
  <2> QED
    BY <1>s, <2>1, <2>2, <2>3, <2>4
<1>4. CASE RemoveOld(e)
  <2>1. /\ edit[e].pc = "remove_old" /\ EndRemoving(e, "applied", edit[e].from)
        /\ edit[e].from \in Paths \cup {NoPath}
    BY <1>4, <1>s DEF RemoveOld
  <2>2. /\ EditTypeInv' /\ UNCHANGED <<rows, sub>>
        /\ edit'[e].pc = "applied" /\ edit'[e].from = NoPath
        /\ \A f \in Edits \ {e} : edit'[f] = edit[f]
        /\ \/ edit[e].from = NoPath /\ UNCHANGED files
           \/ edit[e].from # NoPath /\ Remove(edit[e].from)
           \/ edit[e].from # NoPath /\ UNCHANGED files /\ edit'[e].stayed = edit[e].from
    BY <1>e, <2>1, EndRemovingIs
  <2> QED
    BY <1>s, <2>1, <2>2
<1> QED
  BY <1>1, <1>2, <1>3, <1>4

\* A purge's two deletions, and a process that dies.
LEMMA PurgeFileIs ==
    ASSUME RefileTypeInv, NEW e \in Edits, PurgeFile(e)
    PROVE  /\ EditTypeInv' /\ UNCHANGED <<rows, sub>>
           /\ edit[e].pc = "purge_file" /\ edit'[e].pc = "purge_row"
           /\ edit[e].snap \in Row
           /\ edit'[e].paper = edit[e].paper /\ edit'[e].snap = edit[e].snap
           /\ edit'[e].to = edit[e].to
           /\ \/ Remove(edit[e].snap.path) /\ edit'[e].from = edit[e].snap.path
              \/ UNCHANGED files /\ edit'[e].from = NoPath
           /\ \A f \in Edits \ {e} : edit'[f] = edit[f]
<1>1. edit[e] \in Edit /\ Fit(edit[e]) /\ EditTypeInv /\ edit[e].pc = "purge_file"
  BY DEF RefileTypeInv, EditTypeInv, PurgeFile
<1>2. /\ edit[e].paper \in Papers /\ edit[e].snap \in Row /\ edit[e].snap.path \in Paths
      /\ edit[e].from = NoPath /\ (edit[e].sure => edit[e].snap.meta.resolved)
  BY <1>1 DEF Fit, Editing, Early, Row
<1>3. CASE /\ Remove(edit[e].snap.path)
           /\ edit' = [edit EXCEPT ![e].pc = "purge_row", ![e].from = edit[e].snap.path]
  <2> DEFINE x == [edit[e] EXCEPT !.pc = "purge_row", !.from = edit[e].snap.path]
  <2>1. /\ x \in Edit /\ x.pc = "purge_row" /\ x.from = edit[e].snap.path
        /\ x.paper = edit[e].paper /\ x.snap = edit[e].snap /\ x.to = edit[e].to
        /\ x.sure = edit[e].sure
    BY <1>1, <1>2 DEF Edit, Editing
  <2>2. Fit(x)
    BY <1>2, <2>1 DEF Fit, Early
  <2>3. edit' = [edit EXCEPT ![e] = x]
    BY <1>1, <1>3 DEF EditTypeInv
  <2> HIDE DEF x
  <2>4. EditTypeInv' /\ edit'[e] = x /\ \A f \in Edits \ {e} : edit'[f] = edit[f]
    BY <1>1, <2>1, <2>2, <2>3, OneEdit
  <2> QED
    BY <1>1, <1>2, <1>3, <2>1, <2>4 DEF PurgeFile
<1>4. CASE /\ UNCHANGED files
           /\ edit' = [edit EXCEPT ![e].pc = "purge_row", ![e].stayed = edit[e].snap.path]
  <2> DEFINE x == [edit[e] EXCEPT !.pc = "purge_row", !.stayed = edit[e].snap.path]
  <2>1. /\ x \in Edit /\ x.pc = "purge_row" /\ x.from = NoPath
        /\ x.stayed = edit[e].snap.path
        /\ x.paper = edit[e].paper /\ x.snap = edit[e].snap /\ x.to = edit[e].to
        /\ x.sure = edit[e].sure
    BY <1>1, <1>2 DEF Edit, Editing
  <2>2. Fit(x)
    BY <1>2, <2>1 DEF Fit, Early
  <2>3. edit' = [edit EXCEPT ![e] = x]
    BY <1>1, <1>4 DEF EditTypeInv
  <2> HIDE DEF x
  <2>4. EditTypeInv' /\ edit'[e] = x /\ \A f \in Edits \ {e} : edit'[f] = edit[f]
    BY <1>1, <2>1, <2>2, <2>3, OneEdit
  <2> QED
    BY <1>1, <1>2, <1>4, <2>1, <2>4 DEF PurgeFile
<1> QED
  BY <1>3, <1>4 DEF PurgeFile

LEMMA PurgeRowIs ==
    ASSUME RefileTypeInv, NEW e \in Edits, PurgeRow(e) \/ EditCrash(e)
    PROVE  /\ EditTypeInv' /\ UNCHANGED <<files, sub>>
           /\ edit[e].pc \in Editing
           /\ edit'[e].from = IF edit[e].pc = "purge_row" THEN edit[e].from ELSE NoPath
           /\ \A f \in Edits \ {e} : edit'[f] = edit[f]
           /\ \/ /\ edit[e].pc = "purge_row" /\ edit'[e].pc = "applied"
                 /\ rows' = [rows EXCEPT ![edit[e].paper] = NoRow]
              \/ edit'[e].pc \in {"failed", "crashed"} /\ UNCHANGED rows
<1>1. EditTypeInv
  BY DEF RefileTypeInv
<1>2. CASE PurgeRow(e)
  <2>1. /\ edit[e].pc = "purge_row" /\ UNCHANGED <<files, sub>>
        /\ \/ rows' = [rows EXCEPT ![edit[e].paper] = NoRow] /\ End(e, "applied")
           \/ End(e, "failed") /\ UNCHANGED rows
    BY <1>2 DEF PurgeRow
  <2> QED
    BY <1>1, <2>1, EndIs DEF EditEnded, Editing
<1>3. CASE EditCrash(e)
  <2>1. edit[e].pc \in Editing /\ End(e, "crashed") /\ UNCHANGED <<rows, files, sub>>
    BY <1>3 DEF EditCrash, StoresUnchanged
  <2> QED
    BY <1>1, <2>1, EndIs DEF EditEnded
<1> QED
  BY <1>2, <1>3

\* One step per group of actions.
LEMMA RefileTypeNext == RefileTypeInv /\ [RefileNext]_refileVars => RefileTypeInv'
<1> SUFFICES ASSUME RefileTypeInv, [RefileNext]_refileVars PROVE RefileTypeInv'
  OBVIOUS
<1>t. TypeInv /\ EditTypeInv /\ rows \in [Papers -> Row \cup {NoRow}]
  BY DEF RefileTypeInv, TypeInv, TypeOK
<1>w. \A e \in Edits : e \in FileStates /\ Absent \in FileStates /\ Contents \subseteq FileStates
  BY RefileAssumption DEF FileStates
<1>u. ASSUME UNCHANGED <<rows, files, sub>>, EditTypeInv' PROVE RefileTypeInv'
  BY <1>u DEF RefileTypeInv, TypeInv, TypeOK, Progress
<1>f. ASSUME NEW p \in Paths, NEW v \in FileStates, files' = [files EXCEPT ![p] = v],
             UNCHANGED <<rows, sub>>, EditTypeInv'
      PROVE  RefileTypeInv'
  BY <1>f, <1>t, FileSet, StoresTyped DEF RefileTypeInv
<1>r. ASSUME rows' \in [Papers -> Row \cup {NoRow}], UNCHANGED <<files, sub>>, EditTypeInv'
      PROVE  RefileTypeInv'
  <2>1. files' \in [Paths -> FileStates]
    BY <1>r, <1>t DEF TypeInv, TypeOK
  <2> QED
    BY <1>r, <1>t, <2>1, StoresTyped DEF RefileTypeInv
<1>1. CASE Next /\ UNCHANGED edit
  BY <1>1, <1>t, TypeInvNext DEF RefileTypeInv, EditTypeInv
<1>2. ASSUME NEW e \in Edits, NEW i \in Stored, BeginIdentify(e, i) \/ BeginRefresh(e, i) \/ BeginPurge(e, i)
      PROVE  RefileTypeInv'
  <2>1. PICK op : Begin(e, op, i, "match") \/ Begin(e, op, i, "reresolve")
                    \/ Begin(e, op, i, "purge_file")
    BY <1>2 DEF BeginIdentify, BeginRefresh, BeginPurge
  <2> QED
    BY <1>u, <2>1, BeginIs
<1>3. ASSUME NEW e \in Edits, FindMatch(e) \/ GuardMatch(e) \/ ReResolve(e) PROVE RefileTypeInv'
  BY <1>3, <1>u, DecideIs
<1>4. ASSUME NEW e \in Edits, Rekey(e) PROVE RefileTypeInv'
  BY <1>4, <1>u, RekeyIs
<1>5. ASSUME NEW e \in Edits, CreateCopy(e) \/ AdoptOrLeave(e) \/ CopyOld(e) \/ CopyOldFails(e)
      PROVE  RefileTypeInv'
  <2>1. EditTypeInv' /\ UNCHANGED <<rows, sub>> /\ edit[e].to \in Paths
    BY <1>5, CopyingIs
  <2>2. \/ UNCHANGED files \/ CreateNew(e, edit[e].to) \/ Remove(edit[e].to)
        \/ LET bytes == files[edit[e].snap.path] IN
           Fill(e, edit[e].to, IF bytes \in Contents THEN bytes ELSE e)
    BY <1>5, CopyingIs
  <2>3. \/ UNCHANGED files
        \/ \E v \in FileStates : files' = [files EXCEPT ![edit[e].to] = v]
    BY <1>w, <2>2 DEF CreateNew, Remove, Fill
  <2> QED
    BY <1>f, <1>u, <2>1, <2>3
<1>6. ASSUME NEW e \in Edits, Update(e) \/ UpdateFails(e) \/ Rollback(e) \/ RemoveOld(e)
      PROVE  RefileTypeInv'
  <2>1. /\ EditTypeInv' /\ UNCHANGED sub /\ edit[e].snap \in Row
        /\ edit[e].from # NoPath => edit[e].from \in Paths /\ edit[e].to \in Paths
    BY <1>6, FinishingIs
  <2>2. \/ /\ UNCHANGED files
           /\ UNCHANGED rows \/ rows' = IF edit[e].paper \in Stored
                         THEN [rows EXCEPT ![edit[e].paper] = edit[e].snap] ELSE rows
        \/ /\ UNCHANGED rows
           /\ \/ UNCHANGED files
              \/ edit[e].from # NoPath /\ (Remove(edit[e].to) \/ Remove(edit[e].from))
    BY <1>6, FinishingIs
  <2>3. \/ UNCHANGED files /\ rows' \in [Papers -> Row \cup {NoRow}]
        \/ UNCHANGED rows /\ \E p \in Paths : files' = [files EXCEPT ![p] = Absent]
    BY <1>t, <2>1, <2>2 DEF Remove
  <2> QED
    BY <1>f, <1>r, <1>w, <1>6, <2>1, <2>3
<1>7. ASSUME NEW e \in Edits, PurgeFile(e) PROVE RefileTypeInv'
  <2>1. /\ EditTypeInv' /\ UNCHANGED <<rows, sub>> /\ edit[e].snap.path \in Paths
        /\ UNCHANGED files \/ files' = [files EXCEPT ![edit[e].snap.path] = Absent]
    BY <1>7, PurgeFileIs DEF Remove, Row
  <2> QED
    BY <1>f, <1>u, <1>w, <2>1
<1>8. ASSUME NEW e \in Edits, PurgeRow(e) \/ EditCrash(e) PROVE RefileTypeInv'
  <2>1. /\ EditTypeInv' /\ UNCHANGED <<files, sub>>
        /\ UNCHANGED rows \/ rows' = [rows EXCEPT ![edit[e].paper] = NoRow]
    BY <1>8, PurgeRowIs
  <2> QED
    BY <1>r, <1>t, <2>1
<1>9. CASE UNCHANGED refileVars
  BY <1>9, <1>u, <1>t DEF refileVars, EditTypeInv
<1> QED
  BY <1>1, <1>2, <1>3, <1>4, <1>5, <1>6, <1>7, <1>8, <1>9 DEF RefileNext, EditStep

\* Both stores, the submissions and every edit's locals keep their types,
\* whatever edits and ingests overlap, fail and crash.
THEOREM RefileTypeHolds == RefileSpec => []RefileTypeOK
<1>1. RefileTypeInv => RefileTypeOK
  BY DEF RefileTypeInv, RefileTypeOK, TypeInv, EditTypeInv
<1> QED
  BY <1>1, RefileTypeInit, RefileTypeNext, PTL DEF RefileSpec

----------------------------------------------------------------------------
(* The steps of an ingest, by what they do to rows and files.              *)

\* From the look-up of its hash to its answer.
Racing == {"resolve", "identify", "keys", "copy", "fill", "insert", "cleanup"}
Over == {"dispose", "fail"} \cup Ended

\* It holds the file at its path, died with it, or could not remove it.
Liable(s) == sub[s].pc \in Holding \cup {"crashed"} \/ sub[s].stayed

\* Its path stays, and what became of the file there.
KeepsPath(s) == sub'[s].path = sub[s].path /\ sub'[s].stayed = sub[s].stayed

\* It looks, resolves, fails, answers or disposes: nothing is touched.
Looks(s) ==
    /\ UNCHANGED <<rows, files>> /\ KeepsPath(s)
    /\ sub[s].pc \in Over \cup {"recover"} => sub'[s].pc \in Over
    /\ sub'[s].pc \in Racing =>
         /\ sub'[s].content = sub[s].content
         /\ \/ sub[s].pc \in Racing
            \/ sub[s].pc = "hash" /\ WithHash(sub[s].content) = {}
    /\ sub'[s].pc \in Holding =>
         sub[s].pc = "insert" /\ sub'[s].pc = "cleanup"
    /\ sub[s].pc \in Holding \cup {"crashed"} => sub'[s].pc \in Holding \cup {"crashed"}

Creates(s) ==
    /\ UNCHANGED rows /\ sub[s].pc = "copy" /\ sub'[s].pc = "fill"
    /\ sub'[s].content = sub[s].content /\ sub'[s].stayed = sub[s].stayed
    /\ \/ sub'[s].path \in Keys /\ CreateNew(s, sub'[s].path)
       \/ sub'[s].path = sub[s].content /\ Truncate(s, sub[s].content)

Finishes(s) ==
    /\ UNCHANGED rows /\ sub[s].pc = "fill" /\ sub'[s].pc = "insert"
    /\ sub'[s].content = sub[s].content /\ KeepsPath(s)
    /\ Fill(s, sub[s].path, sub[s].content)

Discards(s) ==
    /\ UNCHANGED rows /\ sub[s].pc \in {"fill", "cleanup"} /\ sub'[s].pc \in {"fail", "recover"}
    /\ sub'[s].path = sub[s].path
    /\ \/ sub[s].path \in Keys /\ Remove(sub[s].path)
       \/ UNCHANGED files /\ (sub[s].path \in Keys => sub'[s].stayed)

Inserts(s) ==
    /\ UNCHANGED files /\ sub[s].pc = "insert" /\ sub'[s].pc = "dispose"
    /\ Unique(s, sub[s].content, sub[s].meta)
    /\ rows' = [rows EXCEPT ![s] = [content |-> sub[s].content, path |-> sub[s].path,
                                    meta |-> sub[s].meta, trashed |-> FALSE]]

LEMMA GotoIs ==
    ASSUME TypeInv, NEW s \in Subs, NEW pc, Goto(s, pc)
    PROVE  /\ sub'[s].pc = pc /\ sub'[s].content = sub[s].content /\ KeepsPath(s)
           /\ \A t \in Subs \ {s} : sub'[t] = sub[t]
BY DEF Goto, KeepsPath, TypeInv, TypeOK, Submission

LEMMA ConcludeIs ==
    ASSUME TypeInv, NEW s \in Subs, NEW verdict, Conclude(s, verdict)
    PROVE  /\ sub'[s].pc = "dispose" /\ KeepsPath(s)
           /\ \A t \in Subs \ {s} : sub'[t] = sub[t]
BY DEF Conclude, KeepsPath, TypeInv, TypeOK, Submission

LEMMA OpenedIs ==
    ASSUME TypeInv, NEW s \in Subs, NEW p, Opened(s, p)
    PROVE  /\ sub'[s].pc = "fill" /\ sub'[s].content = sub[s].content /\ sub'[s].path = p
           /\ sub'[s].stayed = sub[s].stayed
           /\ \A t \in Subs \ {s} : sub'[t] = sub[t]
BY DEF Opened, TypeInv, TypeOK, Submission

LEMMA SubStepIs ==
    ASSUME TypeInv, NEW s \in Subs, Submit(s) \/ Step(s) \/ Crash(s)
    PROVE  /\ \A t \in Subs \ {s} : sub'[t] = sub[t]
           /\ Looks(s) \/ Creates(s) \/ Finishes(s) \/ Discards(s) \/ Inserts(s)
<1> DEFINE Moves == \A t \in Subs \ {s} : sub'[t] = sub[t]
<1> USE DEF Racing, Over, Holding, KeepsPath, Ended
<1>t. sub[s] \in Submission /\ sub \in [Subs -> Submission]
  BY DEF TypeInv, TypeOK
<1>c. ASSUME NEW verdict, Conclude(s, verdict), UNCHANGED libraryVars,
             sub[s].pc \notin Holding \cup {"crashed"}
      PROVE  Moves /\ Looks(s)
  BY <1>c, ConcludeIs DEF Looks, libraryVars
<1>1. CASE Submit(s)
  <2>1. sub[s].pc = "idle" /\ UNCHANGED libraryVars
    BY <1>1 DEF Submit
  <2>2. sub'[s].pc = "hash" /\ KeepsPath(s) /\ Moves
    BY <1>1, <1>t, ZenonT(30) DEF Submit, Submission
  <2> QED
    BY <2>1, <2>2 DEF Looks, libraryVars
<1>2. CASE DedupByHash(s)
  BY <1>2, <1>c, GotoIs DEF DedupByHash, Looks, libraryVars
<1>3. CASE Resolve(s)
  <2>1. sub[s].pc = "resolve" /\ UNCHANGED libraryVars
    BY <1>3 DEF Resolve
  <2>2. /\ sub'[s].pc = "identify" /\ sub'[s].content = sub[s].content
        /\ KeepsPath(s) /\ Moves
    BY <1>3, <1>t DEF Resolve, Submission
  <2> QED
    BY <2>1, <2>2 DEF Looks, libraryVars
<1>4. CASE DedupByIdentifier(s)
  BY <1>4, <1>c, GotoIs DEF DedupByIdentifier, Looks, libraryVars
<1>5. CASE ReadKeys(s)
  <2>1. sub[s].pc = "keys" /\ UNCHANGED libraryVars
    BY <1>5 DEF ReadKeys
  <2>2. sub'[s].pc = "copy" /\ sub'[s].content = sub[s].content /\ KeepsPath(s) /\ Moves
    BY <1>5, <1>t DEF ReadKeys, Submission
  <2> QED
    BY <2>1, <2>2 DEF Looks, libraryVars
<1>6. CASE CreateExclusive(s)
  <2>1. PICK k \in Keys :
          \/ CreateNew(s, k) /\ Opened(s, k)
          \/ sub' = [sub EXCEPT ![s].taken = @ \cup {k}] /\ UNCHANGED files
    BY <1>6 DEF CreateExclusive
  <2>2. sub[s].pc = "copy" /\ UNCHANGED rows
    BY <1>6 DEF CreateExclusive
  <2>3. CASE CreateNew(s, k) /\ Opened(s, k)
    BY <2>2, <2>3, OpenedIs DEF Creates
  <2>4. CASE sub' = [sub EXCEPT ![s].taken = @ \cup {k}] /\ UNCHANGED files
    <3>1. sub'[s].pc = "copy" /\ sub'[s].content = sub[s].content /\ KeepsPath(s) /\ Moves
      BY <1>t, <2>2, <2>4 DEF Submission
    <3> QED
      BY <2>2, <2>4, <3>1 DEF Looks
  <2> QED
    BY <2>1, <2>3, <2>4
<1>7. CASE OverwriteUnsorted(s)
  BY <1>7, OpenedIs DEF OverwriteUnsorted, Creates
<1>8. CASE FinishCopy(s)
  BY <1>8, GotoIs DEF FinishCopy, Finishes
<1>9. CASE CopyFails(s)
  BY <1>9, DiscardIs DEF CopyFails, Discards
<1>10. CASE Insert(s)
  <2>1. sub[s].pc = "insert" /\ UNCHANGED files
    BY <1>10 DEF Insert
  <2>2. CASE /\ Unique(s, sub[s].content, sub[s].meta)
             /\ rows' = [rows EXCEPT ![s] = [content |-> sub[s].content, path |-> sub[s].path,
                                             meta |-> sub[s].meta, trashed |-> FALSE]]
             /\ Conclude(s, "ingested")
    BY <2>1, <2>2, ConcludeIs DEF Inserts
  <2>3. CASE /\ sub' = [sub EXCEPT ![s].pc = "cleanup", ![s].collided = TRUE]
             /\ UNCHANGED rows
    <3>1. /\ sub'[s].pc = "cleanup" /\ sub'[s].content = sub[s].content
          /\ KeepsPath(s) /\ Moves
      BY <1>t, <2>3 DEF Submission
    <3> QED
      BY <2>1, <2>3, <3>1 DEF Looks
  <2> QED
    BY <1>10, <2>2, <2>3 DEF Insert
<1>11. CASE InsertFails(s)
  BY <1>11, GotoIs DEF InsertFails, Looks, libraryVars
<1>12. CASE Cleanup(s)
  <2>1. PICK pc \in {"fail", "recover"} : Discard(s, pc)
    BY <1>12 DEF Cleanup
  <2>2. UNCHANGED rows /\ sub[s].pc = "cleanup"
    BY <1>12 DEF Cleanup
  <2> QED
    BY <2>1, <2>2, DiscardIs DEF Discards
<1>13. CASE RecoverCollision(s)
  BY <1>13, <1>c, GotoIs DEF RecoverCollision, Looks, libraryVars
<1>14. CASE Dispose(s)
  <2>1. sub[s].pc = "dispose" /\ UNCHANGED libraryVars
    BY <1>14 DEF Dispose
  <2>2. sub'[s].pc = "done" /\ KeepsPath(s) /\ Moves
    BY <1>14, <1>t DEF Dispose, Submission
  <2> QED
    BY <2>1, <2>2 DEF Looks, libraryVars
<1>15. CASE StepFails(s)
  BY <1>15, GotoIs DEF StepFails, Looks, libraryVars
<1>16. CASE Fail(s)
  <2>1. sub[s].pc = "fail" /\ UNCHANGED libraryVars
    BY <1>16 DEF Fail
  <2>2. sub'[s].pc = "failed" /\ KeepsPath(s) /\ Moves
    BY <1>16, <1>t DEF Fail, Submission
  <2> QED
    BY <2>1, <2>2 DEF Looks, libraryVars
<1>17. CASE Crash(s)
  BY <1>17, GotoIs DEF Crash, Looks, libraryVars
<1> QED
  BY <1>1, <1>2, <1>3, <1>4, <1>5, <1>6, <1>7, <1>8, <1>9, <1>10, <1>11, <1>12, <1>13,
     <1>14, <1>15, <1>16, <1>17 DEF Step, Advance

----------------------------------------------------------------------------
(* What an edit has read is so, while edits run one at a time.             *)

Alone == \A e, f \in Active : e = f

\* A submission that has a row is over.
Rowed == \A s \in Subs : s \in Stored => sub[s].pc \in Over

\* So is one that could not remove its file, and the path one holds is a cite
\* key or its hash; a row under _unsorted is under its own hash.
Filed ==
    /\ Rowed
    /\ \A s \in Subs : /\ sub[s].stayed => sub[s].pc \in Over \cup {"recover"}
                       /\ sub[s].pc \in Holding =>
                            sub[s].path \in Keys \/ sub[s].path = sub[s].content
    /\ \A i \in Stored : rows[i].path \in Contents => rows[i].path = rows[i].content

\* The paper an edit has read is there, with the bytes it has read and at the
\* path it has read, or moved it from.
Snapshot(e) ==
    LET x == edit[e]
        r == rows[x.paper]
    IN  /\ x.paper \in Stored /\ r.content = x.snap.content
        /\ r.path = IF x.pc \in {"update", "rollback"} /\ x.from # NoPath THEN x.from
                    ELSE x.snap.path
        /\ x.pc \in {"create", "adopt", "fill"} =>
             x.to # r.path /\ (x.to \in Contents => x.to = r.content)
        /\ x.pc \in {"update", "rollback", "remove_old"} /\ x.from # NoPath =>
             /\ x.snap.path = x.to /\ x.from # x.to
             /\ x.to \in Contents => x.to = r.content
             /\ x.from \in Contents => x.from = r.content
        /\ x.pc = "purge_row" => x.from \in {x.snap.path, NoPath}

SnapInv == Filed /\ \A e \in Active : Snapshot(e)

RowsAlike ==
    /\ Stored' = Stored
    /\ \A i \in Stored : /\ rows'[i].content = rows[i].content
                         /\ rows'[i].path = rows[i].path /\ rows'[i].meta = rows[i].meta

LEMMA SameRowsAlike == UNCHANGED rows => RowsAlike
BY DEF RowsAlike, Stored

LEMMA TrashedIs ==
    ASSUME TypeInv, NEW i \in Papers, Trash(i) \/ Untrash(i)
    PROVE  RowsAlike /\ UNCHANGED <<files, sub>>
<1>1. PICK t \in BOOLEAN : rows' = [rows EXCEPT ![i].trashed = t]
  BY DEF Trash, Untrash, SoftDelete, Restore
<1>2. i \in Stored /\ UNCHANGED <<files, sub>>
  BY DEF Trash, Untrash, SoftDelete, Restore
<1>3. rows[i] \in Row /\ rows \in [Papers -> Row \cup {NoRow}]
  BY <1>2 DEF TypeInv, TypeOK, Stored
<1> DEFINE r == [rows[i] EXCEPT !.trashed = t]
<1>4. r \in Row /\ r.content = rows[i].content /\ r.path = rows[i].path /\ r.meta = rows[i].meta
  BY <1>3 DEF Row
<1>5. rows' = [rows EXCEPT ![i] = r]
  BY <1>1, <1>3
<1>6. r # NoRow
  BY <1>4, LibraryAssumption
<1> HIDE DEF r
<1> QED
  BY <1>2, <1>3, <1>4, <1>5, <1>6 DEF RowsAlike, Stored

LEMMA InsertedIs ==
    ASSUME TypeInv, NEW s \in Subs, Inserts(s)
    PROVE  /\ Stored' = Stored \cup {s}
           /\ rows'[s].content = sub[s].content /\ rows'[s].path = sub[s].path
           /\ sub[s].content \in Contents /\ sub[s].path \in Paths
           /\ \A i \in Stored \ {s} : rows'[i] = rows[i]
<1> DEFINE r == [content |-> sub[s].content, path |-> sub[s].path,
                 meta |-> sub[s].meta, trashed |-> FALSE]
<1>1. sub[s].content \in Contents /\ sub[s].path \in Paths /\ sub[s].meta \in Metas
  BY DEF Inserts, TypeInv, Progress
<1>2. r \in Row
  BY <1>1 DEF Row
<1>3. r # NoRow /\ s \in Papers
  BY <1>2, LibraryAssumption, IngestAssumption
<1>4. rows' = [rows EXCEPT ![s] = r] /\ rows \in [Papers -> Row \cup {NoRow}]
  BY DEF Inserts, TypeInv, TypeOK
<1>5. r.content = sub[s].content /\ r.path = sub[s].path
  OBVIOUS
<1> HIDE DEF r
<1> QED
  BY <1>1, <1>3, <1>4, <1>5 DEF Stored

\* Rows that stay alike, and edits that stay, keep what edits have read.
LEMMA SnapKept ==
    ASSUME RefileTypeInv, SnapInv, UNCHANGED edit,
           \A i \in Stored : /\ i \in Stored' /\ rows'[i].content = rows[i].content
                             /\ rows'[i].path = rows[i].path /\ rows'[i].meta = rows[i].meta
    PROVE  \A e \in Active' : Snapshot(e)'
<1> SUFFICES ASSUME NEW e \in Active' PROVE Snapshot(e)'
  OBVIOUS
<1>1. e \in Active /\ edit'[e] = edit[e] /\ Snapshot(e)
  BY DEF Active, SnapInv
<1>2. PICK x, i : x = edit[e] /\ i = x.paper /\ x = edit'[e]
  BY <1>1
<1>3. i \in Stored /\ i \in Stored' /\ rows'[i].content = rows[i].content
      /\ rows'[i].path = rows[i].path /\ rows'[i].meta = rows[i].meta
  BY <1>1, <1>2 DEF Snapshot
<1> QED
  BY <1>1, <1>2, <1>3 DEF Snapshot

LEMMA SnapIngest ==
    ASSUME RefileTypeInv, SnapInv, Next, UNCHANGED edit
    PROVE  SnapInv'
<1>t. TypeInv
  BY DEF RefileTypeInv
<1>1. ASSUME NEW i \in Papers, Trash(i) \/ Untrash(i) PROVE SnapInv'
  <2>1. RowsAlike /\ UNCHANGED sub
    BY <1>1, <1>t, TrashedIs
  <2>2. Filed'
    BY <2>1 DEF RowsAlike, SnapInv, Filed, Rowed
  <2>3. \A e \in Active' : Snapshot(e)'
    BY <2>1, SnapKept DEF RowsAlike
  <2> QED
    BY <2>2, <2>3 DEF SnapInv
<1>2. ASSUME NEW s \in Subs, Submit(s) \/ Step(s) \/ Crash(s) PROVE SnapInv'
  <2>m. /\ \A t \in Subs \ {s} : sub'[t] = sub[t]
        /\ Looks(s) \/ Creates(s) \/ Finishes(s) \/ Discards(s) \/ Inserts(s)
    BY <1>2, <1>t, SubStepIs
  <2>1. CASE Inserts(s)
    <3>1. /\ Stored' = Stored \cup {s}
          /\ rows'[s].content = sub[s].content /\ rows'[s].path = sub[s].path
          /\ \A i \in Stored \ {s} : rows'[i] = rows[i]
      BY <1>t, <2>1, InsertedIs
    <3>2. s \notin Stored /\ sub[s].pc \in Holding /\ sub'[s].pc = "dispose"
      BY <2>1 DEF SnapInv, Filed, Rowed, Inserts, Over, Ended, Holding
    <3>3. Filed'
      BY <2>m, <3>1, <3>2, LibraryAssumption DEF SnapInv, Filed, Rowed, Over, Holding
    <3>4. \A e \in Active' : Snapshot(e)'
      BY <3>1, <3>2, SnapKept
    <3> QED
      BY <3>3, <3>4 DEF SnapInv
  <2>2. CASE ~Inserts(s)
    <3>1. UNCHANGED rows
      BY <2>m, <2>2 DEF Looks, Creates, Finishes, Discards
    <3>2. Stored' = Stored
      BY <3>1 DEF Stored
    <3>3. sub[s].pc \in Over => sub'[s].pc \in Over
      BY <2>m, <2>2 DEF Looks, Creates, Finishes, Discards, Over, Ended
    <3>s. sub'[s].stayed => sub'[s].pc \in Over \cup {"recover"}
      BY <2>m, <2>2 DEF Looks, Creates, Finishes, Discards, SnapInv, Filed, KeepsPath, Over, Ended
    <3>4. sub'[s].pc \in Holding =>
              sub'[s].path \in Keys \/ sub'[s].path = sub'[s].content
      <4>1. CASE Looks(s)
        BY <4>1 DEF Looks, KeepsPath, SnapInv, Filed, Holding, Racing
      <4>2. CASE Creates(s)
        BY <4>2 DEF Creates
      <4>3. CASE Finishes(s)
        BY <4>3 DEF Finishes, KeepsPath, SnapInv, Filed, Holding
      <4>4. CASE Discards(s)
        BY <4>4 DEF Discards, Holding
      <4> QED
        BY <2>m, <2>2, <4>1, <4>2, <4>3, <4>4
    <3>5. Filed'
      BY <2>m, <3>1, <3>2, <3>3, <3>s, <3>4 DEF SnapInv, Filed, Rowed
    <3>6. \A e \in Active' : Snapshot(e)'
      BY <3>1, <3>2, SnapKept
    <3> QED
      BY <3>5, <3>6 DEF SnapInv
  <2> QED
    BY <2>1, <2>2
<1> QED
  BY <1>1, <1>2 DEF Next

\* An edit's own step: what it has read is all there is to keep.
LEMMA SnapOne ==
    ASSUME SnapInv, Alone, Alone', NEW e \in Edits, Filed',
           \A f \in Edits \ {e} : edit'[f] = edit[f],
           edit[e].pc \in Editing \/ edit'[e].pc \in Editing,
           edit'[e].pc \in Editing => Snapshot(e)'
    PROVE  SnapInv'
<1>1. ASSUME NEW f \in Active', f # e PROVE FALSE
  BY <1>1 DEF Alone, Active
<1> QED
  BY <1>1 DEF SnapInv, Active

LEMMA SnapEdit ==
    ASSUME RefileTypeInv, SnapInv, Alone, Alone', NEW e \in Edits,
           (\E i \in Stored : BeginIdentify(e, i) \/ BeginRefresh(e, i) \/ BeginPurge(e, i))
              \/ EditStep(e) \/ EditCrash(e)
    PROVE  SnapInv'
<1>t. Fit(edit[e]) /\ TypeInv /\ rows \in [Papers -> Row \cup {NoRow}]
  BY DEF RefileTypeInv, EditTypeInv, TypeInv, TypeOK
<1>a. edit[e].pc \in Editing => Snapshot(e)
  BY DEF SnapInv, Active
<1>u. ASSUME UNCHANGED <<rows, sub>> PROVE Filed' /\ Stored' = Stored
  BY <1>u DEF SnapInv, Filed, Rowed, Stored
<1>1. ASSUME NEW i \in Stored, BeginIdentify(e, i) \/ BeginRefresh(e, i) \/ BeginPurge(e, i)
      PROVE  SnapInv'
  <2>1. PICK op : Begin(e, op, i, "match") \/ Begin(e, op, i, "reresolve")
                    \/ Begin(e, op, i, "purge_file")
    BY <1>1 DEF BeginIdentify, BeginRefresh, BeginPurge
  <2>2. /\ UNCHANGED <<rows, files, sub>> /\ edit'[e].pc \in {"match", "reresolve", "purge_file"}
        /\ edit'[e].paper = i /\ edit'[e].snap = rows[i] /\ edit'[e].from = NoPath
        /\ \A f \in Edits \ {e} : edit'[f] = edit[f]
    BY <2>1, BeginIs
  <2>3. Snapshot(e)'
    BY <1>u, <2>2 DEF Snapshot
  <2> QED
    BY <1>u, <2>2, <2>3, SnapOne DEF Editing
<1>2. CASE FindMatch(e) \/ GuardMatch(e) \/ ReResolve(e)
  <2>1. /\ UNCHANGED <<rows, files, sub>> /\ edit[e].pc \in {"match", "guard", "reresolve"}
        /\ \A f \in Edits \ {e} : edit'[f] = edit[f]
        /\ \/ edit'[e].pc = "refused" /\ edit'[e].from = NoPath
           \/ /\ edit'[e].pc \in {"guard", "rekey"}
              /\ edit'[e].paper = edit[e].paper /\ edit'[e].from = edit[e].from
              /\ edit'[e].snap.content = edit[e].snap.content
              /\ edit'[e].snap.path = edit[e].snap.path
              /\ \/ edit'[e].snap.meta = edit[e].snap.meta
                 \/ edit'[e].snap.meta.resolved \/ ~edit[e].snap.meta.resolved
    BY <1>2, DecideIs
  <2>2. Snapshot(e) /\ edit[e].pc \in Editing
    BY <1>a, <2>1 DEF Editing
  <2>3. edit'[e].pc \in Editing => Snapshot(e)'
    BY <1>u, <2>1, <2>2 DEF Snapshot, Editing
  <2> QED
    BY <1>u, <2>1, <2>2, <2>3, SnapOne
<1>3. CASE Rekey(e)
  <2>1. /\ UNCHANGED <<rows, files, sub>> /\ edit[e].pc = "rekey"
        /\ \A f \in Edits \ {e} : edit'[f] = edit[f]
        /\ edit'[e].pc = IF edit'[e].to = edit[e].snap.path THEN "update" ELSE "create"
        /\ edit'[e].to \in Contents => edit'[e].to = edit[e].snap.content
        /\ edit'[e].paper = edit[e].paper /\ edit'[e].from = edit[e].from
        /\ edit'[e].snap = edit[e].snap
    BY <1>3, RekeyIs
  <2>2. Snapshot(e) /\ edit[e].pc \in Editing /\ edit[e].from = NoPath
    BY <1>a, <1>t, <2>1 DEF Editing, Fit, Early
  <2>3. Snapshot(e)'
    BY <1>u, <2>1, <2>2 DEF Snapshot
  <2> QED
    BY <1>u, <2>1, <2>2, <2>3, SnapOne
<1>4. CASE CreateCopy(e) \/ AdoptOrLeave(e) \/ CopyOld(e) \/ CopyOldFails(e)
  <2>1. /\ UNCHANGED <<rows, sub>> /\ edit[e].pc \in {"create", "adopt", "fill"}
        /\ edit[e].snap \in Row
        /\ \A f \in Edits \ {e} : edit'[f] = edit[f]
        /\ edit'[e].paper = edit[e].paper /\ edit'[e].to = edit[e].to
        /\ \/ /\ edit'[e].snap = edit[e].snap /\ edit'[e].from = NoPath
              /\ edit'[e].pc \in {"fill", "adopt", "update"}
           \/ /\ edit'[e].snap = [edit[e].snap EXCEPT !.path = edit[e].to]
              /\ edit'[e].from = edit[e].snap.path /\ edit'[e].pc = "update"
    BY <1>4, CopyingIs
  <2>2. Snapshot(e) /\ edit[e].pc \in Editing
    BY <1>a, <2>1 DEF Editing
  <2>3. Snapshot(e)'
    <3>1. CASE edit'[e].snap = edit[e].snap /\ edit'[e].from = NoPath
      BY <1>u, <2>1, <2>2, <3>1 DEF Snapshot
    <3>2. CASE /\ edit'[e].snap = [edit[e].snap EXCEPT !.path = edit[e].to]
               /\ edit'[e].from = edit[e].snap.path /\ edit'[e].pc = "update"
      <4>1. /\ edit'[e].snap.content = edit[e].snap.content
            /\ edit'[e].snap.path = edit[e].to /\ edit'[e].snap.meta = edit[e].snap.meta
        BY <2>1, <3>2 DEF Row
      <4>2. rows[edit[e].paper].path = edit[e].snap.path
        BY <2>1, <2>2 DEF Snapshot
      <4>3. edit'[e].from \in Contents => edit'[e].from = rows[edit[e].paper].content
        BY <2>2, <3>2, <4>2 DEF Snapshot, SnapInv, Filed, Rowed
      <4>4. PICK i \in Stored : i = edit[e].paper /\ i = edit'[e].paper
        BY <2>1, <2>2 DEF Snapshot
      <4>5. i \in Stored' /\ rows'[i] = rows[i]
        BY <1>u, <2>1
      <4>6. /\ rows[i].content = edit[e].snap.content /\ rows[i].path = edit[e].snap.path
            /\ edit[e].to # rows[i].path
            /\ edit[e].to \in Contents => edit[e].to = rows[i].content
        BY <2>1, <2>2, <4>2, <4>4 DEF Snapshot
      <4>7. PICK x : /\ x = edit'[e] /\ x.paper = i /\ x.pc = "update"
                     /\ x.from = edit[e].snap.path /\ x.to = edit[e].to
        BY <2>1, <3>2, <4>4
      <4>8. /\ x.snap.content = edit[e].snap.content /\ x.snap.path = x.to
            /\ x.snap.meta = edit[e].snap.meta
        BY <4>1, <4>7
      <4>9. x.from \in Contents => x.from = rows[i].content
        BY <4>3, <4>4, <4>7
      <4>10. x.from # NoPath
        BY <2>1, <4>7, IngestAssumption DEF Row
      <4> QED
        BY <4>5, <4>6, <4>7, <4>8, <4>9, <4>10 DEF Snapshot
    <3> QED
      BY <2>1, <3>1, <3>2
  <2> QED
    BY <1>u, <2>1, <2>2, <2>3, SnapOne
<1>5. CASE Update(e) \/ UpdateFails(e) \/ Rollback(e) \/ RemoveOld(e)
  <2>1. /\ UNCHANGED sub /\ edit[e].pc \in {"update", "rollback", "remove_old"}
        /\ edit[e].paper \in Papers /\ edit[e].snap \in Row
        /\ \A f \in Edits \ {e} : edit'[f] = edit[f]
        /\ \/ /\ edit[e].pc = "update"
              /\ edit'[e].paper = edit[e].paper /\ edit'[e].snap = edit[e].snap
              /\ edit'[e].from = edit[e].from /\ edit'[e].to = edit[e].to
              /\ \/ edit'[e].pc = "rollback" /\ UNCHANGED rows
                 \/ /\ edit'[e].pc = "remove_old"
                    /\ rows' = IF edit[e].paper \in Stored
                               THEN [rows EXCEPT ![edit[e].paper] = edit[e].snap] ELSE rows
           \/ edit'[e].pc \in {"failed", "applied"} /\ UNCHANGED rows
    BY <1>5, FinishingIs
  <2>2. Snapshot(e) /\ edit[e].pc \in Editing
    BY <1>a, <2>1 DEF Editing
  <2>3. CASE edit'[e].pc \in {"failed", "applied"} /\ UNCHANGED rows
    BY <1>u, <2>1, <2>2, <2>3, SnapOne DEF Editing
  <2>4. CASE /\ edit[e].pc = "update" /\ edit'[e].pc = "rollback" /\ UNCHANGED rows
             /\ edit'[e].paper = edit[e].paper /\ edit'[e].snap = edit[e].snap
             /\ edit'[e].from = edit[e].from /\ edit'[e].to = edit[e].to
    <3>1. Snapshot(e)'
      BY <1>u, <2>1, <2>2, <2>4 DEF Snapshot
    <3> QED
      BY <1>u, <2>1, <2>2, <2>4, <3>1, SnapOne
  <2>5. CASE /\ edit[e].pc = "update" /\ edit'[e].pc = "remove_old"
             /\ edit'[e].paper = edit[e].paper /\ edit'[e].snap = edit[e].snap
             /\ edit'[e].from = edit[e].from /\ edit'[e].to = edit[e].to
             /\ rows' = IF edit[e].paper \in Stored
                        THEN [rows EXCEPT ![edit[e].paper] = edit[e].snap] ELSE rows
    <3>1. PICK i \in Stored, r \in Row : i = edit[e].paper /\ r = edit[e].snap
      BY <2>1, <2>2 DEF Snapshot
    <3>2. /\ rows' = [rows EXCEPT ![i] = r] /\ Stored' = Stored /\ rows'[i] = r
          /\ \A j \in Stored \ {i} : rows'[j] = rows[j]
      BY <1>t, <2>5, <3>1, LibraryAssumption DEF Stored
    <3>3. r.path \in Contents => r.path = r.content
      BY <2>2, <2>5, <3>1 DEF Snapshot, SnapInv, Filed, Rowed
    <3>4. Filed'
      BY <2>1, <3>2, <3>3 DEF SnapInv, Filed, Rowed
    <3>5. Snapshot(e)'
      BY <2>2, <2>5, <3>1, <3>2 DEF Snapshot
    <3> QED
      BY <2>1, <2>2, <3>4, <3>5, SnapOne
  <2> QED
    BY <2>1, <2>3, <2>4, <2>5
<1>6. CASE PurgeFile(e)
  <2>1. /\ UNCHANGED <<rows, sub>> /\ edit[e].pc = "purge_file" /\ edit'[e].pc = "purge_row"
        /\ edit'[e].paper = edit[e].paper /\ edit'[e].snap = edit[e].snap
        /\ edit'[e].from \in {edit[e].snap.path, NoPath}
        /\ \A f \in Edits \ {e} : edit'[f] = edit[f]
    BY <1>6, PurgeFileIs
  <2>2. Snapshot(e) /\ edit[e].pc \in Editing
    BY <1>a, <2>1 DEF Editing
  <2>3. Snapshot(e)'
    BY <1>u, <2>1, <2>2 DEF Snapshot
  <2> QED
    BY <1>u, <2>1, <2>2, <2>3, SnapOne
<1>7. CASE PurgeRow(e) \/ EditCrash(e)
  <2>1. /\ UNCHANGED sub /\ edit[e].pc \in Editing
        /\ edit'[e].pc \in {"applied", "failed", "crashed"}
        /\ \A f \in Edits \ {e} : edit'[f] = edit[f]
        /\ UNCHANGED rows \/ rows' = [rows EXCEPT ![edit[e].paper] = NoRow]
    BY <1>7, PurgeRowIs
  <2>2. \A i \in Stored' : i \in Stored /\ rows'[i] = rows[i]
    BY <1>t, <2>1 DEF Stored
  <2>3. Filed'
    BY <2>1, <2>2 DEF SnapInv, Filed, Rowed
  <2> QED
    BY <2>1, <2>3, SnapOne DEF Editing
<1> QED
  BY <1>1, <1>2, <1>3, <1>4, <1>5, <1>6, <1>7 DEF EditStep

LEMMA SnapNext ==
    ASSUME RefileTypeInv, SnapInv, Alone, Alone', [RefileNext]_refileVars
    PROVE  SnapInv'
<1>1. CASE UNCHANGED refileVars
  BY <1>1 DEF refileVars, SnapInv, Filed, Rowed, Snapshot, Active, Stored
<1> QED
  BY <1>1, SnapIngest, SnapEdit DEF RefileNext

LEMMA SnapInit == RefileInit => SnapInv
<1> SUFFICES ASSUME RefileInit PROVE SnapInv
  OBVIOUS
<1>1. /\ \A s \in Subs : sub[s].pc = "idle" /\ ~sub[s].stayed /\ s \notin Stored
      /\ \A e \in Edits : edit[e].pc = "idle"
  BY IngestAssumption DEF RefileInit, Init, LibraryInit, Unsubmitted, NoEdit, Stored
<1>2. \A i \in Stored : rows[i].path \in Contents => rows[i].path = rows[i].content
  BY LibraryAssumption DEF RefileInit, Init, LibraryInit, Intact, Stored
<1> QED
  BY <1>1, <1>2 DEF SnapInv, Filed, Rowed, Active, Holding, Editing

----------------------------------------------------------------------------
(* What a row is rewritten with.                                           *)

\* An edit writes its own paper's row, from its snapshot, or deletes it.
LEMMA EditRows ==
    ASSUME RefileTypeInv, NEW e \in Edits,
           (\E i \in Stored : BeginIdentify(e, i) \/ BeginRefresh(e, i) \/ BeginPurge(e, i))
              \/ EditStep(e) \/ EditCrash(e)
    PROVE  /\ UNCHANGED sub
           /\ \/ UNCHANGED rows
              \/ /\ edit[e].pc = "update" /\ edit[e].paper \in Stored /\ edit[e].snap \in Row
                 /\ rows' = [rows EXCEPT ![edit[e].paper] = edit[e].snap]
              \/ rows' = [rows EXCEPT ![edit[e].paper] = NoRow]
<1>1. ASSUME NEW i \in Stored, BeginIdentify(e, i) \/ BeginRefresh(e, i) \/ BeginPurge(e, i)
      PROVE  UNCHANGED <<rows, sub>>
  BY <1>1 DEF BeginIdentify, BeginRefresh, BeginPurge, Begin, StoresUnchanged
<1>2. CASE FindMatch(e) \/ GuardMatch(e) \/ ReResolve(e) \/ Rekey(e)
  BY <1>2, DecideIs, RekeyIs
<1>3. CASE CreateCopy(e) \/ AdoptOrLeave(e) \/ CopyOld(e) \/ CopyOldFails(e)
  BY <1>3, CopyingIs
<1>4. CASE Update(e) \/ UpdateFails(e) \/ Rollback(e) \/ RemoveOld(e)
  BY <1>4, FinishingIs
<1>5. CASE PurgeFile(e) \/ PurgeRow(e) \/ EditCrash(e)
  BY <1>5, PurgeFileIs, PurgeRowIs
<1> QED
  BY <1>1, <1>2, <1>3, <1>4, <1>5 DEF EditStep

LEMMA RowedNext ==
    ASSUME RefileTypeInv, Rowed, [RefileNext]_refileVars
    PROVE  Rowed'
<1>t. TypeInv /\ rows \in [Papers -> Row \cup {NoRow}]
  BY DEF RefileTypeInv, TypeInv, TypeOK
<1>1. CASE UNCHANGED refileVars
  BY <1>1 DEF refileVars, Rowed, Stored
<1>2. ASSUME NEW i \in Papers, Trash(i) \/ Untrash(i) PROVE Rowed'
  BY <1>2, <1>t, TrashedIs DEF Rowed, RowsAlike
<1>3. ASSUME NEW s \in Subs, Submit(s) \/ Step(s) \/ Crash(s) PROVE Rowed'
  <2>1. /\ \A t \in Subs \ {s} : sub'[t] = sub[t]
        /\ Looks(s) \/ Creates(s) \/ Finishes(s) \/ Discards(s) \/ Inserts(s)
    BY <1>3, <1>t, SubStepIs
  <2>2. CASE Inserts(s)
    <3>1. Stored' = Stored \cup {s} /\ sub'[s].pc \in Over
      BY <1>t, <2>2, InsertedIs DEF Inserts, Over
    <3> QED
      BY <2>1, <3>1 DEF Rowed
  <2>3. CASE ~Inserts(s)
    <3>1. Stored' = Stored /\ (sub[s].pc \in Over => sub'[s].pc \in Over)
      BY <2>1, <2>3 DEF Looks, Creates, Finishes, Discards, Over, Ended, Stored
    <3> QED
      BY <2>1, <3>1 DEF Rowed
  <2> QED
    BY <2>2, <2>3
<1>4. ASSUME NEW e \in Edits,
             (\E i \in Stored : BeginIdentify(e, i) \/ BeginRefresh(e, i) \/ BeginPurge(e, i))
                \/ EditStep(e) \/ EditCrash(e)
      PROVE  Rowed'
  <2>1. UNCHANGED sub /\ \A i \in Stored' : i \in Stored
    BY <1>4, <1>t, EditRows DEF Stored
  <2> QED
    BY <2>1 DEF Rowed
<1> QED
  BY <1>1, <1>2, <1>3, <1>4 DEF RefileNext, Next

LEMMA RowedInit == RefileInit => Rowed
BY IngestAssumption DEF RefileInit, Init, LibraryInit, Rowed, Stored

\* A record that is resolved is replaced by a guess only in the UPDATE of an
\* edit that read it before it was (refresh_one compares with its own
\* snapshot), however many edits and ingests overlap, fail and crash.
THEOREM DowngradeOnlyWhenStaleHolds == RefileSpec => DowngradeOnlyWhenStale
<1> DEFINE Kept ==
      \A i \in Papers :
         rows[i] # NoRow /\ rows'[i] # NoRow /\ rows[i].meta.resolved
             => \/ rows'[i].meta.resolved
                \/ \E e \in Edits : /\ edit[e].pc = "update" /\ edit[e].paper = i
                                    /\ ~edit[e].sure
<1>1. ASSUME RefileTypeInv, Rowed, [RefileNext]_refileVars
      PROVE  Kept
  <2> SUFFICES ASSUME NEW i \in Stored, rows'[i] # NoRow, rows[i].meta.resolved
               PROVE  \/ rows'[i].meta.resolved
                      \/ \E e \in Edits : /\ edit[e].pc = "update" /\ edit[e].paper = i
                                          /\ ~edit[e].sure
    BY DEF Stored
  <2>t. TypeInv /\ rows \in [Papers -> Row \cup {NoRow}] /\ i \in Papers
    BY <1>1 DEF RefileTypeInv, TypeInv, TypeOK, Stored
  <2>1. CASE UNCHANGED rows
    BY <2>1
  <2>2. ASSUME NEW j \in Papers, Trash(j) \/ Untrash(j) PROVE rows'[i].meta.resolved
    BY <2>t, <2>2, TrashedIs DEF RowsAlike
  <2>3. ASSUME NEW s \in Subs, Submit(s) \/ Step(s) \/ Crash(s) PROVE rows'[i].meta.resolved
    <3>1. CASE Inserts(s)
      <4>1. s # i
        BY <1>1, <3>1 DEF Rowed, Inserts, Over, Ended
      <4> QED
        BY <2>t, <3>1, <4>1, InsertedIs
    <3>2. CASE ~Inserts(s)
      BY <2>1, <2>t, <2>3, <3>2, SubStepIs DEF Looks, Creates, Finishes, Discards
    <3> QED
      BY <3>1, <3>2
  <2>4. ASSUME NEW e \in Edits,
               (\E j \in Stored : BeginIdentify(e, j) \/ BeginRefresh(e, j) \/ BeginPurge(e, j))
                  \/ EditStep(e) \/ EditCrash(e),
               rows' # rows, ~rows'[i].meta.resolved
        PROVE  edit[e].pc = "update" /\ edit[e].paper = i /\ ~edit[e].sure
    <3>1. Fit(edit[e])
      BY <1>1 DEF RefileTypeInv, EditTypeInv
    <3>2. /\ edit[e].pc = "update"
          /\ rows' = [rows EXCEPT ![edit[e].paper] = edit[e].snap]
      BY <1>1, <2>t, <2>4, EditRows
    <3>3. edit[e].paper = i /\ rows'[i] = edit[e].snap
      BY <2>t, <2>4, <3>2
    <3> QED
      BY <2>4, <3>1, <3>2, <3>3 DEF Fit, Editing
  <2> QED
    BY <1>1, <2>1, <2>2, <2>3, <2>4 DEF RefileNext, Next, refileVars
<1>2. RefileTypeInv /\ Rowed /\ [RefileNext]_refileVars => [Kept]_refileVars
  BY <1>1
<1>3. DowngradeOnlyWhenStale <=> [][Kept]_refileVars
  BY DEF DowngradeOnlyWhenStale
<1> HIDE DEF Kept
<1> QED
  BY <1>2, <1>3, RefileTypeInit, RefileTypeNext, RowedInit, RowedNext, PTL DEF RefileSpec

----------------------------------------------------------------------------
(* Every row's file is there.                                              *)

\* No two submissions of the same bytes are both between the look-up of the
\* hash and the answer; no purge stops once it has removed the file.
Apart ==
    \A s, t \in Subs :
        sub[s].pc \in Racing /\ sub[t].pc \in Racing /\ sub[s].content = sub[t].content => s = t
NotHalf == \A e \in Edits : edit[e].pc \in {"failed", "crashed"} => edit[e].from = NoPath

Orderly == Alone /\ Apart /\ NotHalf

\* The hash is a row's own, and a submission past its look-up has no twin.
HashInv ==
    /\ \A i, j \in Stored : rows[i].content = rows[j].content => i = j
    /\ \A s \in Subs : sub[s].pc \in Racing => WithHash(sub[s].content) = {}

\* A purge has removed paper i's file and is about to remove its row.
Purging(i) ==
    \E e \in Edits : /\ edit[e].pc = "purge_row" /\ edit[e].from # NoPath
                    /\ edit[e].paper = i

\* Worker w has the file at path p to itself and has put v there: a submission
\* from the creation of its file to the row that names it or the removal; an
\* edit the same, then the old file from the UPDATE to the removal.
Holds(w, p, v) ==
    \/ /\ w \in Subs /\ sub[w].pc \in Holding /\ sub[w].path = p
       /\ v = IF sub[w].pc = "fill" THEN w ELSE sub[w].content
    \/ /\ w \in Edits /\ edit[w].pc = "fill" /\ edit[w].to = p /\ v = w
    \/ /\ w \in Edits /\ edit[w].from # NoPath /\ v = edit[w].snap.content
       /\ \/ edit[w].pc \in {"update", "rollback"} /\ edit[w].to = p
          \/ edit[w].pc = "remove_old" /\ edit[w].from = p

\* Nobody but w holds p, and a row that names it is about to go.
Free(w, p) ==
    /\ \A u, x : Holds(u, p, x) => u = w
    /\ \A i \in Stored : rows[i].path = p => Purging(i)

FilesInv ==
    /\ \A i \in Stored : files[rows[i].path] = rows[i].content \/ Purging(i)
    /\ \A w, p, v : Holds(w, p, v) => files[p] = v /\ Free(w, p)

LEMMA HoldsIs ==
    ASSUME RefileTypeInv, NEW w, NEW p, NEW v, Holds(w, p, v)
    PROVE  p \in Paths /\ v # Absent /\ w \in Subs \cup Edits
<1>1. CASE w \in Subs
  <2>1. sub[w].path \in Paths /\ sub[w].content \in Contents
    BY <1>1, RefileAssumption DEF Holds, RefileTypeInv, TypeInv, Progress, Holding
  <2> QED
    BY <1>1, <2>1, RefileAssumption, IngestAssumption, LibraryAssumption DEF Holds
<1>2. CASE w \in Edits
  <2>1. Fit(edit[w]) /\ edit[w] \in Edit
    BY <1>2 DEF RefileTypeInv, EditTypeInv
  <2>2. edit[w].pc \in {"fill", "update", "rollback", "remove_old"}
    BY <1>2, RefileAssumption DEF Holds
  <2>3. edit[w].snap.content \in Contents
    BY <2>1, <2>2 DEF Fit, Editing, Row
  <2>4. edit[w].from # NoPath => edit[w].from \in Paths
    BY <2>1 DEF Edit
  <2> QED
    BY <1>2, <2>1, <2>2, <2>3, <2>4, RefileAssumption, LibraryAssumption DEF Holds, Fit
<1> QED
  BY <1>1, <1>2 DEF Holds

LEMMA SubHolds ==
    ASSUME NEW s \in Subs, UNCHANGED edit, \A t \in Subs \ {s} : sub'[t] = sub[t]
    PROVE  /\ \A u, p, v : u # s => (Holds(u, p, v)' <=> Holds(u, p, v))
           /\ \A i : Purging(i)' <=> Purging(i)
BY DEF Holds, Purging

LEMMA EditHolds ==
    ASSUME NEW e \in Edits, UNCHANGED sub, \A f \in Edits \ {e} : edit'[f] = edit[f]
    PROVE  \A u, p, v : u # e => (Holds(u, p, v)' <=> Holds(u, p, v))
BY DEF Holds

LEMMA PurgingKept ==
    ASSUME NEW e \in Edits, \A f \in Edits \ {e} : edit'[f] = edit[f],
           edit[e].pc # "purge_row" \/ edit[e].from = NoPath,
           edit'[e].pc # "purge_row" \/ edit'[e].from = NoPath
    PROVE  \A i : Purging(i)' <=> Purging(i)
BY DEF Purging

\* What a step of w must do to keep every row's file.
LEMMA FilesKept ==
    ASSUME FilesInv, NEW w,
           \A u, p, v : u # w => (Holds(u, p, v)' <=> Holds(u, p, v)),
           \A p, v : Holds(w, p, v)' =>
               /\ files'[p] = v /\ \A u, x : Holds(u, p, x) => u = w
               /\ \A i \in Stored' : rows'[i].path = p => Purging(i)',
           \A u, p, v : u # w /\ Holds(u, p, v) =>
               /\ files'[p] = files[p]
               /\ \A i \in Stored' : rows'[i].path = p => Purging(i)',
           \A i \in Stored' : files'[rows'[i].path] = rows'[i].content \/ Purging(i)'
    PROVE  FilesInv'
<1> SUFFICES ASSUME NEW u, NEW p, NEW v, Holds(u, p, v)'
             PROVE  (files[p] = v /\ Free(u, p))'
  BY DEF FilesInv
<1>1. CASE u = w
  <2>1. \A t, x : Holds(t, p, x)' => t = w
    BY <1>1
  <2> QED
    BY <1>1, <2>1 DEF Free
<1>2. CASE u # w
  <2>1. Holds(u, p, v) /\ files[p] = v /\ Free(u, p)
    BY <1>2 DEF FilesInv
  <2>2. \A t, x : Holds(t, p, x)' => t = u
    BY <1>2, <2>1 DEF Free
  <2> QED
    BY <1>2, <2>1, <2>2 DEF Free
<1> QED
  BY <1>1, <1>2

\* The files and the rows' paths stay, and w holds no more than it did.
LEMMA FilesQuiet ==
    ASSUME FilesInv, NEW w, UNCHANGED files, Stored' = Stored,
           \A i \in Stored : /\ rows'[i].content = rows[i].content
                             /\ rows'[i].path = rows[i].path,
           \A u, p, v : u # w => (Holds(u, p, v)' <=> Holds(u, p, v)),
           \A p, v : Holds(w, p, v)' => Holds(w, p, v),
           \A i : Purging(i)' <=> Purging(i)
    PROVE  FilesInv'
<1>1. \A i \in Stored' : files'[rows'[i].path] = rows'[i].content \/ Purging(i)'
  BY DEF FilesInv
<1>2. \A p, v, u : Holds(u, p, v) =>
          /\ files'[p] = v /\ \A t, x : Holds(t, p, x) => t = u
          /\ \A i \in Stored' : rows'[i].path = p => Purging(i)'
  BY DEF FilesInv, Free
<1> QED
  BY <1>1, <1>2, FilesKept

\* One file changes, at a path nobody else uses, and w holds it or nothing.
LEMMA FilesAt ==
    ASSUME RefileTypeInv, FilesInv, NEW w, NEW p \in Paths, NEW c, UNCHANGED rows,
           files' = [files EXCEPT ![p] = c], Free(w, p),
           \A u, q, v : u # w => (Holds(u, q, v)' <=> Holds(u, q, v)),
           \A q, v : Holds(w, q, v)' => q = p /\ v = c,
           \A i : Purging(i)' <=> Purging(i)
    PROVE  FilesInv'
<1>1. files'[p] = c /\ \A q \in Paths \ {p} : files'[q] = files[q]
  BY DEF RefileTypeInv, TypeInv, TypeOK
<1>2. Stored' = Stored /\ \A i \in Stored : rows'[i] = rows[i] /\ rows[i].path \in Paths
  BY DEF Stored, RefileTypeInv, TypeInv, TypeOK, Row
<1>3. \A i \in Stored' : files'[rows'[i].path] = rows'[i].content \/ Purging(i)'
  BY <1>1, <1>2 DEF FilesInv, Free
<1>4. \A q, v : Holds(w, q, v)' =>
          /\ files'[q] = v /\ \A u, x : Holds(u, q, x) => u = w
          /\ \A i \in Stored' : rows'[i].path = q => Purging(i)'
  BY <1>1, <1>2 DEF Free
<1>5. ASSUME NEW u, NEW q, NEW v, u # w, Holds(u, q, v)
      PROVE  files'[q] = files[q] /\ \A i \in Stored' : rows'[i].path = q => Purging(i)'
  <2>1. q \in Paths /\ q # p /\ Free(u, q)
    BY <1>5, HoldsIs DEF FilesInv, Free
  <2> QED
    BY <1>1, <1>2, <2>1 DEF Free
<1> QED
  BY <1>3, <1>4, <1>5, FilesKept

\* A path without a file is free.
LEMMA AbsentFree ==
    ASSUME RefileTypeInv, FilesInv, NEW p \in Paths, files[p] = Absent, NEW w
    PROVE  Free(w, p)
<1>1. \A u, x : ~Holds(u, p, x)
  BY HoldsIs DEF FilesInv
<1>2. \A i \in Stored : rows[i].path = p => Purging(i)
  BY LibraryAssumption DEF FilesInv, RefileTypeInv, TypeInv, TypeOK, Stored, Row
<1> QED
  BY <1>1, <1>2 DEF Free

\* A hash that no row has, of a submission under way, names a free path.
LEMMA UnsortedFree ==
    ASSUME RefileTypeInv, SnapInv, Apart, NEW s \in Subs, sub[s].pc \in Racing,
           WithHash(sub[s].content) = {}
    PROVE  Free(s, sub[s].content)
<1>1. PICK c : c = sub[s].content
  OBVIOUS
<1>2. c \in Contents /\ c \notin Keys
  BY <1>1, LibraryAssumption DEF RefileTypeInv, TypeInv, Progress, Racing
<1>3. \A i \in Stored : rows[i].content # c
  BY <1>1 DEF WithHash
<1>4. \A i \in Stored : rows[i].path # c
  BY <1>2, <1>3 DEF SnapInv, Filed
<1>5. ASSUME NEW u, NEW x, Holds(u, c, x) PROVE u = s
  <2>1. CASE u \in Subs
    <3>1. sub[u].pc \in Holding /\ sub[u].path = c
      BY <1>5, <2>1, RefileAssumption DEF Holds
    <3>2. sub[u].content = c /\ sub[u].pc \in Racing
      BY <1>2, <2>1, <3>1 DEF SnapInv, Filed, Holding, Racing
    <3> QED
      BY <1>1, <2>1, <3>2 DEF Apart
  <2>2. CASE u \in Edits
    <3>1. \/ edit[u].pc = "fill" /\ edit[u].to = c
          \/ /\ edit[u].from # NoPath
             /\ \/ edit[u].pc \in {"update", "rollback"} /\ edit[u].to = c
                \/ edit[u].pc = "remove_old" /\ edit[u].from = c
      BY <1>5, <2>2, RefileAssumption DEF Holds
    <3>2. Snapshot(u)
      BY <2>2, <3>1 DEF SnapInv, Active, Editing
    <3>3. edit[u].paper \in Stored /\ rows[edit[u].paper].content = c
      BY <1>2, <3>1, <3>2 DEF Snapshot
    <3> QED
      BY <1>3, <3>3
  <2> QED
    BY <1>5, <2>1, <2>2 DEF Holds
<1> QED
  BY <1>1, <1>4, <1>5 DEF Free

\* A step of an ingest keeps hashes apart.
LEMMA HashIngest ==
    ASSUME RefileTypeInv, SnapInv, HashInv, Apart, NEW s \in Subs,
           Submit(s) \/ Step(s) \/ Crash(s)
    PROVE  HashInv'
<1>m. /\ \A t \in Subs \ {s} : sub'[t] = sub[t]
      /\ Looks(s) \/ Creates(s) \/ Finishes(s) \/ Discards(s) \/ Inserts(s)
  BY SubStepIs DEF RefileTypeInv
<1>t. TypeInv
  BY DEF RefileTypeInv
<1>1. CASE Inserts(s)
  <2>1. /\ Stored' = Stored \cup {s} /\ rows'[s].content = sub[s].content
        /\ \A i \in Stored \ {s} : rows'[i] = rows[i]
    BY <1>t, <1>1, InsertedIs
  <2>2. sub'[s].pc = "dispose" /\ sub[s].pc = "insert"
    BY <1>1 DEF Inserts
  <2>3. \A i \in Stored : i # s /\ rows[i].content # sub[s].content
    BY <2>2 DEF HashInv, SnapInv, Filed, Rowed, Racing, WithHash, Over, Ended
  <2>4. \A t \in Subs \ {s} : sub[t].pc \in Racing => sub[t].content # sub[s].content
    BY <2>2 DEF Apart, Racing
  <2>5. \A i, j \in Stored' : rows'[i].content = rows'[j].content => i = j
    BY <2>1, <2>3 DEF HashInv
  <2>6. ASSUME NEW t \in Subs, sub'[t].pc \in Racing PROVE WithHash(sub[t].content)' = {}
    <3>1. t # s
      BY <2>2, <2>6 DEF Racing
    <3> QED
      BY <1>m, <2>1, <2>4, <2>6, <3>1 DEF HashInv, WithHash
  <2> QED
    BY <2>5, <2>6 DEF HashInv, WithHash
<1>2. CASE ~Inserts(s)
  <2>1. UNCHANGED rows /\ Stored' = Stored
    BY <1>m, <1>2 DEF Looks, Creates, Finishes, Discards, Stored
  <2>2. sub'[s].pc \in Racing => /\ sub'[s].content = sub[s].content
                                 /\ sub[s].pc \in Racing \/ WithHash(sub[s].content) = {}
    BY <1>m, <1>2 DEF Looks, Creates, Finishes, Discards, Racing
  <2>3. ASSUME NEW t \in Subs, sub'[t].pc \in Racing
        PROVE  sub'[t].content = sub[t].content /\ WithHash(sub[t].content) = {}
    BY <1>m, <2>2, <2>3 DEF HashInv
  <2> QED
    BY <2>1, <2>3 DEF HashInv, WithHash
<1> QED
  BY <1>1, <1>2

\* A step of an ingest keeps every row's file.
LEMMA FilesIngest ==
    ASSUME RefileTypeInv, SnapInv, HashInv, FilesInv, Apart, UNCHANGED edit,
           NEW s \in Subs, Submit(s) \/ Step(s) \/ Crash(s)
    PROVE  FilesInv'
<1>t. TypeInv /\ s \notin Edits
  BY RefileAssumption DEF RefileTypeInv
<1>m. /\ \A t \in Subs \ {s} : sub'[t] = sub[t]
      /\ Looks(s) \/ Creates(s) \/ Finishes(s) \/ Discards(s) \/ Inserts(s)
  BY <1>t, SubStepIs
<1>o. /\ \A u, p, v : u # s => (Holds(u, p, v)' <=> Holds(u, p, v))
      /\ \A i : Purging(i)' <=> Purging(i)
  BY <1>m, SubHolds
<1>s. ASSUME NEW p, NEW v
      PROVE  /\ Holds(s, p, v) <=> /\ sub[s].pc \in Holding /\ sub[s].path = p
                                   /\ v = IF sub[s].pc = "fill" THEN s ELSE sub[s].content
             /\ Holds(s, p, v)' <=> /\ sub'[s].pc \in Holding /\ sub'[s].path = p
                                    /\ v = IF sub'[s].pc = "fill" THEN s ELSE sub'[s].content
  BY <1>t DEF Holds
<1>1. CASE Looks(s)
  <2>1. \A p, v : Holds(s, p, v)' => Holds(s, p, v)
    <3>1. sub'[s].pc \in Holding =>
            /\ sub[s].pc = "insert" /\ sub'[s].pc = "cleanup" /\ sub'[s].path = sub[s].path
            /\ sub'[s].content = sub[s].content
      BY <1>1 DEF Looks, KeepsPath, Racing
    <3> QED
      BY <1>s, <3>1 DEF Holding
  <2>2. RowsAlike /\ UNCHANGED files
    BY <1>1, SameRowsAlike DEF Looks
  <2> QED
    BY <1>o, <2>1, <2>2, FilesQuiet DEF RowsAlike
<1>2. CASE Creates(s)
  <2>1. PICK p : p = sub'[s].path
    OBVIOUS
  <2>2. UNCHANGED rows /\ sub[s].pc = "copy" /\ sub'[s].pc = "fill"
    BY <1>2 DEF Creates
  <2>3. /\ p \in Paths /\ Free(s, p)
        /\ files' = [files EXCEPT ![p] = s]
    <3>1. CASE p \in Keys /\ CreateNew(s, p)
      <4>1. p \in Paths /\ files[p] = Absent
        BY <3>1 DEF Paths, CreateNew
      <4> QED
        BY <3>1, <4>1, AbsentFree DEF CreateNew
    <3>2. CASE p = sub[s].content /\ Truncate(s, sub[s].content)
      <4>1. sub[s].content \in Contents
        BY <1>t, <2>2 DEF TypeInv, Progress
      <4>2. WithHash(sub[s].content) = {}
        BY <2>2 DEF HashInv, Racing
      <4>3. Free(s, sub[s].content)
        BY <2>2, <4>2, UnsortedFree DEF Racing
      <4> QED
        BY <3>2, <4>1, <4>3 DEF Truncate, Paths
    <3> QED
      BY <1>2, <2>1, <3>1, <3>2 DEF Creates
  <2>4. \A q, v : Holds(s, q, v)' => q = p /\ v = s
    BY <1>s, <2>1, <2>2
  <2> QED
    BY <1>o, <2>2, <2>3, <2>4, FilesAt
<1>3. CASE Finishes(s)
  <2>1. PICK p, c : p = sub[s].path /\ c = sub[s].content
    OBVIOUS
  <2>2. /\ UNCHANGED rows /\ sub[s].pc = "fill" /\ sub'[s].pc = "insert"
        /\ sub'[s].path = p /\ sub'[s].content = c
    BY <1>3, <2>1 DEF Finishes, KeepsPath
  <2>3. Holds(s, p, s)
    BY <1>s, <2>1, <2>2 DEF Holding
  <2>4. p \in Paths /\ Free(s, p) /\ files' = [files EXCEPT ![p] = c]
    BY <1>3, <2>1, <2>3, HoldsIs DEF FilesInv, Finishes, Fill
  <2>5. \A q, v : Holds(s, q, v)' => q = p /\ v = c
    BY <1>s, <2>2
  <2> QED
    BY <1>o, <2>2, <2>4, <2>5, FilesAt
<1>4. CASE Discards(s)
  <2>1. /\ UNCHANGED rows /\ sub[s].pc \in {"fill", "cleanup"} /\ sub'[s].pc \notin Holding
        /\ Remove(sub[s].path) \/ UNCHANGED files
    BY <1>4 DEF Discards, Holding
  <2>2. \A q, v : ~Holds(s, q, v)'
    BY <1>s, <2>1
  <2>3. PICK p, v : p = sub[s].path /\ Holds(s, p, v)
    BY <1>s, <2>1 DEF Holding
  <2>4. p \in Paths /\ Free(s, p)
    BY <2>3, HoldsIs DEF FilesInv
  <2>5. CASE files' = [files EXCEPT ![p] = Absent]
    BY <1>o, <2>1, <2>2, <2>4, <2>5, FilesAt
  <2>6. CASE UNCHANGED files
    BY <1>o, <2>1, <2>2, <2>6, FilesQuiet, SameRowsAlike DEF RowsAlike
  <2> QED
    BY <2>1, <2>3, <2>5, <2>6 DEF Remove
<1>5. CASE Inserts(s)
  <2>1. PICK p, c : p = sub[s].path /\ c = sub[s].content
    OBVIOUS
  <2>2. UNCHANGED files /\ sub[s].pc = "insert" /\ sub'[s].pc = "dispose"
    BY <1>5 DEF Inserts
  <2>3. /\ Stored' = Stored \cup {s} /\ rows'[s].content = c /\ rows'[s].path = p
        /\ \A i \in Stored \ {s} : rows'[i] = rows[i]
    BY <1>t, <1>5, <2>1, InsertedIs
  <2>4. s \notin Stored
    BY <2>2 DEF SnapInv, Filed, Rowed, Over, Ended
  <2>5. Holds(s, p, c)
    BY <1>s, <2>1, <2>2 DEF Holding
  <2>6. files[p] = c /\ Free(s, p)
    BY <2>5 DEF FilesInv
  <2>7. \A i \in Stored' : files'[rows'[i].path] = rows'[i].content \/ Purging(i)'
    BY <1>o, <2>2, <2>3, <2>4, <2>6 DEF FilesInv
  <2>8. \A q, v : ~Holds(s, q, v)'
    BY <1>s, <2>2 DEF Holding
  <2>9. ASSUME NEW u, NEW q, NEW v, u # s, Holds(u, q, v)
        PROVE  files'[q] = files[q] /\ \A i \in Stored' : rows'[i].path = q => Purging(i)'
    <3>1. q # p /\ Free(u, q)
      BY <2>6, <2>9 DEF FilesInv, Free
    <3> QED
      BY <1>o, <2>2, <2>3, <2>4, <3>1 DEF Free
  <2> QED
    BY <1>o, <2>7, <2>8, <2>9, FilesKept
<1> QED
  BY <1>m, <1>1, <1>2, <1>3, <1>4, <1>5

\* The edit under way is the one that holds files, or purges.
LEMMA EditAlone ==
    ASSUME Alone, NEW e \in Edits, edit[e].pc \in Editing
    PROVE  /\ \A i : Purging(i) => edit[e].pc = "purge_row" /\ edit[e].paper = i
           /\ \A u \in Edits : \A p, v : Holds(u, p, v) => u = e
<1>1. ASSUME NEW f \in Edits, edit[f].pc \in Editing PROVE f = e
  BY <1>1 DEF Alone, Active
<1>2. \A i : Purging(i) => edit[e].pc = "purge_row" /\ edit[e].paper = i
  BY <1>1 DEF Purging, Editing
<1>3. \A u \in Edits : \A p, v : Holds(u, p, v) => edit[u].pc \in Editing
  BY RefileAssumption DEF Holds, Editing
<1> QED
  BY <1>1, <1>2, <1>3

\* An edit keeps hashes apart: the row it writes has the bytes the row had.
LEMMA HashEdit ==
    ASSUME RefileTypeInv, SnapInv, HashInv, NEW e \in Edits,
           (\E i \in Stored : BeginIdentify(e, i) \/ BeginRefresh(e, i) \/ BeginPurge(e, i))
              \/ EditStep(e) \/ EditCrash(e)
    PROVE  HashInv'
<1>t. rows \in [Papers -> Row \cup {NoRow}]
  BY DEF RefileTypeInv, TypeInv, TypeOK
<1>k. ASSUME UNCHANGED sub,
             \A i \in Stored' : i \in Stored /\ rows'[i].content = rows[i].content
      PROVE  HashInv'
  BY <1>k DEF HashInv, WithHash
<1>u. ASSUME UNCHANGED <<rows, sub>> PROVE HashInv'
  BY <1>k, <1>u DEF Stored
<1>1. CASE edit[e].pc = "update" /\ rows' = [rows EXCEPT ![edit[e].paper] = edit[e].snap]
            /\ edit[e].snap \in Row /\ UNCHANGED sub
  <2>1. Snapshot(e)
    BY <1>1 DEF SnapInv, Active, Editing
  <2>2. PICK i \in Stored, r \in Row :
          /\ i = edit[e].paper /\ r = edit[e].snap /\ r.content = rows[i].content
    BY <1>1, <2>1 DEF Snapshot
  <2> QED
    BY <1>k, <1>t, <1>1, <2>2 DEF Stored
<1>2. CASE rows' = [rows EXCEPT ![edit[e].paper] = NoRow] /\ UNCHANGED sub
  BY <1>k, <1>t, <1>2 DEF Stored
<1> QED
  BY <1>u, <1>1, <1>2, EditRows

\* What edit e holds is what its await, from and to say.
LEMMA EditHoldsIs ==
    ASSUME NEW e \in Edits, NEW p, NEW v
    PROVE  /\ Holds(e, p, v) <=>
                \/ edit[e].pc = "fill" /\ edit[e].to = p /\ v = e
                \/ /\ edit[e].from # NoPath /\ v = edit[e].snap.content
                   /\ \/ edit[e].pc \in {"update", "rollback"} /\ edit[e].to = p
                      \/ edit[e].pc = "remove_old" /\ edit[e].from = p
           /\ Holds(e, p, v)' <=>
                \/ edit'[e].pc = "fill" /\ edit'[e].to = p /\ v = e
                \/ /\ edit'[e].from # NoPath /\ v = edit'[e].snap.content
                   /\ \/ edit'[e].pc \in {"update", "rollback"} /\ edit'[e].to = p
                      \/ edit'[e].pc = "remove_old" /\ edit'[e].from = p
BY RefileAssumption DEF Holds

\* The copy of a PDF, from its creation to the moment the snapshot has it.
LEMMA FilesCopying ==
    ASSUME RefileTypeInv, SnapInv, HashInv, FilesInv, Alone, NEW e \in Edits,
           CreateCopy(e) \/ AdoptOrLeave(e) \/ CopyOld(e) \/ CopyOldFails(e)
    PROVE  FilesInv'
<1>1. /\ UNCHANGED <<rows, sub>> /\ edit[e].pc \in {"create", "adopt", "fill"}
      /\ edit[e].from = NoPath /\ edit[e].to \in Paths /\ edit[e].snap \in Row
      /\ \A f \in Edits \ {e} : edit'[f] = edit[f]
      /\ edit'[e].paper = edit[e].paper /\ edit'[e].to = edit[e].to
      /\ \/ /\ edit'[e].snap = edit[e].snap /\ edit'[e].from = NoPath
            /\ \/ /\ edit[e].pc = "create" /\ edit'[e].pc = "fill"
                  /\ CreateNew(e, edit[e].to)
               \/ /\ edit[e].pc = "create" /\ edit'[e].pc = "adopt" /\ UNCHANGED files
               \/ /\ edit[e].pc = "adopt" /\ edit'[e].pc = "update" /\ UNCHANGED files
               \/ /\ edit[e].pc = "fill" /\ edit'[e].pc = "update"
                  /\ Remove(edit[e].to)
               \/ /\ edit[e].pc = "fill" /\ edit'[e].pc = "update" /\ UNCHANGED files
         \/ /\ edit'[e].snap = [edit[e].snap EXCEPT !.path = edit[e].to]
            /\ edit'[e].from = edit[e].snap.path /\ edit'[e].pc = "update"
            /\ \/ /\ edit[e].pc = "adopt" /\ UNCHANGED files
                  /\ files[edit[e].to] = edit[e].snap.content
               \/ /\ edit[e].pc = "fill"
                  /\ LET bytes == files[edit[e].snap.path] IN
                     Fill(e, edit[e].to, IF bytes \in Contents THEN bytes ELSE e)
  BY CopyingIs
<1>2. PICK p \in Paths, c \in Contents, old \in Paths :
         p = edit[e].to /\ c = edit[e].snap.content /\ old = edit[e].snap.path
  BY <1>1 DEF Row
<1>a. edit[e].pc \in Editing /\ edit[e].pc # "purge_row" /\ Snapshot(e)
  BY <1>1 DEF SnapInv, Active, Editing
<1>3. PICK i \in Stored : /\ i = edit[e].paper /\ rows[i].content = c
                          /\ rows[i].path = old /\ p # old
  BY <1>1, <1>2, <1>a DEF Snapshot
<1>o. /\ \A u, q, v : u # e => (Holds(u, q, v)' <=> Holds(u, q, v))
      /\ \A j : ~Purging(j) /\ (Purging(j)' <=> Purging(j))
      /\ \A u \in Edits : \A q, v : Holds(u, q, v) => u = e
  BY <1>1, <1>a, EditHolds, EditAlone, PurgingKept
<1>f. \A j \in Stored : files[rows[j].path] = rows[j].content
  BY <1>o DEF FilesInv
<1>g. files \in [Paths -> FileStates]
  BY DEF RefileTypeInv, TypeInv, TypeOK
<1>4. CASE edit'[e].pc = "fill" /\ CreateNew(e, p)
  <2>1. files[p] = Absent /\ files' = [files EXCEPT ![p] = e]
    BY <1>4 DEF CreateNew
  <2>2. Free(e, p)
    BY <2>1, AbsentFree
  <2>3. \A q, v : Holds(e, q, v)' => q = p /\ v = e
    BY <1>1, <1>2, <1>4, EditHoldsIs
  <2> QED
    BY <1>1, <1>o, <2>1, <2>2, <2>3, FilesAt
<1>5. CASE edit'[e].pc \in {"adopt", "update"} /\ edit'[e].from = NoPath /\ UNCHANGED files
  <2>1. \A q, v : ~Holds(e, q, v)'
    BY <1>5, EditHoldsIs
  <2>2. RowsAlike
    BY <1>1, SameRowsAlike
  <2> QED
    BY <1>1, <1>5, <1>o, <2>1, <2>2, FilesQuiet DEF RowsAlike
<1>6. CASE edit[e].pc = "fill" /\ edit'[e].pc = "update" /\ edit'[e].from = NoPath /\ Remove(p)
  <2>1. Holds(e, p, e)
    BY <1>2, <1>6, EditHoldsIs
  <2>2. Free(e, p) /\ files' = [files EXCEPT ![p] = Absent]
    BY <1>6, <2>1 DEF FilesInv, Remove
  <2>3. \A q, v : ~Holds(e, q, v)'
    BY <1>6, EditHoldsIs
  <2> QED
    BY <1>1, <1>o, <2>2, <2>3, FilesAt
<1>m. ASSUME edit'[e].snap = [edit[e].snap EXCEPT !.path = edit[e].to], edit'[e].pc = "update"
      PROVE  \A q, v : Holds(e, q, v)' => q = p /\ v = c
  <2>1. edit'[e].snap.content = c
    BY <1>1, <1>2, <1>m DEF Row
  <2>2. edit'[e].pc = "update" /\ edit'[e].to = p
    BY <1>1, <1>2, <1>m
  <2> QED
    BY <2>1, <2>2, EditHoldsIs
<1>7. CASE /\ edit'[e].snap = [edit[e].snap EXCEPT !.path = edit[e].to]
           /\ edit'[e].pc = "update" /\ edit[e].pc = "adopt" /\ UNCHANGED files
           /\ files[p] = c
  <2>1. \A u, x : ~Holds(u, p, x)
    <3> SUFFICES ASSUME NEW u, NEW x, Holds(u, p, x) PROVE FALSE
      OBVIOUS
    <3>1. CASE u \in Subs
      <4>1. /\ sub[u].pc \in Holding /\ x = c
            /\ x = IF sub[u].pc = "fill" THEN u ELSE sub[u].content
        BY <1>7, <3>1, RefileAssumption DEF Holds, FilesInv
      <4>2. sub[u].content = c /\ sub[u].pc \in Racing
        BY <3>1, <4>1, IngestAssumption, LibraryAssumption DEF Holding, Racing
      <4> QED
        BY <1>3, <3>1, <4>2 DEF HashInv, WithHash
    <3>2. CASE u \in Edits
      BY <1>1, <1>7, <1>o, <3>2, EditHoldsIs
    <3> QED
      BY <3>1, <3>2, HoldsIs
  <2>2. \A j \in Stored : rows[j].path # p
    BY <1>3, <1>7, <1>f DEF HashInv
  <2>3. Free(e, p) /\ files' = [files EXCEPT ![p] = c]
    BY <1>7, <1>g, <2>1, <2>2 DEF Free
  <2> QED
    BY <1>1, <1>7, <1>m, <1>o, <2>3, FilesAt
<1>8. CASE /\ edit'[e].snap = [edit[e].snap EXCEPT !.path = edit[e].to]
           /\ edit'[e].pc = "update" /\ edit[e].pc = "fill"
           /\ LET bytes == files[edit[e].snap.path] IN
              Fill(e, edit[e].to, IF bytes \in Contents THEN bytes ELSE e)
  <2>1. Holds(e, p, e)
    BY <1>2, <1>8, EditHoldsIs
  <2>2. Free(e, p) /\ files[p] = e
    BY <2>1 DEF FilesInv
  <2>3. files[edit[e].snap.path] = c
    BY <1>2, <1>3, <1>f
  <2>4. files' = [files EXCEPT ![p] = c]
    BY <1>2, <1>8, <2>2, <2>3 DEF Fill
  <2> QED
    BY <1>1, <1>8, <1>m, <1>o, <2>2, <2>4, FilesAt
<1> QED
  BY <1>1, <1>2, <1>4, <1>5, <1>6, <1>7, <1>8

\* The UPDATE: the row takes the new path, which has the paper's bytes, and the
\* old one becomes the edit's to remove.
LEMMA FilesUpdate ==
    ASSUME RefileTypeInv, SnapInv, HashInv, FilesInv, Alone, NEW e \in Edits,
           Update(e) \/ UpdateFails(e)
    PROVE  FilesInv'
<1>1. /\ edit[e].pc = "update" /\ UNCHANGED <<files, sub>> /\ edit[e].snap \in Row
      /\ edit[e].from # NoPath => edit[e].from \in Paths /\ edit[e].to \in Paths
      /\ \A f \in Edits \ {e} : edit'[f] = edit[f]
      /\ edit'[e].paper = edit[e].paper /\ edit'[e].snap = edit[e].snap
      /\ edit'[e].from = edit[e].from /\ edit'[e].to = edit[e].to
      /\ \/ edit'[e].pc = "rollback" /\ UNCHANGED rows
         \/ /\ edit'[e].pc = "remove_old"
            /\ rows' = IF edit[e].paper \in Stored
                       THEN [rows EXCEPT ![edit[e].paper] = edit[e].snap] ELSE rows
  <2>1. edit[e].pc = "update" /\ UNCHANGED files
    BY DEF Update, UpdateFails, StoresUnchanged
  <2> QED
    BY <2>1, FinishingIs
<1>a. edit[e].pc \in Editing /\ Snapshot(e)
  BY <1>1 DEF SnapInv, Active, Editing
<1>2. PICK i \in Stored, r \in Row :
        /\ i = edit[e].paper /\ r = edit[e].snap /\ r.content = rows[i].content
        /\ rows[i].path = IF edit[e].from # NoPath THEN edit[e].from ELSE r.path
        /\ edit[e].from # NoPath => r.path = edit[e].to /\ edit[e].from # edit[e].to
  BY <1>1, <1>a DEF Snapshot
<1>o. /\ \A u, q, v : u # e => (Holds(u, q, v)' <=> Holds(u, q, v))
      /\ \A j : ~Purging(j) /\ (Purging(j)' <=> Purging(j))
  BY <1>1, <1>a, EditHolds, EditAlone, PurgingKept
<1>f. \A j \in Stored : files[rows[j].path] = rows[j].content
  BY <1>o DEF FilesInv
<1>3. CASE edit'[e].pc = "rollback" /\ UNCHANGED rows
  <2>1. \A q, v : Holds(e, q, v)' => Holds(e, q, v)
    BY <1>1, <1>3, EditHoldsIs
  <2>2. RowsAlike
    BY <1>3, SameRowsAlike
  <2> QED
    BY <1>1, <1>o, <2>1, <2>2, FilesQuiet DEF RowsAlike
<1>4. CASE edit'[e].pc = "remove_old" /\ rows' = [rows EXCEPT ![i] = r]
  <2>1. /\ Stored' = Stored /\ rows'[i] = r
        /\ \A j \in Stored \ {i} : rows'[j] = rows[j]
    BY <1>2, <1>4, LibraryAssumption DEF RefileTypeInv, TypeInv, TypeOK, Stored
  <2>2. CASE edit[e].from = NoPath
    <3>1. \A q, v : ~Holds(e, q, v)'
      BY <1>1, <1>4, <2>2, EditHoldsIs
    <3>2. \A j \in Stored : rows'[j].content = rows[j].content /\ rows'[j].path = rows[j].path
      BY <1>2, <2>1, <2>2
    <3> QED
      BY <1>1, <1>o, <2>1, <3>1, <3>2, FilesQuiet
  <2>3. CASE edit[e].from # NoPath
    <3>1. PICK p, old, c : p = edit[e].to /\ old = edit[e].from /\ c = r.content
      OBVIOUS
    <3>2. Holds(e, p, c)
      BY <1>1, <1>2, <2>3, <3>1, EditHoldsIs
    <3>3. files[p] = c /\ Free(e, p) /\ files[old] = c
      BY <1>2, <1>f, <2>3, <3>1, <3>2 DEF FilesInv
    <3>4. \A j \in Stored : rows[j].path = old => j = i
      BY <1>2, <1>f, <2>3, <3>1 DEF HashInv
    <3>5. \A j \in Stored : rows'[j].path # old
      BY <1>2, <2>1, <2>3, <3>1, <3>4
    <3>6. \A u, x : Holds(u, old, x) => FALSE
      BY <1>2, <1>o, <2>3, <3>1 DEF FilesInv, Free
    <3>7. \A j \in Stored' : files'[rows'[j].path] = rows'[j].content \/ Purging(j)'
      BY <1>1, <1>2, <1>f, <2>1, <2>3, <3>1, <3>3
    <3>8. \A q, v : Holds(e, q, v)' => q = old /\ v = c
      BY <1>1, <1>2, <1>4, <3>1, EditHoldsIs
    <3>9. \A q, v : Holds(e, q, v)' =>
            /\ files'[q] = v /\ \A u, x : Holds(u, q, x) => u = e
            /\ \A j \in Stored' : rows'[j].path = q => Purging(j)'
      BY <1>1, <2>1, <3>3, <3>5, <3>6, <3>8
    <3>10. ASSUME NEW u, NEW q, NEW v, u # e, Holds(u, q, v)
           PROVE  files'[q] = files[q] /\ \A j \in Stored' : rows'[j].path = q => Purging(j)'
      <4>1. q # p /\ \A j \in Stored : rows[j].path # q
        BY <1>o, <3>3, <3>10 DEF FilesInv, Free
      <4> QED
        BY <1>1, <1>2, <2>1, <2>3, <3>1, <4>1
    <3> QED
      BY <1>o, <3>7, <3>9, <3>10, FilesKept
  <2> QED
    BY <2>2, <2>3
<1> QED
  BY <1>1, <1>2, <1>3, <1>4

\* The removals that end an edit take only what is its own.
LEMMA FilesEnding ==
    ASSUME RefileTypeInv, FilesInv, NEW e \in Edits, Rollback(e) \/ RemoveOld(e)
    PROVE  FilesInv'
<1>1. /\ UNCHANGED <<rows, sub>> /\ edit[e].pc \in {"rollback", "remove_old"}
      /\ edit[e].from # NoPath => edit[e].from \in Paths /\ edit[e].to \in Paths
      /\ \A f \in Edits \ {e} : edit'[f] = edit[f]
      /\ edit'[e].pc \in {"failed", "applied"}
      /\ \/ UNCHANGED files
         \/ edit[e].pc = "rollback" /\ edit[e].from # NoPath /\ Remove(edit[e].to)
         \/ edit[e].pc = "remove_old" /\ edit[e].from # NoPath /\ Remove(edit[e].from)
  <2>1. edit[e].pc \in {"rollback", "remove_old"} /\ UNCHANGED rows
    BY DEF Rollback, RemoveOld, EndRemoving
  <2> QED
    BY <2>1, FinishingIs
<1>o. /\ \A u, q, v : u # e => (Holds(u, q, v)' <=> Holds(u, q, v))
      /\ \A j : Purging(j)' <=> Purging(j)
      /\ \A q, v : ~Holds(e, q, v)'
  BY <1>1, EditHolds, EditHoldsIs, PurgingKept
<1>2. CASE UNCHANGED files
  BY <1>1, <1>2, <1>o, FilesQuiet, SameRowsAlike DEF RowsAlike
<1>3. CASE files' # files
  <2>1. PICK p \in Paths :
          /\ edit[e].from # NoPath /\ files' = [files EXCEPT ![p] = Absent]
          /\ \/ edit[e].pc = "rollback" /\ edit[e].to = p
             \/ edit[e].pc = "remove_old" /\ edit[e].from = p
    BY <1>1, <1>3 DEF Remove
  <2>2. Holds(e, p, edit[e].snap.content)
    BY <2>1, EditHoldsIs
  <2>3. Free(e, p)
    BY <2>2 DEF FilesInv
  <2> QED
    BY <1>1, <1>o, <2>1, <2>3, FilesAt
<1> QED
  BY <1>2, <1>3

\* A purge removes its paper's file, and no other's, then its row.
LEMMA FilesPurge ==
    ASSUME RefileTypeInv, SnapInv, HashInv, FilesInv, Alone, NotHalf', NEW e \in Edits,
           PurgeFile(e) \/ PurgeRow(e) \/ EditCrash(e)
    PROVE  FilesInv'
<1>t. Fit(edit[e]) /\ rows \in [Papers -> Row \cup {NoRow}] /\ files \in [Paths -> FileStates]
  BY DEF RefileTypeInv, EditTypeInv, TypeInv, TypeOK
<1>a. edit[e].pc \in Editing => Snapshot(e)
  BY DEF SnapInv, Active
<1>0. CASE PurgeFile(e) /\ edit'[e].from = NoPath
  <2>1. /\ UNCHANGED <<rows, sub>> /\ edit[e].pc = "purge_file" /\ edit'[e].pc = "purge_row"
        /\ edit[e].snap \in Row /\ UNCHANGED files
        /\ \A f \in Edits \ {e} : edit'[f] = edit[f]
    BY <1>0, PurgeFileIs, IngestAssumption DEF Row
  <2>2. /\ \A u, q, v : u # e => (Holds(u, q, v)' <=> Holds(u, q, v))
        /\ \A q, v : ~Holds(e, q, v)'
    BY <2>1, EditHolds, EditHoldsIs
  <2>3. \A j : Purging(j)' <=> Purging(j)
    BY <1>0, <2>1, PurgingKept
  <2> QED
    BY <2>1, <2>2, <2>3, FilesQuiet, SameRowsAlike DEF RowsAlike
<1>1. CASE PurgeFile(e) /\ edit'[e].from # NoPath
  <2>1. /\ UNCHANGED <<rows, sub>> /\ edit[e].pc = "purge_file" /\ edit'[e].pc = "purge_row"
        /\ edit[e].snap \in Row /\ Remove(edit[e].snap.path)
        /\ edit'[e].paper = edit[e].paper
        /\ \A f \in Edits \ {e} : edit'[f] = edit[f]
    BY <1>1, PurgeFileIs
  <2>2. PICK i \in Stored, p \in Paths :
          i = edit[e].paper /\ p = edit[e].snap.path /\ p = rows[i].path
    BY <1>a, <2>1 DEF Snapshot, Editing, Row
  <2>3. /\ \A u, q, v : u # e => (Holds(u, q, v)' <=> Holds(u, q, v))
        /\ \A j : ~Purging(j) /\ Purging(i)'
        /\ \A q, v : ~Holds(e, q, v) /\ ~Holds(e, q, v)'
    <3>1. Purging(i)'
      BY <1>1, <2>1, <2>2 DEF Purging
    <3>2. edit[e].pc \in Editing
      BY <2>1 DEF Editing
    <3> QED
      BY <2>1, <3>1, <3>2, EditHolds, EditAlone, EditHoldsIs
  <2>4. \A j \in Stored : files[rows[j].path] = rows[j].content
    BY <2>3 DEF FilesInv
  <2>5. \A j \in Stored : rows[j].path = p => j = i
    BY <2>2, <2>4 DEF HashInv
  <2>6. files'[p] = Absent /\ \A q \in Paths \ {p} : files'[q] = files[q]
    BY <1>t, <2>1, <2>2 DEF Remove
  <2>7. Stored' = Stored /\ \A j \in Stored : rows'[j] = rows[j] /\ rows[j].path \in Paths
    BY <1>t, <2>1 DEF Stored, Row
  <2>8. \A j \in Stored' : files'[rows'[j].path] = rows'[j].content \/ Purging(j)'
    BY <2>3, <2>4, <2>5, <2>6, <2>7
  <2>9. ASSUME NEW u, NEW q, NEW v, u # e, Holds(u, q, v)
        PROVE  files'[q] = files[q] /\ \A j \in Stored' : rows'[j].path = q => Purging(j)'
    <3>1. q \in Paths /\ \A j \in Stored : rows[j].path # q
      BY <2>3, <2>9, HoldsIs DEF FilesInv, Free
    <3> QED
      BY <2>2, <2>6, <2>7, <3>1
  <2>10. /\ \A u, q, v : u # e => (Holds(u, q, v)' <=> Holds(u, q, v))
         /\ \A q, v : ~Holds(e, q, v)'
    BY <2>3
  <2> QED
    BY ONLY FilesInv, <2>8, <2>9, <2>10, FilesKept
<1>2. CASE PurgeRow(e) \/ EditCrash(e)
  <2>1. /\ UNCHANGED <<files, sub>> /\ edit[e].pc \in Editing
        /\ edit'[e].from = IF edit[e].pc = "purge_row" THEN edit[e].from ELSE NoPath
        /\ \A f \in Edits \ {e} : edit'[f] = edit[f]
        /\ \/ /\ edit[e].pc = "purge_row" /\ edit'[e].pc = "applied"
              /\ rows' = [rows EXCEPT ![edit[e].paper] = NoRow]
           \/ edit'[e].pc \in {"failed", "crashed"} /\ UNCHANGED rows
    BY <1>2, PurgeRowIs
  <2>2. /\ \A u, q, v : u # e => (Holds(u, q, v)' <=> Holds(u, q, v))
        /\ \A q, v : ~Holds(e, q, v)'
    BY <2>1, EditHolds, EditHoldsIs
  <2>3. CASE edit'[e].pc \in {"failed", "crashed"} /\ UNCHANGED rows
    <3>1. edit[e].pc # "purge_row" \/ edit[e].from = NoPath
      BY <2>1, <2>3 DEF NotHalf
    <3>2. \A j : Purging(j)' <=> Purging(j)
      BY <2>1, <2>3, <3>1, PurgingKept
    <3> QED
      BY <2>1, <2>2, <2>3, <3>2, FilesQuiet, SameRowsAlike DEF RowsAlike
  <2>4. CASE /\ edit[e].pc = "purge_row" /\ edit'[e].pc = "applied"
             /\ rows' = [rows EXCEPT ![edit[e].paper] = NoRow]
    <3>1. PICK i : i = edit[e].paper /\ i \in Papers
      BY <1>t, <2>1 DEF Fit
    <3>2. \A j : Purging(j) => j = i
      BY <2>1, <3>1, EditAlone
    <3>3. \A j \in Stored' : j \in Stored /\ j # i /\ rows'[j] = rows[j]
      BY <1>t, <2>4, <3>1 DEF Stored
    <3>4. \A j \in Stored' : files'[rows'[j].path] = rows'[j].content \/ Purging(j)'
      BY <2>1, <3>2, <3>3 DEF FilesInv
    <3>5. ASSUME NEW u, NEW q, NEW v, u # e, Holds(u, q, v)
          PROVE  files'[q] = files[q] /\ \A j \in Stored' : rows'[j].path = q => Purging(j)'
      <4>1. \A j \in Stored : rows[j].path = q => j = i
        BY <3>2, <3>5 DEF FilesInv, Free
      <4> QED
        BY <2>1, <3>3, <4>1
    <3> QED
      BY <2>2, <3>4, <3>5, FilesKept
  <2> QED
    BY <2>1, <2>3, <2>4
<1> QED
  BY <1>0, <1>1, <1>2

\* Until it has a file to work on, an edit reads.
LEMMA FilesReading ==
    ASSUME RefileTypeInv, FilesInv, NEW e \in Edits,
           (\E i \in Stored : BeginIdentify(e, i) \/ BeginRefresh(e, i) \/ BeginPurge(e, i))
              \/ FindMatch(e) \/ GuardMatch(e) \/ ReResolve(e) \/ Rekey(e)
    PROVE  FilesInv'
<1>r. ASSUME UNCHANGED <<rows, files, sub>>, \A f \in Edits \ {e} : edit'[f] = edit[f],
             edit[e].pc # "purge_row",
             edit'[e].pc \in {"match", "reresolve", "purge_file", "refused", "guard", "rekey",
                              "update", "create"},
             edit'[e].pc = "update" => edit'[e].from = NoPath
      PROVE  FilesInv'
  <2>1. \A u, p, v : u # e => (Holds(u, p, v)' <=> Holds(u, p, v))
    BY <1>r, EditHolds
  <2>2. \A i : Purging(i)' <=> Purging(i)
    BY <1>r, PurgingKept
  <2>3. \A p, v : ~Holds(e, p, v)'
    BY <1>r, EditHoldsIs
  <2>4. RowsAlike
    BY <1>r, SameRowsAlike
  <2> QED
    BY <1>r, <2>1, <2>2, <2>3, <2>4, FilesQuiet DEF RowsAlike
<1>1. ASSUME NEW i \in Stored, BeginIdentify(e, i) \/ BeginRefresh(e, i) \/ BeginPurge(e, i)
      PROVE  FilesInv'
  <2>1. PICK op : Begin(e, op, i, "match") \/ Begin(e, op, i, "reresolve")
                    \/ Begin(e, op, i, "purge_file")
    BY <1>1 DEF BeginIdentify, BeginRefresh, BeginPurge
  <2> QED
    BY <1>r, <2>1, BeginIs
<1>2. CASE FindMatch(e) \/ GuardMatch(e) \/ ReResolve(e)
  BY <1>r, <1>2, DecideIs
<1>3. CASE Rekey(e)
  <2>1. edit[e].pc = "rekey" /\ Fit(edit[e])
    BY <1>3 DEF Rekey, RefileTypeInv, EditTypeInv
  <2>2. /\ UNCHANGED <<rows, files, sub>> /\ \A f \in Edits \ {e} : edit'[f] = edit[f]
        /\ edit'[e].pc \in {"update", "create"} /\ edit'[e].from = edit[e].from
    BY <1>3, RekeyIs
  <2> QED
    BY <1>r, <2>1, <2>2 DEF Fit, Early
<1> QED
  BY <1>1, <1>2, <1>3

LEMMA FilesNext ==
    ASSUME RefileTypeInv, SnapInv, HashInv, FilesInv, Orderly, Orderly', [RefileNext]_refileVars
    PROVE  HashInv' /\ FilesInv'
<1>1. ASSUME UNCHANGED <<files, sub, edit>>, RowsAlike PROVE HashInv' /\ FilesInv'
  <2>1. HashInv'
    BY <1>1 DEF HashInv, WithHash, RowsAlike
  <2>2. \A u, p, v : Holds(u, p, v)' <=> Holds(u, p, v)
    BY <1>1 DEF Holds
  <2>3. \A i : Purging(i)' <=> Purging(i)
    BY <1>1 DEF Purging
  <2> QED
    BY <1>1, <2>1, <2>2, <2>3, FilesQuiet DEF RowsAlike
<1>2. CASE UNCHANGED refileVars
  BY <1>1, <1>2, SameRowsAlike DEF refileVars
<1>3. ASSUME NEW i \in Papers, Trash(i) \/ Untrash(i), UNCHANGED edit PROVE HashInv' /\ FilesInv'
  BY <1>1, <1>3, TrashedIs DEF RefileTypeInv
<1>4. ASSUME NEW s \in Subs, Submit(s) \/ Step(s) \/ Crash(s), UNCHANGED edit
      PROVE  HashInv' /\ FilesInv'
  BY <1>4, HashIngest, FilesIngest DEF Orderly
<1>5. ASSUME NEW e \in Edits,
             (\E i \in Stored : BeginIdentify(e, i) \/ BeginRefresh(e, i) \/ BeginPurge(e, i))
                \/ EditStep(e) \/ EditCrash(e)
      PROVE  HashInv' /\ FilesInv'
  <2>1. HashInv'
    BY <1>5, HashEdit
  <2>2. FilesInv'
    <3>1. CASE (\E i \in Stored : BeginIdentify(e, i) \/ BeginRefresh(e, i) \/ BeginPurge(e, i))
                 \/ FindMatch(e) \/ GuardMatch(e) \/ ReResolve(e) \/ Rekey(e)
      BY <3>1, FilesReading
    <3>2. CASE CreateCopy(e) \/ AdoptOrLeave(e) \/ CopyOld(e) \/ CopyOldFails(e)
      BY <3>2, FilesCopying DEF Orderly
    <3>3. CASE Update(e) \/ UpdateFails(e)
      BY <3>3, FilesUpdate DEF Orderly
    <3>4. CASE Rollback(e) \/ RemoveOld(e)
      BY <3>4, FilesEnding
    <3>5. CASE PurgeFile(e) \/ PurgeRow(e) \/ EditCrash(e)
      BY <3>5, FilesPurge DEF Orderly
    <3> QED
      BY <1>5, <3>1, <3>2, <3>3, <3>4, <3>5 DEF EditStep
  <2> QED
    BY <2>1, <2>2
<1> QED
  BY <1>2, <1>3, <1>4, <1>5 DEF RefileNext, Next

\* No row of the library starts with a torn file.
WholePrior ==
    \A l \in Prior : \A i \in Papers :
        l.rows[i] # NoRow => l.files[l.rows[i].path] = l.rows[i].content

LEMMA FilesInit ==
    ASSUME WholePrior, RefileInit
    PROVE  HashInv /\ FilesInv
<1>1. /\ \A s \in Subs : sub[s].pc = "idle"
      /\ \A e \in Edits : edit[e].pc = "idle"
  BY DEF RefileInit, Init, Unsubmitted, NoEdit
<1>2. PICK l \in Prior : rows = l.rows /\ files = l.files
  BY DEF RefileInit, Init, LibraryInit
<1>3. \A i, j \in Stored : rows[i].content = rows[j].content => i = j
  BY <1>2, LibraryAssumption DEF Distinct, Stored
<1>4. \A i \in Stored : files[rows[i].path] = rows[i].content
  BY <1>2 DEF WholePrior, Stored
<1>5. \A w, p, v : ~Holds(w, p, v)
  BY <1>1 DEF Holds, Holding
<1> QED
  BY <1>1, <1>3, <1>4, <1>5 DEF HashInv, FilesInv, Racing

\* The path in the database holds the paper's own bytes, whatever an edit does
\* and wherever it fails or crashes, however many edits follow one another and
\* ingests run beside them: save_and_refile copies before its UPDATE, removes
\* after it, and adopts only a file that is this paper's.
THEOREM FiledUnlessPurgedHolds ==
    ASSUME WholePrior
    PROVE  RefileSpec /\ []Orderly => []FiledUnlessPurged
<1>1. ASSUME RefileTypeInv, FilesInv PROVE FiledUnlessPurged
  BY <1>1 DEF FilesInv, FiledUnlessPurged, Purging, HalfPurged
<1>2. Orderly => Alone
  BY DEF Orderly
<1>3. RefileInit => HashInv /\ FilesInv
  BY FilesInit
<1> QED
  BY <1>1, <1>2, <1>3, RefileTypeInit, RefileTypeNext, SnapInit, SnapNext, FilesNext, PTL
  DEF RefileSpec

\* One edit at a time, as in a single `xuewen` process whose caller waits for
\* each answer, is such a behaviour.
LEMMA AloneHolds ==
    ASSUME MaxEdits = 1
    PROVE  RefileSpec => []Alone
<1>1. RefileInit => Alone
  BY DEF RefileInit, NoEdit, Alone, Active, Editing
<1>2. ASSUME Alone, RefileTypeInv, [RefileNext]_refileVars PROVE Alone'
  <2>1. CASE UNCHANGED edit
    BY <1>2, <2>1 DEF Alone, Active
  <2>2. ASSUME NEW e \in Edits, NEW i \in Stored,
               BeginIdentify(e, i) \/ BeginRefresh(e, i) \/ BeginPurge(e, i)
        PROVE  Alone'
    <3>1. PICK op : Begin(e, op, i, "match") \/ Begin(e, op, i, "reresolve")
                      \/ Begin(e, op, i, "purge_file")
      BY <2>2 DEF BeginIdentify, BeginRefresh, BeginPurge
    <3>b. \A f \in Edits \ {e} : edit'[f] = edit[f]
      BY <1>2, <3>1, BeginIs
    <3>2. Cardinality(Active) < 1 /\ \A f \in Edits \ {e} : edit'[f] = edit[f]
      BY <3>1, <3>b DEF Begin
    <3>3. Active = {}
      <4> SUFFICES ASSUME NEW f \in Active PROVE FALSE
        OBVIOUS
      <4>1. Active = {f}
        BY <1>2 DEF Alone
      <4>2. Cardinality(Active) = 1
        BY <4>1, FS_Singleton
      <4> QED
        BY <3>2, <4>2
    <3> QED
      BY <3>2, <3>3 DEF Alone, Active
  <2>3. ASSUME NEW e \in Edits, EditStep(e) \/ EditCrash(e) PROVE Alone'
    <3>1. e \in Active /\ \A f \in Edits \ {e} : edit'[f] = edit[f]
      <4>1. CASE FindMatch(e) \/ GuardMatch(e) \/ ReResolve(e) \/ Rekey(e)
        BY <1>2, <4>1, DecideIs, RekeyIs DEF Active, Editing
      <4>2. CASE CreateCopy(e) \/ AdoptOrLeave(e) \/ CopyOld(e) \/ CopyOldFails(e)
        BY <1>2, <4>2, CopyingIs DEF Active, Editing
      <4>3. CASE Update(e) \/ UpdateFails(e) \/ Rollback(e) \/ RemoveOld(e)
        BY <1>2, <4>3, FinishingIs DEF Active, Editing
      <4>4. CASE PurgeFile(e) \/ PurgeRow(e) \/ EditCrash(e)
        BY <1>2, <4>4, PurgeFileIs, PurgeRowIs DEF Active, Editing
      <4> QED
        BY <2>3, <4>1, <4>2, <4>3, <4>4 DEF EditStep
    <3> QED
      BY <1>2, <3>1 DEF Alone, Active
  <2> QED
    BY <1>2, <2>1, <2>2, <2>3 DEF RefileNext, refileVars
<1> QED
  BY <1>1, <1>2, RefileTypeInit, RefileTypeNext, PTL DEF RefileSpec

----------------------------------------------------------------------------
(* What an edit leaves behind: the proof of AbandonedOnlyByFault.          *)

\* The file under k, if there is one, is named by a row other than i's, or a
\* submission holds it, died with it or could not remove it.
Accounted(k, i) ==
    \/ files[k] = Absent
    \/ \E j \in Stored \ {i} : rows[j].path = k
    \/ \E s \in Subs : sub[s].path = k /\ Liable(s)

\* Only a move has a destination, and what an ingest puts under the key a purge
\* has emptied does not need the purged row to be accounted for.
Emptied ==
    \A e \in Edits :
        /\ edit[e].pc \in {"idle", "purge_file", "purge_row"} => edit[e].to = NoPath
        /\ edit[e].pc = "purge_row" /\ edit[e].from \in Keys =>
               Accounted(edit[e].from, edit[e].paper)

\* What a step of submission s can do to the file under k.
LEMMA IngestLeaves ==
    ASSUME RefileTypeInv, SnapInv, NEW s \in Subs, Submit(s) \/ Step(s) \/ Crash(s),
           NEW k \in Keys
    PROVE  /\ \A t \in Subs \ {s} : sub'[t] = sub[t]
           /\ \A j \in Stored : j \in Stored' /\ rows'[j].path = rows[j].path
           /\ files[k] = Absent /\ files'[k] # Absent =>
                  sub'[s].path = k /\ sub'[s].pc = "fill"
           /\ sub[s].path = k /\ Liable(s) =>
                  \/ sub'[s].path = k /\ Liable(s)'
                  \/ files'[k] = Absent
                  \/ s \in Stored' \ Stored /\ rows'[s].path = k
<1>t. TypeInv /\ files \in [Paths -> FileStates] /\ k \in Paths
  BY DEF RefileTypeInv, TypeInv, TypeOK, Paths
<1>m. /\ \A t \in Subs \ {s} : sub'[t] = sub[t]
      /\ Looks(s) \/ Creates(s) \/ Finishes(s) \/ Discards(s) \/ Inserts(s)
  BY <1>t, SubStepIs
<1>r. ASSUME UNCHANGED rows
      PROVE  \A j \in Stored : j \in Stored' /\ rows'[j].path = rows[j].path
  BY <1>r DEF Stored
<1>1. CASE Looks(s)
  BY <1>1, <1>m, <1>r DEF Looks, KeepsPath, Liable
<1>2. CASE Creates(s)
  <2>1. /\ UNCHANGED rows /\ sub'[s].pc = "fill" /\ ~Liable(s)
        /\ \/ sub'[s].path \in Keys /\ CreateNew(s, sub'[s].path)
           \/ Truncate(s, sub[s].content)
    BY <1>2 DEF Creates, Liable, Holding, SnapInv, Filed, Over, Ended
  <2>2. sub[s].content \in Contents
    BY <1>2, <1>t DEF Creates, TypeInv, Progress
  <2>3. files'[k] = files[k] \/ sub'[s].path = k
    BY <1>t, <2>1, <2>2, LibraryAssumption DEF CreateNew, Truncate
  <2> QED
    BY <1>m, <1>r, <2>1, <2>3
<1>3. CASE Finishes(s)
  <2>1. /\ UNCHANGED rows /\ sub'[s].pc = "insert" /\ sub'[s].path = sub[s].path
        /\ Fill(s, sub[s].path, sub[s].content)
    BY <1>3 DEF Finishes, KeepsPath
  <2>2. files[k] = Absent => files'[k] = Absent
    BY <1>t, <2>1, LibraryAssumption, IngestAssumption DEF Fill
  <2> QED
    BY <1>m, <1>r, <2>1, <2>2 DEF Liable, Holding
<1>4. CASE Discards(s)
  <2>1. /\ UNCHANGED rows /\ sub'[s].path = sub[s].path
        /\ \/ Remove(sub[s].path)
           \/ UNCHANGED files /\ (sub[s].path \in Keys => sub'[s].stayed)
    BY <1>4 DEF Discards
  <2>2. /\ files[k] = Absent => files'[k] = Absent
        /\ sub[s].path = k => files'[k] = Absent \/ Liable(s)'
    BY <1>t, <2>1 DEF Remove, Liable
  <2> QED
    BY <1>m, <1>r, <2>1, <2>2
<1>5. CASE Inserts(s)
  <2>1. /\ Stored' = Stored \cup {s} /\ rows'[s].path = sub[s].path
        /\ \A i \in Stored \ {s} : rows'[i] = rows[i]
    BY <1>5, <1>t, InsertedIs
  <2>2. s \notin Stored /\ UNCHANGED files
    BY <1>5 DEF SnapInv, Filed, Rowed, Inserts, Over, Ended
  <2> QED
    BY <1>m, <2>1, <2>2
<1> QED
  BY <1>m, <1>1, <1>2, <1>3, <1>4, <1>5

LEMMA AccountedIngest ==
    ASSUME RefileTypeInv, SnapInv, Next, NEW k \in Keys, NEW i \in Stored, Accounted(k, i)
    PROVE  Accounted(k, i)'
<1>t. TypeInv
  BY DEF RefileTypeInv
<1>1. ASSUME NEW j \in Papers, Trash(j) \/ Untrash(j) PROVE Accounted(k, i)'
  BY <1>1, <1>t, TrashedIs DEF Accounted, RowsAlike, Liable
<1>2. ASSUME NEW s \in Subs, Submit(s) \/ Step(s) \/ Crash(s) PROVE Accounted(k, i)'
  <2>1. /\ \A t \in Subs \ {s} : sub'[t] = sub[t]
        /\ \A j \in Stored : j \in Stored' /\ rows'[j].path = rows[j].path
        /\ files[k] = Absent /\ files'[k] # Absent =>
               sub'[s].path = k /\ sub'[s].pc = "fill"
        /\ sub[s].path = k /\ Liable(s) =>
               \/ sub'[s].path = k /\ Liable(s)'
               \/ files'[k] = Absent
               \/ s \in Stored' \ Stored /\ rows'[s].path = k
    BY <1>2, IngestLeaves
  <2>2. CASE files[k] = Absent
    BY <2>1, <2>2 DEF Accounted, Liable, Holding
  <2>3. CASE \E j \in Stored \ {i} : rows[j].path = k
    BY <2>1, <2>3 DEF Accounted
  <2>4. ASSUME NEW t \in Subs, sub[t].path = k, Liable(t)
        PROVE  Accounted(k, i)'
    <3>1. CASE t = s
      BY <2>1, <2>4, <3>1 DEF Accounted
    <3>2. CASE t # s
      BY <2>1, <2>4, <3>2 DEF Accounted, Liable
    <3> QED
      BY <3>1, <3>2
  <2> QED
    BY <2>2, <2>3, <2>4 DEF Accounted
<1> QED
  BY <1>1, <1>2 DEF Next

LEMMA EmptiedNext ==
    ASSUME RefileTypeInv, SnapInv, Emptied, Alone, Alone', [RefileNext]_refileVars
    PROVE  Emptied'
<1>1. CASE UNCHANGED refileVars
  BY <1>1 DEF refileVars, Emptied, Accounted, Liable, Stored
<1>2. CASE Next /\ UNCHANGED edit
  <2>1. ASSUME NEW e \in Edits, edit[e].pc = "purge_row", edit[e].from \in Keys
        PROVE  Accounted(edit[e].from, edit[e].paper)'
    <3>1. edit[e].paper \in Stored
      BY <2>1 DEF SnapInv, Active, Snapshot, Editing
    <3>2. PICK k \in Keys, i \in Stored : k = edit[e].from /\ i = edit[e].paper
      BY <2>1, <3>1
    <3>3. Accounted(k, i)'
      BY <1>2, <2>1, <3>2, AccountedIngest DEF Emptied
    <3> QED
      BY <1>2, <3>2, <3>3 DEF Accounted
  <2> QED
    BY <1>2, <2>1 DEF Emptied
\* An edit's own step: no other is at a purge then.
<1>3. ASSUME NEW e \in Edits, \A f \in Edits \ {e} : edit'[f] = edit[f],
             edit[e].pc \in Editing \/ edit'[e].pc \in Editing,
             edit'[e].pc \in {"idle", "purge_file", "purge_row"} => edit'[e].to = NoPath,
             edit'[e].pc = "purge_row" /\ edit'[e].from \in Keys =>
                 Accounted(edit[e].from, edit[e].paper)'
      PROVE  Emptied'
  <2> SUFFICES ASSUME NEW f \in Edits, f # e
               PROVE  /\ edit'[f].pc \in {"idle", "purge_file", "purge_row"} =>
                             edit'[f].to = NoPath
                      /\ edit'[f].pc # "purge_row"
    BY <1>3 DEF Emptied
  <2>1. edit'[f] = edit[f]
    BY <1>3
  <2>2. edit[f].pc # "purge_row"
    BY <1>3, <2>1 DEF Alone, Active, Editing
  <2> QED
    BY <2>1, <2>2 DEF Emptied
<1>4. ASSUME NEW e \in Edits, NEW i \in Stored,
             BeginIdentify(e, i) \/ BeginRefresh(e, i) \/ BeginPurge(e, i)
      PROVE  Emptied'
  <2>1. PICK op : Begin(e, op, i, "match") \/ Begin(e, op, i, "reresolve")
                    \/ Begin(e, op, i, "purge_file")
    BY <1>4 DEF BeginIdentify, BeginRefresh, BeginPurge
  <2>2. /\ edit[e].pc = "idle" /\ edit'[e].pc \in {"match", "reresolve", "purge_file"}
        /\ edit'[e].to = edit[e].to /\ \A f \in Edits \ {e} : edit'[f] = edit[f]
    BY <2>1, BeginIs
  <2> QED
    BY <1>3, <2>2 DEF Emptied, Editing
<1>5. ASSUME NEW e \in Edits, EditStep(e) \/ EditCrash(e) PROVE Emptied'
  <2>1. CASE PurgeFile(e)
    <3>1. /\ edit[e].pc = "purge_file" /\ edit'[e].pc = "purge_row"
          /\ edit[e].snap \in Row /\ edit'[e].to = edit[e].to
          /\ \/ Remove(edit[e].snap.path) /\ edit'[e].from = edit[e].snap.path
             \/ edit'[e].from = NoPath
          /\ \A f \in Edits \ {e} : edit'[f] = edit[f]
      BY <2>1, PurgeFileIs
    <3>2. edit'[e].from \in Keys => files'[edit'[e].from] = Absent
      BY <3>1, IngestAssumption DEF Row, Paths, Remove, RefileTypeInv, TypeInv, TypeOK
    <3> QED
      BY <1>3, <3>1, <3>2 DEF Emptied, Accounted, Editing
  <2>2. CASE ~PurgeFile(e)
    <3>1. /\ edit[e].pc \in Editing /\ edit'[e].pc \notin {"idle", "purge_file", "purge_row"}
          /\ \A f \in Edits \ {e} : edit'[f] = edit[f]
      <4>1. CASE FindMatch(e) \/ GuardMatch(e) \/ ReResolve(e) \/ Rekey(e)
        BY <4>1, DecideIs, RekeyIs DEF Editing
      <4>2. CASE CreateCopy(e) \/ AdoptOrLeave(e) \/ CopyOld(e) \/ CopyOldFails(e)
        BY <4>2, CopyingIs DEF Editing
      <4>3. CASE Update(e) \/ UpdateFails(e) \/ Rollback(e) \/ RemoveOld(e)
        BY <4>3, FinishingIs DEF Editing
      <4>4. CASE PurgeRow(e) \/ EditCrash(e)
        BY <4>4, PurgeRowIs
      <4> QED
        BY <1>5, <2>2, <4>1, <4>2, <4>3, <4>4 DEF EditStep
    <3> QED
      BY <1>3, <3>1
  <2> QED
    BY <2>1, <2>2
<1> QED
  BY <1>1, <1>2, <1>4, <1>5 DEF RefileNext

\* An ingest leaves no file that neither its crash nor a refused removal explains.
LEMMA AbandonedIngest ==
    ASSUME RefileTypeInv, SnapInv, Next, UNCHANGED edit, NEW k \in Keys,
           Abandoned(k)', ~Abandoned(k)
    PROVE  \E s \in Subs : (sub'[s].pc = "crashed" \/ sub'[s].stayed) /\ sub'[s].path = k
<1>1. Active' = Active /\ \A e \in Edits : Claims(e)' = Claims(e)
  BY DEF Active, Claims
<1>2. Stranded(k)' /\ ~Stranded(k)
  BY <1>1 DEF Abandoned, Active
<1>3. ASSUME NEW j \in Papers, Trash(j) \/ Untrash(j) PROVE FALSE
  <2>1. RowsAlike /\ UNCHANGED <<files, sub>>
    BY <1>3, TrashedIs DEF RefileTypeInv
  <2> QED
    BY <1>2, <2>1 DEF Stranded, RowsAlike
<1>4. ASSUME NEW s \in Subs, Submit(s) \/ Step(s) \/ Crash(s)
      PROVE  (sub'[s].pc = "crashed" \/ sub'[s].stayed) /\ sub'[s].path = k
  <2>1. /\ \A t \in Subs \ {s} : sub'[t] = sub[t]
        /\ \A j \in Stored : j \in Stored' /\ rows'[j].path = rows[j].path
        /\ files[k] = Absent /\ files'[k] # Absent =>
               sub'[s].path = k /\ sub'[s].pc = "fill"
        /\ sub[s].path = k /\ Liable(s) =>
               \/ sub'[s].path = k /\ Liable(s)'
               \/ files'[k] = Absent
               \/ s \in Stored' \ Stored /\ rows'[s].path = k
    BY <1>4, IngestLeaves
  <2>2. files[k] # Absent /\ \A j \in Stored : rows[j].path # k
    BY <1>2, <2>1 DEF Stranded
  <2>3. PICK t \in Subs : sub[t].path = k /\ sub[t].pc \in Holding
    BY <1>2, <2>2 DEF Stranded, Holding
  <2>4. t = s
    BY <1>2, <2>1, <2>3 DEF Stranded, Holding
  <2> QED
    BY <1>2, <2>1, <2>3, <2>4 DEF Stranded, Liable, Holding
<1> QED
  BY <1>3, <1>4 DEF Next

\* A file that an edit e, alone, leaves was not one before e's step unless the
\* step is what the code accepts.
LEMMA AbandonedEdit ==
    ASSUME RefileTypeInv, SnapInv, Emptied, Alone, NEW e \in Edits,
           EditStep(e), NEW k \in Keys, Stranded(k)',
           edit'[e].pc \in Editing => k \notin Claims(e)'
    PROVE  \/ Stranded(k) /\ k \notin Claims(e)
           \/ \E s \in Subs : (sub'[s].pc = "crashed" \/ sub'[s].stayed) /\ sub'[s].path = k
           \/ edit[e].stayed # k /\ edit'[e].stayed = k
           \/ edit[e].pc = "purge_row" /\ edit[e].stayed = k
<1>t. /\ EditTypeInv /\ Fit(edit[e]) /\ k \in Paths /\ k # NoPath
      /\ files \in [Paths -> FileStates] /\ rows \in [Papers -> Row \cup {NoRow}]
  BY IngestAssumption DEF RefileTypeInv, EditTypeInv, TypeInv, TypeOK, Paths
<1>a. edit[e].pc \in Editing => Snapshot(e)
  BY DEF SnapInv, Active
<1>u. ASSUME UNCHANGED <<rows, sub>>, files'[k] = files[k] PROVE Stranded(k)
  BY <1>u DEF Stranded, Stored
<1>1. CASE FindMatch(e) \/ GuardMatch(e) \/ ReResolve(e) \/ Rekey(e)
  <2>1. UNCHANGED <<rows, files, sub>> /\ edit[e].pc \in {"match", "guard", "reresolve", "rekey"}
    BY <1>1, DecideIs, RekeyIs
  <2>2. k \notin Claims(e)
    BY <1>t, <2>1 DEF Claims, Fit, Early
  <2> QED
    BY <1>u, <2>1, <2>2
<1>2. CASE CreateCopy(e) \/ AdoptOrLeave(e) \/ CopyOld(e) \/ CopyOldFails(e)
  <2>1. /\ UNCHANGED <<rows, sub>> /\ edit[e].pc \in {"create", "adopt", "fill"}
        /\ edit[e].from = NoPath /\ edit[e].to \in Paths /\ edit[e].snap \in Row
        /\ edit'[e].to = edit[e].to
        /\ \/ /\ edit'[e].from = NoPath
              /\ \/ /\ edit[e].pc = "create" /\ edit'[e].pc = "fill"
                    /\ CreateNew(e, edit[e].to)
                 \/ edit[e].pc \in {"create", "adopt"} /\ UNCHANGED files
                 \/ edit[e].pc = "fill" /\ edit'[e].pc = "update" /\ Remove(edit[e].to)
                 \/ /\ edit[e].pc = "fill" /\ UNCHANGED files
                    /\ edit[e].stayed = NoPath /\ edit'[e].stayed = edit[e].to
           \/ /\ edit'[e].from = edit[e].snap.path /\ edit'[e].pc = "update"
              /\ \/ edit[e].pc = "adopt" /\ UNCHANGED files
                 \/ \E c : edit[e].pc = "fill" /\ Fill(e, edit[e].to, c)
    BY <1>2, CopyingIs
  <2>2. k \in Claims(e) => k = edit[e].to /\ edit[e].pc = "fill"
    BY <2>1 DEF Claims
  <2>3. CASE edit[e].pc \in {"create", "adopt"} /\ UNCHANGED files
    BY <1>u, <2>1, <2>2, <2>3
  <2>4. CASE edit'[e].pc = "fill" /\ edit[e].pc = "create" /\ CreateNew(e, edit[e].to)
    <3>1. k # edit[e].to
      BY <2>1, <2>4 DEF Claims, Editing
    <3>2. files'[k] = files[k]
      BY <1>t, <2>4, <3>1 DEF CreateNew
    <3> QED
      BY <1>u, <2>1, <2>2, <2>4, <3>2
  <2>5. CASE edit'[e].pc = "update" /\ edit[e].pc = "fill" /\ Remove(edit[e].to)
    <3>1. k # edit[e].to
      BY <1>t, <2>5 DEF Remove, Stranded
    <3>2. files'[k] = files[k]
      BY <1>t, <2>5, <3>1 DEF Remove
    <3> QED
      BY <1>u, <2>1, <2>2, <3>1, <3>2
  <2>7. CASE /\ edit[e].pc = "fill" /\ UNCHANGED files
             /\ edit[e].stayed = NoPath /\ edit'[e].stayed = edit[e].to
    BY <1>t, <1>u, <2>1, <2>2, <2>7
  <2>6. CASE /\ edit'[e].from = edit[e].snap.path /\ edit'[e].pc = "update"
             /\ \E c : edit[e].pc = "fill" /\ Fill(e, edit[e].to, c)
    <3>1. edit'[e].from # NoPath
      BY <2>1, <2>6, IngestAssumption DEF Row
    <3>2. k # edit[e].to
      BY <2>1, <2>6, <3>1 DEF Claims, Editing
    <3>3. files'[k] = files[k]
      BY <1>t, <2>6, <3>2 DEF Fill
    <3> QED
      BY <1>u, <2>1, <2>2, <3>2, <3>3
  <2> QED
    BY <2>1, <2>3, <2>4, <2>5, <2>6, <2>7
<1>3. CASE Update(e) \/ UpdateFails(e) \/ Rollback(e) \/ RemoveOld(e)
  <2>1. /\ UNCHANGED sub /\ edit[e].pc \in {"update", "rollback", "remove_old"}
        /\ edit[e].paper \in Papers /\ edit[e].snap \in Row
        /\ edit[e].from # NoPath => edit[e].from \in Paths /\ edit[e].to \in Paths
        /\ \/ /\ edit[e].pc = "update" /\ UNCHANGED files
              /\ edit'[e].from = edit[e].from /\ edit'[e].to = edit[e].to
              /\ \/ edit'[e].pc = "rollback" /\ UNCHANGED rows
                 \/ /\ edit'[e].pc = "remove_old"
                    /\ rows' = IF edit[e].paper \in Stored
                               THEN [rows EXCEPT ![edit[e].paper] = edit[e].snap] ELSE rows
           \/ /\ edit[e].pc = "rollback" /\ UNCHANGED rows
              /\ \/ edit[e].from = NoPath /\ UNCHANGED files
                 \/ edit[e].from # NoPath /\ Remove(edit[e].to)
                 \/ /\ edit[e].from # NoPath /\ UNCHANGED files
                    /\ edit[e].stayed = NoPath /\ edit'[e].stayed = edit[e].to
           \/ /\ edit[e].pc = "remove_old" /\ UNCHANGED rows
              /\ \/ edit[e].from = NoPath /\ UNCHANGED files
                 \/ edit[e].from # NoPath /\ Remove(edit[e].from)
                 \/ /\ edit[e].from # NoPath /\ UNCHANGED files
                    /\ edit[e].stayed = NoPath /\ edit'[e].stayed = edit[e].from
    BY <1>3, FinishingIs
  <2>2. PICK i \in Stored : i = edit[e].paper /\ Snapshot(e)
    BY <1>a, <2>1 DEF Editing, Snapshot
  <2>3. k \in Claims(e) <=> edit[e].from # NoPath /\ k \in {edit[e].to, edit[e].from}
    BY <2>1 DEF Claims
  <2>4. rows[i].path = IF edit[e].pc \in {"update", "rollback"} /\ edit[e].from # NoPath
                       THEN edit[e].from ELSE edit[e].snap.path
    BY <2>2 DEF Snapshot
  <2>n. UNCHANGED rows => rows[i].path # k /\ (Stranded(k) <=> files[k] # Absent)
    BY <2>1, <2>2 DEF Stranded, Stored
  <2>5. CASE edit[e].pc = "update"
    <3>1. k \notin Claims(e)
      BY <2>1, <2>3, <2>5 DEF Claims, Editing
    <3>2. CASE UNCHANGED rows
      BY <1>u, <2>1, <2>5, <3>1, <3>2
    <3>3. CASE rows' = [rows EXCEPT ![i] = edit[e].snap]
      <4>1. /\ Stored' = Stored /\ rows'[i] = edit[e].snap
            /\ \A j \in Stored \ {i} : rows'[j] = rows[j]
        BY <1>t, <2>1, <2>2, <3>3, LibraryAssumption DEF Stored
      <4>2. edit[e].snap.path # k
        BY <2>2, <4>1 DEF Stranded
      <4>3. rows[i].path # k
        BY <2>3, <2>4, <3>1, <4>2
      <4> QED
        BY <2>1, <2>5, <3>1, <4>1, <4>3 DEF Stranded
    <3> QED
      BY <2>1, <2>2, <2>5, <3>2, <3>3
  <2>6. CASE edit[e].pc = "rollback"
    <3>1. CASE edit[e].from = NoPath
      BY <1>u, <2>1, <2>3, <2>6, <3>1
    <3>2. CASE edit[e].from # NoPath /\ Remove(edit[e].to)
      <4>1. k # edit[e].from /\ k # edit[e].to /\ files'[k] = files[k]
        BY <1>t, <2>1, <2>4, <2>6, <2>n, <3>2 DEF Remove, Stranded
      <4> QED
        BY <1>u, <2>1, <2>3, <2>6, <4>1
    <3>3. CASE /\ edit[e].from # NoPath /\ UNCHANGED files
               /\ edit[e].stayed = NoPath /\ edit'[e].stayed = edit[e].to
      <4>1. k # edit[e].from
        BY <2>1, <2>4, <2>6, <2>n, <3>3
      <4> QED
        BY <1>t, <1>u, <2>1, <2>3, <2>6, <3>3, <4>1
    <3> QED
      BY <2>1, <2>6, <3>1, <3>2, <3>3
  <2>8. CASE edit[e].pc = "remove_old" /\ edit[e].from = k
    BY <1>t, <2>1, <2>8 DEF Remove, Stranded
  <2>7. CASE edit[e].pc = "remove_old" /\ edit[e].from # k
    <3>1. files'[k] = files[k] /\ UNCHANGED rows
      BY <1>t, <2>1, <2>7 DEF Remove
    <3>2. edit[e].from # NoPath => edit[e].snap.path = edit[e].to
      BY <2>2, <2>7 DEF Snapshot
    <3>3. k \notin Claims(e)
      BY <2>3, <2>4, <2>7, <2>n, <3>1, <3>2
    <3> QED
      BY <1>u, <2>1, <3>1, <3>3
  <2> QED
    BY <2>1, <2>5, <2>6, <2>7, <2>8
<1>4. CASE PurgeFile(e)
  <2>1. /\ UNCHANGED <<rows, sub>> /\ edit[e].pc = "purge_file"
        /\ edit[e].snap \in Row /\ (Remove(edit[e].snap.path) \/ UNCHANGED files)
    BY <1>4, PurgeFileIs
  <2>2. k \notin Claims(e)
    BY <1>t, <2>1 DEF Claims, Fit, Early
  <2>3. files'[k] = files[k]
    BY <1>t, <2>1 DEF Remove, Stranded
  <2> QED
    BY <1>u, <2>1, <2>2, <2>3
<1>5. CASE PurgeRow(e)
  <2>1. /\ edit[e].pc = "purge_row" /\ UNCHANGED <<files, sub>>
        /\ UNCHANGED rows \/ rows' = [rows EXCEPT ![edit[e].paper] = NoRow]
    BY <1>5 DEF PurgeRow
  <2>2. PICK i \in Stored : /\ i = edit[e].paper /\ rows[i].path = edit[e].snap.path
                           /\ edit[e].from \in {rows[i].path, NoPath}
    BY <1>a, <2>1 DEF Snapshot, Editing
  <2>3. edit[e].to = NoPath /\ (edit[e].from = k => Accounted(k, i))
    BY <2>1, <2>2 DEF Emptied
  <2>4. \A j \in Stored \ {i} : j \in Stored' /\ rows'[j] = rows[j]
    BY <1>t, <2>1, <2>2 DEF Stored
  <2>5. CASE edit[e].from = k
    BY <2>1, <2>3, <2>4, <2>5 DEF Accounted, Stranded, Liable, Holding
  <2>6. CASE edit[e].from # k /\ rows[i].path # k
    <3>1. k \notin Claims(e)
      BY <1>t, <2>1, <2>3, <2>6 DEF Claims
    <3> QED
      BY <2>1, <2>2, <2>4, <2>6, <3>1 DEF Stranded
  <2>7. CASE edit[e].from # k /\ rows[i].path = k
    <3>1. edit[e].from = NoPath
      BY <2>2, <2>7
    <3>2. edit[e].stayed = edit[e].snap.path
      BY <1>t, <2>1, <3>1, IngestAssumption DEF Fit
    <3> QED
      BY <2>1, <2>2, <2>7, <3>2
  <2> QED
    BY <2>5, <2>6, <2>7
<1> QED
  BY <1>1, <1>2, <1>3, <1>4, <1>5 DEF EditStep

\* Every step: an edit's own step leaves all other edits where they are, and
\* none of them is under way.
LEMMA AbandonedNext ==
    ASSUME RefileTypeInv, SnapInv, Emptied, Alone, Alone', [RefileNext]_refileVars,
           NEW k \in Keys, Abandoned(k)'
    PROVE  \/ Abandoned(k)
           \/ \E s \in Subs : (sub'[s].pc = "crashed" \/ sub'[s].stayed) /\ sub'[s].path = k
           \/ \E e \in Edits : edit[e].pc # "crashed" /\ edit'[e].pc = "crashed"
           \/ \E e \in Edits : edit[e].stayed # k /\ edit'[e].stayed = k
           \/ \E e \in Edits : edit[e].pc = "purge_row" /\ edit[e].stayed = k
<1>1. CASE UNCHANGED refileVars
  BY <1>1 DEF refileVars, Abandoned, Stranded, Active, Claims, Stored
<1>2. CASE Next /\ UNCHANGED edit
  BY <1>2, AbandonedIngest
<1>3. ASSUME NEW e \in Edits, NEW i \in Stored,
             BeginIdentify(e, i) \/ BeginRefresh(e, i) \/ BeginPurge(e, i)
      PROVE  Abandoned(k)
  <2>1. PICK op : Begin(e, op, i, "match") \/ Begin(e, op, i, "reresolve")
                    \/ Begin(e, op, i, "purge_file")
    BY <1>3 DEF BeginIdentify, BeginRefresh, BeginPurge
  <2>2. /\ UNCHANGED <<rows, files, sub>> /\ edit[e].pc = "idle"
        /\ \A f \in Edits \ {e} : edit'[f] = edit[f]
    BY <2>1, BeginIs
  <2>3. \A f \in Active : f # e /\ f \in Active' /\ Claims(f)' = Claims(f)
    BY <2>2 DEF Active, Editing, Claims
  <2> QED
    BY <2>2, <2>3 DEF Abandoned, Stranded, Stored
<1>4. ASSUME NEW e \in Edits, EditCrash(e)
      PROVE  edit[e].pc # "crashed" /\ edit'[e].pc = "crashed"
  <2>1. edit[e].pc \in Editing /\ End(e, "crashed")
    BY <1>4 DEF EditCrash
  <2> QED
    BY <2>1, EndIs DEF RefileTypeInv, EditEnded, Editing
<1>5. ASSUME NEW e \in Edits, EditStep(e)
      PROVE  \/ Abandoned(k)
             \/ \E s \in Subs : (sub'[s].pc = "crashed" \/ sub'[s].stayed) /\ sub'[s].path = k
             \/ edit[e].stayed # k /\ edit'[e].stayed = k
             \/ edit[e].pc = "purge_row" /\ edit[e].stayed = k
  <2>1. e \in Active
    BY <1>5 DEF EditStep, FindMatch, GuardMatch, ReResolve, Rekey, CreateCopy, AdoptOrLeave,
       CopyOld, CopyOldFails, Update, UpdateFails, Rollback, RemoveOld, PurgeFile, PurgeRow,
       Active, Editing
  <2>2. \A f \in Active : f = e
    BY <2>1 DEF Alone
  <2>3. Stranded(k)' /\ (edit'[e].pc \in Editing => k \notin Claims(e)')
    BY DEF Abandoned, Active
  <2>4. \/ Stranded(k) /\ k \notin Claims(e)
        \/ \E s \in Subs : (sub'[s].pc = "crashed" \/ sub'[s].stayed) /\ sub'[s].path = k
        \/ edit[e].stayed # k /\ edit'[e].stayed = k
        \/ edit[e].pc = "purge_row" /\ edit[e].stayed = k
    BY <1>5, <2>3, AbandonedEdit
  <2> QED
    BY <2>2, <2>4 DEF Abandoned
<1> QED
  BY <1>1, <1>2, <1>3, <1>4, <1>5 DEF RefileNext

\* No failing step of an identify, a refresh or a purge leaves a copy of a PDF
\* that no row names (save_and_refile removes the new file before it reports),
\* but for a process that dies and a file that the file system will not let be
\* removed: as long as no two edits run at one time, whatever is ingested
\* beside them.
THEOREM AbandonedOnlyByFaultHolds == RefileSpec /\ []Alone => AbandonedOnlyByFault
<1> DEFINE AbandonedStep ==
      \A k \in Keys : Abandoned(k)' =>
          \/ Abandoned(k)
          \/ \E s \in Subs : (sub'[s].pc = "crashed" \/ sub'[s].stayed) /\ sub'[s].path = k
          \/ \E e \in Edits : edit[e].pc # "crashed" /\ edit'[e].pc = "crashed"
          \/ \E e \in Edits : edit[e].stayed # k /\ edit'[e].stayed = k
          \/ \E e \in Edits : edit[e].pc = "purge_row" /\ edit[e].stayed = k
<1>1. RefileTypeInv /\ SnapInv /\ Emptied /\ Alone /\ Alone' /\ [RefileNext]_refileVars
          => [AbandonedStep]_refileVars
  BY AbandonedNext
<1>2. AbandonedOnlyByFault <=> [][AbandonedStep]_refileVars
  BY DEF AbandonedOnlyByFault
<1>3. RefileInit => Emptied
  BY DEF RefileInit, NoEdit, Emptied
<1> HIDE DEF AbandonedStep
<1> QED
  BY <1>1, <1>2, <1>3, RefileTypeInit, RefileTypeNext, SnapInit, SnapNext, EmptiedNext, PTL
  DEF RefileSpec

\* The same of edits that run one at a time by MaxEdits: the case
\* model-checked, for any number of edits and ingests.
COROLLARY AbandonedOneByOne ==
    ASSUME MaxEdits = 1
    PROVE  RefileSpec => AbandonedOnlyByFault
BY AloneHolds, AbandonedOnlyByFaultHolds, PTL

=============================================================================
