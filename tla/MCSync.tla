------------------------------- MODULE MCSync -------------------------------
(***************************************************************************)
(* What is kept in step with something else: the search index with the     *)
(* library, over one paper not indexed yet, and the stored marks with the  *)
(* reader's page, over one mark of the user's and one that came with the   *)
(* PDF in a tab opened twice.  They share no state in these models, so a   *)
(* behaviour is of one of them, the one `part` names; the other keeps its  *)
(* initial state.                                                          *)
(***************************************************************************)
EXTENDS AnnotationSync, SearchIndex

CONSTANTS own, baked, amber, rose, p1

VARIABLE part

syncVars == <<part, annotVars, indexVars>>

SyncInit ==
    /\ part \in {"marks", "index"} /\ AnnotInit /\ IndexInit
    /\ part = "index" => server = Empty

SyncNext ==
    /\ UNCHANGED part
    /\ \/ part = "marks" /\ AnnotNext /\ UNCHANGED indexVars
       \/ part = "index" /\ IndexNext /\ UNCHANGED annotVars

\* The fairness of each, as its module states it.
SyncFair ==
    /\ \A m \in Marks : WF_annotVars(part = "marks" /\ TimerFires(m))
    /\ \A s \in Sessions : WF_annotVars(part = "marks" /\ NetList(s))
    /\ \A s \in Sessions, m \in Marks : WF_annotVars(part = "marks" /\ Net(s, m))
    /\ WF_indexVars(part = "index" /\ Indexer)
    /\ \A i \in Papers : WF_indexVars(part = "index" /\ Elapse(i))

SyncSpec == SyncInit /\ [][SyncNext]_syncVars /\ SyncFair

\* Everything comes to rest: the marks, and the index while it is the index that
\* moves.
InStep == MarksSettle /\ (part = "index" => Settles)

=============================================================================
