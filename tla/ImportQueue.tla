---------------------------- MODULE ImportQueue ----------------------------
(***************************************************************************)
(* The import dialog's queue in the browser (importQueue.svelte.ts): rows, *)
(* and one drain that imports what is pending, one job after the other.    *)
(* Opening the dialog anew begins another session, with rows of its own,   *)
(* while the drain may still wait for a job of the last one.               *)
(***************************************************************************)
EXTENDS Naturals, Sequences

CONSTANT MaxClicks     \* bound: jobs queued, dialogs opened and closed

ASSUME QueueAssumption == MaxClicks \in Nat

VARIABLES
    imports,      \* importSession
    cancelled,
    items,        \* the dialog's rows: whose each is, and what it says
    pending,      \* jobs to do: the row and the session of each
    drain,        \* what the drain waits for: an answer, the reloading of the list
    outcome,      \* what the server answered, by job
    missed,       \* history: a job was queued while the drain reloaded the list
    clicks

queueVars == <<imports, cancelled, items, pending, drain, outcome, missed, clicks>>

QueueJobs == 1 .. MaxClicks
Outcomes == {"ingested", "duplicate", "failed"}
NoJob == [job |-> 0, index |-> 0, session |-> 0]
Waiting(what) == [at |-> what, item |-> NoJob]

ImportQueueTypeOK ==
    /\ imports \in 0 .. MaxClicks /\ cancelled \in BOOLEAN /\ missed \in BOOLEAN
    /\ items \in Seq([job : QueueJobs, says : {"queued", "importing"} \cup Outcomes])
    /\ pending \in Seq([job : QueueJobs, index : QueueJobs, session : 0 .. MaxClicks])
    /\ drain.at \in {"none", "answer", "reload"}
    /\ outcome \in [QueueJobs -> Outcomes \cup {"none"}] /\ clicks \in 0 .. MaxClicks

ImportQueueInit ==
    /\ imports = 0 /\ cancelled = FALSE /\ items = <<>> /\ pending = <<>>
    /\ drain = Waiting("none") /\ outcome = [j \in QueueJobs |-> "none"]
    /\ missed = FALSE /\ clicks = 0

Click == clicks < MaxClicks /\ clicks' = clicks + 1

\* openImport
OpenImport ==
    /\ Click
    /\ imports' = imports + 1 /\ cancelled' = FALSE
    /\ items' = <<>> /\ pending' = <<>>
    /\ UNCHANGED <<drain, outcome, missed>>

DialogOpen == imports # 0 /\ ~cancelled

\* closeImport
CloseImport ==
    /\ DialogOpen /\ Click /\ cancelled' = TRUE
    /\ UNCHANGED <<imports, items, pending, drain, outcome, missed>>

\* drainQueue up to its next await, with these rows and these jobs to do: the
\* next job, or the reloading of the list.  (A job of another session is not
\* met here: opening the dialog has emptied the queue.)
Drain(rows, jobs) ==
    IF jobs = <<>> \/ cancelled
    THEN drain' = Waiting("reload") /\ items' = rows /\ pending' = <<>>
    ELSE /\ drain' = [at |-> "answer", item |-> Head(jobs)]
         /\ items' = [rows EXCEPT ![Head(jobs).index].says = "importing"]
         /\ pending' = Tail(jobs)

\* enqueueFiles, enqueueUrl: a row, a job, and startDrain, which leaves a drain
\* that has not resolved alone.
Enqueue ==
    /\ DialogOpen /\ Click
    /\ LET rows == Append(items, [job |-> clicks', says |-> "queued"])
           jobs == Append(pending, [job |-> clicks', index |-> Len(rows), session |-> imports])
       IN  IF drain.at = "none" THEN Drain(rows, jobs)
           ELSE items' = rows /\ pending' = jobs /\ UNCHANGED drain
    /\ missed' = (missed \/ drain.at = "reload")
    /\ UNCHANGED <<imports, cancelled, outcome>>

\* Mutant of Ours: the answer goes to the row of that number, whoever's it is.
Ours_ByNumber(item) == item.index \in DOMAIN items

\* "a new session started mid-fetch"
Ours(item) == item.session = imports

\* Mutant of Carried: a rejected request ends the drain.
Carried_Throws(a) == a # "failed"

\* The loop goes on after every answer: a rejection is caught.
Carried(a) == a \in Outcomes

\* importPaper or importUrl settles.
JobSettles ==
    /\ drain.at = "answer"
    /\ \E a \in Outcomes :
         LET rows == IF Ours(drain.item) THEN [items EXCEPT ![drain.item.index].says = a]
                     ELSE items
         IN  /\ outcome' = [outcome EXCEPT ![drain.item.job] = a]
             /\ IF Carried(a) THEN Drain(rows, pending)
                ELSE drain' = Waiting("none") /\ items' = rows /\ UNCHANGED pending
    /\ UNCHANGED <<imports, cancelled, missed, clicks>>

\* loadPapers and loadStats settle; they never reject.
Reloaded ==
    /\ drain.at = "reload" /\ drain' = Waiting("none")
    /\ UNCHANGED <<imports, cancelled, items, pending, outcome, missed, clicks>>

ImportQueueNext ==
    OpenImport \/ CloseImport \/ Enqueue \/ JobSettles \/ Reloaded

----------------------------------------------------------------------------
(* Properties.                                                             *)

\* A row tells how its own job went, and one that is importing is the one the
\* drain waits for, whatever sessions came and went meanwhile.
RowsTrue ==
    \A i \in DOMAIN items :
        /\ items[i].says \in Outcomes => outcome[items[i].job] = items[i].says
        /\ items[i].says = "importing" => drain.at = "answer" /\ drain.item.job = items[i].job

\* With no job in hand, the open dialog has none to do; unless it was queued
\* as the drain reloaded the list, which then nobody sees to.
NothingWaits ==
    drain.at # "answer" /\ DialogOpen /\ ~missed =>
        \A i \in DOMAIN items : items[i].says \in Outcomes

QueueHolds == RowsTrue /\ NothingWaits

=============================================================================
