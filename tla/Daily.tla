------------------------------- MODULE Daily -------------------------------
(***************************************************************************)
(* The daily arXiv feed (src/daily): the scheduler's hourly check and the  *)
(* POST /api/daily/run handler both start runs; a flag keeps them apart.   *)
(* A run fetches the feed, drops what the library has, ranks, summarizes,  *)
(* replaces the batch of its date, records how it went, and prunes.        *)
(***************************************************************************)
EXTENDS Naturals, FiniteSets

CONSTANTS
    Arxiv,           \* arXiv ids
    Feeds,           \* what the feed may list: sets of entries
    IncludeCross,    \* [daily].include_cross_list
    MaxPapers,       \* [daily].max_papers
    RetentionDays,   \* [daily].retention_days
    LastDay,         \* bound: days
    MaxRuns,         \* bound: runs
    MaxBreaks        \* bound: failures, timeouts, ends of the server

Entries == [id : Arxiv, announce : {"new", "cross", "replace"}]

ASSUME DailyAssumption ==
    /\ \A f \in Feeds : f \subseteq Entries /\ IsFiniteSet(f)
    /\ IncludeCross \in BOOLEAN
    /\ {MaxPapers, LastDay} \subseteq Nat \ {0} /\ {RetentionDays, MaxRuns, MaxBreaks} \subseteq Nat

VARIABLES
    day, past,   \* the date, and whether run_at is over
    owned,       \* arXiv ids of the library, trashed papers included
    flag,        \* DailyService::running
    task,        \* the scheduler's run and the handler's
    batch,       \* daily_papers of a date, and the run that stored them
    record,      \* daily_runs of a date, and the run it is of
    runs, breaks

dailyVars == <<day, past, owned, flag, task, batch, record, runs, breaks>>

Days == 1 .. LastDay
Callers == {"scheduler", "handler"}
Pipeline == {"fetch", "known", "score", "replace"}

NoBatch == [run |-> 0, papers |-> {}]
NoRecord == [run |-> 0, status |-> "none"]
NoTask == [at |-> "idle", date |-> 1, run |-> 0, papers |-> {}, status |-> "none"]

DailyTypeOK ==
    /\ day \in Days /\ past \in BOOLEAN /\ owned \subseteq Arxiv /\ flag \in BOOLEAN
    /\ task \in [Callers ->
           [at : {"idle", "due", "record", "prune", "prune_runs"} \cup Pipeline, date : Days,
            run : 0 .. MaxRuns, papers : SUBSET Arxiv,
            status : {"none", "ok", "empty", "failed"}]]
    /\ batch \in [Days -> [run : 0 .. MaxRuns, papers : SUBSET Arxiv]]
    /\ record \in [Days -> [run : 0 .. MaxRuns, status : {"none", "ok", "empty", "failed"}]]
    /\ runs \in 0 .. MaxRuns /\ breaks \in 0 .. MaxBreaks

DailyInit ==
    /\ day = 1 /\ past = FALSE /\ owned = {} /\ flag = FALSE
    /\ task = [c \in Callers |-> NoTask]
    /\ batch = [d \in Days |-> NoBatch] /\ record = [d \in Days |-> NoRecord]
    /\ runs = 0 /\ breaks = 0

----------------------------------------------------------------------------
(* Time, and the library.                                                  *)

PassRunAt ==
    /\ ~past /\ past' = TRUE
    /\ UNCHANGED <<day, owned, flag, task, batch, record, runs, breaks>>

Midnight ==
    /\ day < LastDay /\ past
    /\ day' = day + 1 /\ past' = FALSE
    /\ UNCHANGED <<owned, flag, task, batch, record, runs, breaks>>

Own(a) ==
    /\ a \notin owned /\ owned' = owned \cup {a}
    /\ UNCHANGED <<day, past, flag, task, batch, record, runs, breaks>>

----------------------------------------------------------------------------
(* Who starts a run.                                                       *)

\* Mutant of RunDue: a failed run counts as the day's run.
RunDue_Once(status) == past /\ status = "none"

RunDue(status) == past /\ status \notin {"ok", "empty"}

Launch(c, d) ==
    /\ runs < MaxRuns
    /\ runs' = runs + 1
    /\ task' = [task EXCEPT ![c] =
                  [NoTask EXCEPT !.at = "fetch", !.date = d, !.run = runs + 1]]

\* The scheduler wakes and reads the day's record; one it cannot read is none.
Check ==
    /\ task["scheduler"].at = "idle"
    /\ \/ RunDue(record[day].status) /\ UNCHANGED breaks
       \/ RunDue("none") /\ breaks < MaxBreaks /\ breaks' = breaks + 1
    /\ task' = [task EXCEPT !["scheduler"] = [NoTask EXCEPT !.at = "due", !.date = day]]
    /\ UNCHANGED <<day, past, owned, flag, batch, record, runs>>

\* try_begin; refused, it sleeps on.
Scheduled ==
    /\ task["scheduler"].at = "due"
    /\ \/ ~flag /\ flag' = TRUE /\ Launch("scheduler", task["scheduler"].date)
       \/ flag /\ task' = [task EXCEPT !["scheduler"] = NoTask] /\ UNCHANGED <<flag, runs>>
    /\ UNCHANGED <<day, past, owned, batch, record, breaks>>

\* spawn_run: 202, or 409 while a run is in flight.
Requested ==
    /\ ~flag /\ task["handler"] = NoTask
    /\ flag' = TRUE /\ Launch("handler", day)
    /\ UNCHANGED <<day, past, owned, batch, record, breaks>>

----------------------------------------------------------------------------
(* The run.                                                                *)

context == <<day, past, owned, runs>>

\* parse_feed: announcements of new papers, and of cross-lists if wanted.
Candidates(feed) ==
    {e.id : e \in {x \in feed : x.announce = "new" \/ (IncludeCross /\ x.announce = "cross")}}

Fetch(c) ==
    /\ task[c].at = "fetch"
    /\ \E feed \in Feeds :
         task' = [task EXCEPT ![c].at = "known", ![c].papers = Candidates(feed)]
    /\ UNCHANGED <<context, flag, batch, record, breaks>>

\* The library's ids are taken out; nothing left is an "empty" day.
DropKnown(c) ==
    /\ task[c].at = "known"
    /\ LET left == task[c].papers \ owned
       IN  task' = [task EXCEPT ![c].papers = left,
                                ![c].at = IF left = {} THEN "record" ELSE "score",
                                ![c].status = IF left = {} THEN "empty" ELSE "none"]
    /\ UNCHANGED <<context, flag, batch, record, breaks>>

\* Profile, embeddings, ranking: the best MaxPapers stay, whichever they are.
\* Then PDFs and summaries, each of which may fail without failing the run.
Score(c) ==
    /\ task[c].at = "score"
    /\ \E best \in SUBSET task[c].papers :
         /\ Cardinality(best) = IF Cardinality(task[c].papers) < MaxPapers
                                THEN Cardinality(task[c].papers) ELSE MaxPapers
         /\ task' = [task EXCEPT ![c].papers = best, ![c].at = "replace"]
    /\ UNCHANGED <<context, flag, batch, record, breaks>>

\* replace_batch: one transaction.
Stored(c) == batch' = [batch EXCEPT ![task[c].date] =
                          [run |-> task[c].run, papers |-> task[c].papers]]

Replace(c) ==
    /\ task[c].at = "replace"
    /\ Stored(c)
    /\ task' = [task EXCEPT ![c].at = "record", ![c].status = "ok"]
    /\ UNCHANGED <<context, flag, record, breaks>>

\* The pipeline fails or meets its deadline: whatever it was at, the outcome is
\* "failed".  A commit under way when it is dropped may have been done.
Break(c) ==
    /\ task[c].at \in Pipeline /\ breaks < MaxBreaks
    /\ \/ UNCHANGED batch
       \/ task[c].at = "replace" /\ Stored(c)
    /\ task' = [task EXCEPT ![c].at = "record", ![c].status = "failed"]
    /\ breaks' = breaks + 1
    /\ UNCHANGED <<context, flag, record>>

\* Mutant of Record: the status is recorded as soon as the run starts well.
Record_Early(c) ==
    /\ task[c].at \in {"record", "score"} /\ record[task[c].date].run # task[c].run
    /\ record' = [record EXCEPT ![task[c].date] = [run |-> task[c].run, status |->
            IF task[c].at = "score" THEN "ok" ELSE task[c].status]]
    /\ task' = IF task[c].at = "score" THEN task ELSE [task EXCEPT ![c].at = "prune"]
    /\ UNCHANGED <<context, flag, batch, breaks>>

\* record_run: the row of the date is written over.
Record(c) ==
    /\ task[c].at = "record"
    /\ record' = [record EXCEPT ![task[c].date] =
                     [run |-> task[c].run, status |-> task[c].status]]
    /\ task' = [task EXCEPT ![c].at = "prune"]
    /\ UNCHANGED <<context, flag, batch, breaks>>

\* Mutant of Expired: retention_days = 1 keeps no day but the run's own.
Expired_OneMore(c, d) == d + RetentionDays <= task[c].date

Expired(c, d) == d + RetentionDays < task[c].date

Prune(c) ==
    /\ task[c].at = "prune"
    /\ batch' = [d \in Days |-> IF Expired(c, d) THEN NoBatch ELSE batch[d]]
    /\ task' = [task EXCEPT ![c].at = "prune_runs"]
    /\ UNCHANGED <<context, flag, record, breaks>>

\* Mutant of Released: the flag is cleared on the ordinary way out only.
Released_WhenOk(c) == flag' = (flag /\ task[c].status = "failed")

\* RunFlagGuard, dropped with the run's scope.
Released(c) == flag' = FALSE

PruneRuns(c) ==
    /\ task[c].at = "prune_runs"
    /\ record' = [d \in Days |-> IF Expired(c, d) THEN NoRecord ELSE record[d]]
    /\ task' = [task EXCEPT ![c] = NoTask]
    /\ Released(c)
    /\ UNCHANGED <<context, batch, breaks>>

\* A write of the bookkeeping fails: it is logged, and the run ends all the same.
Unrecorded(c) ==
    /\ breaks < MaxBreaks /\ breaks' = breaks + 1
    /\ \/ task[c].at = "record" /\ task' = [task EXCEPT ![c].at = "prune"] /\ UNCHANGED flag
       \/ /\ task[c].at \in {"prune", "prune_runs"}
          /\ task' = [task EXCEPT ![c] = NoTask] /\ Released(c)
    /\ UNCHANGED <<context, batch, record>>

\* The server is restarted.
Restart ==
    /\ breaks < MaxBreaks /\ breaks' = breaks + 1
    /\ task' = [c \in Callers |-> NoTask] /\ flag' = FALSE
    /\ UNCHANGED <<context, batch, record>>

Going(c) ==
    \/ Fetch(c) \/ DropKnown(c) \/ Score(c) \/ Replace(c)
    \/ Record(c) \/ Prune(c) \/ PruneRuns(c)

DailyNext ==
    \/ PassRunAt \/ Midnight \/ (\E a \in Arxiv : Own(a))
    \/ Check \/ Scheduled \/ Requested \/ Restart
    \/ \E c \in Callers : Going(c) \/ Break(c) \/ Unrecorded(c)

\* Tasks are polled, and the scheduler wakes every hour.
DailyFairness ==
    /\ \A c \in Callers : WF_dailyVars(Going(c))
    /\ WF_dailyVars(Check \/ Scheduled)

DailySpec == DailyInit /\ [][DailyNext]_dailyVars /\ DailyFairness

----------------------------------------------------------------------------
(* Properties.                                                             *)

\* A day recorded "ok" shows papers, stored by the run of the record or by one
\* that came after it: through failed re-runs, deadlines that hit a commit,
\* restarts in the middle, and pruning.  (A day past its retention may lose its
\* papers before its record.)
DailyTruthful ==
    \A d \in Days : record[d].status = "ok" =>
        \/ batch[d].papers # {} /\ batch[d].run >= record[d].run
        \/ \E later \in Days : later > d + RetentionDays /\ day >= later

\* Two runs are never under way at once, so none replaces the other's batch
\* between its own write and its record.
DailyOneRun ==
    Cardinality({c \in Callers : task[c].run # 0}) <= IF flag THEN 1 ELSE 0

\* Once run_at has passed, the day gets its run, "ok" or "empty", however many
\* of them fail first, if the day is long enough.
DailySettles ==
    \A d \in Days : (day = d /\ past) ~>
        (record[d].status \in {"ok", "empty"} \/ day # d \/ runs = MaxRuns)

\* The record of a day is of the one run that wrote it.
DailyAccounts == DailyTruthful /\ DailyOneRun

=============================================================================
