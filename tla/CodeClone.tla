----------------------------- MODULE CodeClone -----------------------------
(***************************************************************************)
(* One paper's attached code repository: the paper_code row, the checkout  *)
(* `repo/` in the paper's agent workspace, and the clone jobs that fill    *)
(* both.  A job of ServerJobs is a task of the server, one of CliJobs is a *)
(* process of its own (`xuewen code set` clones inline).  A checkout is    *)
(* known by the attach it was cloned for, so two attaches are told apart   *)
(* even when they name the same URL.                                       *)
(***************************************************************************)
EXTENDS Naturals, FiniteSets

CONSTANTS
    ServerJobs, CliJobs,    \* the attaches, one clone job each
    NoJob, NoRow, Nothing,
    MaxCrashes,             \* bound: crashes of the server and of CLI jobs
    MaxDetaches             \* bound: detaches

ASSUME CloneAssumption ==
    /\ IsFiniteSet(ServerJobs) /\ IsFiniteSet(CliJobs)
    /\ ServerJobs \cap CliJobs = {} /\ NoJob \notin ServerJobs \cup CliJobs
    /\ MaxCrashes \in Nat /\ MaxDetaches \in Nat

Jobs == ServerJobs \cup CliJobs
Gens == 0 .. (Cardinality(Jobs) + MaxCrashes)

VARIABLES
    row,        \* the paper's paper_code row, or NoRow
    repo,       \* the checkout in repo/
    staging,    \* the directory .repo.cloning.<gen>, by generation
    locks,      \* whose pid .repo.cloning.<gen>.lock holds, by generation
    publish,    \* the server task that holds the paper's publish lock
    job,        \* the progress of each job
    server,     \* the server process, and the attach its boot failed to reconcile
    detach,     \* the detach under way, or the last one cut short
    crashes, detaches

cloneVars == <<row, repo, staging, locks, publish, job, server, detach,
               crashes, detaches>>

Publishing == {"check", "remove", "place", "record", "withdraw"}
Cloning == {"prepare", "git", "queue"}
Running == Cloning \cup Publishing \cup {"fail"}
Ended == {"recorded", "superseded", "withdrawn", "failed", "unrecorded", "dead"}

\* A checkout: which attach it was cloned for, and whether git completed it.
Checkout == [job : Jobs, whole : BOOLEAN]

\* A row: `by` is the job whose commit or error it records, NoJob for none.
CodeRow == [gen : Gens, job : Jobs, status : {"cloning", "ready", "error"},
            by : Jobs \cup {NoJob}]

CloneInit ==
    /\ row = NoRow /\ repo = Nothing
    /\ staging = [g \in Gens |-> Nothing]
    /\ locks = [g \in Gens |-> NoJob]
    /\ publish = NoJob
    /\ job = [j \in Jobs |-> [pc |-> "idle", gen |-> 0]]
    /\ server = [pc |-> "up", live |-> FALSE, missed |-> NoJob]  \* booted on an empty library
    /\ detach = [pc |-> "idle", job |-> NoJob]
    /\ crashes = 0 /\ detaches = 0

----------------------------------------------------------------------------

Goto(j, pc) == job' = [job EXCEPT ![j].pc = pc]
Staging(j) == staging[job[j].gen]
StagingBecomes(j, s) == staging' = [staging EXCEPT ![job[j].gen] = s]

\* Mutant of Released: an exit path that keeps the publish lock.
Released_KeepsPublish(j) ==
    /\ locks' = [locks EXCEPT ![job[j].gen] = NoJob]
    /\ UNCHANGED publish

\* The guards of a job that returns: its publish lock, and its pid lock,
\* removed by name.
Released(j) ==
    /\ publish' = IF publish = j THEN NoJob ELSE publish
    /\ locks' = [locks EXCEPT ![job[j].gen] = NoJob]

\* The generation guard of a job's reads and writes of the row.
Current(j) == row # NoRow /\ row.gen = job[j].gen

ProcessUnchanged == UNCHANGED <<server, detach, crashes, detaches>>

\* An attach bumps the generation of the row it replaces, clears its outcome
\* and starts the clone; the first one, or one after a detach, has generation 0.
Attach(j) ==
    LET g == IF row = NoRow THEN 0 ELSE row.gen + 1
    IN  /\ job[j].pc = "idle"
        /\ j \in ServerJobs => server.pc = "up"
        /\ row' = [gen |-> g, job |-> j, status |-> "cloning", by |-> NoJob]
        /\ job' = [job EXCEPT ![j] = [pc |-> "prepare", gen |-> g]]
        /\ UNCHANGED <<repo, staging, locks, publish>> /\ ProcessUnchanged

\* run_clone: the pid lock is written, any remnant of this generation removed
\* and git started; or the workspace or the lock cannot be written.
Prepare(j) ==
    /\ job[j].pc = "prepare"
    /\ \/ /\ locks' = [locks EXCEPT ![job[j].gen] = j]
          /\ StagingBecomes(j, [job |-> j, whole |-> FALSE])
          /\ Goto(j, "git")
       \/ Goto(j, "fail") /\ UNCHANGED <<staging, locks>>
    /\ UNCHANGED <<row, repo, publish>> /\ ProcessUnchanged

\* git completes the checkout, and its commit and size are read; a checkout
\* whose directory is gone from under git cannot complete.
GitDone(j) ==
    /\ job[j].pc = "git" /\ Staging(j) = [job |-> j, whole |-> FALSE]
    /\ StagingBecomes(j, [job |-> j, whole |-> TRUE])
    /\ Goto(j, "queue")
    /\ UNCHANGED <<row, repo, locks, publish>> /\ ProcessUnchanged

\* git fails, or the commit cannot be read, or the checkout is too large.
GitFails(j) ==
    /\ job[j].pc = "git"
    /\ StagingBecomes(j, Nothing) /\ Goto(j, "fail")
    /\ UNCHANGED <<row, repo, locks, publish>> /\ ProcessUnchanged

\* Mutant of TakePublish: no job waits for another.
TakePublish_Unserialized(j) ==
    /\ job[j].pc = "queue"
    /\ Goto(j, "check")
    /\ UNCHANGED <<row, repo, staging, locks, publish>> /\ ProcessUnchanged

\* The paper's publish lock is a mutex of the process: the server's jobs take
\* it in turn, a CLI job's has no other taker.
TakePublish(j) ==
    /\ job[j].pc = "queue"
    /\ IF j \in ServerJobs THEN publish = NoJob /\ publish' = j
                           ELSE UNCHANGED publish
    /\ Goto(j, "check")
    /\ UNCHANGED <<row, repo, staging, locks>> /\ ProcessUnchanged

\* Publish only for the current generation; a superseded job removes its own
\* staging directory and leaves, and so does one that cannot read the row, as
\* a failure.
CheckGen(j) ==
    /\ job[j].pc = "check"
    /\ \/ /\ Current(j)
          /\ Goto(j, "remove") /\ UNCHANGED <<staging, publish, locks>>
       \/ /\ ~Current(j)
          /\ StagingBecomes(j, Nothing)
          /\ Goto(j, "superseded") /\ Released(j)
       \/ /\ StagingBecomes(j, Nothing)
          /\ Goto(j, "fail") /\ UNCHANGED <<publish, locks>>
    /\ UNCHANGED <<row, repo>> /\ ProcessUnchanged

RemoveOld(j) ==
    /\ job[j].pc = "remove"
    /\ repo' = Nothing
    /\ Goto(j, "place")
    /\ UNCHANGED <<row, staging, locks, publish>> /\ ProcessUnchanged

\* The rename of the staging directory to repo/, which fails when repo/ is not
\* empty or the staging directory is gone; the staging directory then stays.
Place(j) ==
    /\ job[j].pc = "place"
    /\ \/ /\ repo = Nothing /\ Staging(j) # Nothing
          /\ repo' = Staging(j) /\ StagingBecomes(j, Nothing)
          /\ Goto(j, "record")
       \/ Goto(j, "fail") /\ UNCHANGED <<repo, staging>>
    /\ UNCHANGED <<row, locks, publish>> /\ ProcessUnchanged

\* Mutant of Record: the UPDATE without its `AND clone_gen = ?`.
Record_Unguarded(j) ==
    /\ job[j].pc = "record"
    /\ row # NoRow
    /\ row' = [row EXCEPT !.status = "ready", !.by = j]
    /\ Goto(j, "recorded") /\ Released(j)
    /\ UNCHANGED <<repo, staging>> /\ ProcessUnchanged

\* The row is set ready if the generation is still current, else the checkout
\* just placed is to be withdrawn; a write that fails is only logged.
Record(j) ==
    /\ job[j].pc = "record"
    /\ \/ /\ Current(j)
          /\ row' = [row EXCEPT !.status = "ready", !.by = j]
          /\ Goto(j, "recorded") /\ Released(j)
       \/ /\ ~Current(j)
          /\ Goto(j, "withdraw") /\ UNCHANGED <<row, publish, locks>>
       \/ Goto(j, "unrecorded") /\ Released(j) /\ UNCHANGED row
    /\ UNCHANGED <<repo, staging>> /\ ProcessUnchanged

Withdraw(j) ==
    /\ job[j].pc = "withdraw"
    /\ repo' = Nothing
    /\ Goto(j, "withdrawn") /\ Released(j)
    /\ UNCHANGED <<row, staging>> /\ ProcessUnchanged

\* A failure is recorded if the generation is still current and dropped if it
\* is not; a write that fails is only logged.
RecordError(j) ==
    /\ job[j].pc = "fail"
    /\ \/ /\ row' = IF Current(j) THEN [row EXCEPT !.status = "error", !.by = j]
                    ELSE row
          /\ Goto(j, "failed")
       \/ Goto(j, "unrecorded") /\ UNCHANGED row
    /\ Released(j)
    /\ UNCHANGED <<repo, staging>> /\ ProcessUnchanged

----------------------------------------------------------------------------

\* A kill of the server takes its jobs with it, one of a CLI job that job
\* only.  Its pid locks stay; a process that had time to drop its tasks removes
\* them, which no reader can tell from a lock that names a dead pid.
Dies(dead) ==
    /\ crashes < MaxCrashes /\ crashes' = crashes + 1
    /\ job' = [j \in Jobs |-> IF j \in dead /\ job[j].pc \in Running
                              THEN [job[j] EXCEPT !.pc = "dead"] ELSE job[j]]
    /\ publish' = IF publish \in dead THEN NoJob ELSE publish
    /\ UNCHANGED <<row, repo, staging, locks, detach, detaches>>

ServerDies ==
    /\ server.pc # "down"
    /\ server' = [pc |-> "down", live |-> FALSE, missed |-> NoJob]
    /\ Dies(ServerJobs)

CliDies(j) == job[j].pc \in Running /\ Dies({j}) /\ UNCHANGED server

Boot ==
    /\ server.pc = "down" /\ server' = [server EXCEPT !.pc = "sweep"]
    /\ UNCHANGED <<row, repo, staging, locks, publish, job, detach,
                   crashes, detaches>>

\* Mutants of LockAlive: siblings are not noticed; a dead pid counts as alive.
LockAlive_Never(g) == FALSE
LockAlive_DeadCounts(g) == locks[g] # NoJob

\* A lock is alive when the process it names runs.
LockAlive(g) == locks[g] # NoJob /\ job[locks[g]].pc \in Running

\* sweep_staging: dead locks and the staging directories of no live lock go;
\* one live lock keeps the paper among the live.
Sweep ==
    /\ server.pc = "sweep"
    /\ server' = [server EXCEPT !.pc = "reconcile", !.live = \E g \in Gens : LockAlive(g)]
    /\ locks' = [g \in Gens |-> IF LockAlive(g) THEN locks[g] ELSE NoJob]
    /\ staging' = [g \in Gens |-> IF LockAlive(g) THEN staging[g] ELSE Nothing]
    /\ UNCHANGED <<row, repo, publish, job, detach, crashes, detaches>>

\* A row still cloning, that no live lock keeps.
Interrupted == row # NoRow /\ row.status = "cloning" /\ ~server.live

\* fail_interrupted_clones: such a row ends in error under a new generation.
\* An UPDATE that fails is only logged: the server serves on, and the row says
\* 'cloning' for as long as it does.
Reconcile ==
    /\ server.pc = "reconcile"
    /\ \/ /\ row' = IF Interrupted THEN [row EXCEPT !.status = "error", !.gen = row.gen + 1]
                    ELSE row
          /\ server' = [server EXCEPT !.pc = "up"]
       \/ /\ Interrupted
          /\ server' = [server EXCEPT !.pc = "up", !.missed = row.job]
          /\ UNCHANGED row
    /\ UNCHANGED <<repo, staging, locks, publish, job, detach, crashes, detaches>>

\* Detach, from the server or the CLI: the checkout goes, then the row.  The
\* row's attach at the time of the first step is kept with it.
DetachRepo ==
    /\ detach.pc # "row" /\ detaches < MaxDetaches
    /\ detaches' = detaches + 1
    /\ repo' = Nothing
    /\ detach' = [pc |-> "row", job |-> IF row = NoRow THEN NoJob ELSE row.job]
    /\ UNCHANGED <<row, staging, locks, publish, job, server, crashes>>

DetachRow ==
    /\ detach.pc = "row"
    /\ row' = NoRow
    /\ detach' = [pc |-> "idle", job |-> NoJob]
    /\ UNCHANGED <<repo, staging, locks, publish, job, server, crashes, detaches>>

\* The client disconnects or the process dies between the two steps.
DetachCut ==
    /\ detach.pc = "row"
    /\ detach' = [detach EXCEPT !.pc = "cut"]
    /\ UNCHANGED <<row, repo, staging, locks, publish, job, server, crashes, detaches>>

----------------------------------------------------------------------------

JobStep(j) ==
    \/ Prepare(j) \/ GitDone(j) \/ GitFails(j) \/ TakePublish(j) \/ CheckGen(j)
    \/ RemoveOld(j) \/ Place(j) \/ Record(j) \/ Withdraw(j) \/ RecordError(j)

CloneNext ==
    \/ \E j \in Jobs : Attach(j) \/ JobStep(j)
    \/ \E j \in CliJobs : CliDies(j)
    \/ ServerDies \/ Boot \/ Sweep \/ Reconcile
    \/ DetachRepo \/ DetachRow \/ DetachCut

\* A spawned task is polled until it ends, and a server that stops is started
\* again and its boot runs to the end.  Nothing is assumed of git: the wait for
\* it has no timeout.
CloneFairness ==
    /\ \A j \in Jobs : WF_cloneVars(JobStep(j) /\ job[j].pc # "git")
    /\ WF_cloneVars(Boot) /\ WF_cloneVars(Sweep) /\ WF_cloneVars(Reconcile)

CloneSpec == CloneInit /\ [][CloneNext]_cloneVars /\ CloneFairness

----------------------------------------------------------------------------

\* Type correctness, with the ownership of the publish lock: who holds it is
\* the one server job between the generation check and its outcome.
CloneTypeOK ==
    /\ row \in CodeRow \cup {NoRow}
    /\ repo \in Checkout \cup {Nothing}
    /\ staging \in [Gens -> Checkout \cup {Nothing}]
    /\ locks \in [Gens -> Jobs \cup {NoJob}]
    /\ publish \in ServerJobs \cup {NoJob}
    /\ job \in [Jobs -> [pc : {"idle"} \cup Running \cup Ended, gen : Gens]]
    /\ server \in [pc : {"down", "sweep", "reconcile", "up"}, live : BOOLEAN,
                   missed : Jobs \cup {NoJob}]
    /\ detach \in [pc : {"idle", "row", "cut"}, job : Jobs \cup {NoJob}]
    /\ crashes \in 0 .. MaxCrashes /\ detaches \in 0 .. MaxDetaches
    /\ publish # NoJob => job[publish].pc \in Publishing \cup {"fail"}

\* Two attaches were given one generation: delete_paper_code forgets the
\* counter, and the next attach starts it again.
Reused == \E i, j \in Jobs : i # j /\ job[i].pc # "idle" /\ job[j].pc # "idle"
                             /\ job[i].gen = job[j].gen

\* A job of another process was overtaken in its publish section by the row's
\* job: the publish lock is a static of the process.
Overrun ==
    \E i \in Jobs \ {row.job} :
        /\ {i, row.job} \cap CliJobs # {}
        /\ job[i].pc \in Publishing \cup {"fail", "failed", "withdrawn", "unrecorded", "dead"}

\* A row that says 'ready' has the checkout of its own attach in repo/, whole:
\* the agent is never shown another attach's code, or none, as this one's.
\* Excused: a detach begun on that attach and not ended, a reused generation,
\* and two processes publishing at once (run_clone's publish section,
\* web/chat.rs has_repo).
ReadyHasCheckout ==
    (row # NoRow /\ row.status = "ready") =>
        \/ repo = [job |-> row.job, whole |-> TRUE]
        \/ detach.pc # "idle" /\ detach.job = row.job
        \/ Reused \/ Overrun

\* A job's outcome is written to the row of its own attach: clone_gen's promise in
\* migration 0018, that "a stale job that finishes after a newer attach can no
\* longer overwrite the newer row's status", wherever no generation was reused.
StaleDroppedUnlessReused == row # NoRow => row.by \in {row.job, NoJob} \/ Reused

\* A boot's sweep leaves the staging directory of a clone that runs in another
\* process alone, however the two interleave (sweep_staging, the pid locks).
StagingHeld ==
    \A j \in Jobs :
        job[j].pc \in {"queue", "check", "remove", "place"} =>
            Staging(j) = [job |-> j, whole |-> TRUE] \/ Reused

\* 'cloning' is not for ever: an attach that nothing replaces resolves, by its
\* job or, after a crash, by the next boot.  Excused: a job whose git does not
\* return, one whose last write failed, a boot whose reconciling UPDATE failed,
\* and a job that died while, or because, a CLI process cloned for the same
\* paper (its death is noticed by the next boot only, and its live lock keeps
\* the boot off the row).
Resolves ==
    \A j \in Jobs :
        (row # NoRow /\ row.job = j /\ row.status = "cloning") ~>
            \/ row = NoRow \/ row.job # j \/ row.status # "cloning"
            \/ job[j].pc \in {"git", "unrecorded"} \/ server.missed = j
            \/ job[j].pc = "dead" /\ \E c \in CliJobs : job[c].pc # "idle"

=============================================================================
