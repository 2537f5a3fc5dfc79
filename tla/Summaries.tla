----------------------------- MODULE Summaries -----------------------------
(***************************************************************************)
(* Per-paper summaries (summary/service.rs, summary/store.rs): the server  *)
(* sweeps every minute, `xuewen summarize` sweeps beside it until a batch  *)
(* writes nothing, and readers delete rows that no longer parse.  Every    *)
(* statement is a step of its own; nothing says which worker has a paper.  *)
(***************************************************************************)
EXTENDS Naturals, Sequences, FiniteSets

CONSTANTS
    Shelf,              \* the papers, numbered by their time of arrival
    BATCH,              \* papers one sweep takes
    MAX_ATTEMPTS,       \* failures after which a paper is left alone
    MaxEvents           \* bound: papers trashed and purged, commands typed, rows that
                        \* no longer parse, database errors, ends of a process

ASSUME SummariesAssumption ==
    /\ Shelf \subseteq Nat \ {0} /\ IsFiniteSet(Shelf)
    /\ {BATCH, MAX_ATTEMPTS} \subseteq Nat \ {0} /\ MaxEvents \in Nat

Workers == {"server", "cli"}

VARIABLES
    papers,     \* what became of a paper
    summary,    \* paper_summaries: no row, one that parses, one that does not
    failure,    \* summary_failures: attempts (0: no row), and its backoff
    writer,     \* the state of each worker's sweep
    reader,     \* the paper whose unparsable row a handler has just read, or 0
    spent       \* how many of MaxEvents there were

summariesVars == <<papers, summary, failure, writer, reader, spent>>

NoFailure == [attempts |-> 0, waiting |-> FALSE]
Resting == [at |-> "idle", queue |-> <<>>, wrote |-> FALSE, one |-> FALSE]

SummariesTypeOK ==
    /\ papers \in [Shelf -> {"to_come", "live", "trashed", "purged"}]
    /\ summary \in [Shelf -> {"none", "good", "unparsable"}]
    /\ failure \in [Shelf -> [attempts : 0 .. MAX_ATTEMPTS + 1, waiting : BOOLEAN]]
    /\ \A w \in Workers :
         /\ writer[w].at \in {"idle", "sweep", "clear_all", "clear_failures", "next",
                             "generate", "upsert", "clear", "record"}
         /\ writer[w].queue \in Seq(Shelf) /\ Len(writer[w].queue) <= BATCH
         /\ writer[w].wrote \in BOOLEAN /\ writer[w].one \in BOOLEAN
    /\ reader \in Shelf \cup {0}
    /\ spent \in 0 .. MaxEvents

SummariesInit ==
    /\ papers = [p \in Shelf |-> "to_come"]
    /\ summary = [p \in Shelf |-> "none"]
    /\ failure = [p \in Shelf |-> NoFailure]
    /\ writer = [w \in Workers |-> Resting]
    /\ reader = 0
    /\ spent = 0

Event == spent < MaxEvents /\ spent' = spent + 1

----------------------------------------------------------------------------
(* summary/store.rs.                                                       *)

\* Mutant of Due: the attempts are not looked at.
Due_Forever(p) ==
    /\ papers[p] = "live" /\ summary[p] = "none"
    /\ failure[p].attempts = 0 \/ ~failure[p].waiting

Due(p) ==
    /\ papers[p] = "live" /\ summary[p] = "none"
    /\ failure[p].attempts = 0 \/ (failure[p].attempts < MAX_ATTEMPTS /\ ~failure[p].waiting)

\* ORDER BY: never-failed papers, then the newer.
Sooner(p, q) ==
    LET failed(x) == failure[x].attempts > 0
    IN  IF failed(p) = failed(q) THEN p > q ELSE failed(q)

\* due_ids: the first BATCH papers that are due, in order.
IsDueIds(ids) ==
    LET due == {p \in Shelf : Due(p)}
        rank(p) == Cardinality({q \in due : Sooner(q, p)}) + 1
        n == IF Cardinality(due) < BATCH THEN Cardinality(due) ELSE BATCH
    IN  ids = [i \in 1 .. n |-> CHOOSE p \in due : rank(p) = i]

\* A row for a purged paper breaks its foreign key.
Referenced(p) == papers[p] # "purged"

----------------------------------------------------------------------------
(* The library.                                                            *)

Arrive(p) ==
    /\ papers[p] = "to_come" /\ papers' = [papers EXCEPT ![p] = "live"]
    /\ UNCHANGED <<summary, failure, writer, reader, spent>>

Trash(p) ==
    /\ papers[p] = "live" /\ papers' = [papers EXCEPT ![p] = "trashed"] /\ Event
    /\ UNCHANGED <<summary, failure, writer, reader>>

\* The rows of a purged paper go with it (ON DELETE CASCADE).
Purge(p) ==
    /\ papers[p] = "trashed" /\ papers' = [papers EXCEPT ![p] = "purged"] /\ Event
    /\ summary' = [summary EXCEPT ![p] = "none"]
    /\ failure' = [failure EXCEPT ![p] = NoFailure]
    /\ UNCHANGED <<writer, reader>>

\* Thirty minutes go by.
BackoffEnds(p) ==
    /\ failure[p].waiting /\ failure' = [failure EXCEPT ![p].waiting = FALSE]
    /\ UNCHANGED <<papers, summary, writer, reader, spent>>

----------------------------------------------------------------------------
(* A worker's sweep.                                                       *)

Put(w, at) == writer' = [writer EXCEPT ![w].at = at]
In(w, at) == writer[w].at = at
Paper(w) == Head(writer[w].queue)

\* On to the next paper of the batch.
Next1(w, wrote) ==
    writer' = [writer EXCEPT ![w].at = "next", ![w].queue = Tail(@),
                             ![w].wrote = @ \/ wrote]

\* The minute is over.
Tick ==
    /\ In("server", "idle") /\ Put("server", "sweep")
    /\ UNCHANGED <<papers, summary, failure, reader, spent>>

\* Somebody types `xuewen summarize`, `summarize --all` or `summarize <id>`.
Command ==
    /\ In("cli", "idle") /\ Event
    /\ \/ Put("cli", "sweep") \/ Put("cli", "clear_all")
       \/ \E p \in Shelf : writer' = [writer EXCEPT !["cli"] =
            [at |-> "clear_all", queue |-> <<p>>, wrote |-> FALSE, one |-> TRUE]]
    /\ UNCHANGED <<papers, summary, failure, reader>>

Chosen(w) == IF writer[w].one THEN {Paper(w)} ELSE Shelf

ClearAll(w) ==
    /\ In(w, "clear_all")
    /\ summary' = [p \in Shelf |-> IF p \in Chosen(w) THEN "none" ELSE summary[p]]
    /\ Put(w, "clear_failures")
    /\ UNCHANGED <<papers, failure, reader, spent>>

ClearFailures(w) ==
    /\ In(w, "clear_failures")
    /\ failure' = [p \in Shelf |-> IF p \in Chosen(w) THEN NoFailure ELSE failure[p]]
    /\ Put(w, IF writer[w].one THEN "next" ELSE "sweep")
    /\ UNCHANGED <<papers, summary, reader, spent>>

Sweep(w) ==
    /\ In(w, "sweep")
    /\ \E ids \in UNION {[1 .. n -> Shelf] : n \in 0 .. BATCH} :
         /\ IsDueIds(ids)
         /\ writer' = [writer EXCEPT ![w] = [at |-> "next", queue |-> ids,
                                               wrote |-> FALSE, one |-> FALSE]]
    /\ UNCHANGED <<papers, summary, failure, reader, spent>>

\* The head of the batch, if its row is still there; at its end the server goes
\* to sleep, and sweep_all goes round again after a batch that wrote something.
Advance(w) ==
    /\ In(w, "next")
    /\ IF writer[w].queue = <<>>
         THEN IF w = "cli" /\ writer[w].wrote /\ ~writer[w].one THEN Put(w, "sweep")
              ELSE writer' = [writer EXCEPT ![w] = Resting]
         ELSE IF Referenced(Paper(w)) THEN Put(w, "generate") ELSE Next1(w, FALSE)
    /\ UNCHANGED <<papers, summary, failure, reader, spent>>

\* generate_summary: the full text, then the abstract alone, then nothing.
Generate(w) ==
    /\ In(w, "generate")
    /\ Put(w, "upsert") \/ Put(w, "record")
    /\ UNCHANGED <<papers, summary, failure, reader, spent>>

Upsert(w) ==
    /\ In(w, "upsert")
    /\ IF Referenced(Paper(w))
         THEN summary' = [summary EXCEPT ![Paper(w)] = "good"] /\ Put(w, "clear")
         ELSE UNCHANGED summary /\ Next1(w, FALSE)
    /\ UNCHANGED <<papers, failure, reader, spent>>

ClearFailure(w) ==
    /\ In(w, "clear")
    /\ failure' = [failure EXCEPT ![Paper(w)] = NoFailure]
    /\ Next1(w, TRUE)
    /\ UNCHANGED <<papers, summary, reader, spent>>

\* Mutant of RecordFailure: the attempts of a known failure are not counted.
RecordFailure_Uncounted(w) ==
    /\ In(w, "record")
    /\ IF Referenced(Paper(w))
         THEN failure' = [failure EXCEPT ![Paper(w)] = [attempts |-> 1, waiting |-> TRUE]]
         ELSE UNCHANGED failure
    /\ Next1(w, FALSE)
    /\ UNCHANGED <<papers, summary, reader, spent>>

RecordFailure(w) ==
    /\ In(w, "record")
    /\ IF Referenced(Paper(w))
         THEN failure' = [failure EXCEPT ![Paper(w)] =
                            [attempts |-> @.attempts + 1, waiting |-> TRUE]]
         ELSE UNCHANGED failure
    /\ Next1(w, FALSE)
    /\ UNCHANGED <<papers, summary, reader, spent>>

\* A statement fails.  Of one paper's it is logged, and the batch goes on; of
\* the sweep's own the server waits for the next tick and the command ends.
Unwritten(w) ==
    /\ Event
    /\ \/ writer[w].at \in {"upsert", "clear", "record"} /\ Next1(w, FALSE)
       \/ /\ writer[w].at \in {"sweep", "clear_all", "clear_failures"}
          /\ writer' = [writer EXCEPT ![w] = Resting]
    /\ UNCHANGED <<papers, summary, failure, reader>>

Death(w) ==
    /\ ~In(w, "idle") /\ Event
    /\ writer' = [writer EXCEPT ![w] = Resting]
    /\ UNCHANGED <<papers, summary, failure, reader>>

----------------------------------------------------------------------------
(* Readers.                                                                *)

\* A release changes the shape of a summary: the stored ones no longer parse.
Reshape ==
    /\ Event
    /\ summary' = [p \in Shelf |-> IF summary[p] = "good" THEN "unparsable" ELSE summary[p]]
    /\ summary' # summary
    /\ UNCHANGED <<papers, failure, writer, reader>>

\* store::get finds such a row, and next deletes what is then there.
Read(p) ==
    /\ summary[p] = "unparsable" /\ reader = 0
    /\ reader' = p
    /\ UNCHANGED <<papers, summary, failure, writer, spent>>

Forget ==
    /\ reader # 0
    /\ summary' = [summary EXCEPT ![reader] = "none"] /\ reader' = 0
    /\ UNCHANGED <<papers, failure, writer, spent>>

----------------------------------------------------------------------------

Steps(w) ==
    \/ ClearAll(w) \/ ClearFailures(w) \/ Sweep(w) \/ Advance(w) \/ Generate(w)
    \/ Upsert(w) \/ ClearFailure(w) \/ RecordFailure(w)

Running == Tick \/ Steps("server")

SummariesNext ==
    \/ Tick \/ Command
    \/ \E w \in Workers : Steps(w) \/ Unwritten(w) \/ Death(w)
    \/ \E p \in Shelf : Arrive(p) \/ Trash(p) \/ Purge(p) \/ BackoffEnds(p) \/ Read(p)
    \/ Reshape \/ Forget

\* The server's loop goes round, and time passes.
SummariesFairness ==
    /\ WF_summariesVars(Running)
    /\ \A p \in Shelf : WF_summariesVars(BackoffEnds(p))

SummariesSpec == SummariesInit /\ [][SummariesNext]_summariesVars /\ SummariesFairness

----------------------------------------------------------------------------
(* Properties.                                                             *)

\* Every paper of the library gets a summary, or as many failures as make the
\* sweeps leave it alone, unless it leaves the library: whatever else fails,
\* dies, is cleared by the command or is found not to parse.
EveryPaperServed ==
    \A p \in Shelf : papers[p] = "live" ~>
        \/ papers[p] # "live" \/ summary[p] # "none"
        \/ failure[p].attempts >= MAX_ATTEMPTS

\* A failing paper costs at most MAX_ATTEMPTS generations, and one more when
\* the server and the command have both picked it; nothing but a success or the
\* user takes its count back.
AttemptsBounded ==
    \A p \in Shelf :
        failure[p].attempts + Cardinality({w \in Workers :
            In(w, "record") /\ writer[w].queue # <<>> /\ Paper(w) = p}) <= MAX_ATTEMPTS + 1

=============================================================================
