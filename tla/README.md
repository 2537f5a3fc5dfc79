# Xuewen in TLA+

Xuewen is a self-hosted reference manager. PDFs arrive through an inbox
directory, the web UI, a URL or the command line; the backend finds out what
they are, files them under a cite key, indexes them for search and keeps the
reader's marks, code checkouts, summaries and chats beside them. It is one Rust
process (Axum, SQLite, a directory of PDFs, a Tantivy directory, optionally
Qdrant) and a Svelte frontend; a second process, the `xuewen` command line, may
work on the same library at any moment.

Almost nothing here is protected by a lock. What keeps the library right is the
**order** in which an operation touches SQLite, the file tree and the outside
services, and guards in SQL statements. These modules check those orders:
against other operations that run between any two awaits, against the failure of
every step, and against a process that dies at any point.

    cd tla
    tlasany Ingest.tla                            # parse
    tlc -workers 2 -config MCIngest.cfg MCIngest.tla
    tlapm Library_proofs.tla                      # proofs; also the other *_proofs

`PROJECT.json` lists the runs, maps every definition to the lines it models and
lists hazards, mutants, findings and theorems.

## 1. Inventory

Paths are under `src/`.

| Component | State | Operations | What is hard | What makes it correct |
|---|---|---|---|---|
| **Library and ingest** `src/pipeline.rs`, `src/db.rs`, `src/naming.rs` | `papers` rows; PDFs `<citekey>.pdf`, `_unsorted/<hash>.pdf`; per ingest its locals and its source file | hash, dedup by hash, resolve, dedup by identifier, read keys, copy, insert, recover, dispose; trash, restore | several ingests at once, checks made stale by awaits, failures between file and row, leftovers of dead processes | a filed PDF is never replaced or lost; an answer is one an atomic catalog could give; the source goes only when the work is in |
| **Re-filing** `src/pipeline.rs` (`save_and_refile`, `apply_match`, `purge_paper`), `src/refresh.rs` | the snapshot of the row, old and new path | identify, refresh, purge | snapshots read before network calls; copy, update, remove as three separate steps | the row's path always holds its own bytes; no second copy but by a crash or a refused removal; no downgrade by an edit that knew better |
| **Code attachments** `src/agent/code.rs`, `src/agent/store.rs`, `src/web/api.rs` | `paper_code` row with a generation; `repo/`, staging directories, pid locks; jobs | attach, clone, publish, detach, boot sweep, reconcile | stale jobs, two processes, crashes in the publish section | *ready* means this attach's checkout; stale outcomes are dropped; *cloning* ends |
| **Search index** `src/search/*` | papers, `search_index` rows, chunks, Tantivy documents, Qdrant points; the sweep in progress | plan, extract, index, embed, stamp, de-index, open, rebuild | edits in the middle of a sweep, three stores without a transaction, backoff | *indexed* means searchable as it is now; sweeps settle |
| **Annotations** `frontend/src/lib/annotationSync.ts`, `annotationStore.svelte.ts`, `src/annotations/*` | rows, cache, the plugin's page, timers, request chains | draw, edit, erase, undo; list, PUT, DELETE; open and close the tab | requests overtaking, tabs closed with work pending, late lists | what is at rest agrees with the page; the PDF's own marks are never stored |
| **Inbox watcher** `src/watcher.rs` | the inbox, a queue of paths, `_processed`, `_failed` | start scan, events, stabilise, retry, quarantine | files replaced or taken away under the worker's hands, retries of half-done ingests, stops | every PDF is ingested, quarantined or still there; each goes where its outcome says |
| **Agent turns, chat** `src/agent/mod.rs`, `src/web/chat.rs`, `src/chat/store.rs` | a process group per turn, the workspace's text and its sentinel, messages | turn, timeout, drop, store, clear, purge | kills, dropped requests, two turns at once | finished exchanges only, in order; no agent outlives its turn; the text is the paper's |
| **Summaries** `src/summary/*` | summaries, failures | sweep, drain, record, clear | two workers, backoff, purges during a summary | every paper is summarised or given up after so many failures |
| **Daily feed** `src/daily/*` | batch, record of runs, the running flag | scheduled and manual runs, prune | overlap, deadlines, re-runs, restarts | one run at a time; the record matches the batch; the day gets its run |
| **Vector tier** `src/search/vector.rs`, `indexer.rs` | a Qdrant collection, the memo that it exists, stamps | ensure, upsert, stamp, delete, recreate | the collection is lost behind the server's back, the model changes | a stamp vouches for points of the model in use; the tier comes back |
| **Searching** `src/search/mod.rs`, `query.rs`, `fusion.rs` | none; it reads three stores one after the other | parse, scope, rank twice, fuse, hydrate | indexes that lag behind the library, limits and filters | all that was typed counts; only live papers; nothing within the limits is missing |
| **Identification, metadata** `src/identify.rs`, `src/resolve/*`, `src/matching.rs` | none | identify, look up, search, corroborate, graft, rank | services fail one by one and half agree | the paper gets the best that was heard, and no other paper's identifiers |
| **Import** `src/import.rs`, `src/pipeline.rs` | staged copies, the proxy's cookie | routes, redirects, explanation, staging | redirects, dropped requests, a cookie that expires | the cookie stays with the proxy; explanations are true; no copy is left |
| **Citations** `src/citations/*` | the cached row and its provenance, a gate per paper | parse, upgrade, ask the model | overlapping and dropped requests, releases | an entry is paid for once and never degraded |
| **Language models, embedders, translators** `src/http.rs`, `src/llm.rs`, `src/translate/*`, `src/search/{chunker,embedder}.rs` | attempt and delay; a batch | send, retry, chunk, embed, translate | time-outs, `Retry-After`, answers out of order | waiting is bounded; every chunk gets its own vector |
| **Preview cache** `src/preview/*` | PNG files, permits | render, stage, publish, drop | a render under a dropped request; a path that changes hands | whole pages of the right paper; permits come back |
| **Tags, projects, names, stars** `src/db.rs`, `src/web/api.rs` | tags, memberships, columns of `papers` | add, remove, rename, collect, count | add against collection, a refresh over a name | what was answered holds; counts match lists |
| **Command line** `src/main.rs` | what it read before it asked | delete, restore, purge, clear, identify, summarize | a server that goes on meanwhile | nothing without a yes; a purge robs no other paper |
| **Frontend state** `frontend/src/lib/*` | list, cached details, import queue, chat panel | load, patch, roll back, enqueue, drain, send, clear | answers in any order | what is shown at rest is what there is |
| **Export, settings, start-up, desktop, agent runner** `src/export.rs`, `src/config.rs`, `src/server.rs`, `desktop`, `agent-runner` | none after start | — | — | — |

How they meet: the watcher and the handlers call the ingest; ingest and re-filing
share the table and the tree with each other and with the command line; the index
sweep, the summaries and the agent read the rows and files those leave; the
annotation handlers feed the index its notes; the chat trusts the code row.

## 2. Plan

Done in this order, the most important behaviour first:

1. `Library`, `Ingest`, `Catalog` and the first proofs (`Library_proofs`);
2. `Refile` on top of `Ingest`;
3. `CodeClone`; 4. `SearchIndex`; 5. `AnnotationSync`; the last two are composed in
   `MCSync`;

6. the workers that run for ever: `Watcher`, `Summaries`, `Daily`, `Vectors`,
   composed in `MCServices`;
7. `Turns`: the agent's turns with the chat's store;
8. what the user is answered: `Querying`, `Resolving`, `Shelf`, `Importing`,
   `Previews`, `References`, `Requests`, `Commands`;
9. what the browser shows of it: `LibraryView`, `ImportQueue`, `ChatPanel`; with
   those of 8 composed in `MCAnswers`. `Listing` has the sorted and filtered lists of
   `Querying` and `Resolving`.

To come: the identify dialog and the tabs of the browser; a
second browser on one paper's marks; an edit that meets two ingests of the same
bytes (section 7).

Abstract specifications worth stating: `Catalog` (done; `Watcher` takes an ingest by it); "a row and its file,
atomically" for `Refile`; "a set of searchable papers" for `SearchIndex`; "one
mutable mark" for `AnnotationSync`.

Theorems, done in this order: `TypeOK`, `FiledIntact`, `SourceSafe`,
`StrandedOnlyByFault` and the refinement of `Catalog` by `Ingest`; `RefileTypeOK`,
`DowngradeOnlyWhenStale`, and `FiledUnlessPurged` and `AbandonedOnlyByFault` for edits
that do not overlap; `CloneTypeOK`,
`ReadyHasCheckout`, `StaleDroppedUnlessReused` and `StagingHeld`; `IndexTypeOK`,
`FtsFresh` and `VectorsFresh`; `Converged` and `NeverAdopted`; `ThreadHolds`,
`NothingRunsOn` and `TextTrusted`; the workers', of each alone and of their composition
(`WatchAccounts`, `DailyAccounts`, `WorkRecorded`); `LibraryHolds` and `ScreenHolds` of
the answers, `OutsideHolds` and `KeepsTheBetter` (`Importing`, `References`,
`Requests`), `SearchHolds`, `MetadataHolds`, and the types of all of them
(`AnswersTypeOK`). Every invariant and every action property that a passing run checks
is stated by a theorem; what remains is liveness.

## 3. The modules

One action is the code between two awaits. The first letters of an action's
comment say which; `map` in `PROJECT.json` has its lines.

### Library, Ingest, Catalog

`Library` holds the two stores and their operations. `rows` is the `papers`
table (a SQL statement is one step), `files` the tree under `library_root`. A
cite key (or a hash, for `_unsorted`) stands for its path. A copy is two steps,
`CreateNew` or `Truncate` and then `Fill`; in between the path holds the name of the writer, so a
torn file is visible. `Prior` is a set of libraries an earlier process may have
left, torn copies and files without a row included.

`Ingest` runs `ingest_file_with_hint` for every member of `Subs` at once. The
program counter names the await: hash, resolve, identify (the second dedup),
keys, copy, fill, insert, cleanup, recover, dispose, fail. Every await can fail
(`StepFails`, `CopyFails`, `InsertFails`), and every submission can crash
anywhere. The removals by which a failed copy or insert cleans up can fail too, and
nobody looks (`Discard`): what is left then is remembered by `stayed`.
`recover_unique_collision` is `RecoverCollision`. What a resolution
answers is any member of `Metas`: which cite-key base, which identifiers,
whether confident. Abstracted: that the DOI lookup is case-insensitive where the
UNIQUE index on older rows may not be; identifiers are compared as values.

`Catalog` is what a caller may rely on: a submission is admitted, declined for
a reason that is true at that moment, or given up, in one step.

### Refile

Extends `Ingest` with the edits of `Edits`. An edit is one run of identify,
refresh or purge: it reads a snapshot (`Begin`), goes to the network
(`FindMatch`, `ReResolve`), computes the new path (`Rekey`), copies or adopts
(`CreateCopy`, `AdoptOrLeave`, `CopyOld`), writes the whole snapshot back (`Update`) and
removes the old file (`RemoveOld`) or rolls back. Each of its removals may be refused
(`EndRemoving`, `PurgeFile`), which the code swallows or only warns of: `stayed` is
the file that was left. `sure` is whether the row that the edit read was resolved.
Restores and trashings come from
`Ingest`. `MaxEdits` bounds the edits under way at once, not their number (that
is `Cardinality(Edits)`).

### CodeClone

One paper. `row` is its `paper_code` row, a *job* is one attach and its clone,
named so that the checkout of each is told apart. Jobs of the server share its
publish lock (a static of the process); each command-line job is a process of
its own. A crash of the server kills its jobs and leaves pid locks and staging
directories behind; the next boot sweeps and reconciles while command-line jobs
run on. The UPDATE by which a boot resolves interrupted rows may fail, and the server
serves on. Removing and renaming a directory is atomic; the reuse of a pid and a
git child that outlives its parent are not modelled.

### SearchIndex

A version number stands for a paper's metadata with its hash, chunks and
vectors; another for its notes. The sweep plans (`Work`), then for each paper
extracts (`Load`, `Derive`), indexes (`ReadNotes`, `UpsertDoc`, `MarkFts`) and
embeds (`Embed`, `MarkVectors`), and last de-indexes what is gone. Each step
can fail into backoff and the process can die anywhere; `Open` covers an
unusable or outdated Tantivy directory and `Rebuild` the command. `Rare` names
three histories which do break the properties and are therefore switched off in
the passing run (section 5).

### AnnotationSync

One paper's marks. `page` is what the plugin shows, `cache` the store, `server`
the rows. `line[s][m]` is the chain of session `s` and mark `m`: the request out
and the entries queued behind it, each of which reads page and cache when it
runs. `load[s]` is the list request of a session. `Excuses` is a history of what
makes a disagreement between row and page acceptable (or known): a failed
request, marks touched while the list is on its way, an earlier session's
requests or list still on their way, a write cut off by closing the tab, and a
baked mark whose erasure was undone.

### The workers: Watcher, Summaries, Daily, Vectors

`Watcher` is the one worker of `xuewen watch`. `job` is the path in hand and how
far it is (stabilise, hash, copy, answer, archive, quarantine); an ingest is what
`Catalog` promises, in one step, but for its three visits to the inbox path, for
users replace, finish and remove files under it. `MovedTo` is the name a file gets
in `_processed` or `_failed`.

`Summaries` has two workers, the server's sweep and the command's drain, each a
queue of papers and a step per statement; `Due` is the query that selects, in its
order, `RecordFailure` the count that ends it.

`Daily` has the two callers of a run, the scheduler and the request, and the flag
between them. A run is the steps `Launch`, `Fetch`, `DropKnown`, `Score`, `Replace`,
`Record`, `Prune` and `PruneRuns`; `Pipeline` names the phases a deadline can hit. Days
pass up to `LastDay`.

`Vectors` is the part of a sweep that `SearchIndex` takes as one step: whether the
collection is remembered, of which model's size it is, which points it has, and
what is stamped. Another configuration, a lost collection, and a rebuild of the
vectors alone are actions of the surroundings.

### Turns

Two requests to chat about one paper, step by step: history, workspace,
extraction, node, the request that node is to read from its input, the stream and its
deadline, the end that stores the exchange. A purge is the command line's, in its own
steps: the thread, the files of the workspace one by one, its directory, the row; it
may stop between any two, and a removal that fails is not looked at.
`runner` is the node process and `cli` what it started; `said` is the last word it
wrote. A request may be dropped anywhere, the thread emptied, the paper trashed and
purged, the disk full, the server killed. `raced` is a history of what overlapped.

### What the user is answered

`Querying` is one search over three papers: the parse of what was typed, the scope,
the two rankings with their limits, the fusion (`Share` is 1/(k + rank) over the
denominator `Whole`, so compared exactly where the code adds floats), the rows. The
author phrases and the text are alternatives to the keyword engine, as its parser is
set, and only the text is looked for by meaning. The
lists the code sorts and filters are those of `Listing`: where an element stands is
said by counting those before it, which needs no recursion. Ranks are inputs. `disturbed` names papers the library touched
meanwhile.

`Resolving` goes from a first page to the metadata that is stored. The services'
replies are inputs, each may fail; titles are values and `Similarity` a table, so
that the gates (`Confident`, `Corroborates`), the order of the cascade, the grafting
of identifiers and the ranking of candidates are what is checked.

`Shelf` has the tables of tags, memberships and projects, and the columns the user
writes by hand, against a refresh (`UpdatePaper` writes the columns it names) and
against each other between two statements, the second of which may fail or never be
reached (`stranded` has the tags of such requests). `Importing` has the routes of an import,
`Previews` the requests for one page with their permits and the staging name,
`References` the bibliography of one paper through cache, heuristics and model,
`Requests` the retry loop, the chunker and the batches of embeddings (a reply is any
assignment of indices to vectors; `misled` says that one was not each text's own),
`Commands` the
command line's questions beside a server that goes on.

### What the browser shows

`LibraryView` has the list under a filter and the cached details. Each request is
served and settles in steps of its own. `rows` belongs to the load `listing` (a
rolled-back star is put back on a row object, not on a row of a later list).
`doubt` names rows and details that a read and a write of the same paper, on their
way together, may have spoiled; a fresh load takes them out again. `ImportQueue`
has the drain of the import dialog, `ChatPanel` the conversation, its list, sends
and clearings.

### Compositions

The members of `MCSync`, of `MCServices` and of `MCAnswers` share no state in these models, so
each behaviour is of one member, named by the constant variable `part`, and the rest
stays put: the runs check them as if each had a run of its own. What they do share
in the program is modelled where it matters: `Watcher` takes an ingest by `Catalog`,
which `Ingest` is proved to implement; `Refile` extends `Ingest`; `Commands` and
`Shelf` have the other side's steps as actions.

## 4. The runs

| Run | Bounds | Shows |
|---|---|---|
| `ingest` | 2 ingests, 2 contents, 3 keys of one base, 1 identifier, 4 prior libraries | `FiledIntact`, `SourceSafe`, `StrandedOnlyByFault`, `IngestEnds`, `ImplementsCatalog` |
| `refile` | 1 ingest, 2 edits one after the other, 2 bases of 3 keys, 3 prior libraries | `FiledUnlessPurged`, `AbandonedOnlyByFault`, `DowngradeOnlyWhenStale` |
| `clone` | 2 server attaches, 1 command-line attach, 2 crashes, 1 detach | `ReadyHasCheckout`, `StaleDroppedUnlessReused`, `StagingHeld` |
| `clone_resolves` | the same without detach | `Resolves` |
| `in_step` | index: 1 paper, 3 versions of metadata and notes, 3 user actions, 2 failures, 1 death; marks: 1 of the user's, 1 baked, 2 looks, 2 sessions, 3 actions, 1 failure | `FtsFresh`, `VectorsFresh`, `Converged`, `NeverAdopted`, `InStep` (both come to rest) |
| `services` | 2 names and 2 files, 1 unreadable, 2 mishaps, 1 stop; 2 papers, batches of 1, 2 events; 3 days, 3 runs, 1 break; 2 papers to embed, 2 models, 3 events | `WatchAccounts`, `WorkRecorded`, `DailyAccounts`, `EveryoneServed` |
| `turns` | 2 turns, 1 fault | `TextTrusted`, `ThreadHolds`, `NothingRunsOn`, `TurnEnds` |
| `answers` | see `MCAnswers.cfg`: 3 papers and 9 queries; 5 first pages, 6 services; 2 tags, 1 project; 2 imports; 2 requests for a page, 1 permit; 2 readers, 1 release; 4 texts, 3 values of `Retry-After`; 2 papers, 2 paths, 2 commands; 2 papers and 3 gestures; 5 clicks; 2 texts, 2 sends, 3 moves | `SearchHolds`, `MetadataHolds`, `LibraryHolds`, `OutsideHolds`, `ScreenHolds`, `KeepsTheBetter` |

and four runs that end in a violation, one for each finding of section 5. Each
module has one type invariant, checked in the run of its name or composition.
`answers` is the largest with 1.7 million states, `refile` has 1.3 million, `turns`
0.8 and `in_step` 0.7.

Several names stand for a conjunction, one conjunct for each question: for
instance `LibraryHolds` for `ShelfHolds` and `CommandsHold`, `OutsideHolds` for
`ImportsHold`, `RequestsHold`, `PaidOnce` and `Aligned`, `ScreenHolds` for
`PagesTrue`, `PermitsReturn`, `ViewAgrees`, `RowsTrue`, `NothingWaits`, `OwnThread`,
`ShowsThread` and `TextKept`. The comment at each conjunct says what it is about, and
the mutants of the conjunction break them one by one.

Why these bounds are enough to see the interesting cases. *ingest*: two
submissions of the same bytes, of the same work or of colliding keys already
race; with three keys the loser of a race finds a free key also where the first
is held by a leftover. *refile*: one edit meets an ingest and the leftovers of
an earlier crashed edit; three edits in a row were tried too (5 million states)
and show nothing new. Edits that overlap are checked in `refile_missing` and
`refile_downgrade`, where they break the property, and `DowngradeOnlyWhenStale` is
proved for them too. *clone*: a stale job, a current one and one of another
process; a second crash hits the recovery from the first. *in_step*: the sweep
is sequential and every user action can fall between any two of its steps, so
papers do not interact but through the order of the sweep (two papers were tried
too); of the marks, three actions make create, erase, undo on one mark, two
sessions make a close with requests under way and a reopening. *services*: two
names let a file be replaced and a name be taken in `_processed`; two attempts and
two mishaps let a retry succeed and fail; a batch of one of two papers lets one
starve the other; three runs on a day are a failure, its retry and a request beside
it; a paper with two chunks can lose one. *turns*: two turns race at every step, and
the deadline of one meets the end of the other. *answers*: a pair of papers (or
requests, or readers) is what each race takes; limits are of 2 against 3 papers;
replies and pages are chosen so that each gate passes and refuses something; three
gestures make a deletion of two papers, its undo and a failure of one of them.

Deadlock is not checked: each system may stop, when its bounded inputs are used
up or no user does anything.

Every property has a mutant, a plausible bug in a mapped definition
(a copy that fails and leaves its part, a stamp taken after the write, a publication
without its check, and so on), under which the same run fails; a conjunction has
several.

### Fairness

- *ingest*: weak fairness of `Advance`, a submission's steps that do not fail. An
  ingest is a future that tokio polls until it ends, and each await of it returns
  or times out. Nothing makes a step fail, a user act or a process crash, so the
  filing loop must end of itself.
- *clone*: weak fairness of each job's steps, but not of git's return, which has no
  deadline; and of boot, sweep and reconcile: a server that stopped is started again
  (its service manager does that).
- *in_step*: weak fairness of the indexer, a loop with a poll interval, and of
  the passing of a backoff; for the marks, of timers and of the settling of requests,
  which the browser guarantees one way or the other. Not of the user.
- *services*: weak fairness of each worker: the steps of the watcher's loop, of both
  summarizers (a stopped server is started again), of a daily run and of the
  scheduler's check, of the sweep, and of the passing of a backoff. These are loops
  over a timer or a channel in a process its service manager keeps up. Not of the
  user, of failures, nor of the loss of anything.
- *turns*: weak fairness of `Serve`, the steps the server takes in a turn, its
  deadline included, except where it waits for another program without one
  (`Unbounded`): for pdftotext, and for node to read its request. Node owes nothing: it
  may hang, and `TurnEnds` excuses one that closes its output and stays too.

### What the properties excuse, and why

- `StrandedOnlyByFault`, `AbandonedOnlyByFault` (ingest, refile): a crash, and a
  removal that the file system refuses: `src/pipeline.rs:242`, `:370` and `:716` swallow
  it, `:375` and `:427` warn and go on. Each excuse is of the very file that stayed.
- `DowngradeOnlyWhenStale` (refile): the edit whose snapshot is older than the
  resolution (section 5).
- `HalfPurged` (refile): a purge removes the file before the row, by design.
- `Reused`, `Overrun` (clone): a reused generation passes for the current one
  (section 5); two *processes* are not kept apart by the publish lock at all, and their
  publications can overrun each other.
- `Resolves` excuses a job whose git does not return, one whose last database write
  failed (nothing retries it), a row whose reconciling UPDATE failed at a boot (the
  server serves on and the row says 'cloning' until the next), and a job that died while
  a command-line clone of the same paper was there.
- `WatchTaken` excuses a file whose quarantine failed, and `WatchSorted` bytes put
  under the name in hand, which are moved with it; `EveryPaperServed` a paper that
  failed `MAX_ATTEMPTS` times; `VectorsReturn` a collection of another model's size,
  for which there is `index rebuild`.
- `TextTrusted` excuses two extractions at one time, a purge that is taking the files
  away or met a turn that wrote, and a write cut short; `PurgeIsFinal` the workspace
  (not the thread) of a turn that wrote into it while or after it was emptied, and a
  removal that was refused; `TurnEnds` the three waits without a deadline.
- `PagesTrue` excuses two renders of one page at one time (`mixed`); `RobsNoOne` a
  purge of a paper restored meanwhile; `LeavesNothing` a file that could not be
  removed; `CountsMatch` tags on papers in the trash; `TagsAreUsed` the tag of a second
  statement that failed or was never reached; `StagedOnlyWhileRunning` the copy of a
  request that was cut, of a full disk or of a refused removal; `AllEmbedded` vectors
  whose indices were not their texts' (`misled`).
- `doubt` (library in the browser), `missed` (import queue) and `apart` (chat panel):
  histories of the overlaps the browser's code has no guard for. Each is as narrow as
  the overlap, and `doubt` and most of `apart` end with the next clean load.
- `Excuses` (annotations), above. Of those, "undone" is a real way to store a
  baked mark: undoing the erasure of one raises `create`
  (`annotationSync.ts:141-149`), and it is then owned.

## 5. Findings

Each is a run whose one property quotes the repository and fails.

1. `unsorted_torn`: overwriting `_unsorted/<hash>.pdf` in place is not always "a
   repair" (`src/pipeline.rs:224`): a second ingest of the same bytes that fails or
   dies in its copy leaves the first one's filed PDF torn.
2. `refile_missing`: two overlapping edits of one paper leave its row at a file
   that was removed (`src/pipeline.rs:317`).
3. `search_torn_open`: dying between the wipe of the Tantivy directory and the
   clearing of the stamps leaves an empty index that counts as complete
   (`src/search/mod.rs:182`, against `src/search/fts.rs:176`).
4. `refile_downgrade`: a refresh reads every paper before its first request
   (`src/refresh.rs:30`) and compares with that; over a paper identified meanwhile it
   writes its guess ("Never downgrade an already-resolved record", `:87`).

Met while modelling, and described by the excuse of a property or by the model
rather than by a run of its own:

- an edit under way when a paper is trashed takes it out of the trash, for
  `update_paper` writes `deleted_at` of its snapshot (`src/db.rs:174`, against
  `src/pipeline.rs:447`); `apply_match` checks the trash on the snapshot too;
- after detach and attach the generation starts again, so that a stale job passes
  for the current one (`src/agent/store.rs:66`, against migration 0018);
- closing a tab drops an edit that is queued behind the mark's earlier request
  (`annotationSync.ts:207`, against line 50);
- a process that dies (or cannot write) between the removal of a paper's document
  and of its index row, followed by a restore, leaves the paper unsearchable for
  good (`src/search/indexer.rs:239`); so does an edit that is taken back within a
  sweep that only indexes notes (`src/search/store.rs:157`). `Rare` switches these on;
- points of a paper removed while its upload was on its way stay as orphans, and a
  collection that is lost leaves its stamps standing (`src/search/vector.rs:240`);
  `index rebuild --vectors-only` beside a server lets the server's memo and stamps
  disagree with the new collection;
- two renders of one page share a staging name, and one publishes the other's half
  (`src/preview/cache.rs:49`, whose comment thinks of two processes only); renders
  of dropped requests go on without a permit, beyond the limit;
- `paper.txt` is written in place: a death or a full disk leaves a torn text that is
  trusted from then on (`src/agent/mod.rs:176`), and two first turns can leave the
  failure's placeholder over a good text;
- a turn waits for node to end without a deadline once its output is closed, and
  without one for pdftotext and for node to read its request: "a hung runner is killed
  the same way at the turn timeout" (`src/agent/mod.rs:193`) holds only once the
  deadline has been set, at line 272;
- a purge that runs beside a turn can leave the paper's workspace behind, as
  `remove_dir_all` fails on a directory that was written into, or its agent's
  checkout, and nobody looks (`src/pipeline.rs:431`);
- a file whose removal fails after a failed insert, or in a purge, stays under its cite
  key with no row (`src/pipeline.rs:242`, `:370`, `:427`, `:716`);
- a reconciling UPDATE that fails at boot leaves its rows 'cloning' as long as that
  server lives (`src/agent/code.rs:105`), and git is waited for without a deadline;
- a tag whose second statement (its link, or its collection) fails or is never reached
  is on no paper for good (`src/db.rs:519`, `:541`);
- `author:` terms are documented as narrowing the search (`src/search/query.rs:11`,
  `src/search/mod.rs:26`), but the keyword engine's parser takes any of author and text
  (`src/search/fts.rs:341`), and the semantic engine ignores them
  (`src/search/mod.rs:345`). Of a repeated `tag:`, `project:` or `status:` the last
  counts (`query.rs:81`, and its test);
- of a DBLP reply `best_match` returns one record, and if it is a CoRR preprint that no
  other service betters it is filed; a published record that is no liker, behind it in
  the same reply, is lost (`src/resolve/mod.rs:225`, `:443`);
- an embedder's reply is put back by index, but only the number of vectors is checked:
  repeated or shifted indices put vectors beside other chunks (`embedder.rs:94`);
- the count beside a tag includes papers in the trash, the list does not;
- a purge that was asked before a paper was restored removes the restored paper, and
  if the paper has moved, the file of whoever is at its old path; `annotation clear`
  removes marks made after it counted; `identify --pick` picks from a second search,
  whose list may differ from the one printed; a file that cannot be unlinked stays
  behind while its row goes (`src/pipeline.rs:417`);
- a job queued while the import queue's drain loads the list waits for the next
  one that is queued (`importQueue.svelte.ts:109`, against line 58);
- `loadDetail` stores what it read over a later patch or eviction, and an undo of
  several deletions that fails for one does not load the list with the others
  (`library.svelte.ts:142`, `:360`);
- a star refused by the server is put back to what the row said, in the cached detail
  too: if the row was out of date, a detail that was right is wrong from then on
  (`library.svelte.ts:216`, `:223`). Five gestures on one paper lead there, more than
  `answers` has; the search for an inductive invariant showed it (section 6);
- `clearChatThread` has no session guard: it empties the panel of the paper opened
  meanwhile; a list that races a reply shows it twice or not at all; a message given
  back writes over what was typed in the meantime (`chat.svelte.ts:171`, `:78`, `:153`).

## 6. The proofs

TLC checks the properties on the small instances of section 4; what follows holds
for every value of the constants: any number of papers, submissions, edits, attaches,
turns, marks and sessions, of crashes and of failed writes. Every proof has the same
three lemmas: the invariant holds at first (`...Init`), every action keeps it
(`...Next`, one step per action), and it implies the property; the theorem joins
them. The invariants were tried with TLC before they were proved.

The assumptions are those the modules name. `LibraryAssumption`, `IngestAssumption`
and `RefileAssumption`: sets of model values are disjoint; a library left behind has
distinct and intact rows; the ids of submissions are new and no leftover is named like
a submission. `CloneAssumption`, `IndexAssumption`, `AnnotationAssumption`,
`TurnsAssumption`, `WatchAssumption`, `DailyAssumption`, `SummariesAssumption`,
`VectorsAssumption`, `ShelfAssumption`, `CommandsAssumption`, `PreviewAssumption`,
`QueueAssumption`, `ViewAssumption`, `ChatPanelAssumption`, `ImportingAssumption`,
`ReferencesAssumption`, `RequestsAssumption`, `QueryingAssumption`,
`ResolvingAssumption`: bounds are natural numbers,
sets that are counted are finite, and
no placeholder is a member of what it stands in for (`RowAssumption` and
`RequestAssumption` say the same of records). Those of the answers also say what the
replies and the corpus may be: `InteractiveAssumption` that the interactive policy and DeepL's
time-out are those of the code (in half seconds), for the bound of a reader's wait is
a number; `QueryingAssumption` that the engines rank papers of the corpus and that
`Whole` is divisible by every k + rank; `ResolvingAssumption` that similarity is a
percentage and 100 for equal titles, that only OpenReview has submissions that were not
accepted, and that two records of one DBLP reply with one key and DOI are one work;
`PagesAssumption` that a title guessed from a page is a title. TLC evaluates each of
them on a run.

### Ingest (`Library_proofs`)

- `TypeOKHolds`: not inductive alone, since an insert needs to
  know that a submission at that await has metadata, content and a path.
  `Progress` says which locals are set at which await, and `TypeInv` is both.
- `FiledIntactHolds`: why it is not inductive: nothing
  in it forbids a submission to fill, or to remove, a file some row names.
  `Ownership` adds it: while a submission is past the exclusive creation of a
  key, no row names that key and no other submission is there with it, and once
  its copy is complete the file holds its content. `FiledInv` is `TypeInv`,
  `FiledIntact` and `Ownership`. The exclusive
  creation (`create_new`) is what makes `Ownership` hold, whatever the set of
  taken keys says: that set is an optimisation, not what the safety rests on.
- `SourceSafeHolds`: an ingest
  never removes a row or changes its bytes or identifiers (`Grows`), so an answer
  that was justified when it was given stays justified. `AnswerInv` says which
  answer a submission can have at which await (`Placed`), that a row of its own
  means it was admitted (`Admitted`), and that its answer has its row
  (`Justified`); it does not need `FiledInv`.
- `StrandedOnlyByFaultHolds`: an action property. Each
  step either keeps the submission's hold on the file, removes the file, gives
  it a row, or is the crash or the refused removal that is excused. The row must be a new one, or an insert could take a name away from
  another file: that is `Admitted`.
- `ImplementsCatalogHolds`: `Spec => ImplementsCatalog`,
  with the mapping `Promise`. A conclusion over a row maps to `Decline`, the insert
  to `Admit` (the UNIQUE columns are what makes its guard true), a failure to
  `GiveUp`, and all other steps to stutters. The invariant is `TypeInv`, `AnswerInv`
  and `Unoffered`.

### Re-filing (`Library_proofs`)

- `RefileTypeHolds`: `RefileSpec => []RefileTypeOK` with no further hypothesis. The
  invariant is that of the ingest and `Fit`, which of an edit's locals are set at
  which of its awaits.
- `DowngradeOnlyWhenStaleHolds`: `RefileSpec => DowngradeOnlyWhenStale`, with no
  hypothesis: edits may overlap. What the code keeps of "never downgrade" is said of
  the edit itself: `sure` is set when it reads a resolved row, and an edit that is sure
  carries no guess to its UPDATE, which is part of what `Fit` says of its locals.
  `Rowed` (a submission that has a row is over) excludes that an insert writes over a
  row. That an edit which is not sure does replace a resolved row is `refile_downgrade`.
- `FiledUnlessPurgedHolds`: under `WholePrior`, `RefileSpec /\ []Orderly =>
  []FiledUnlessPurged`. `Orderly` is `Alone` and two more hypotheses, and each
  excludes a history that breaks the property: `Apart`, no two ingests of the same
  bytes are between the look-up of the hash and the answer (a rename adopts the copy
  the one has made, and the other's clean-up removes it, `src/pipeline.rs:353`);
  `NotHalf`, no purge stops between the file and the row (its key is then free while
  a row names it, and a later chain of renames can bring another paper's bytes
  there). `WholePrior`: no row of the library that was found names a torn file; a
  rename copies a torn one as it is. `FilesInv` says who holds which path: an edit
  between its copy and its UPDATE has both (`Holds`), and no other row or submission
  is at either (`Free`). `HashInv`: a content hash is one row's.
- `AbandonedOnlyByFaultHolds`: `RefileSpec /\ []Alone => AbandonedOnlyByFault`. `Alone`
  says that at most one edit is under way, as a user at one page makes them; any number
  may follow one another, beside any ingests. `SnapInv` is the invariant (`Snapshot`:
  what an edit has read is what the row still says; `Rowed`; `Filed`: so is a submission
  that could not remove its file). With `Snapshot`, the row still names whichever of an edit's two files the
  edit does not remove. That leaves the purge's row, the last to name a key whose file
  is gone: an ingest may have created that file anew in between. `Emptied` says that it
  is then another row's, or a submission's that holds it, died with it or could not
  remove it (`Accounted`), before the row goes. `AloneHolds` derives `Alone` from `MaxEdits = 1`, and
  `AbandonedOneByOne` is the theorem for `MaxEdits = 1`.

### Code attachments (`CodeClone_proofs`)

`CloneInv` is `CloneTypeInv` and, unless a generation was given twice (`Reused`, the
finding of section 5), `Ordered`.

- `CloneTypeHolds`: that generations stay in `Gens` needs to be paid for: `GenBound`
  counts one for each attach and for each crash that was reconciled.
- `ReadyHasCheckoutHolds`, `StaleDroppedHolds`, `StagingHeldHolds`: `GensGrow` (the
  row has the last generation, and only its own job can meet it), `Staged` (from git
  to the rename, the pid lock of the staging directory and the checkout in it are the
  job's own), `Serial` (the server's jobs publish one after the other) and `Shown`
  (what `ReadyHasCheckout` says, from the rename on and not only once the row says
  so). `Spoilt` is the excuse: two processes are not serialised. `StagingHeld` is
  inductive with `Staged` only.

### Search index (`SearchIndex_proofs`)

- `IndexTypeHolds`: `IndexTypeInv` adds what the sweep holds at which of its steps.
- `VectorsFreshHolds`: under `"deindex" \notin Rare`. The invariant follows one paper
  through the sweep: its planned work is what its row called for (`Planned`), the
  chunks in hand are those of the row (`Held`), and a stamp stands for points of the
  row's version (`Embedded`). The hypothesis excludes that a removal is cut short
  between the paper's document and its row.
- `FtsFreshHolds`: under `Rare = {}`. A row that does not call for work
  lies between the document and the paper (`DocBetween`, `RowBehind`, and
  `ReadBetween` for what the sweep has read): versions only grow, so the three are
  equal when the outer two agree. That is why an edit that is taken back ("revert")
  breaks it; "deindex" and "open" do for the reasons section 5 gives.

### Annotations (`Reader_proofs`)

- `AnnotTypeHolds`, `ConvergedHolds`: `AnnotInv` is the types and, for each mark of the
  user's, `MarkInv`: what a session that is over can still have out
  (`Lines`), that an id not minted yet is nowhere (`Unminted`), what the tab
  holds of the mark (`InTab`, `Listed`), and what the last request in its line will
  make of the row (`EndsAs`, `Left`). `Converged` is `EndsAs` with nothing left in line.
- `NeverAdoptedHolds`: `Foreign`, for the marks that came with the PDF.

### Turns (`Reader_proofs`)

- `TurnsTypeHolds`, and `TurnsInv` for the rest:
  `NothingRunsOnHolds` by `AgentAt` (which processes a turn has at which stage),
  `ThreadHoldsAlways` by `ToldOfStored` (nobody is told of an exchange that is not
  stored) and `PurgedClean` (once the purge has emptied the workspace, what is in it was
  written by a turn that met the purge, or refused to go), `TextTrustedHolds` by `Trustworthy` (unless two turns
  extracted at one time, a purge met them or a write was cut short, one turn extracts at a time and its
  stage says what is on the disk).

### The workers (`Services_proofs`)

The four workers share no state, so each has an invariant of its own. The theorems
are stated of each module's own specification and of their composition in `MCServices`,
the specification that TLC runs: `ServicesTypesHold`, `AccountsHold`,
`WorkRecordedHolds`.

- `WatchAccountsHolds`, by `WatchInv`. The hazard is a file that is replaced between
  two steps of an ingest. `InboxInv`: bytes are numbered as they come, and lie under
  one name. `FiledInv`: bytes that were hashed and are not those that were copied are
  nowhere any more, so their row loses nothing. `JobInv`: what is under the name in
  hand at each step is nothing, what was put there meanwhile, or what the job hashed
  or filed; each attempt after the first was paid for by a failure, which is why
  nothing is quarantined early.
- `DailyAccountsHolds`, by `DailyInv`. `TaskInv`: a run under way holds the flag and
  the last number, and a run that is to be recorded "ok" has its batch in place.
  `NoOther`: one at most. `PastRuns`: batches and records are of runs that began.
- `AttemptsBoundedHolds`, by `SumInv`. `AttemptsBounded` alone says nothing of a
  worker that has a paper in its batch and has not come to it. `Bounded` counts
  every worker that may yet record a failure of a paper (`Load`), which is enough
  because a batch has no paper twice (`DueIds`: the order of `due_ids` is total, so it
  ranks without a tie, by `Ranked`), a paper at its limit is in no new batch, and a
  failure takes the paper out of the worker's hands as it is counted.
- `VouchedHolds`, by `VecInv`. A stamp of any model must vouch, not only of the one in
  use (`Vouching`), or a change of the configuration back would break it. What else
  is needed is what the sweep knows: the collection it remembers has its size
  (`SizeKnown`), the chunks in hand are the row's and are not stamped with its
  model (`InWork`, `AsPlanned`), and all of them but those left are stored unless
  the collection is lost (`Storing`). That an overwritten point belonged to no other
  stamp follows from `Sized`: a second model's stamp could not have points of this
  size. `index rebuild` takes every stamp back before it deletes (`Unstamped`).

### The library and the screen (`Screen_proofs`, `Answers_proofs`)

The parts of `MCAnswers` share no state, so each has an invariant of its own, and the
theorems are stated of the composition that TLC runs: `LibraryHoldsAlways` from
`ShelfInv` and `CommandsInv`, `ScreenHoldsAlways` from `PreviewInv`, `QueueInv`,
`ViewInv` and `PanelInv`.

- `ShelfInv` is what is checked and `IdsInOrder`: ids are minted upwards, so a new tag
  or project takes over no links. The counts are right at every state, because they are
  computed when asked; that a request's members are counted once is `MembersCounted`.
- `CommandsInv`. The hazard is what others do between the prompt and the deletion.
  `Agreed`: what a command may still touch is among what was agreed to. `AsRead` and
  `Unfiled`: each paper that a purge has still to come to is in the trash at the place
  that was read, unless somebody restored it, and the one between its file and its row
  has no file left. `InPlace` (a file is at its paper's place and at no other's) is
  what makes the removal rob nobody, and `Tallied` accounts for each paper once.
- `PreviewInv`: `Opened` (a file of the cache is named after the request that made
  it, past its opening) and `Unmixed`: unless two renders of one page overlapped or a
  path changed hands, one request writes at a time, and what it is about to rename is
  whole and the paper's.
- `QueueInv`: `Rowed`, `ToDo`, `Due` and `InHand` tie three lists together, the rows of
  the dialog, the jobs that wait and the one in hand, across the sessions of the
  dialog. `Due` is what `QueueHolds` rests on: a queued row of the open dialog has its
  job, so with none waiting and none in hand every row has its outcome.
- `ViewInv`. `ViewAgrees` speaks of a paper without writes and a list without loads;
  the invariant says what is true of the rest. `ReadsMixed`: a read on its way knows
  each write on its way, and `ReadsTrue`: of the other papers its answer is still the
  server's. For each paper (`Sound`): of two writes of one thing at a time nothing is
  known (`OneAtATime`), what was served is so in the server (`Took`), a star shown is
  the server's or what its one write makes of it (`StarTrue`), a tag shown is the
  server's unless its echo has not come (`TagTrue`), and the list has who passes the
  filter unless it is about to be loaded (`ListTrue`). A step that leaves a paper
  alone, or only adds to what is in doubt, is `Framed`, and `FrameKeeps` is for all of
  them. The attempt to prove it showed that `doubt` was too small: a star moved in a
  row that is in doubt, then refused, puts a wrong star into a detail that is not
  (`Misread`). TLC had not come that far.
- `PanelInv`: `InStep` (what is shown, with the reply to be folded, is the thread, unless
  a list or clearing of this session is on its way or one of the overlaps of `apart`
  happened), `ListsStored` and `ShownStored` (nothing is listed that was not stored,
  for this paper), `Reading` and `Pending` (one exchange of this session at a time),
  `Spent` and `NoneLost` (no text is sent twice, and none is lost).

### The services outside (`Outside_proofs`, `Answers_proofs`)

`OutsideHoldsAlways` and `KeepsTheBetterHolds` are stated of the composition,
`SearchHoldsAlways` and `MetadataHoldsAlways` of the component's own specification
(`AnswersFoundHold` carries both over to the composition), and `AnswersTypesHold` says
of all eleven components that their state keeps its type.

- `ImportInv`. `ExplainsTruly` speaks of the answer; the invariant says at every await
  what has been asked by then (`WentByProxy`, `WentToArxiv`, `WentToUnpaywall`,
  together `Tried`), so that giving up comes after all of it. `Owned`: a staged copy is
  that of a request which is to remove it, or was cut off.
- `RefInv`. `OneGate`: whoever is at a paper's references holds the paper's one gate,
  and one of them is inside. That alone does not keep what the model said, for a row is
  read, and written after a call. `OnItsWay`: what is to be written has, while the
  bibliography is the same, everything of the row that came from the model, and the
  model was not asked meanwhile. `SettledNow`: what is settled was settled by this
  release, and a release does not ask for the same again. `Beside`: every parse is next
  to its own entry. `KeepsTheBetterHolds` is a step of `OnItsWay`.
- `RequestsInv`. `CallPatient` counts what has been waited by the tries made, with the
  longest delay a policy can ask for, with or without a `Retry-After`. `CallWhole`: what
  came back and what is still to be sent is the list of chunks, in order. That no
  character of a page is lost and no chunk is too long is proved of the chunker itself
  (`SplitLongFacts`, `PackedFacts`, `ChunkPageFacts`, `BodyOfFacts`). These are
  inductions over characters, pieces and pages; the library's induction theorems cannot
  be instantiated here, so each is made from the least counterexample of a set of
  numbers (`Smallest`, `Climbing`). `CallAsAsked` is for the translations.
- `QueryInv`. The rows are read three awaits after the scope. `ScopeHolds`: for a paper
  nobody touched the filter still says what it said; `KeywordSaid` and `Hydrated`: what
  an engine said is what its step computes from a scope that no later step changes, and
  the answer is the fused list without the papers that are not live any more. The rest
  is about lists. `Counted` shows that counting those before it ranks a finite set
  without gap or tie, hence `Sorts`, `Rises` and `Sifts`; `Within` cuts what is left
  after the filter (`WithinIs`), and `ScoreFalls` shows that a paper which both engines
  put behind another has the lower score: 1/(k + rank) falls with the rank
  (`QuotientFalls`), and a paper that an engine does not rank adds nothing.
  `TokensCount` needs no invariant: it is about the parse. `AnswersAreFound` follows
  from `KeywordSaid` and what `NearHits` and `Sifted` keep of an order.
- `ResolvingInv`. `DblpHeard`: DBLP had nobody that passes the gates, or a preprint
  that does, and all that was heard is DBLP's. `Resolved`: what is filed passes the
  gates, was heard as it is filed, and each identifier grafted to it is of a record as
  like it as the gate asks; with nobody to file, nobody heard passes. `IdentKnown`: the
  page's own identifier is in hand from the first step on. `RankedWell` is the ranking of
  candidates (once each, the likest first, cut at the limit).
- `AnswersTypesHold` follows from the invariants, but for the library in the browser:
  the number of the list that is shown, the reloads that are due and the marks of doubt
  are typed by `ViewTyped`, with `ViewInv`.

### Model-checked only

- Liveness under fairness (`IngestEnds`, `Resolves`, `InStep`, `EveryoneServed`,
  `TurnEnds`): out of the prover's reach.
- The findings of section 5: each is a counterexample, and the theorems exclude it by
  a hypothesis or an excuse of the property (`Alone`, `Rare`, `Reused`, an edit that is
  not `sure`).

## 7. Not modelled

- Export (a pure function from a row to BibTeX), configuration, routing, the desktop
  shell and the agent runner's script (`not_modelled` in `PROJECT.json`): no state
  after start, or foreign processes that are taken by what they answer.
- The extraction of text from PDFs, regular expressions of the heuristics, parsers of
  the services' formats, prompts, wording and logging: by their outcome only.
- An edit that adopts, at its destination, the copy of an ingest of the same bytes
  which has not inserted yet and then cleans it up (`src/pipeline.rs:353`), and a
  torn copy at a destination that stops every later rename (`:354`): both take more
  submissions than `refile` has.
- `split_long`'s steps to a character boundary (a character is one unit of the text),
  the 150 ms between typing a filter and loading its list, and the id under which a
  deleted tag is created anew in the browser.
- Of the browser: the identify dialog, the open tabs and their documents, projects
  in the list (they go as tags do), names, keys and layout; two browsers (or the
  command line) on one paper's marks; the annotations' payload formats.
- Power loss that undoes writes the operating system had accepted; the reuse of a
  pid; a git child that outlives its parent.
