------------------------------ MODULE Watcher ------------------------------
(***************************************************************************)
(* `xuewen watch` (watcher.rs): one worker that takes the PDFs of the      *)
(* inbox one after the other, first those its start-up scan found, then    *)
(* those the file system's events name.  An ingest is what Catalog says of *)
(* it, one step, but for the two moments it goes back to the inbox path:   *)
(* it hashes the file, later copies it, and last moves it to _processed.   *)
(***************************************************************************)
EXTENDS Naturals, Sequences

CONSTANTS
    Names,          \* file names in the inbox
    MaxDrops,       \* bound: files put there, each with bytes of its own
    Unreadable,     \* the drops pdftotext fails on
    MaxAttempts,    \* WatchConfig::max_attempts
    MaxMishaps,      \* bound: I/O and database errors
    MaxStops        \* bound: ends of the process

ASSUME WatchAssumption ==
    /\ Unreadable \subseteq 1 .. MaxDrops
    /\ MaxAttempts \in Nat \ {0} /\ {MaxDrops, MaxMishaps, MaxStops} \subseteq Nat

VARIABLES
    inbox,     \* the bytes under a name, with whether their writer is done
    drops,     \* the number of files put into the inbox so far
    filed,     \* the library: what each row was hashed as, and what was copied
    archived,  \* _processed: what was moved there under which name
    rejected,  \* _failed
    worker,    \* the process: "down", its scan, or watching
    todo,      \* what the scan found and is still to do
    events,    \* the channel of paths from the notify handler
    job,       \* the file in hand
    mishaps, stops,
    lost,      \* history: bytes somebody else removed or wrote over
    swapped    \* history: bytes put under the name in hand, during its attempts

watchVars == <<inbox, drops, filed, archived, rejected, worker, todo, events, job, mishaps,
               stops, lost, swapped>>

dirs == <<filed, archived, rejected>>

Drops == 1 .. MaxDrops
Nothing == [bytes |-> 0, whole |-> TRUE]
Idle == [at |-> "idle", name |-> "none", bytes |-> 0, attempt |-> 0]

JobSteps == {"stabilize", "hash", "store", "dispose", "retry", "quarantine"}

WatchTypeOK ==
    /\ inbox \in [Names -> [bytes : 0 .. MaxDrops, whole : BOOLEAN]]
    /\ drops \in 0 .. MaxDrops
    /\ filed \subseteq [hash : Drops, bytes : Drops, as : {"ingested", "same_work"}]
    /\ archived \subseteq Names \X Drops /\ rejected \subseteq Names \X Drops
    /\ worker \in {"down", "scan", "watch"}
    /\ todo \subseteq Names /\ events \in Seq(Names)
    /\ job = Idle \/ job \in [at : JobSteps, name : Names, bytes : 0 .. MaxDrops,
                              attempt : 1 .. MaxAttempts]
    /\ mishaps \in 0 .. MaxMishaps /\ stops \in 0 .. MaxStops
    /\ lost \subseteq Drops /\ swapped \subseteq Drops

WatchInit ==
    /\ inbox = [n \in Names |-> Nothing] /\ drops = 0
    /\ filed = {} /\ archived = {} /\ rejected = {}
    /\ worker = "down" /\ todo = {} /\ events = <<>> /\ job = Idle
    /\ mishaps = 0 /\ stops = 0 /\ lost = {} /\ swapped = {}

----------------------------------------------------------------------------
(* The user and the file system.                                           *)

\* A Create or Modify event, once watch() has been called.
Raised(n, kind) == events' = IF worker = "watch" THEN Append(events, n) ELSE events

InHand(n) == job.name = n /\ job.at \notin {"idle", "stabilize"}

Overwritten(n) == lost' = lost \cup ({inbox[n].bytes} \ {0})

\* Somebody starts to write a file, over the one that has the name if any.
Drop(n) ==
    /\ drops < MaxDrops
    /\ drops' = drops + 1
    /\ inbox' = [inbox EXCEPT ![n] = [bytes |-> drops', whole |-> FALSE]]
    /\ Overwritten(n)
    /\ swapped' = IF InHand(n) THEN swapped \cup {drops'} ELSE swapped
    /\ Raised(n, "create")
    /\ UNCHANGED <<dirs, worker, todo, job, mishaps, stops>>

\* Somebody takes a file out again: a Remove event, which the handler ignores.
TakeOut(n) ==
    /\ inbox[n] # Nothing
    /\ Overwritten(n)
    /\ inbox' = [inbox EXCEPT ![n] = Nothing]
    /\ UNCHANGED <<drops, dirs, worker, todo, events, job, mishaps, stops, swapped>>

FinishDrop(n) ==
    /\ ~inbox[n].whole
    /\ inbox' = [inbox EXCEPT ![n].whole = TRUE]
    /\ Raised(n, "modify")
    /\ UNCHANGED <<drops, dirs, worker, todo, job, mishaps, stops, lost, swapped>>

----------------------------------------------------------------------------
(* The worker.                                                             *)

Present == {n \in Names : inbox[n] # Nothing}

\* catch_up_scan
Start ==
    /\ worker = "down"
    /\ worker' = "scan" /\ todo' = Present
    /\ UNCHANGED <<inbox, drops, dirs, events, job, mishaps, stops, lost, swapped>>

\* The scan is worked off; from here on events are raised.
GoLive ==
    /\ worker = "scan" /\ todo = {} /\ job = Idle
    /\ worker' = "watch"
    /\ UNCHANGED <<inbox, drops, dirs, todo, events, job, mishaps, stops, lost, swapped>>

Begin(n) == job' = [at |-> "stabilize", name |-> n, bytes |-> 0, attempt |-> 1]

Take ==
    /\ job = Idle
    /\ \/ \E n \in todo : Begin(n) /\ todo' = todo \ {n} /\ UNCHANGED events
       \/ /\ worker = "watch" /\ events # <<>>
          /\ Begin(Head(events)) /\ events' = Tail(events) /\ UNCHANGED todo
    /\ UNCHANGED <<inbox, drops, dirs, worker, mishaps, stops, lost, swapped>>

GoTo(step) == job' = [job EXCEPT !.at = step]

At(step) == job.at = step /\ worker # "down"

world == <<drops, worker, todo, events, stops, lost, swapped>>

\* Mutant of Stabilize: no max_polls.
Stabilize_ForEver ==
    /\ At("stabilize")
    /\ inbox[job.name] = Nothing \/ inbox[job.name].whole
    /\ IF inbox[job.name] # Nothing THEN GoTo("hash") ELSE job' = Idle
    /\ UNCHANGED <<inbox, dirs, mishaps, world>>

\* The size is polled until it stands still: a file that is gone, or is still
\* growing after max_polls, is dropped.
Stabilize ==
    /\ At("stabilize")
    /\ IF inbox[job.name] # Nothing /\ inbox[job.name].whole
       THEN GoTo("hash") ELSE job' = Idle
    /\ UNCHANGED <<inbox, dirs, mishaps, world>>

\* Mutant of GiveUpAttempt: no retry.
GiveUpAttempt_AtOnce == GoTo("quarantine")

\* An attempt fails: on to the next one, or to the quarantine after the last.
GiveUpAttempt ==
    IF job.attempt < MaxAttempts THEN GoTo("retry") ELSE GoTo("quarantine")

Retry ==
    /\ At("retry")
    /\ job' = [job EXCEPT !.at = "hash", !.attempt = @ + 1]
    /\ UNCHANGED <<inbox, dirs, mishaps, world>>

\* Hash the file and look the hash up.
Hash ==
    /\ At("hash")
    /\ LET b == inbox[job.name].bytes
           known == \E r \in filed : r.as = "ingested" /\ r.hash = b
       IN  \/ inbox[job.name] = Nothing /\ GiveUpAttempt
           \/ /\ inbox[job.name] # Nothing
              /\ job' = [job EXCEPT !.at = IF known THEN "dispose" ELSE "store", !.bytes = b]
    /\ UNCHANGED <<inbox, dirs, mishaps, world>>

\* Extract, resolve, copy, insert.  pdftotext's refusal is final; the paper is
\* filed, or it is another file of a work the library has.
StoreJob ==
    /\ At("store")
    /\ LET b == inbox[job.name].bytes
       IN  \/ inbox[job.name] = Nothing /\ GiveUpAttempt /\ UNCHANGED filed
           \/ b \in Unreadable /\ GoTo("quarantine") /\ UNCHANGED filed
           \/ /\ inbox[job.name] # Nothing /\ b \notin Unreadable
              /\ \E as \in {"ingested", "same_work"} :
                   filed' = filed \cup {[hash |-> job.bytes, bytes |-> b, as |-> as]}
              /\ GoTo("dispose")
    /\ UNCHANGED <<inbox, archived, rejected, mishaps, world>>

\* Mutant of MovedTo: a plain rename.
MovedTo_Clobbers(dir, n) == {e \in dir : e[1] # n} \cup {<<n, inbox[n].bytes>>}

\* move_to: under a name no other file of `dir` has.
MovedTo(dir, n) == dir \cup {<<n, inbox[n].bytes>>}

Gone(n) == inbox' = [inbox EXCEPT ![n] = Nothing]

Dispose ==
    /\ At("dispose")
    /\ \/ /\ inbox[job.name] = Nothing /\ GiveUpAttempt /\ UNCHANGED <<inbox, archived>>
       \/ /\ inbox[job.name] # Nothing
          /\ archived' = MovedTo(archived, job.name) /\ Gone(job.name) /\ job' = Idle
    /\ UNCHANGED <<filed, rejected, mishaps, world>>

Quarantine ==
    /\ At("quarantine")
    /\ job' = Idle
    /\ IF inbox[job.name] = Nothing THEN UNCHANGED <<inbox, rejected>>
       ELSE rejected' = MovedTo(rejected, job.name) /\ Gone(job.name)
    /\ UNCHANGED <<filed, archived, mishaps, world>>

\* Any step of an ingest may fail; a failed quarantine is only logged.
Fault ==
    /\ mishaps < MaxMishaps /\ worker # "down"
    /\ \/ job.at \in {"hash", "store", "dispose"} /\ GiveUpAttempt
       \/ job.at = "quarantine" /\ job' = Idle
    /\ mishaps' = mishaps + 1
    /\ UNCHANGED <<inbox, dirs, world>>

\* The process ends: the channel and the work in hand are gone.
Stop ==
    /\ worker # "down" /\ stops < MaxStops
    /\ worker' = "down" /\ todo' = {} /\ events' = <<>> /\ job' = Idle /\ stops' = stops + 1
    /\ UNCHANGED <<inbox, drops, dirs, mishaps, lost, swapped>>

Work == Start \/ GoLive \/ Take \/ Stabilize \/ Hash \/ StoreJob \/ Dispose \/ Retry \/ Quarantine

WatchNext == Work \/ Fault \/ Stop \/ \E n \in Names : Drop(n) \/ FinishDrop(n) \/ TakeOut(n)

\* The worker goes on, and its service manager starts it again.
WatchSpec == WatchInit /\ [][WatchNext]_watchVars /\ WF_watchVars(Work)

----------------------------------------------------------------------------
(* Properties.                                                             *)

Copied(d) == \E r \in filed : r.as = "ingested" /\ r.bytes = d

Kept(d, dir) == \E n \in Names : <<n, d>> \in dir

\* Bytes that came into the inbox are there, in the library, in _processed or
\* in _failed for as long as nobody else removes them: also after a failure
\* between two steps, a retry, a stop, and under a name that was used before.
\* (For another file of a known work _processed is the only place.)
WatchNothingLost ==
    \A d \in 1 .. drops :
        \/ d \in lost \/ Copied(d)
        \/ Kept(d, archived) \/ Kept(d, rejected)
        \/ \E n \in Names : inbox[n].bytes = d

\* _processed holds what got an answer, and _failed what cannot be read or has
\* had its attempts; except that bytes put under the name in hand are moved
\* with it, unanswered.
WatchSorted ==
    \A d \in Drops \ swapped :
        /\ Kept(d, archived) => \E r \in filed : r.bytes = d
        /\ Kept(d, rejected) => d \in Unreadable \/ mishaps >= MaxAttempts

Heard(n) ==
    \/ worker = "down" \/ n \in todo \/ job.name = n
    \/ \E i \in DOMAIN events : events[i] = n

\* A finished file the worker has heard of, or that is there when it starts, is
\* taken out of the inbox; only a failed quarantine leaves it there.
WatchTaken ==
    \A n \in Names, d \in Drops :
        (inbox[n] = [bytes |-> d, whole |-> TRUE] /\ Heard(n))
            ~> (inbox[n].bytes # d \/ (mishaps > 0 /\ d \in Unreadable \cup swapped))

\* No file is lost, and each is put where its outcome says.
WatchAccounts == WatchNothingLost /\ WatchSorted

=============================================================================
