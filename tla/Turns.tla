------------------------------- MODULE Turns -------------------------------
(***************************************************************************)
(* Agent turns on one paper: POST /chat (web/chat.rs) takes the thread,    *)
(* makes sure of the workspace's paper.txt, runs node over it (agent/mod.rs) *)
(* and stores the exchange when the agent is done.  Turns, the DELETE of   *)
(* the thread and the purge of the paper overlap as the requests come; the *)
(* client may go away and the server may die anywhere.                     *)
(***************************************************************************)
EXTENDS Naturals, Sequences, FiniteSets

CONSTANTS
    Turns,        \* requests, each asking something of its own
    MaxFaults     \* bound: deaths of the server or of a purge, failed writes and removals

ASSUME TurnsAssumption == MaxFaults \in Nat

VARIABLES
    row,       \* the paper: live, in the trash or gone
    purge,     \* how far the purge of the paper is
    thread,    \* chat_messages: whose exchanges are stored, in order
    dir,       \* the workspace exists
    text,      \* paper.txt
    mark,      \* paper.txt.failed
    turn,      \* how far each turn is, and what it was told of the thread
    runner,    \* its node process
    said,      \* the last word it wrote: done, or error (or done after nothing)
    cli,       \* the SDK's command line tool, a child of node
    raced,     \* history: turns extracted, or a purge met a turn, at one time;
               \* or the file system refused the purge
    faults

turnsVars == <<row, purge, thread, dir, text, mark, turn, runner, said, cli, raced,
               faults>>

files == <<dir, text, mark>>
processes == <<runner, said, cli>>
paper == <<row, purge>>

Extraction == {"extract", "write", "fill", "unmark", "mark", "placeholder"}
Handling == {"look"} \cup Extraction \cup {"spawn"}
Open == Handling \cup {"request", "stream", "wait", "save"}
Ends == {"stored", "failed", "left", "late", "timeout", "exited", "died"}

TurnsTypeOK ==
    /\ row \in {"live", "trashed", "purged"}
    /\ purge \in {"no", "cleared", "emptying", "removed"}
    /\ thread \in Seq(Turns)
    /\ text \in {"none", "torn", "whole", "placeholder"}
    /\ dir \in BOOLEAN /\ mark \in BOOLEAN /\ (text # "none" \/ mark => dir)
    /\ \A t \in Turns :
         turn[t].at \in {"new"} \cup Open \cup Ends /\ turn[t].told \in Seq(Turns)
    /\ runner \in [Turns -> {"none", "up", "mute", "gone"}]
    /\ said \in [Turns -> {"nothing", "done", "error"}] /\ cli \in [Turns -> BOOLEAN]
    /\ raced \subseteq {"extract", "purge", "refused"} /\ faults \in 0 .. MaxFaults

TurnsInit ==
    /\ row = "live" /\ purge = "no" /\ thread = <<>> /\ dir = FALSE /\ text = "none" /\ mark = FALSE
    /\ turn = [t \in Turns |-> [at |-> "new", told |-> <<>>]]
    /\ runner = [t \in Turns |-> "none"] /\ cli = [t \in Turns |-> FALSE]
    /\ said = [t \in Turns |-> "nothing"]
    /\ raced = {} /\ faults = 0

Is(t, at) == turn[t].at = at
Turn(t, at) == turn' = [turn EXCEPT ![t].at = at]

----------------------------------------------------------------------------
(* ensure_workspace.                                                       *)

\* The request: the paper is there and not in the trash, the thread is read.
Ask(t) ==
    /\ Is(t, "new") /\ row = "live"
    /\ turn' = [turn EXCEPT ![t] = [at |-> "look", told |-> thread]]
    /\ UNCHANGED <<paper, thread, files, processes, raced, faults>>

Trusted == text # "none" /\ ~mark

\* A turn writes into a workspace that is being, or was, removed.
Late == purge \in {"emptying", "removed"} \/ row = "purged"

\* create_dir_all, and is paper.txt there to be trusted?
LookAt(t) ==
    /\ Is(t, "look")
    /\ dir' = TRUE
    /\ Turn(t, IF Trusted THEN "spawn" ELSE "extract")
    /\ raced' = raced
         \cup {r \in {"extract"} : ~Trusted /\ \E u \in Turns \ {t} : turn[u].at \in Extraction}
         \cup {r \in {"purge"} : Late}
    /\ UNCHANGED <<paper, thread, text, mark, processes, faults>>

\* pdftotext, and which of the two branches its result takes.
Extract(t) ==
    /\ Is(t, "extract")
    /\ Turn(t, "write") \/ Turn(t, "mark")
    /\ UNCHANGED <<paper, thread, files, processes, raced, faults>>

\* Mutant of Written: nothing is said of a workspace that is gone.
Written_Anyway(t, from, to, write) ==
    /\ Is(t, from) /\ write /\ Turn(t, to)
    /\ UNCHANGED <<paper, thread, dir, processes, raced, faults>>

\* A write into a workspace the purge has removed ends the request.
Written(t, from, to, write) ==
    /\ Is(t, from)
    /\ IF dir THEN write /\ Turn(t, to) /\ raced' = raced \cup {r \in {"purge"} : Late}
              ELSE UNCHANGED <<text, mark, raced>> /\ Turn(t, "failed")
    /\ UNCHANGED <<paper, thread, dir, processes, faults>>

WriteText(t) == Written(t, "write", "fill", text' = "torn" /\ UNCHANGED mark)

\* The file is open: to fill it succeeds, even where a purge has unlinked it.
FillText(t) ==
    /\ Is(t, "fill")
    /\ text' = IF text = "none" THEN "none" ELSE "whole"
    /\ Turn(t, "unmark")
    /\ UNCHANGED <<paper, thread, dir, mark, processes, raced, faults>>

\* (A failure to remove the sentinel is ignored.)
Unmark(t) ==
    /\ Is(t, "unmark")
    /\ mark' = FALSE /\ Turn(t, "spawn")
    /\ UNCHANGED <<paper, thread, dir, text, processes, raced, faults>>

\* Mutant of Mark: the sentinel comes after the placeholder.
Mark_After(t) ==
    \/ Written(t, "mark", "placeholder", text' = "placeholder" /\ UNCHANGED mark)
    \/ Written(t, "placeholder", "spawn", mark' = TRUE /\ UNCHANGED text)

Mark(t) == Written(t, "mark", "placeholder", mark' = TRUE /\ UNCHANGED text)
Placeholder(t) == Written(t, "placeholder", "spawn", text' = "placeholder" /\ UNCHANGED mark)

\* The disk is full: the request fails, what is written stays.
WriteFails(t) ==
    /\ faults < MaxFaults /\ faults' = faults + 1
    /\ turn[t].at \in {"write", "fill", "mark", "placeholder"} /\ Turn(t, "failed")
    /\ UNCHANGED <<paper, thread, files, processes, raced>>

----------------------------------------------------------------------------
(* run_turn, and the stream of the answer.                                 *)

\* The processes of a turn that ends: node is killed as it is dropped, and its
\* whole group too while the guard is armed.
Dropped(t, armed) ==
    /\ runner' = [runner EXCEPT ![t] = IF @ = "none" THEN @ ELSE "gone"]
    /\ cli' = [cli EXCEPT ![t] = @ /\ ~armed]
    /\ UNCHANGED said

\* node is started, and the request written to its stdin.
Spawn(t) ==
    /\ Is(t, "spawn")
    /\ \/ runner' = [runner EXCEPT ![t] = "up"] /\ Turn(t, "request")
       \/ Turn(t, "failed") /\ UNCHANGED runner
    /\ UNCHANGED <<paper, thread, files, said, cli, raced, faults>>

\* node starts the tool; the tool may end at any time.
StartCli(t) ==
    /\ runner[t] \in {"up", "mute"} /\ said[t] = "nothing" /\ ~cli[t] /\ ~Is(t, "request")
    /\ cli' = [cli EXCEPT ![t] = TRUE]
    /\ UNCHANGED <<paper, thread, files, turn, runner, said, raced, faults>>

EndCli(t) ==
    /\ cli[t]
    /\ cli' = [cli EXCEPT ![t] = FALSE]
    /\ UNCHANGED <<paper, thread, files, turn, runner, said, raced, faults>>

\* The runner's terminal event; its tool may outlive it.
LastWord(t) ==
    /\ runner[t] = "up" /\ said[t] = "nothing" /\ ~Is(t, "request")
    /\ \E word \in {"done", "error"} : said' = [said EXCEPT ![t] = word]
    /\ UNCHANGED <<paper, thread, files, turn, runner, cli, raced, faults>>

\* Mutant of Finish: an error event ends the loop like "done" does.
Finish_AnyEvent(t) ==
    /\ Is(t, "stream") /\ said[t] # "nothing"
    /\ Turn(t, "save")
    /\ UNCHANGED <<paper, thread, files, processes, raced, faults>>

\* Done, after an answer: the guard is defused, the exchange is to be stored.
Finish(t) ==
    /\ Is(t, "stream") /\ said[t] = "done"
    /\ Turn(t, "save")
    /\ UNCHANGED <<paper, thread, files, processes, raced, faults>>

\* The runner says error, or done after nothing.
Refuse(t) ==
    /\ Is(t, "stream") /\ said[t] = "error"
    /\ Turn(t, "failed") /\ Dropped(t, FALSE)
    /\ UNCHANGED <<paper, thread, files, raced, faults>>

\* Mutant of Abort: only node is killed.
Abort_NodeOnly(t, end) ==
    /\ Turn(t, end) /\ Dropped(t, FALSE)
    /\ UNCHANGED <<paper, thread, files, raced, faults>>

\* The stream is dropped with the guard armed.
Abort(t, end) ==
    /\ Turn(t, end) /\ Dropped(t, TRUE)
    /\ UNCHANGED <<paper, thread, files, raced, faults>>

\* The request is in the pipe, whole: only now does the deadline start ...
TakeRequest(t) ==
    /\ Is(t, "request")
    /\ Turn(t, "stream")
    /\ UNCHANGED <<paper, thread, files, processes, raced, faults>>

\* ... or node is gone before it has read it.
RequestBreaks(t) == Is(t, "request") /\ Abort(t, "failed")

\* Mutant of Timeout: nothing but a broken pipe ends the reading.
Timeout_BrokenPipe(t) == Is(t, "stream") /\ runner[t] = "gone" /\ Abort(t, "timeout")

\* timeout_at: the deadline bounds the reading of lines, as a broken pipe does ...
Timeout(t) == Is(t, "stream") /\ Abort(t, "timeout")

\* ... but not the wait for a node that has closed its output and lives on.
CloseOutput(t) ==
    /\ Is(t, "stream") /\ runner[t] = "up" /\ said[t] = "nothing"
    /\ Turn(t, "wait")
    /\ \E r \in {"mute", "gone"} : runner' = [runner EXCEPT ![t] = r]
    /\ UNCHANGED <<paper, thread, files, said, cli, raced, faults>>

Reap(t) ==
    /\ Is(t, "wait") /\ runner[t] = "gone"
    /\ Turn(t, "exited")
    /\ UNCHANGED <<paper, thread, files, processes, raced, faults>>

MuteExits(t) ==
    /\ runner[t] = "mute"
    /\ runner' = [runner EXCEPT ![t] = "gone"]
    /\ UNCHANGED <<paper, thread, files, turn, said, cli, raced, faults>>

\* Mutant of Store: the rows refer to nothing.
Store_NoKey(t) ==
    /\ Is(t, "save")
    /\ thread' = Append(thread, t) /\ Turn(t, "stored") /\ Dropped(t, FALSE)
    /\ UNCHANGED <<paper, files, raced, faults>>

\* insert_exchange, one transaction, against the paper's foreign key.
Store(t) ==
    /\ Is(t, "save")
    /\ IF row = "purged" THEN UNCHANGED thread /\ Turn(t, "failed")
                         ELSE thread' = Append(thread, t) /\ Turn(t, "stored")
    /\ Dropped(t, FALSE)
    /\ UNCHANGED <<paper, files, raced, faults>>

\* The client goes away.  (A file write under way is finished first; a commit
\* under way may be done or not.)
Leave(t) ==
    \/ turn[t].at \in {"look", "extract", "unmark", "mark", "placeholder", "spawn"}
       /\ Abort(t, "left")
    \/ turn[t].at \in {"request", "stream", "wait"} /\ Abort(t, "left")
    \/ /\ Is(t, "save") /\ Turn(t, "late") /\ Dropped(t, FALSE)
       /\ \/ UNCHANGED thread
          \/ row # "purged" /\ thread' = Append(thread, t)
       /\ UNCHANGED <<paper, files, raced, faults>>

----------------------------------------------------------------------------
(* Everything else that touches the thread and the workspace.              *)

ClearThread ==
    /\ row = "live" /\ thread # <<>> /\ thread' = <<>>
    /\ UNCHANGED <<paper, files, turn, processes, raced, faults>>

TrashPaper ==
    /\ row = "live" /\ row' = "trashed"
    /\ UNCHANGED <<purge, thread, files, turn, processes, raced, faults>>

UntrashPaper ==
    /\ row = "trashed" /\ row' = "live"
    /\ UNCHANGED <<purge, thread, files, turn, processes, raced, faults>>

\* The purge of a paper in the trash, which may be restored meanwhile: its
\* thread, ...
PurgeThread ==
    /\ row = "trashed" /\ purge = "no" /\ purge' = "cleared" /\ thread' = <<>>
    /\ UNCHANGED <<row, files, turn, processes, raced, faults>>

\* ... its workspace: remove_dir_all reads what is in the workspace, if there is one, ...
EmptyWorkspace ==
    /\ purge = "cleared" /\ purge' = IF dir THEN "emptying" ELSE "removed"
    /\ UNCHANGED <<row, thread, files, turn, processes, raced, faults>>

\* ... unlinks it file by file, ...
Unlink ==
    /\ purge = "emptying"
    /\ \/ text # "none" /\ text' = "none" /\ UNCHANGED mark
       \/ mark /\ mark' = FALSE /\ UNCHANGED text
    /\ UNCHANGED <<paper, thread, dir, turn, processes, raced, faults>>

\* ... and then the directory, which stays when a turn has written into it since;
\* no one looks at the result.
RemoveWorkspace ==
    /\ purge = "emptying" /\ purge' = "removed"
    /\ \/ text = "none" /\ ~mark /\ dir' = FALSE
       \/ "purge" \in raced /\ (text # "none" \/ mark) /\ UNCHANGED dir
    /\ UNCHANGED <<row, thread, text, mark, turn, processes, raced, faults>>

\* The file system refuses one of the removals: `let _ =`, what is left stays.
WorkspaceStays ==
    /\ faults < MaxFaults /\ faults' = faults + 1
    /\ purge = "emptying" /\ purge' = "removed" /\ raced' = raced \cup {"refused"}
    /\ UNCHANGED <<row, thread, files, turn, processes>>

\* Mutant of PurgeRow: what refers to the row is not deleted with it.
PurgeRow_NoCascade ==
    /\ purge = "removed" /\ purge' = "no" /\ row' = "purged"
    /\ UNCHANGED <<thread, files, turn, processes, raced, faults>>

\* The row and what refers to it: what was stored since goes too.
PurgeRow ==
    /\ purge = "removed" /\ purge' = "no" /\ row' = "purged" /\ thread' = <<>>
    /\ UNCHANGED <<files, turn, processes, raced, faults>>

\* The command is interrupted, or the database fails it.
PurgeStops ==
    /\ faults < MaxFaults /\ faults' = faults + 1
    /\ purge # "no" /\ purge' = "no"
    /\ UNCHANGED <<row, thread, files, turn, processes, raced>>

PurgePaper ==
    \/ PurgeThread \/ EmptyWorkspace \/ Unlink \/ RemoveWorkspace
    \/ WorkspaceStays \/ PurgeRow \/ PurgeStops

\* The server dies: nothing is dropped, node and its tool go on for a while.
Crash ==
    /\ faults < MaxFaults /\ faults' = faults + 1
    /\ turn' = [t \in Turns |-> IF turn[t].at \in Open
                                THEN [turn[t] EXCEPT !.at = "died"] ELSE turn[t]]
    /\ UNCHANGED <<paper, thread, files, processes, raced>>

Serve(t) ==
    \/ LookAt(t) \/ Extract(t) \/ WriteText(t) \/ FillText(t) \/ Unmark(t) \/ Mark(t)
    \/ Placeholder(t) \/ Spawn(t) \/ TakeRequest(t) \/ RequestBreaks(t) \/ Finish(t) \/ Refuse(t)
    \/ Timeout(t) \/ Reap(t) \/ Store(t)

TurnsNext ==
    \/ \E t \in Turns :
         \/ Ask(t) \/ Serve(t) \/ LastWord(t) \/ CloseOutput(t) \/ MuteExits(t)
         \/ StartCli(t) \/ EndCli(t) \/ Leave(t) \/ WriteFails(t)
    \/ ClearThread \/ TrashPaper \/ UntrashPaper \/ PurgePaper \/ Crash

\* Where a turn waits for another program without a deadline: for pdftotext to
\* end, and for node to read its request.
Unbounded == {"extract", "request"}

\* The server's tasks are polled, and deadlines come; nothing is assumed of the
\* waits that have none.
TurnsFairness == \A t \in Turns : WF_turnsVars(Serve(t) /\ turn[t].at \notin Unbounded)

TurnsSpec == TurnsInit /\ [][TurnsNext]_turnsVars /\ TurnsFairness

----------------------------------------------------------------------------
(* Properties.                                                             *)

\* A text that is not the paper's is marked as a failure or still being written,
\* so that a later turn extracts again; unless two turns extracted at one time, a
\* purge was taking the files away or met a turn that wrote, or the server died
\* or its disk was full in the middle of the write.
TextTrusted ==
    \/ text \in {"none", "whole"} \/ mark \/ faults > 0
    \/ raced \cap {"extract", "purge"} # {} \/ purge = "emptying"
    \/ text = "torn" /\ \E t \in Turns : Is(t, "fill")

\* The thread holds the exchanges the agent finished and nothing of a turn that
\* failed, timed out or died, each once; what a turn was told of the thread
\* comes before its own exchange, unless the thread was emptied meanwhile.
OnlyFinished ==
    /\ \A i, j \in DOMAIN thread : thread[i] = thread[j] => i = j
    /\ \A i \in DOMAIN thread :
         /\ turn[thread[i]].at \in {"stored", "late"} /\ said[thread[i]] = "done"
         /\ \A k \in DOMAIN turn[thread[i]].told :
              \A j \in DOMAIN thread : thread[j] = turn[thread[i]].told[k] => j < i

\* When a turn is over so is its agent: the group is killed, or the runner had
\* its last word and node alone is; only a dead server leaves them running.
NothingRunsOn ==
    \A t \in Turns :
        /\ turn[t].at \in Ends \ {"died"} => runner[t] \in {"none", "gone"}
        /\ turn[t].at \in {"left", "timeout"} => ~cli[t]

\* A purged paper leaves no thread behind; and no workspace, unless a turn wrote
\* into it while or after it was emptied, or the file system refused the removal.
PurgeIsFinal ==
    row = "purged" => thread = <<>> /\ (dir => raced \cap {"purge", "refused"} # {})

\* Every turn ends, at its deadline at the latest, unless it is where no deadline
\* is: pdftotext does not end, node does not read its request, or node has closed
\* its output without ending.
TurnEnds ==
    \A t \in Turns : (turn[t].at \in Open) ~>
        turn[t].at \in Ends \/ turn[t].at \in Unbounded \/ runner[t] = "mute"

\* The thread is of finished turns on a paper that is there.
ThreadHolds == OnlyFinished /\ PurgeIsFinal

=============================================================================
