--------------------------- MODULE AnnotationSync ---------------------------
(***************************************************************************)
(* The reader's annotations of one paper: the marks on the page (the PDF   *)
(* plugin's document), the cache of the rows (annotationStore), the rows   *)
(* in SQLite, and the sync loop between them (annotationSync).  The tab    *)
(* can be closed and opened again while requests of its earlier session    *)
(* are still under way.                                                    *)
(***************************************************************************)
EXTENDS Naturals, Sequences, FiniteSets

CONSTANTS
    Marks,           \* the marks that may be drawn, by the id the plugin mints
    Baked,           \* the marks the PDF itself carries, from another reader
    Contents,        \* what a mark may look like: place, color, note
    None, NoRequest,
    MaxOpens,        \* bound: sessions, i.e. times the tab is opened
    MaxActions,      \* bound: what the user does to marks
    MaxLost      \* bound: requests or responses lost

ASSUME AnnotationAssumption ==
    /\ Baked \subseteq Marks /\ IsFiniteSet(Marks)
    /\ None \notin Contents /\ Contents # {}
    /\ {MaxOpens, MaxActions, MaxLost} \subseteq Nat

VARIABLES
    server,     \* the annotations rows
    cache,      \* the store's byPaper and loaded
    page,       \* the marks on the page
    tab,        \* the tab and its session
    load,       \* the list request of each session
    line,       \* the writes of each session and mark: one out, the rest queued
    minted,     \* history: the ids in use, which the plugin never mints again
    seen,       \* history: what the reader last showed of each mark
    excuse,     \* history: why a mark may differ from its row
    used       \* how much of each bound is used

annotVars == <<server, cache, page, tab, load, line, minted, seen, excuse, used>>

Sessions == 1 .. MaxOpens
\* What the marks in the PDF look like.
Printed == CHOOSE c \in Contents : TRUE

Rows == [Marks -> Contents \cup {None}]
Empty == [m \in Marks |-> None]

Request == [op : {"put", "delete"}, body : Contents \cup {None},
            at : {"sent", "done", "refused"}]
ASSUME RequestAssumption == NoRequest \notin Request

Line == [out : Request \cup {NoRequest}, queue : Seq({"write", "delete"})]
Quiescent == [out |-> NoRequest, queue |-> <<>>]

\* A session: its marks owned, its debounce timers, the marks erased in it and
\* not put back by undo, and the marks it has learned about.
Tab == [open : BOOLEAN, session : 0 .. MaxOpens, owned : SUBSET Marks,
        timers : SUBSET Marks, erased : Rows, known : SUBSET Marks]

\* "failed": the last request of the mark failed.  "touched": changed while the
\* list was on its way.  "overlap": an earlier session's requests were on their
\* way when the list was read.  "cut": the tab was closed with a write queued
\* behind a request.  "undone": a baked mark was erased and put back.
Excuses == {"failed", "touched", "overlap", "cut", "undone"}

AnnotInit ==
    /\ server \in {r \in Rows : \A m \in Baked : r[m] = None}
    /\ cache = [rows |-> Empty, loaded |-> FALSE]
    /\ page = Empty
    /\ tab = [open |-> FALSE, session |-> 0, owned |-> {}, timers |-> {},
              erased |-> Empty, known |-> {}]
    /\ load = [s \in Sessions |-> [at |-> "none", rows |-> Empty]]
    /\ line = [s \in Sessions |-> [m \in Marks |-> Quiescent]]
    /\ minted = Baked \cup {m \in Marks : server[m] # None}
    /\ seen = Empty
    /\ excuse = [m \in Marks |-> {}]
    /\ used = [actions |-> 0, failures |-> 0]

Use(what, max) ==
    used[what] < max /\ used' = [used EXCEPT ![what] = @ + 1]

----------------------------------------------------------------------------
(* The chain of one mark.                                                  *)

\* A write sends nothing when the mark is gone or its row says the same.
Needed(mark, row) == mark # None /\ mark # row

\* What a line does with the queue q while nothing is out: the first entry that
\* has something to send goes out, the writes before it come to nothing.
RunLine(q, mark, row) ==
    LET sends == {i \in 1 .. Len(q) : q[i] = "delete" \/ Needed(mark, row)}
        first == CHOOSE i \in sends : \A j \in sends : i <= j
    IN  IF sends = {} THEN Quiescent
        ELSE [out |-> IF q[first] = "delete"
                      THEN [op |-> "delete", body |-> None, at |-> "sent"]
                      ELSE [op |-> "put", body |-> mark, at |-> "sent"],
              queue |-> SubSeq(q, first + 1, Len(q))]

\* enqueue: with nothing out the entry runs at once.
Enqueued(l, entry, mark, row) ==
    IF l.out = NoRequest THEN RunLine(<<entry>>, mark, row)
    ELSE [l EXCEPT !.queue = Append(@, entry)]

Enqueue(m, entry) ==
    line' = [line EXCEPT ![tab.session][m] =
                 Enqueued(@, entry, page'[m], cache.rows[m])]

----------------------------------------------------------------------------
(* What the user does to marks, as the plugin's events tell the sync.      *)

\* Every event: the mark looks like c now, and the user knows it.
Shows(m, c) ==
    /\ tab.open
    /\ page' = [page EXCEPT ![m] = c]
    /\ seen' = [seen EXCEPT ![m] = c]
    /\ excuse' = [excuse EXCEPT ![m] = @
           \cup (IF load[tab.session].at # "none" THEN {"touched"} ELSE {})
           \cup (IF m \in Baked /\ tab.erased[m] # None THEN {"undone"} ELSE {})]
    /\ Use("actions", MaxActions)
    /\ UNCHANGED <<server, cache, load>>

\* A create event: a new mark, or one whose erasure is undone.  It is written
\* at once.
Draw(m) ==
    /\ page[m] = None
    /\ \E c \in Contents :
         /\ m \notin minted \/ tab.erased[m] = c
         /\ Shows(m, c)
    /\ minted' = minted \cup {m}
    /\ tab' = [tab EXCEPT !.owned = @ \cup {m}, !.known = @ \cup {m},
                          !.erased[m] = None]
    /\ Enqueue(m, "write")

\* Mutant of Edit: an update event adopts the mark it is about.
Edit_Adopts(m) ==
    /\ page[m] # None
    /\ \E c \in Contents \ {page[m]} : Shows(m, c)
    /\ tab' = [tab EXCEPT !.timers = @ \cup {m}]
    /\ UNCHANGED <<line, minted>>

\* An update event: the write waits for the edits to pause.
Edit(m) ==
    /\ page[m] # None
    /\ \E c \in Contents \ {page[m]} : Shows(m, c)
    /\ tab' = [tab EXCEPT !.timers = IF m \in tab.owned THEN @ \cup {m} ELSE @]
    /\ UNCHANGED <<line, minted>>

\* A delete event.
Erase(m) ==
    /\ page[m] # None
    /\ Shows(m, None)
    /\ tab' = [tab EXCEPT !.owned = @ \ {m}, !.timers = @ \ {m},
                          !.erased[m] = page[m]]
    /\ IF m \in tab.owned THEN Enqueue(m, "delete") ELSE UNCHANGED line
    /\ UNCHANGED minted

\* The debounce timer of a mark fires.
TimerFires(m) ==
    /\ tab.open /\ m \in tab.timers
    /\ tab' = [tab EXCEPT !.timers = @ \ {m}]
    /\ UNCHANGED page
    /\ Enqueue(m, "write")
    /\ UNCHANGED <<server, cache, load, minted, seen, excuse, used>>

----------------------------------------------------------------------------
(* Requests.                                                               *)

\* PUT is an upsert; DELETE of a row that is not there answers 404.
Handle(s, m) ==
    LET r == line[s][m].out IN
    /\ r # NoRequest /\ r.at = "sent"
    /\ server' = [server EXCEPT ![m] = r.body]
    /\ line' = [line EXCEPT ![s][m].out.at =
                   IF r.op = "delete" /\ server[m] = None THEN "refused" ELSE "done"]
    /\ UNCHANGED <<cache, page, tab, load, minted, seen, excuse, used>>

\* Mutant of Settle: the next entry compares with the cache as it was before
\* the response.
Settle_Stale(s, m) ==
    line' = [line EXCEPT ![s][m] = RunLine(@.queue, page[m], cache.rows[m])]

\* A request settles: the next entry of its line runs.
Settle(s, m) ==
    line' = [line EXCEPT ![s][m] = RunLine(@.queue, page[m], cache'.rows[m])]

\* The response updates the cache.
Succeeds(s, m) ==
    LET r == line[s][m].out IN
    /\ r # NoRequest /\ r.at = "done"
    /\ cache' = [cache EXCEPT !.rows[m] = r.body]
    /\ Settle(s, m)
    /\ excuse' = [excuse EXCEPT ![m] = IF s = tab.session THEN @ \ {"failed"} ELSE @]
    /\ UNCHANGED <<server, page, tab, load, minted, seen, used>>

\* Mutant of Fails: a rejected request rejects what is queued behind it.
Fails_Blocks(s, m) ==
    LET r == line[s][m].out IN
    /\ r # NoRequest
    /\ IF r.at = "refused" THEN UNCHANGED used ELSE Use("failures", MaxLost)
    /\ r.at # "failed"
    /\ UNCHANGED cache
    /\ line' = [line EXCEPT ![s][m].out = IF line[s][m].queue = <<>> THEN NoRequest
                                          ELSE [r EXCEPT !.at = "failed"]]
    /\ excuse' = [excuse EXCEPT ![m] = @ \cup {"failed"}]
    /\ UNCHANGED <<server, page, tab, load, minted, seen>>

\* The request never arrives, is refused, or its response is lost: reported,
\* the cache stays, and the line goes on.
Fails(s, m) ==
    LET r == line[s][m].out IN
    /\ r # NoRequest
    /\ IF r.at = "refused" THEN UNCHANGED used ELSE Use("failures", MaxLost)
    /\ UNCHANGED cache
    /\ Settle(s, m)
    /\ excuse' = [excuse EXCEPT ![m] = @ \cup {"failed"}]
    /\ UNCHANGED <<server, page, tab, load, minted, seen>>

----------------------------------------------------------------------------
(* Sessions.                                                               *)

Busy(m) == \E s \in Sessions : line[s][m].out # NoRequest

\* The document is opened afresh, with the PDF's own marks; the sync subscribes
\* and asks for the list.
OpenTab ==
    /\ ~tab.open /\ tab.session < MaxOpens
    /\ LET s == tab.session + 1 IN
         /\ tab' = [open |-> TRUE, session |-> s, owned |-> {}, timers |-> {},
                    erased |-> Empty, known |-> {}]
         /\ load' = [load EXCEPT ![s].at = "sent"]
    /\ page' = [m \in Marks |-> IF m \in Baked THEN Printed ELSE None]
    /\ excuse' = [m \in Marks |-> (excuse[m] \ {"touched", "overlap"})
                                  \cup (IF Busy(m) THEN {"overlap"} ELSE {})]
    /\ UNCHANGED <<server, cache, line, minted, seen, used>>

\* The list as the table has it.
HandleList(s) ==
    /\ load[s].at = "sent"
    /\ load' = [load EXCEPT ![s] = [at |-> "read", rows |-> server]]
    /\ UNCHANGED <<server, cache, page, tab, line, minted, seen, excuse, used>>

\* The rest of start(): the cached rows are put on the page and owned.
Import(rows) ==
    LET stored == {m \in Marks : rows[m] # None} IN
    /\ page' = [m \in Marks |-> IF m \in stored THEN rows[m] ELSE page[m]]
    /\ seen' = page'
    /\ tab' = [tab EXCEPT !.owned = @ \cup stored, !.known = Marks]

Current(s) == tab.open /\ tab.session = s

\* The list replaces the cache, whichever session asked for it; a session that
\* has ended imports nothing.
ListArrives(s) ==
    /\ load[s].at = "read"
    /\ load' = [load EXCEPT ![s].at = "none"]
    /\ cache' = [rows |-> load[s].rows, loaded |-> TRUE]
    /\ IF Current(s)
       THEN /\ Import(load[s].rows)
            /\ excuse' = [m \in Marks |-> excuse[m] \ {"failed", "cut"}]
       ELSE /\ UNCHANGED <<page, seen, tab>>
            /\ excuse' = [m \in Marks |-> excuse[m] \cup {"overlap"}]
    /\ UNCHANGED <<server, line, minted, used>>

\* A failed load leaves the marks unknown, and nothing is imported, unless the
\* late list of an earlier session has filled the cache.
ListFails(s) ==
    /\ load[s].at # "none"
    /\ Use("failures", MaxLost)
    /\ load' = [load EXCEPT ![s].at = "none"]
    /\ IF Current(s) /\ cache.loaded
       THEN /\ Import(cache.rows)
            /\ excuse' = [m \in Marks |-> excuse[m] \cup {"overlap"}]
       ELSE /\ UNCHANGED <<page, seen, tab>>
            /\ excuse' = [m \in Marks |-> excuse[m]
                               \ (IF Current(s) THEN {"touched"} ELSE {})]
    /\ UNCHANGED <<server, cache, line, minted>>

\* closeTab drops the cache; the sync's destroy then flushes every timer and
\* the document is closed without waiting for what the flush queued.
CloseTab ==
    LET s == tab.session
        flushed == [m \in Marks |-> IF m \in tab.timers
                       THEN Enqueued(line[s][m], "write", page[m], None)
                       ELSE line[s][m]]
    IN  /\ tab.open
        /\ cache' = [rows |-> Empty, loaded |-> FALSE]
        /\ line' = [line EXCEPT ![s] = flushed]
        /\ excuse' = [m \in Marks |-> excuse[m] \cup
               IF \E i \in DOMAIN flushed[m].queue : flushed[m].queue[i] = "write"
               THEN {"cut"} ELSE {}]
        /\ page' = Empty
        /\ tab' = [tab EXCEPT !.open = FALSE, !.timers = {}]
        /\ UNCHANGED <<server, load, minted, seen, used>>

----------------------------------------------------------------------------

User == OpenTab \/ CloseTab \/ \E m \in Marks : Draw(m) \/ Edit(m) \/ Erase(m)

Net(s, m) == Handle(s, m) \/ Succeeds(s, m) \/ Fails(s, m)
NetList(s) == HandleList(s) \/ ListArrives(s) \/ ListFails(s)

AnnotNext ==
    \/ User
    \/ \E m \in Marks : TimerFires(m)
    \/ \E s \in Sessions : NetList(s) \/ \E m \in Marks : Net(s, m)

\* Every request settles one way or the other, every timer fires.
AnnotFairness ==
    /\ \A m \in Marks : WF_annotVars(TimerFires(m))
    /\ \A s \in Sessions : WF_annotVars(NetList(s))
    /\ \A s \in Sessions, m \in Marks : WF_annotVars(Net(s, m))

AnnotSpec == AnnotInit /\ [][AnnotNext]_annotVars /\ AnnotFairness

----------------------------------------------------------------------------
(* Properties.                                                             *)

\* Types of the rows, the cache, the page, the tab, the requests and the
\* histories.
AnnotTypeOK ==
    /\ server \in Rows /\ cache \in [rows : Rows, loaded : BOOLEAN] /\ page \in Rows
    /\ tab \in Tab
    /\ load \in [Sessions -> [at : {"none", "sent", "read"}, rows : Rows]]
    /\ line \in [Sessions -> [Marks -> Line]]
    /\ minted \subseteq Marks /\ seen \in Rows
    /\ excuse \in [Marks -> SUBSET Excuses]
    /\ used \in [actions : 0 .. MaxActions, failures : 0 .. MaxLost]

\* Nothing of the mark waits for a timer, a request or the list.
Quiet(m) ==
    /\ ~Busy(m) /\ m \notin tab.timers
    /\ \A s \in Sessions : load[s].at = "none"

\* The row agrees with what the reader shows, or showed last.
Agrees(m) == m \in tab.known => server[m] = seen[m]

\* Once nothing is pending, the sidecar and the page agree on every mark the
\* session knows: through bursts of edits, erasures undone and redone before
\* the delete is answered, failed loads, tabs closed with edits unsaved and
\* opened again.  The excuses are the histories in which they may not.
Converged == \A m \in Marks \ Baked : Quiet(m) /\ excuse[m] = {} => Agrees(m)

\* A mark that came with the PDF is never stored, whatever is done to it: it
\* would come back twice.  (Save by undoing its erasure, which creates it.)
NeverAdopted == \A m \in Baked : server[m] # None => "undone" \in excuse[m]

\* Whatever fails, every mark comes to rest: no rejected request blocks the
\* ones queued behind it.
MarksSettle == \A m \in Marks : ~Quiet(m) ~> Quiet(m)

=============================================================================
