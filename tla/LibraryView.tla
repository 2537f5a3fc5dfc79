---------------------------- MODULE LibraryView ----------------------------
(***************************************************************************)
(* The library in the browser (library.svelte.ts): the list under its      *)
(* filter and the cached details of papers, kept up while the user stars,  *)
(* tags and deletes.  A star moves before the request, the rest is patched *)
(* after it; requests are served, and settle, in any order.                *)
(***************************************************************************)
EXTENDS Naturals, FiniteSets

CONSTANTS
    Listed,        \* the papers
    Favourites,    \* those of them that are starred at first
    MaxGestures    \* bound: gestures of the user, and failures

ASSUME ViewAssumption == MaxGestures \in Nat

VARIABLES
    kept,        \* the server's papers: live, starred, tagged (with the one tag)
    rows,        \* library.papers, by paper
    listing,     \* which load the row objects are of
    filter,
    details,     \* the cache of details
    seq,         \* the newest load's number
    listLoads, gets, writes,   \* requests on their way
    after,       \* what still waits for the tags to be loaded before the list is
    toasts,      \* deletions that can be undone: sets of papers
    doubt,       \* rows and details a read or write on its way may have spoiled
    gestures

viewVars == <<kept, rows, listing, filter, details, seq, listLoads, gets, writes, after,
              toasts, doubt, gestures>>

Filters == {"all", "starred", "tagged"}
Absent == [none |-> TRUE]
Flags == [starred : BOOLEAN, tagged : BOOLEAN]
FlagsOf(p) == [starred |-> kept[p].starred, tagged |-> kept[p].tagged]

Passes(f, flags) == f \in {"all"} \cup {g \in {"starred", "tagged"} : flags[g]}

\* The rows the server has under a filter.
RowsUnder(f) ==
    [p \in Listed |-> IF kept[p].live /\ Passes(f, FlagsOf(p)) THEN FlagsOf(p) ELSE Absent]

ViewTypeOK ==
    /\ kept \in [Listed -> [live : BOOLEAN, starred : BOOLEAN, tagged : BOOLEAN]]
    /\ rows \in [Listed -> Flags \cup {Absent}] /\ details \in [Listed -> Flags \cup {Absent}]
    /\ listing \in 0 .. seq /\ filter \in Filters
    /\ \A w \in writes : w.kind \in {"star", "tag", "untag", "drop", "undo", "untag_all"}
                         /\ w.at \in {"sent", "served", "refused", "over", "failed"}
    /\ after \subseteq [n : 1 .. MaxGestures, why : {"tagged", "deleted"}]
    /\ toasts \subseteq SUBSET Listed /\ doubt \subseteq Listed \X {"row", "detail"}
    /\ gestures \in 0 .. MaxGestures

ViewInit ==
    /\ kept = [p \in Listed |-> [live |-> TRUE, starred |-> p \in Favourites, tagged |-> FALSE]]
    /\ rows = RowsUnder("all") /\ listing = 0 /\ filter = "all"
    /\ details = [p \in Listed |-> Absent] /\ seq = 0
    /\ listLoads = {} /\ gets = {} /\ writes = {} /\ after = {} /\ toasts = {} /\ doubt = {}
    /\ gestures = 0

Gesture == gestures < MaxGestures /\ gestures' = gestures + 1

Spoilt(papers) == papers \X {"row", "detail"}

\* The papers with a write on its way.
Writing(ws) == UNION {w.papers : w \in {v \in ws : v.at \in {"sent", "served", "refused"}}}
InWriting == Writing(writes)

----------------------------------------------------------------------------
(* Reads.  `mixed` has the papers written while the read was on its way:   *)
(* what the read says of them may be of before or after.                   *)

\* loadPapers, up to its await.
LoadList(f, mixed) ==
    /\ seq' = seq + 1
    /\ listLoads' = listLoads \cup
           {[n |-> seq + 1, filter |-> f, mixed |-> mixed, answer |-> Absent]}

Mixing(reads, papers) == {[r EXCEPT !.mixed = @ \cup papers] : r \in reads}

ServeList(l) ==
    /\ l.answer = Absent
    /\ listLoads' = (listLoads \ {l}) \cup {[l EXCEPT !.answer = RowsUnder(l.filter)]}
    /\ UNCHANGED <<kept, rows, listing, filter, details, seq, gets, writes, after, toasts, doubt,
                   gestures>>

\* Mutant of Superseded: whatever arrives is shown.
Superseded_Never(l) == l.n > seq

\* "a newer request superseded this one"
Superseded(l) == l.n # seq

ListArrives(l) ==
    /\ l.answer # Absent /\ listLoads' = listLoads \ {l}
    /\ IF Superseded(l) THEN UNCHANGED <<rows, listing>> ELSE rows' = l.answer /\ listing' = l.n
    /\ doubt' = IF l.n # seq THEN doubt
                ELSE {d \in doubt : d[2] = "detail"} \cup (l.mixed \X {"row"})
    /\ UNCHANGED <<kept, filter, details, seq, gets, writes, after, toasts, gestures>>

\* The list stays as it is, under the error.
ListFails(l) ==
    /\ Gesture /\ listLoads' = listLoads \ {l}
    /\ doubt' = IF l.n # seq THEN doubt ELSE doubt \cup (Listed \X {"row"})
    /\ UNCHANGED <<kept, rows, listing, filter, details, seq, gets, writes, after, toasts>>

\* The user searches for something else.
SetFilter(f) ==
    /\ f # filter /\ Gesture /\ filter' = f /\ LoadList(f, InWriting)
    /\ UNCHANGED <<kept, rows, listing, details, gets, writes, after, toasts, doubt>>

\* loadDetail of a paper that is not cached.
OpenDetail(p) ==
    /\ details[p] = Absent /\ rows[p] # Absent /\ Gesture
    /\ gets' = gets \cup {[n |-> gestures', paper |-> p, mixed |-> InWriting,
                           answer |-> Absent]}
    /\ UNCHANGED <<kept, rows, listing, filter, details, seq, listLoads, writes, after, toasts,
                   doubt>>

\* GET /papers/{id}, of a paper in the trash too.
ServeDetail(g) ==
    /\ g.answer = Absent
    /\ gets' = (gets \ {g}) \cup {[g EXCEPT !.answer = FlagsOf(g.paper)]}
    /\ UNCHANGED <<kept, rows, listing, filter, details, seq, listLoads, writes, after, toasts,
                   doubt, gestures>>

DetailArrives(g) ==
    /\ g.answer # Absent /\ gets' = gets \ {g}
    /\ details' = [details EXCEPT ![g.paper] = g.answer]
    /\ doubt' = (doubt \ {<<g.paper, "detail">>}) \cup ((g.mixed \cap {g.paper}) \X {"detail"})
    /\ UNCHANGED <<kept, rows, listing, filter, seq, listLoads, writes, after, toasts, gestures>>

----------------------------------------------------------------------------
(* Writes.                                                                 *)

Write(kind, papers) ==
    [n |-> gestures', kind |-> kind, papers |-> papers, at |-> "sent",
     prev |-> FALSE, row |-> listing]

Touches(kind) ==
    CASE kind = "star" -> {"starred"} [] kind \in {"tag", "untag", "untag_all"} -> {"tagged"}
      [] OTHER -> {"live"}

\* The papers of two writes of one thing, which are served and settle in any
\* order.
Crossed(w) ==
    UNION {v.papers \cap w.papers : v \in {u \in writes : Touches(u.kind) = Touches(w.kind)}}

\* A refused star is put back to what the row said, in the detail too: to what it
\* should not be, if the row was spoilt.
Misread(w) == {p \in w.papers : w.kind = "star" /\ rows[p] # Absent /\ <<p, "row">> \in doubt}

Start(ws) ==
    LET papers == UNION {w.papers : w \in ws}
    IN  /\ writes' = writes \cup ws
        /\ listLoads' = Mixing(listLoads, papers) /\ gets' = Mixing(gets, papers)
        /\ doubt' = doubt \cup Spoilt(UNION {Crossed(w) \cup Misread(w) : w \in ws})

\* The row (unless it is of a list gone by) and the cached detail say so.
Patch(p, field, value, row) ==
    /\ rows' = IF row /\ rows[p] # Absent THEN [rows EXCEPT ![p][field] = value] ELSE rows
    /\ details' = IF details[p] # Absent THEN [details EXCEPT ![p][field] = value] ELSE details

InSight(p) == rows[p] # Absent \/ details[p] # Absent

\* toggleStar, up to its await.
ToggleStar(p) ==
    /\ InSight(p) /\ Gesture
    /\ LET prev == IF rows[p] # Absent THEN rows[p].starred ELSE details[p].starred
       IN  /\ Patch(p, "starred", ~prev, TRUE)
           /\ Start({[Write("star", {p}) EXCEPT !.prev = prev]})
    /\ UNCHANGED <<kept, listing, filter, seq, after, toasts>>

\* addTagToPaper, removeTagFromPaper.
TagPaper(p, kind) ==
    /\ InSight(p) /\ Gesture /\ Start({Write(kind, {p})})
    /\ UNCHANGED <<kept, rows, listing, filter, details, seq, after, toasts>>

\* deleteTag
DeleteTagEverywhere ==
    /\ Gesture /\ Start({Write("untag_all", Listed)})
    /\ UNCHANGED <<kept, rows, listing, filter, details, seq, after, toasts>>

\* removePapers: one request for each.
RemovePapers(papers) ==
    /\ papers # {} /\ \A p \in papers : rows[p] # Absent
    /\ Gesture /\ Start({Write("drop", {p}) : p \in papers})
    /\ UNCHANGED <<kept, rows, listing, filter, details, seq, after, toasts>>

\* undoDelete
UndoDelete(papers) ==
    /\ Gesture /\ Start({Write("undo", {p}) : p \in papers}) /\ toasts' = toasts \ {papers}
    /\ UNCHANGED <<kept, rows, listing, filter, details, seq, after>>

\* What a write makes of a paper in the server.
Done(w, paper) ==
    CASE w.kind = "star" -> [paper EXCEPT !.starred = ~w.prev]
      [] w.kind \in {"tag", "untag", "untag_all"} -> [paper EXCEPT !.tagged = w.kind = "tag"]
      [] OTHER -> [paper EXCEPT !.live = w.kind = "undo"]

ServeWrite(w) ==
    /\ w.at = "sent"
    /\ \/ /\ writes' = (writes \ {w}) \cup {[w EXCEPT !.at = "served"]}
          /\ kept' = [p \in Listed |-> IF p \in w.papers THEN Done(w, kept[p]) ELSE kept[p]]
          /\ UNCHANGED gestures
       \/ Gesture /\ writes' = (writes \ {w}) \cup {[w EXCEPT !.at = "refused"]} /\ UNCHANGED kept
    /\ UNCHANGED <<rows, listing, filter, details, seq, listLoads, gets, after, toasts, doubt>>

\* Mutant of PutBack: the star stays where it was moved to.
PutBack_Not(w) == ~w.prev

\* What a refused star is put back to.
PutBack(w) == w.prev

StarSettles(w) ==
    /\ w.kind = "star" /\ w.at \in {"served", "refused"} /\ writes' = writes \ {w}
    /\ IF w.at = "refused"
       THEN /\ \A p \in w.papers : Patch(p, "starred", PutBack(w), w.row = listing)
            /\ UNCHANGED <<seq, listLoads>>
       ELSE /\ UNCHANGED <<rows, details>>
            /\ IF filter = "starred" THEN LoadList(filter, Writing(writes'))
               ELSE UNCHANGED <<seq, listLoads>>
    /\ UNCHANGED <<kept, listing, filter, gets, after, toasts, doubt, gestures>>

\* The echo is patched in; the list waits for the tags.
TagSettles(w) ==
    /\ w.kind \in {"tag", "untag"} /\ w.at \in {"served", "refused"} /\ writes' = writes \ {w}
    /\ IF w.at = "refused" THEN UNCHANGED <<rows, details, after>>
       ELSE /\ \A p \in w.papers : Patch(p, "tagged", w.kind = "tag", TRUE)
            /\ after' = after \cup {[n |-> w.n, why |-> "tagged"]}
    /\ UNCHANGED <<kept, listing, filter, seq, listLoads, gets, toasts, doubt, gestures>>

\* Mutant of Evicted: the cache is left alone.
Evicted_Not(papers) == details

Evicted(papers) == [p \in Listed |-> IF p \in papers THEN Absent ELSE details[p]]

TagDeletionSettles(w) ==
    /\ w.kind = "untag_all" /\ w.at \in {"served", "refused"} /\ writes' = writes \ {w}
    /\ IF w.at = "refused" THEN UNCHANGED <<details, doubt, after>>
       ELSE /\ details' = Evicted(Listed)
            /\ doubt' = {d \in doubt : d[2] = "row"}
            /\ after' = after \cup {[n |-> w.n, why |-> "deleted"]}
    /\ UNCHANGED <<kept, rows, listing, filter, seq, listLoads, gets, toasts, gestures>>

\* loadTags has settled: the list follows if it depends on the tag; a deleted
\* one leaves the search.
TagsLoaded(a) ==
    /\ after' = after \ {a}
    /\ filter' = IF a.why = "deleted" /\ filter = "tagged" THEN "all" ELSE filter
    /\ IF a.why = "deleted" \/ filter = "tagged" THEN LoadList(filter', InWriting)
       ELSE UNCHANGED <<seq, listLoads>>
    /\ UNCHANGED <<kept, rows, listing, details, gets, writes, toasts, doubt, gestures>>

\* A batch stays until each of its requests has settled.
BatchOf(w, ws) == {v \in ws : v.n = w.n}
Settled(w) == (writes \ {w}) \cup {[w EXCEPT !.at = IF w.at = "served" THEN "over" ELSE "failed"]}
Complete(batch) == \A v \in batch : v.at \in {"over", "failed"}
Achieved(batch) == UNION {v.papers : v \in {u \in batch : u.at = "over"}}

\* dropPaper; with the last of a batch, the offer to undo what was deleted.
DropSettles(w) ==
    /\ w.kind = "drop" /\ w.at \in {"served", "refused"}
    /\ IF w.at = "refused" THEN UNCHANGED <<rows, details, doubt>>
       ELSE /\ rows' = [p \in Listed |-> IF p \in w.papers THEN Absent ELSE rows[p]]
            /\ details' = Evicted(w.papers)
            /\ doubt' = doubt \ (w.papers \X {"detail"})
    /\ LET batch == BatchOf(w, Settled(w))
       IN  IF Complete(batch)
           THEN /\ writes' = Settled(w) \ batch
                /\ toasts' = toasts \cup ({Achieved(batch)} \ {{}})
           ELSE writes' = Settled(w) /\ UNCHANGED toasts
    /\ UNCHANGED <<kept, listing, filter, seq, listLoads, gets, after, gestures>>

\* The restored papers come with the list, which is loaded if all were.
UndoSettles(w) ==
    /\ w.kind = "undo" /\ w.at \in {"served", "refused"}
    /\ LET batch == BatchOf(w, Settled(w))
       IN  IF ~Complete(batch) THEN writes' = Settled(w) /\ UNCHANGED <<seq, listLoads, doubt>>
           ELSE /\ writes' = Settled(w) \ batch
                /\ IF \A v \in batch : v.at = "over"
                   THEN LoadList(filter, Writing(writes')) /\ UNCHANGED doubt
                   ELSE doubt' = doubt \cup (Achieved(batch) \X {"row"}) /\ UNCHANGED <<seq, listLoads>>
    /\ UNCHANGED <<kept, rows, listing, filter, details, gets, after, toasts, gestures>>

ViewNext ==
    \/ \E f \in Filters : SetFilter(f)
    \/ \E l \in listLoads : ServeList(l) \/ ListArrives(l) \/ ListFails(l)
    \/ \E g \in gets : ServeDetail(g) \/ DetailArrives(g)
    \/ \E p \in Listed : OpenDetail(p) \/ ToggleStar(p)
    \/ \E p \in Listed, kind \in {"tag", "untag"} : TagPaper(p, kind)
    \/ DeleteTagEverywhere
    \/ \E papers \in SUBSET Listed : RemovePapers(papers)
    \/ \E papers \in toasts : UndoDelete(papers)
    \/ \E w \in writes : ServeWrite(w) \/ StarSettles(w) \/ TagSettles(w)
                        \/ TagDeletionSettles(w) \/ DropSettles(w) \/ UndoSettles(w)
    \/ \E a \in after : TagsLoaded(a)

----------------------------------------------------------------------------
(* Properties.                                                             *)

\* Once the writes of a paper have settled, a cached detail of it says what the
\* server has, and with no list on its way its row does, or its absence.  Not
\* so: what was read while a write of the paper was on its way, or written
\* twice at a time, until it is read again, or starred in a row that is so; the
\* rows after a failed load; and the papers restored by an undo that failed for
\* another.
ViewAgrees ==
    \A p \in Listed : (\A w \in writes : p \notin w.papers) =>
        /\ details[p] \in {Absent, FlagsOf(p)} \/ <<p, "detail">> \in doubt
        /\ listLoads = {} /\ after = {} =>
               rows[p] = RowsUnder(filter)[p] \/ <<p, "row">> \in doubt

=============================================================================
