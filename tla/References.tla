----------------------------- MODULE References -----------------------------
(***************************************************************************)
(* Parsing a paper's bibliography (src/citations): each opening of the     *)
(* reader posts the extracted entries.  One request at a time goes through *)
(* cache, heuristics and language model; the row it leaves names where     *)
(* every entry came from, for later requests and releases to build on.     *)
(***************************************************************************)
EXTENDS Naturals, Sequences, FiniteSets

CONSTANTS
    Readers,       \* the panes that post a bibliography, one request each
    Bibs,          \* bibliographies: sequences of entries, with the paper's venue
    MaxReleases    \* bound: restarts, each of which may be a release

Styles == {"ieee", "acm", "lncs", "plain"}

ASSUME ReferencesAssumption ==
    /\ MaxReleases \in Nat /\ IsFiniteSet(Readers)

VARIABLES
    release,    \* the generation of the heuristics
    model,      \* whether [ai.citations] names a language model
    restarts,
    stored,     \* the row of citation_parses
    gates,      \* in_flight: the gate of the paper, or 0
    open,       \* the requests
    settled     \* history: entries of the row that the model has been asked about

refVars == <<release, model, restarts, stored, gates, open, settled>>

NoBib == [entries |-> <<>>, venue |-> "none"]

\* What an entry became, and where that came from: the heuristics of a generation,
\* the model, nobody knows, or nothing.
Cited(src, gen, i) == [src |-> src, gen |-> gen, of |-> i]
Unparsed == Cited("null", 0, 0)
Heuristic(gen, i) == Cited("heuristic", gen, i)

NoRow == [bib |-> NoBib, parsed |-> <<>>, gen |-> 0, llm |-> FALSE]
Closed == [at |-> "closed", gate |-> 0, bib |-> NoBib, parsed |-> <<>>, llm |-> FALSE]

Inner == {"read", "ask", "upsert", "leave"}

----------------------------------------------------------------------------
(* heuristic.rs: an entry is what its patterns find in it.                 *)

StyleOf(e) ==
    IF "quoted" \in e.marks THEN "ieee"
    ELSE IF {"surname_first", "colon"} \subseteq e.marks THEN "lncs"
    ELSE IF "year_sentence" \in e.marks THEN "acm"
    ELSE "plain"

\* Publisher families by the paper's own venue.
VenueFamily(venue) == IF venue \in Styles THEN venue ELSE "none"

\* Six entries of ten agree, or the venue decides, or nobody does.
DetectStyle(bib) ==
    LET votes(s) == Cardinality({i \in DOMAIN bib.entries : StyleOf(bib.entries[i]) = s})
        won == {s \in Styles : 10 * votes(s) >= 6 * Len(bib.entries)}
    IN  IF bib.entries = <<>> THEN "none"
        ELSE IF won # {} THEN CHOOSE s \in won : TRUE
        ELSE VenueFamily(bib.venue)

\* What the style's grammar makes of the entry: without its anchor, nothing.
Grammar(e, style) ==
    LET anchored == CASE style = "ieee" -> "quoted" \in e.marks
                      [] style = "acm" -> "year_sentence" \in e.marks
                      [] style = "lncs" -> "colon" \in e.marks
                      [] style = "plain" -> e.sentences >= 2
    IN  [title |-> IF anchored THEN e.title ELSE "none",
         names |-> anchored /\ e.names, year |-> anchored /\ style \in {"acm", "lncs"}]

\* Year and identifiers that any entry may show fill the gaps.
Merged(r, e) == [r EXCEPT !.year = @ \/ e.identified]

\* validate: a title that is one, authors that are names, and a year or an identifier.
Valid(r) == r.title = "good" /\ r.names /\ r.year

ParseAll(bib) ==
    LET style == DetectStyle(bib)
        ok(e) == style # "none" /\ Valid(Merged(Grammar(e, style), e))
    IN  [i \in DOMAIN bib.entries |->
           IF ok(bib.entries[i]) THEN Heuristic(release, i) ELSE Unparsed]

----------------------------------------------------------------------------
(* The cache.                                                              *)

\* Mutant of StaleHeuristic: all that is not of this generation is.
StaleHeuristic_AllOlder(c) == ~(c.src = "heuristic" /\ c.gen = release)

\* A parse of the heuristics of another generation, which is made anew.
StaleHeuristic(c) == c.src = "heuristic" /\ c.gen # release

HasNulls(parsed) == \E i \in DOMAIN parsed : parsed[i].src = "null"

\* Mutant of Upgradeable: a row with gaps is always worth another try.
Upgradeable_AnyGap ==
    \/ \E i \in DOMAIN stored.parsed : StaleHeuristic(stored.parsed[i])
    \/ HasNulls(stored.parsed)

\* Older heuristics in it; or gaps nobody newer has looked at.
Upgradeable ==
    \/ \E i \in DOMAIN stored.parsed : StaleHeuristic(stored.parsed[i])
    \/ HasNulls(stored.parsed) /\ (stored.gen # release \/ (model /\ ~stored.llm))

\* Entries kept from the row, the others from the heuristics.
Seeded(bib, seed) ==
    LET fresh == ParseAll(bib)
    IN  [i \in DOMAIN fresh |->
           IF seed # <<>> /\ seed[i].src # "null" /\ ~StaleHeuristic(seed[i])
           THEN seed[i] ELSE fresh[i]]

Leftover(parsed) == {i \in DOMAIN parsed : parsed[i].src = "null"}

\* The slot of the k-th leftover.
Slot(parsed, k) ==
    CHOOSE i \in Leftover(parsed) : Cardinality({j \in Leftover(parsed) : j < i}) = k - 1

\* Mutant of Placed: the answers are taken in the order they come in.
Placed_InOrder(parsed, reply) ==
    [i \in DOMAIN parsed |->
        IF \E k \in DOMAIN reply : k <= Cardinality(Leftover(parsed)) /\ Slot(parsed, k) = i
        THEN LET k == CHOOSE k \in DOMAIN reply :
                        k <= Cardinality(Leftover(parsed)) /\ Slot(parsed, k) = i
             IN  Cited("llm", 0, reply[k])
        ELSE parsed[i]]

\* parse_chunk: an answer goes to the entry whose number it names, within its
\* chunk; of two for one entry the first counts, of none the entry stays null.
Placed(parsed, reply) ==
    [i \in DOMAIN parsed |->
        IF i \in Leftover(parsed) /\ \E k \in DOMAIN reply : reply[k] = i
        THEN Cited("llm", 0, i) ELSE parsed[i]]

----------------------------------------------------------------------------

RefInit ==
    /\ release = 1 /\ model \in BOOLEAN /\ restarts = 0
    /\ stored \in {NoRow} \cup
               {[bib |-> b, llm |-> TRUE, gen |-> 0,
                 parsed |-> [i \in DOMAIN b.entries |->
                     IF i = 1 THEN Cited("unknown", 0, 1) ELSE Unparsed]] : b \in Bibs}
    /\ gates = 0 /\ open = [r \in Readers |-> Closed] /\ settled = {}

Go(r, at) == open' = [open EXCEPT ![r].at = at]

Working == {r \in Readers : open[r].at # "closed"}

\* A gate nobody holds; the numbers only tell one gate from another.
NewGate == CHOOSE g \in 1 .. Cardinality(Readers) : \A r \in Working : open[r].gate # g

\* parse: the paper's gate, or a new one.
OpenPaper(r) ==
    /\ open[r].at = "closed"
    /\ \E b \in Bibs, g \in {IF gates = 0 THEN NewGate ELSE gates} :
         /\ open' = [open EXCEPT ![r] = [Closed EXCEPT !.at = "queued", !.bib = b, !.gate = g]]
         /\ gates' = g
    /\ UNCHANGED <<release, model, restarts, stored, settled>>

Enter(r) ==
    /\ open[r].at = "queued"
    /\ \A q \in Readers : open[q].at \in Inner => open[q].gate # open[r].gate
    /\ Go(r, "read")
    /\ UNCHANGED <<release, model, restarts, stored, gates, settled>>

\* A row of exactly these entries answers, unless it is to be upgraded; or it
\* cannot be read, and the request ends with the error.
ReadParse(r) ==
    /\ open[r].at = "read"
    /\ \/ Go(r, "leave")
       \/ LET hit == stored.bib.entries = open[r].bib.entries
              parsed == Seeded(open[r].bib, IF hit THEN stored.parsed ELSE <<>>)
          IN  IF hit /\ ~Upgradeable
              THEN open' = [open EXCEPT ![r].at = "leave", ![r].parsed = stored.parsed]
              ELSE open' = [open EXCEPT ![r].parsed = parsed,
                      ![r].at = IF model /\ Leftover(parsed) # {} THEN "ask" ELSE "upsert"]
    /\ UNCHANGED <<release, model, restarts, stored, gates, settled>>

\* What the model may say of n leftovers, sent in chunks at once: the numbers
\* of entries, in any order, some twice and some not at all.
Numbered(left) == UNION {[1 .. n -> left] : n \in 0 .. Cardinality(left)}

\* A chunk that fails fails them all, and nothing is stored.
AskModel(r) ==
    /\ open[r].at = "ask"
    /\ \/ Go(r, "leave")
       \/ \E reply \in Numbered(Leftover(open[r].parsed)) :
            open' = [open EXCEPT ![r].at = "upsert", ![r].llm = TRUE,
                                 ![r].parsed = Placed(@, reply)]
    /\ UNCHANGED <<release, model, restarts, stored, gates, settled>>

UpsertParse(r) ==
    /\ open[r].at = "upsert"
    /\ Go(r, "leave")
    /\ \/ UNCHANGED <<stored, settled>>      \* the statement fails
       \/ /\ stored' = [bib |-> open[r].bib, parsed |-> open[r].parsed,
                     gen |-> release, llm |-> open[r].llm]
          /\ settled' = IF open[r].llm THEN DOMAIN open[r].parsed ELSE {}
    /\ UNCHANGED <<release, model, restarts, gates>>

Holders == {r \in Working : open[r].gate = gates}

\* Mutant of Alone: the gate goes with every flight.
Alone_Always == TRUE

\* Arc::strong_count(gate) <= 2: the map and, at most, one request.
Alone == Cardinality(Holders) <= 1

LeaveGate(r) ==
    /\ open[r].at = "leave"
    /\ gates' = IF Alone THEN 0 ELSE gates
    /\ open' = [open EXCEPT ![r] = Closed]
    /\ UNCHANGED <<release, model, restarts, stored, settled>>

\* The reader is closed: the request is dropped where it is, its gate stays.
CloseReader(r) ==
    /\ r \in Working
    /\ open' = [open EXCEPT ![r] = Closed]
    /\ UNCHANGED <<release, model, restarts, stored, gates, settled>>

\* The server starts again, it may be with other heuristics or another config.
Restarted ==
    /\ restarts < MaxReleases /\ restarts' = restarts + 1
    /\ release' \in {release, release + 1} /\ model' \in BOOLEAN
    /\ gates' = 0
    /\ open' = [r \in Readers |-> Closed]
    /\ settled' = IF release' = release THEN settled ELSE {}
    /\ UNCHANGED stored

Parsing(r) == ReadParse(r) \/ AskModel(r) \/ UpsertParse(r) \/ LeaveGate(r)

RefNext ==
    \/ Restarted
    \/ \E r \in Readers : OpenPaper(r) \/ Enter(r) \/ Parsing(r) \/ CloseReader(r)

RefSpec == RefInit /\ [][RefNext]_refVars

----------------------------------------------------------------------------
(* Properties.                                                             *)

RefTypeOK ==
    /\ release \in Nat /\ model \in BOOLEAN /\ restarts \in 0 .. MaxReleases
    /\ stored.bib \in Bibs \cup {NoBib} /\ gates \in 0 .. Cardinality(Readers)
    /\ \A r \in Readers :
         /\ open[r].at \in {"closed", "queued"} \cup Inner
         /\ open[r].gate \in 0 .. Cardinality(Readers) /\ open[r].bib \in Bibs \cup {NoBib}
    /\ DOMAIN stored.parsed = DOMAIN stored.bib.entries

\* One paper's bibliography is worked on by one request at a time, whoever gives
\* up waiting or is dropped; and the model is not asked again about an entry
\* the row of these entries and this release has its answer for.
PaidOnce ==
    /\ Cardinality({r \in Readers : open[r].at \in Inner}) <= 1
    /\ \A r \in Readers :
         open[r].at = "ask" /\ open[r].bib.entries = stored.bib.entries
             => Leftover(open[r].parsed) \cap settled = {}

\* Every answer is of the entry it is put beside.
Aligned ==
    /\ \A i \in DOMAIN stored.parsed : stored.parsed[i].of \in {0, i}
    /\ \A r \in Readers : open[r].at = "leave" =>
         \A i \in DOMAIN open[r].parsed : open[r].parsed[i].of \in {0, i}

\* While a bibliography stays the same, an entry that came from the model, or
\* nobody knows from where, is never given up for a parse of the heuristics.
KeepsTheBetter ==
    [][\A i \in DOMAIN stored.parsed :
         (stored'.bib.entries = stored.bib.entries /\ stored.parsed[i].src \in {"llm", "unknown"})
             => stored'.parsed[i] = stored.parsed[i]]_refVars

\* What the model is asked, and where its answers go.
ModelAskedWell == PaidOnce /\ Aligned

=============================================================================
