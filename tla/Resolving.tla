----------------------------- MODULE Resolving -----------------------------
(***************************************************************************)
(* From a PDF's first page to the metadata that is stored (identify.rs,    *)
(* matching.rs, resolve/, pipeline.rs): an identifier in the text is looked *)
(* up; without one, a title is searched for in DBLP, OpenReview and        *)
(* Crossref.  Any service may fail, which only takes its answer away.  The *)
(* other way in is a search by hand, whose candidates the user picks from. *)
(***************************************************************************)
EXTENDS Naturals, Sequences, SequencesExt, Listing

CONSTANTS
    Pages,            \* first pages: lines, words, identifiers printed on them
    Titles, Spelled,  \* titles, and the one that lines make up, joined
    Similarity,       \* title_similarity, in percent
    Hints,            \* identifiers an import by URL already knows
    Replies,          \* what a service may answer: sequences of items
    MATCH_THRESHOLD,
    MAX_CANDIDATES

NONE == "none"

Services == {"grobid", "by_id", "dblp", "openreview2", "openreview1", "crossref"}

\* All that a service may say.
Said(service) == UNION {ToSet(reply) : reply \in Replies[service]}

\* Only OpenReview has submissions that were not accepted; and a key and DOI are
\* of one DBLP record.
ASSUME ResolvingAssumption ==
    /\ Similarity \in [Titles \X Titles -> 0 .. 100]
    /\ \A a \in Titles : Similarity[<<a, a>>] = 100
    /\ \A a, b \in Titles : Similarity[<<a, b>>] = Similarity[<<b, a>>]
    /\ DOMAIN Replies = Services
    /\ \A service \in Services :
         /\ Replies[service] \subseteq Seq(Said(service))
         /\ \A item \in Said(service) : item.title \in Titles \cup {NONE}
    /\ \A item \in Said("dblp") \cup Said("crossref") : item.venue # "unaccepted"
    /\ \A reply \in Replies["dblp"] : \A i, j \in DOMAIN reply :
         reply[i].key # NONE /\ reply[i].key = reply[j].key /\ reply[i].doi = reply[j].doi
             => reply[i].title = reply[j].title
    /\ \A hint \in Hints : hint.kind \in {"doi", "arxiv"} /\ hint.id # NONE
    /\ MATCH_THRESHOLD \in 0 .. 100 /\ MAX_CANDIDATES \in Nat

VARIABLES
    page, asked,   \* the page, and whether the user searches by hand
    at,            \* the step that comes next
    ident,         \* the identifier of the page: its kind and itself
    header,        \* what GROBID made of the page
    dblp,          \* the DBLP record that matched
    resolution,    \* the outcome of the resolver
    meta,          \* the stored metadata
    picks,         \* the candidates shown to the user
    heard          \* history: the candidates of the services that answered

resolvingVars == <<page, asked, at, ident, header, dblp, resolution, meta, picks, heard>>

Nobody == [title |-> NONE, authors |-> {}, venue |-> NONE, abstract |-> NONE,
           doi |-> NONE, arxiv |-> NONE, key |-> NONE, source |-> NONE]

Or(a, b) == IF a # NONE THEN a ELSE b

----------------------------------------------------------------------------
(* The page.                                                               *)

\* A DOI before an arXiv id, each in its canonical form.
Identify(p) ==
    IF p.doi # NONE THEN [kind |-> "doi", id |-> p.doi]
    ELSE IF p.arxiv # NONE THEN [kind |-> "arxiv", id |-> p.arxiv]
    ELSE [kind |-> NONE, id |-> NONE]

\* The first substantive line, with the next one if it breaks off and that is
\* substantive too.  (Boilerplate, e-mail addresses, identifiers are not.)
GuessTitle(p) ==
    LET good == {i \in DOMAIN p.lines : p.lines[i].substantive}
        first == CHOOSE i \in good : \A j \in good : i <= j
    IN  IF good = {} THEN NONE
        ELSE IF p.lines[first].wraps /\ first + 1 \in good
        THEN Spelled[<<p.lines[first].text, p.lines[first + 1].text>>]
        ELSE Spelled[<<p.lines[first].text>>]

ASSUME PagesAssumption == \A p \in Pages : GuessTitle(p) \in Titles \cup {NONE}

----------------------------------------------------------------------------
(* The services' answers.                                                  *)

Record(item, source) ==
    [Nobody EXCEPT !.title = item.title, !.authors = item.authors, !.venue = item.venue,
                   !.source = source]

\* No abstract, no arXiv id.
FromDblp(items) ==
    [i \in DOMAIN items |->
        [Record(items[i], "dblp") EXCEPT !.doi = items[i].doi, !.key = items[i].key]]

FromCrossref(items) ==
    [i \in DOMAIN items |-> [Record(items[i], "crossref") EXCEPT
        !.doi = items[i].doi, !.abstract = items[i].abstract]]

\* Mutant of FromOpenReview: a submission that was not accepted counts.
FromOpenReview_Unaccepted(items) ==
    LET usable == Sifted(items, {x \in ToSet(items) : x.title # NONE /\ x.venue # NONE})
    IN  [i \in DOMAIN usable |->
           [Record(usable[i], "openreview") EXCEPT !.abstract = usable[i].abstract]]

\* Reviews, comments and submissions that were not accepted are no papers.
FromOpenReview(items) ==
    LET usable == Sifted(items, {x \in ToSet(items) : /\ x.title # NONE
                                                      /\ x.venue \notin {NONE, "unaccepted"}})
    IN  [i \in DOMAIN usable |->
           [Record(usable[i], "openreview") EXCEPT !.abstract = usable[i].abstract]]

\* The Atom feed does not repeat the id that was asked for.
FromArxiv(items, id) ==
    IF items = <<>> THEN Nobody
    ELSE [Record(items[1], "arxiv") EXCEPT
            !.venue = NONE, !.abstract = items[1].abstract, !.doi = items[1].doi,
            !.arxiv = id]

FromGrobid(items) ==
    IF items = <<>> THEN Nobody
    ELSE [Record(items[1], "grobid") EXCEPT !.venue = NONE, !.abstract = items[1].abstract]

----------------------------------------------------------------------------
(* The gate.                                                               *)

ScoreOf(query, c) == IF c.title = NONE THEN 0 ELSE 1 + Similarity[<<query, c.title>>]

Confident(query, c) == ScoreOf(query, c) >= 1 + MATCH_THRESHOLD

\* Mutant of Corroborates: a page without words contradicts everybody.
Corroborates_Strictly(p, authors) == authors \cap p.words # {}

\* The page has an author's surname, or there is nothing to go by.  (Authors
\* stand for their surnames of three letters and more.)
Corroborates(p, authors) == p.words = {} \/ authors = {} \/ authors \cap p.words # {}

Qualified(query, p, c) == Confident(query, c) /\ Corroborates(p, c.authors)

\* The best of those that pass, each by itself; of equals the first.
BestMatch(query, p, cands) ==
    LET pass == {i \in DOMAIN cands : Qualified(query, p, cands[i])}
        score(i) == ScoreOf(query, cands[i])
        best == CHOOSE i \in pass :
                  /\ \A j \in pass : score(j) <= score(i)
                  /\ \A j \in pass : score(j) = score(i) => i <= j
    IN  IF pass = {} THEN Nobody ELSE cands[best]

IsCorrPreprint(c) == c.key = "corr"

\* Mutant of GraftIdentifiers: both passed the gate, so they are one work.
GraftIdentifiers_Unchecked(published, preprint) ==
    [published EXCEPT !.doi = Or(@, preprint.doi), !.arxiv = Or(@, preprint.arxiv),
                      !.key = Or(@, preprint.key), !.abstract = Or(@, preprint.abstract)]

\* The preprint's identifiers, if the two are as alike as the gate asks.
GraftIdentifiers(published, preprint) ==
    IF Confident(published.title, preprint)
    THEN [published EXCEPT !.doi = Or(@, preprint.doi), !.arxiv = Or(@, preprint.arxiv),
                           !.key = Or(@, preprint.key), !.abstract = Or(@, preprint.abstract)]
    ELSE published

----------------------------------------------------------------------------
(* The candidates of a search by hand.                                     *)

DedupKey(c) == IF c.doi # NONE THEN <<"doi", c.doi>>
               ELSE IF c.key # NONE THEN <<"dblp", c.key>> ELSE <<>>

Cap(s) == SubSeq(s, 1, IF Len(s) < MAX_CANDIDATES THEN Len(s) ELSE MAX_CANDIDATES)

\* The liker first, of equals the one that came first.
Liker(query, cands, i, j) ==
    \/ ScoreOf(query, cands[i]) > ScoreOf(query, cands[j])
    \/ ScoreOf(query, cands[i]) = ScoreOf(query, cands[j]) /\ i < j

\* Mutant of RankCandidates: the list is cut before it is ranked.
RankCandidates_CutFirst(query, cands) ==
    LET s == Cap(cands)
        all == DOMAIN s
        order == InOrder(all, {ij \in all \X all : Liker(query, s, ij[1], ij[2])})
    IN  [i \in DOMAIN s |-> s[order[i]]]

\* One of each DOI or DBLP key, the first; in order of similarity, equals as
\* they came; and the list is cut.
RankCandidates(query, cands) ==
    LET fresh == {i \in DOMAIN cands : DedupKey(cands[i]) = <<>>
                    \/ \A j \in 1 .. i - 1 : DedupKey(cands[j]) # DedupKey(cands[i])}
        order == InOrder(fresh, {ij \in fresh \X fresh : Liker(query, cands, ij[1], ij[2])})
    IN  Cap([i \in DOMAIN order |-> cands[order[i]]])

----------------------------------------------------------------------------

\* An answer of the service, or nothing when it fails (degrade).
Replied(service) == Replies[service] \cup {<<>>}

Provisional == GuessTitle(page)

QueryTitle == Or(header.title, Provisional)

ResolvingInit ==
    /\ page \in Pages /\ asked \in BOOLEAN
    /\ at = IF asked THEN "candidates" ELSE "identify"
    /\ ident \in {Identify(page)} \cup Hints
    /\ header = Nobody /\ dblp = Nobody /\ resolution = Nobody /\ meta = Nobody
    /\ picks = <<>> /\ heard = {}

Known == <<page, asked, ident>>

\* resolve_pdf: GROBID is asked only where no identifier is found.
ReadHeader ==
    /\ at = "identify"
    /\ at' = IF ident.kind = NONE THEN "dblp" ELSE "by_id"
    /\ IF ident.kind = NONE THEN \E r \in Replied("grobid") : header' = FromGrobid(r)
                            ELSE UNCHANGED header
    /\ UNCHANGED <<Known, dblp, resolution, meta, picks, heard>>

\* try_crossref, try_arxiv
LookUp ==
    /\ at = "by_id" /\ at' = "store"
    /\ \E r \in Replied("by_id") :
         resolution' = IF ident.kind = "arxiv" THEN FromArxiv(r, ident.id)
                       ELSE IF r = <<>> THEN Nobody
                       ELSE [FromCrossref(r)[1] EXCEPT !.doi = Or(@, ident.id)]
    /\ UNCHANGED <<Known, header, dblp, meta, picks, heard>>

\* try_title_search: a DBLP match ends it, but for a preprint.
SearchDblp ==
    /\ at = "dblp"
    /\ IF QueryTitle = NONE THEN at' = "store" /\ UNCHANGED <<dblp, resolution, heard>>
       ELSE \E r \in Replied("dblp") :
              LET best == BestMatch(QueryTitle, page, FromDblp(r))
                  ends == best # Nobody /\ ~IsCorrPreprint(best)
              IN  /\ heard' = heard \cup ToSet(FromDblp(r))
                  /\ dblp' = best
                  /\ resolution' = IF ends THEN best ELSE Nobody
                  /\ at' = IF ends THEN "store" ELSE "openreview"
    /\ UNCHANGED <<Known, header, meta, picks>>

\* Both hosts, in the order of the hosts; then the preprint, if there was one.
SearchOpenReview ==
    /\ at = "openreview"
    /\ \E r2 \in Replied("openreview2"), r1 \in Replied("openreview1") :
         LET cands == FromOpenReview(r2) \o FromOpenReview(r1)
             best == BestMatch(QueryTitle, page, cands)
         IN  /\ heard' = heard \cup ToSet(cands)
             /\ resolution' = IF best = Nobody THEN dblp
                              ELSE IF dblp = Nobody THEN best
                              ELSE GraftIdentifiers(best, dblp)
             /\ at' = IF resolution' = Nobody THEN "crossref" ELSE "store"
    /\ UNCHANGED <<Known, header, dblp, meta, picks>>

SearchCrossref ==
    /\ at = "crossref" /\ at' = "store"
    /\ \E r \in Replied("crossref") :
         /\ heard' = heard \cup ToSet(FromCrossref(r))
         /\ resolution' = BestMatch(QueryTitle, page, FromCrossref(r))
    /\ UNCHANGED <<Known, header, dblp, meta, picks>>

\* Mutant of ResolveFields: an unresolved paper keeps nothing of its page.
ResolveFields_Bare ==
    IF resolution # Nobody THEN [resolution EXCEPT !.title = Or(@, Provisional)]
    ELSE header

\* resolve_fields: what the resolver left out is filled in from the page.
ResolveFields ==
    LET printed(kind) == IF ident.kind = kind THEN ident.id ELSE NONE
        base == IF resolution # Nobody THEN resolution ELSE header
    IN  [base EXCEPT !.title = Or(@, Provisional), !.abstract = Or(@, header.abstract),
                     !.doi = Or(@, printed("doi")), !.arxiv = Or(@, printed("arxiv"))]

StoreMeta ==
    /\ at = "store" /\ at' = "done"
    /\ meta' = ResolveFields
    /\ UNCHANGED <<Known, header, dblp, resolution, picks, heard>>

\* search_candidates: all the services at once, and no gate but the user.
SearchCandidates ==
    /\ at = "candidates" /\ at' = "done"
    /\ Provisional # NONE
    /\ \E d \in Replied("dblp"), c \in Replied("crossref"),
          r2 \in Replied("openreview2"), r1 \in Replied("openreview1") :
         LET cands == FromDblp(d) \o FromCrossref(c) \o FromOpenReview(r2) \o FromOpenReview(r1)
         IN  /\ picks' = RankCandidates(Provisional, cands)
             /\ heard' = ToSet(cands)
    /\ UNCHANGED <<Known, header, dblp, resolution, meta>>

ResolvingNext ==
    \/ ReadHeader \/ LookUp \/ SearchDblp \/ SearchOpenReview \/ SearchCrossref
    \/ StoreMeta \/ SearchCandidates

ResolvingSpec == ResolvingInit /\ [][ResolvingNext]_resolvingVars

----------------------------------------------------------------------------
(* Properties.                                                             *)

ResolvingTypeOK ==
    /\ page \in Pages /\ asked \in BOOLEAN
    /\ at \in {"identify", "by_id", "dblp", "openreview", "crossref", "store", "done",
               "candidates"}
    /\ ident.kind \in {"doi", "arxiv", NONE}
    /\ \A m \in {header, dblp, resolution, meta} : m.title \in Titles \cup {NONE}
    /\ Len(picks) <= MAX_CANDIDATES

Contradicted(c) ==
    page.words # {} /\ c.authors # {} /\ c.authors \cap page.words = {}

Searched == at = "done" /\ ~asked /\ ident.kind = NONE

\* What a title search files a paper under is a record that was really published
\* or posted, that looks like the title, and that the page does not contradict;
\* and every identifier it carries, though it may come from another service, is
\* of a record as like it as the gate asks, for the next copy of either work is
\* taken for this paper.
FiledAsItself ==
    Searched /\ resolution # Nobody =>
        /\ \E c \in heard : c.title = meta.title /\ c.venue = meta.venue
        /\ meta.venue # "unaccepted"
        /\ Confident(QueryTitle, meta) /\ ~Contradicted(meta)
        /\ \A c \in heard :
             (meta.key # NONE /\ c.key = meta.key /\ c.doi = meta.doi)
                 => Confident(meta.title, c)

\* Failures of services cost only what those services knew: a paper is left for
\* review only if no record that was heard passes the gate, and filed as a preprint
\* only if none of another service does and none of DBLP is liker than the preprint.
\* (A published record that is no liker loses to a preprint in the same reply of
\* DBLP, if the preprint is before it or the liker one: best_match does not tell
\* them apart, and the match it returns is all that is looked at.)
NothingBetterHeard ==
    Searched /\ QueryTitle # NONE =>
        LET passed == {c \in heard : Confident(QueryTitle, c) /\ ~Contradicted(c)}
        IN  /\ meta.source \in {NONE, "grobid"} => passed = {}
            /\ (meta.source = "dblp" /\ IsCorrPreprint(meta)) =>
                 \A c \in passed : /\ c.source = "dblp"
                                   /\ ScoreOf(QueryTitle, c) <= ScoreOf(QueryTitle, meta)

\* An identifier printed on the page, or asked for, stays the paper's, whoever
\* answers or fails.
PrintedStays ==
    at = "done" /\ ~asked =>
        /\ ident.kind = "doi" => meta.doi # NONE
        /\ ident.kind = "arxiv" => meta.arxiv = ident.id

\* The user sees each work once, the likest first, and misses none, unless the list
\* is full of works at least as like: what is missing is itself, or the record it
\* is taken for a copy of is, no liker than the last one shown.
CandidatesRanked ==
    LET score(i) == ScoreOf(Provisional, picks[i])
        key(i) == DedupKey(picks[i])
    IN  /\ \A i, j \in DOMAIN picks : i < j =>
             score(i) >= score(j) /\ (key(i) = key(j) => key(i) = <<>>)
        /\ picks # <<>> => \A c \in heard :
             \/ c \in ToSet(picks)
             \/ \E i \in DOMAIN picks : key(i) # <<>> /\ key(i) = DedupKey(c)
             \/ /\ Len(picks) = MAX_CANDIDATES
                /\ \E d \in heard :
                     /\ d = c \/ (DedupKey(c) # <<>> /\ DedupKey(d) = DedupKey(c))
                     /\ ScoreOf(Provisional, d) <= score(Len(picks))

\* A paper is filed under a record of itself, by the order of the services the likest
\* they had, and the user is offered the likest.
MetadataHolds == FiledAsItself /\ NothingBetterHeard /\ PrintedStays /\ CandidatesRanked

=============================================================================
