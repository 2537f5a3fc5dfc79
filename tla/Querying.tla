------------------------------ MODULE Querying ------------------------------
(***************************************************************************)
(* A search (search/mod.rs and what it calls): the query's words become a  *)
(* request, the request's qualifiers a scope of papers, the two engines    *)
(* rank what they hold inside the scope, up to their limits, the rankings  *)
(* are fused, and the rows of what is left are read.  The library goes on  *)
(* between these steps, and the engines lag behind it.                     *)
(***************************************************************************)
EXTENDS Naturals, Sequences, FiniteSets, SequencesExt, Listing

CONSTANTS
    Corpus,           \* the papers the engines hold: numbers, for ids have an order
    Doc,              \* the fields of a paper the free text matches
    Byline,           \* the phrases of its authors field
    Asked,            \* what is typed, as tokens
    Ranks,            \* rankings the keyword engine may have for the text
    Nearest,          \* rankings of chunks the vector store may have
    KEYWORD_LIMIT, SEMANTIC_LIMIT, RRF_K,
    Whole             \* a common denominator of 1/(RRF_K + rank), for every rank

Fields == <<"title", "authors", "abstract", "notes", "body">>
AllFields == {Fields[i] : i \in DOMAIN Fields}
Traits == {"tag", "project", "starred", "resolved", "needs_review"}

\* What is typed is words and key:value tokens; the engines rank papers, and chunks
\* of papers.
ASSUME QueryingAssumption ==
    /\ Corpus \subseteq Nat /\ Doc \in [Corpus -> SUBSET AllFields]
    /\ Byline \in [Corpus -> SUBSET STRING]
    /\ Asked \subseteq Seq([key : STRING, value : STRING])
    /\ Ranks \subseteq Seq(Corpus) /\ Nearest \subseteq Seq([paper : Corpus, seq : Nat])
    /\ KEYWORD_LIMIT \in Nat /\ SEMANTIC_LIMIT \in Nat /\ RRF_K \in Nat
    /\ Whole \in Nat \ {0}
    /\ \A rank \in 1 .. KEYWORD_LIMIT \cup 1 .. SEMANTIC_LIMIT : Whole % (RRF_K + rank) = 0

VARIABLES
    paper,      \* a row: whether it is there, and what a filter asks of it
    typed, engines, tier,
    ranking, nearest,
    phase, scope, hits, near, semantic, answer,
    disturbed   \* history: papers that changed under the search

queryVars == <<paper, typed, engines, tier, ranking, nearest, phase, scope, hits, near,
               semantic, answer, disturbed>>

request == <<typed, engines, tier, ranking, nearest>>

----------------------------------------------------------------------------
(* The words: tokenize, classify, parse, assemble.                         *)

\* Mutant of Qualifies: an unknown value of a known key is taken for a qualifier.
Qualifies_AnyValue(t) == t.key \in {"tag", "project", "author", "is", "status", "in"}

\* A token that is a qualifier; every other one is free text, as it was typed.
Qualifies(t) ==
    \/ t.key \in {"tag", "project", "author"}
    \/ t.key = "is" /\ t.value = "starred"
    \/ t.key = "status" /\ t.value \in {"resolved", "needs_review"}
    \/ t.key = "in" /\ t.value \in AllFields

Text(tokens) == Sifted(tokens, {t \in ToSet(tokens) : ~Qualifies(t)})
Named(tokens, key) == Sifted(tokens, {t \in ToSet(tokens) : t.key = key /\ Qualifies(t)})

\* The fields of the in: tokens; none of them valid, or no such token, is all.
Selected(tokens) ==
    LET valid == {t.value : t \in ToSet(Named(tokens, "in"))}
    IN  IF valid = {} THEN AllFields ELSE valid

\* Of these keys a query has one value: of a repeated one the last counts.
Single == {"tag", "project", "status"}

\* Mutant of Demands: of a repeated key the first value counts.
Demands_First(tokens) ==
    {Head(Named(tokens, key)).value : key \in {k \in Single : Named(tokens, k) # <<>>}}
    \cup {t.value : t \in ToSet(Named(tokens, "is"))}

\* What a row must have.  A project of an unknown name is one no paper is in.
Demands(tokens) ==
    {Last(Named(tokens, key)).value : key \in {k \in Single : Named(tokens, k) # <<>>}}
    \cup {t.value : t \in ToSet(Named(tokens, "is"))}

----------------------------------------------------------------------------
(* The engines.                                                            *)

Cut(s, n) == SubSeq(s, 1, IF Len(s) < n THEN Len(s) ELSE n)

\* Mutant of Within: the scope is applied to what the engine returned.
Within_AfterCut(s, n, in) == Sifted(Cut(s, n), in)

\* The scope is part of the query, so that the cut is made inside it.
Within(s, n, in) == Cut(Sifted(s, in), n)

\* An author: token is a phrase looked for among the authors, whatever is selected.
Authored(tokens, p) == \E t \in ToSet(Named(tokens, "author")) : t.value \in Byline[p]

\* The selected fields of a paper in which a snippet is marked.
Marked(tokens, p) ==
    {f \in Selected(tokens) : \/ f \in Doc[p] /\ Text(tokens) # <<>>
                              \/ f = "authors" /\ Authored(tokens, p)}

\* The query is the author: phrases and the text, one of which is enough: the
\* parser is left at its default, which is to be content with any.
Matches(tokens, p) ==
    Authored(tokens, p) \/ (Text(tokens) # <<>> /\ Doc[p] \cap Selected(tokens) # {})

\* FtsIndex::search.
KeywordHits(tokens, order, in) ==
    Within(order, KEYWORD_LIMIT, {p \in in : Matches(tokens, p)})

\* Mutant of BestField: the field need not be a selected one.
BestField_Unselected(tokens, p) ==
    Fields[CHOOSE i \in DOMAIN Fields : /\ Fields[i] \in Doc[p]
                                       /\ \A j \in 1 .. i - 1 : Fields[j] \notin Doc[p]]

\* best_snippet: the first selected field with a mark, or else the title.
BestField(tokens, p) ==
    IF Marked(tokens, p) = {} THEN "title"
    ELSE Fields[CHOOSE i \in DOMAIN Fields :
                  /\ Fields[i] \in Marked(tokens, p)
                  /\ \A j \in 1 .. i - 1 : Fields[j] \notin Marked(tokens, p)]

\* SeqFilter: chunk 0 is the title and abstract, the others are the body.
ChunkAsked(tokens, seq) ==
    IF seq = 0 THEN Selected(tokens) \cap {"title", "abstract"} # {}
               ELSE "body" \in Selected(tokens)

\* Only title, abstract and body are embedded, and authors are not searched for.
SemanticApplies(tokens) ==
    /\ Selected(tokens) \cap {"title", "abstract", "body"} # {}
    /\ Text(tokens) # <<>> \/ Named(tokens, "author") = <<>>

\* QdrantStore::search, and the best chunk of each paper.
NearHits(tokens, order, in) ==
    LET chunks == Within(order, SEMANTIC_LIMIT,
                         {c \in ToSet(order) : c.paper \in in /\ ChunkAsked(tokens, c.seq)})
        best == Rising({i \in DOMAIN chunks :
                          \A j \in 1 .. i - 1 : chunks[j].paper # chunks[i].paper})
    IN  [i \in DOMAIN best |-> chunks[best[i]]]

----------------------------------------------------------------------------
(* fusion::rrf.                                                            *)

Has(list, p) == \E i \in DOMAIN list : list[i] = p
Rank(list, p) == CHOOSE i \in DOMAIN list : list[i] = p

\* Mutant of Share: the rank is counted from the list's end.
Share_FromEnd(list, p) == IF Has(list, p) THEN Whole \div (RRF_K + Len(list) + 1 - Rank(list, p)) ELSE 0

Share(list, p) == IF Has(list, p) THEN Whole \div (RRF_K + Rank(list, p)) ELSE 0

Score(a, b, p) == Share(a, p) + Share(b, p)

\* The better score first, of equals the lesser id.
Better(a, b, p, q) ==
    \/ Score(a, b, p) > Score(a, b, q)
    \/ Score(a, b, p) = Score(a, b, q) /\ p < q

Fused(a, b) ==
    LET found == ToSet(a) \cup ToSet(b)
    IN  InOrder(found, {pq \in found \X found : Better(a, b, pq[1], pq[2])})

----------------------------------------------------------------------------
(* SearchService::search.                                                  *)

Rows == [at : {"live", "trashed", "purged"}, traits : SUBSET Traits]

QueryInit ==
    /\ paper \in [Corpus -> [at : {"live"}, traits : {{}, {"tag"}}]]
    /\ typed \in Asked /\ engines \in SUBSET {"keyword", "semantic"} \ {{}}
    /\ tier \in BOOLEAN /\ ranking \in Ranks /\ nearest \in Nearest
    /\ phase = "asked" /\ scope = {} /\ hits = <<>> /\ near = <<>>
    /\ semantic = FALSE /\ answer = <<>> /\ disturbed = {}

Matching(demands) == {p \in Corpus : paper[p].at = "live" /\ demands \subseteq paper[p].traits}

\* filtered_paper_ids, if a filter was given; nobody in it ends the search.
Scope ==
    /\ phase = "asked"
    /\ LET demands == Demands(typed)
       IN  /\ scope' = IF demands = {} THEN Corpus ELSE Matching(demands)
           /\ phase' = IF scope' = {} /\ demands # {} THEN "done" ELSE "keyword"
    /\ semantic' = (tier /\ SemanticApplies(typed))
    /\ UNCHANGED <<paper, request, hits, near, answer, disturbed>>

Keyword ==
    /\ phase = "keyword" /\ phase' = "semantic"
    /\ hits' = IF "keyword" \in engines THEN KeywordHits(typed, ranking, scope) ELSE <<>>
    /\ UNCHANGED <<paper, request, scope, near, semantic, answer, disturbed>>

\* A failed embedding or vector search leaves the keyword hits, and says so.
Semantic ==
    /\ phase = "semantic" /\ phase' = "hydrate"
    /\ LET search == "semantic" \in engines /\ semantic /\ Text(typed) # <<>>
       IN  \/ search /\ near' = NearHits(typed, nearest, scope) /\ UNCHANGED semantic
           \/ search /\ semantic' = FALSE /\ UNCHANGED near
           \/ ~search /\ UNCHANGED <<near, semantic>>
    /\ UNCHANGED <<paper, request, scope, hits, answer, disturbed>>

Papers(chunks) == [i \in DOMAIN chunks |-> chunks[i].paper]

Label(p) ==
    LET k == Has(hits, p)   s == Has(Papers(near), p)
    IN  [paper |-> p,
         engine |-> IF k /\ s THEN "both" ELSE IF k THEN "keyword" ELSE "semantic",
         field |-> IF k THEN BestField(typed, p)
                   ELSE IF near[Rank(Papers(near), p)].seq = 0 THEN "abstract" ELSE "body"]

\* Mutant of Shown: the rows of trashed papers are shown.
Shown_Trashed(p) == paper[p].at # "purged"

Shown(p) == paper[p].at = "live"

\* papers_by_ids_ordered, in the order of the fusion.
Hydrate ==
    /\ phase = "hydrate" /\ phase' = "done"
    /\ LET order == Sifted(Fused(hits, Papers(near)), {p \in Corpus : Shown(p)})
       IN  answer' = [i \in DOMAIN order |-> Label(order[i])]
    /\ UNCHANGED <<paper, request, scope, hits, near, semantic, disturbed>>

\* A paper is trashed, purged, or loses what the filter asked for.
Disturb(p) ==
    /\ phase # "done" /\ disturbed = {}
    /\ \E row \in [at : {"trashed", "purged"}, traits : {paper[p].traits}]
                  \cup [at : {"live"}, traits : {{}}] :
         row # paper[p] /\ paper' = [paper EXCEPT ![p] = row]
    /\ disturbed' = {p}
    /\ UNCHANGED <<request, phase, scope, hits, near, semantic, answer>>

QueryNext == Scope \/ Keyword \/ Semantic \/ Hydrate \/ \E p \in Corpus : Disturb(p)

QuerySpec == QueryInit /\ [][QueryNext]_queryVars

----------------------------------------------------------------------------
(* Properties.                                                             *)

QueryTypeOK ==
    /\ paper \in [Corpus -> Rows]
    /\ phase \in {"asked", "keyword", "semantic", "hydrate", "done"}
    /\ scope \subseteq Corpus /\ hits \in Seq(Corpus) /\ semantic \in BOOLEAN
    /\ \A i \in DOMAIN near : near[i].paper \in Corpus
    /\ \A i \in DOMAIN answer :
         answer[i].paper \in Corpus /\ answer[i].field \in AllFields
         /\ answer[i].engine \in {"keyword", "semantic", "both"}

Answered == {answer[i].paper : i \in DOMAIN answer}

\* Every token counts: it is searched for, selects a field that there is, or is a
\* demand that a row can meet, unless a later one of the same key takes its place.
TokensCount ==
    \A i \in DOMAIN typed :
        \/ typed[i] \in ToSet(Text(typed)) \cup ToSet(Named(typed, "author"))
        \/ typed[i].key \in {"tag", "project"} /\ typed[i].value \in Demands(typed)
        \/ typed[i].key \in {"is", "status"} /\ typed[i].value \in Demands(typed) \cap Traits
        \/ typed[i].key = "in" /\ typed[i].value \in Selected(typed) \cap AllFields
        \/ \E j \in DOMAIN typed :
             /\ j > i /\ typed[i].key \in Single
             /\ typed[j].key = typed[i].key /\ Qualifies(typed[j])

\* What is answered was asked for: an engine that was wanted found it, by a word
\* in a selected field or by an author, or by a chunk that is near the text and of
\* a selected part; and the field named with it is one that is marked, or the
\* title, as of a paper that only its author brought.
AnswersAreFound ==
    \A i \in DOMAIN answer :
        LET p == answer[i].paper
            marked == Marked(typed, p)
        IN  /\ answer[i].engine \in {"keyword", "both"} =>
                 /\ "keyword" \in engines /\ Matches(typed, p)
                 /\ answer[i].field \in IF marked = {} THEN {"title"} ELSE marked
            /\ answer[i].engine \in {"semantic", "both"} =>
                 /\ "semantic" \in engines /\ Text(typed) # <<>>
                 /\ \E c \in ToSet(nearest) : c.paper = p /\ ChunkAsked(typed, c.seq)

\* The answer is of papers that are live, none twice, and satisfy the filter;
\* a paper nobody touched meanwhile is in it if fewer papers of the filter are
\* before it than the engine's limit; and a paper both engines put behind
\* another one is behind it.
SearchAnswers ==
    phase = "done" =>
        /\ \A p \in Answered : paper[p].at = "live"
                               /\ (p \in disturbed \/ Demands(typed) \subseteq paper[p].traits)
        /\ Cardinality(Answered) = Len(answer)
        /\ \A p \in Corpus \ disturbed, i \in DOMAIN ranking :
             /\ "keyword" \in engines /\ ranking[i] = p /\ Matches(typed, p)
             /\ Demands(typed) \subseteq paper[p].traits
             /\ i <= KEYWORD_LIMIT \/ Cardinality({j \in 1 .. i - 1 : ranking[j] \in scope}) < KEYWORD_LIMIT
             => p \in Answered
        /\ \A i, j \in DOMAIN answer :
             LET p == answer[i].paper   q == answer[j].paper
                 ahead(list) == Has(list, q) => (Has(list, p) /\ Rank(list, p) < Rank(list, q))
             IN  ahead(hits) /\ ahead(Papers(near)) /\ p # q => i < j

\* A search answers what was typed: of that every token counts, no paper is missed
\* that the limits leave room for, and none is answered that was not asked for.
SearchHolds == SearchAnswers /\ AnswersAreFound /\ TokensCount

=============================================================================
