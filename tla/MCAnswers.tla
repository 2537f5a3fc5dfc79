----------------------------- MODULE MCAnswers -----------------------------
(***************************************************************************)
(* What the server answers to its reader: a search, the metadata of a new  *)
(* paper, tags and projects, an import, page images, a bibliography, the    *)
(* requests it makes for them; the commands that are given beside it; and  *)
(* what the browser shows of it: the library, the imports, the chat.       *)
(* They share no state in these models, so a behaviour is of one of them,  *)
(* the one `part` names; the others keep one initial state.                *)
(***************************************************************************)
EXTENDS Querying, Resolving, Shelf, Importing, Previews, References, Requests, Commands,
        LibraryView, ImportQueue, ChatPanel, TLC

CONSTANTS i1, i2, r1, r2

VARIABLE part

Parts == {"query", "resolve", "shelf", "import", "preview", "references", "requests",
          "commands", "view", "queue", "panel"}

browserVars == <<viewVars, queueVars, panelVars>>

serverVars == <<queryVars, resolvingVars, shelfVars, importVars, previewVars, refVars,
                requestVars, commandsVars>>
answersVars == <<part, serverVars, browserVars>>

----------------------------------------------------------------------------
(* A corpus of three papers, and what is asked of it.                      *)

Typed(key, value) == [key |-> key, value |-> value]
Graph == Typed("", "graph")

MCDoc == (1 :> {"title"}) @@ (2 :> {"body", "authors"}) @@ (3 :> {"notes", "abstract"})

MCByline == (1 :> {"x"}) @@ (2 :> {"y"}) @@ (3 :> {"x", "y"})

MCAsked ==
    {<<Graph>>,
     <<Typed("tag", "tag"), Graph>>,
     <<Typed("in", "body"), Graph>>,
     <<Typed("in", "shoe"), Graph>>,
     <<Typed("author", "x")>>,
     <<Typed("author", "y"), Typed("in", "title"), Graph>>,
     <<Typed("status", "resolved"), Typed("status", "needs_review"), Graph>>,
     <<Typed("in", "authors"), Graph>>,
     <<Typed("status", "open"), Typed("is", "starred"), Graph>>,
     <<Typed("project", "nowhere"), Typed("tag", "tag")>>,
     <<Typed("tag", "other"), Typed("tag", "tag"), Typed("in", "title"), Typed("in", "notes"), Graph>>}

MCRanks == {<<1, 2, 3>>, <<2, 3>>}

Chunk(p, s) == [paper |-> p, seq |-> s]

MCNearest ==
    {<<Chunk(1, 0), Chunk(1, 1), Chunk(3, 2)>>, <<Chunk(2, 1), Chunk(3, 0), Chunk(1, 1)>>, <<>>}

----------------------------------------------------------------------------
(* First pages, and what the services say of them.                         *)

MCHints == {[kind |-> "arxiv", id |-> "9"]}

MCTitles == {"kgat", "kgat2", "kgat3", "other"}

\* "kgat2" is like both the others, which are not like one another.
MCSimilarity ==
    [p \in MCTitles \X MCTitles |->
        IF p[1] = p[2] THEN 100
        ELSE IF "other" \in {p[1], p[2]} THEN 10
        ELSE IF "kgat2" \in {p[1], p[2]} THEN 90 ELSE 80]

MCSpelled ==
    [s \in {<<"kgat2">>, <<"kg", "at2">>, <<"kg">>} |-> IF s = <<"kg">> THEN "other" ELSE "kgat2"]

Line(t, ok, wraps) == [text |-> t, substantive |-> ok, wraps |-> wraps]

Blank == [lines |-> <<>>, words |-> {}, doi |-> "none", arxiv |-> "none"]

MCPages ==
    {[lines |-> <<Line("iclr", FALSE, FALSE), Line("kg", TRUE, TRUE), Line("at2", TRUE, FALSE)>>,
      words |-> {"wang"}, doi |-> "none", arxiv |-> "none"],
     [lines |-> <<Line("kgat2", TRUE, FALSE)>>, words |-> {}, doi |-> "none", arxiv |-> "none"],
     Blank,
     [lines |-> <<Line("kgat2", TRUE, TRUE)>>, words |-> {"wang"}, doi |-> "10.1/a", arxiv |-> "2"],
     [lines |-> <<Line("kgat2", TRUE, TRUE)>>, words |-> {"wang"}, doi |-> "none", arxiv |-> "2"]}

Work(t, a, v, d, k) ==
    [title |-> t, authors |-> a, venue |-> v, doi |-> d, key |-> k, abstract |-> "none"]

MCReplies ==
    [grobid |-> {<<Work("kgat2", {"wang"}, "none", "none", "none")>>},
     by_id |-> {<<Work("kgat", {"wang"}, "kdd", "none", "none")>>},
     dblp |-> {<<Work("kgat", {"wang"}, "corr", "10.48/a", "corr")>>,
               <<Work("kgat2", {"wang"}, "corr", "10.48/a", "corr"),
                 Work("kgat2", {"wang"}, "kdd", "10.1/a", "conf2"),
                 Work("kgat", {"wang"}, "kdd", "10.1/c", "conf3")>>,
               <<Work("kgat2", {"lee"}, "kdd", "10.1/l", "conf1"),
                 Work("kgat2", {"wang"}, "kdd", "10.1/a", "conf2")>>},
     openreview2 |-> {<<Work("kgat3", {"wang"}, "iclr", "none", "none")>>,
                      <<Work("kgat2", {"wang"}, "unaccepted", "none", "none")>>},
     openreview1 |-> {<<Work("kgat", {"wang"}, "iclr", "none", "none"),
                        Work("kgat2", {}, "none", "none", "none")>>},
     crossref |-> {<<Work("kgat", {"lee"}, "book", "10.1/b", "none"),
                     Work("kgat2", {"wang"}, "kdd", "10.1/a", "none"),
                     Work("kgat2", {"wang"}, "kdd", "10.1/a", "none")>>}]

----------------------------------------------------------------------------
(* One tag below another; what is posted for import; bibliographies.       *)

MCChild == {<<"nlp", "ml">>}

MCInputs == {{"acm_doi", "arxiv_url"}, {"ieee_url", "doi"}, {"bare_arxiv"}, {"pdf"}}

Entry(marks, title, names, identified) ==
    [marks |-> marks, title |-> title, names |-> names, identified |-> identified, sentences |-> 1]

Good == Entry({"quoted"}, "good", TRUE, TRUE)
Torn == Entry({}, "bad", FALSE, FALSE)

\* An entry the heuristics read and one they do not; and none that they do.
MCBibs ==
    {[entries |-> <<Good, Torn>>, venue |-> "ieee"], [entries |-> <<Torn, Torn>>, venue |-> "acm"]}

----------------------------------------------------------------------------
(* Papers to embed, in half seconds the policies of http.rs.               *)

Para(first, length, stops) ==
    [text |-> [n \in 1 .. length |-> first + n - 1], stops |-> stops]

MCTexts ==
    {[summary |-> TRUE, pages |-> <<<<Para(1, 5, {}), Para(6, 12, {9, 10})>>, <<>>, <<Para(1, 3, {})>>>>],
     [summary |-> FALSE, pages |-> <<<<Para(1, 3, {}), Para(4, 2, {}), Para(6, 6, {})>>>>],
     [summary |-> FALSE, pages |-> <<<<Para(1, 17, {})>>>>],
     [summary |-> FALSE, pages |-> <<<<>>>>]}

MCRetryPolicy ==
    [llm |-> [attempts |-> 3, base |-> 1, max_delay |-> 16, retry_after_cap |-> 60],
     interactive |-> [attempts |-> 2, base |-> 1, max_delay |-> 4, retry_after_cap |-> 4]]

MCSelectors ==
    [s \in {"p1", "p2", "p"} |-> IF s = "p" THEN {"p1", "p2"} ELSE {s}]

MCLists == {<<"m1">>, <<"m2", "m1">>}

MCTimeout == [embed |-> 120, llm |-> 240, deepl |-> 60]

----------------------------------------------------------------------------

\* Of what is not asked about, one initial state.
Still ==
    /\ part # "query" => /\ typed = <<Graph>> /\ engines = {"keyword"} /\ tier = FALSE
                         /\ ranking = <<2, 3>> /\ nearest = <<>>
                         /\ paper = [p \in Corpus |-> [at |-> "live", traits |-> {}]]
    /\ part # "resolve" => page = Blank /\ asked = FALSE /\ ident = Identify(page)
    /\ part # "import" => proxied = FALSE /\ contact = FALSE /\ jar = FALSE
    /\ part # "references" => model = FALSE /\ stored = NoRow
    /\ part # "requests" => providers = {} /\ preferred = "none"

AnswersInit ==
    /\ part \in Parts /\ Still
    /\ QueryInit /\ ResolvingInit /\ ShelfInit /\ ImportInit /\ PreviewInit /\ RefInit
    /\ RequestsInit /\ CommandsInit
    /\ ViewInit /\ ImportQueueInit /\ ChatPanelInit
    /\ part # "commands" => disk["x"] = "p1"

AnswersNext ==
    /\ UNCHANGED part
    /\ \/ /\ part = "query" /\ UNCHANGED <<resolvingVars, shelfVars, importVars, previewVars,
                         refVars, requestVars, commandsVars, browserVars>>
          /\ QueryNext
       \/ /\ part = "resolve" /\ UNCHANGED <<queryVars, shelfVars, importVars, previewVars,
                         refVars, requestVars, commandsVars, browserVars>>
          /\ ResolvingNext
       \/ /\ part = "shelf" /\ UNCHANGED <<queryVars, resolvingVars, importVars, previewVars,
                         refVars, requestVars, commandsVars, browserVars>>
          /\ ShelfNext
       \/ /\ part = "import" /\ UNCHANGED <<queryVars, resolvingVars, shelfVars, previewVars,
                         refVars, requestVars, commandsVars, browserVars>>
          /\ ImportNext
       \/ /\ part = "preview" /\ UNCHANGED <<queryVars, resolvingVars, shelfVars, importVars,
                         refVars, requestVars, commandsVars, browserVars>>
          /\ PreviewNext
       \/ /\ part = "references" /\ UNCHANGED <<queryVars, resolvingVars, shelfVars, importVars,
                         previewVars, requestVars, commandsVars, browserVars>>
          /\ RefNext
       \/ /\ part = "requests" /\ UNCHANGED <<queryVars, resolvingVars, shelfVars, importVars,
                         previewVars, refVars, commandsVars, browserVars>>
          /\ RequestsNext
       \/ /\ part = "commands" /\ UNCHANGED <<queryVars, resolvingVars, shelfVars, importVars,
                         previewVars, refVars, requestVars, browserVars>>
          /\ CommandsNext
       \/ /\ part = "view" /\ UNCHANGED <<serverVars, queueVars, panelVars>>
          /\ ViewNext
       \/ /\ part = "queue" /\ UNCHANGED <<serverVars, viewVars, panelVars>>
          /\ ImportQueueNext
       \/ /\ part = "panel" /\ UNCHANGED <<serverVars, viewVars, queueVars>>
          /\ ChatPanelNext

AnswersSpec == AnswersInit /\ [][AnswersNext]_answersVars

----------------------------------------------------------------------------
(* A component that is not the part of a behaviour keeps an initial state,  *)
(* where its properties hold; they are asked of the part that moves.       *)

\* Each component's state is of its type.
AnswersTypeOK ==
    /\ part = "query" => QueryTypeOK
    /\ part = "resolve" => ResolvingTypeOK
    /\ part = "shelf" => ShelfTypeOK
    /\ part = "import" => ImportTypeOK
    /\ part = "preview" => PreviewTypeOK
    /\ part = "references" => RefTypeOK
    /\ part = "requests" => RequestsTypeOK
    /\ part = "commands" => CommandsTypeOK
    /\ part = "view" => ViewTypeOK
    /\ part = "queue" => ImportQueueTypeOK
    /\ part = "panel" => ChatPanelTypeOK

\* What the user does with the papers: tags and projects, and the commands.
LibraryHolds ==
    /\ part = "shelf" => ShelfHolds
    /\ part = "commands" => CommandsHold

\* Dealings with the services outside: imports, requests, the model that is
\* asked for a bibliography.
OutsideHolds ==
    /\ part = "import" => ImportsHold
    /\ part = "references" => ModelAskedWell
    /\ part = "requests" => RequestsHold

\* What the reader sees is what there is: the page images, the library, the
\* rows of the import dialog, the conversation.
ScreenHolds ==
    /\ part = "preview" => PreviewsHold
    /\ part = "view" => ViewAgrees
    /\ part = "queue" => QueueHolds
    /\ part = "panel" => PanelHolds

=============================================================================
