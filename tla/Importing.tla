----------------------------- MODULE Importing -----------------------------
(***************************************************************************)
(* Import from a URL, a DOI or an arXiv id, and by upload (import.rs,      *)
(* IngestCtx::ingest_bytes, web/api.rs import_url and import_paper): known *)
(* work?  arXiv directly; else the publisher through the proxy with the    *)
(* stored cookie; else the open copy Unpaywall names; else an explanation. *)
(* What is fetched is staged and ingested.  Imports overlap, a request may *)
(* be dropped and the server may die between any two steps.                *)
(***************************************************************************)
EXTENDS Naturals, FiniteSets

CONSTANTS
    Imports,      \* the requests
    Inputs,       \* what is posted: the set of things the text shows
    MAX_HOPS,     \* redirects followed through the proxy
    MaxElsewhere  \* bound: changes of the stored cookie and of the trash

Works == {"arxiv", "acm", "doi", "ieee", "file"}

ASSUME ImportingAssumption ==
    /\ Inputs \subseteq SUBSET {"ieee_url", "doi", "acm_doi", "arxiv_url", "bare_arxiv", "pdf", "not_pdf"}
    /\ MAX_HOPS \in Nat \ {0} /\ MaxElsewhere \in Nat

VARIABLES
    proxied,     \* [proxy] names a login URL
    contact,     \* a contact address is configured, without which Unpaywall is not asked
    jar,         \* the setting proxy_cookie
    held,        \* the library: whether each work is in it
    import,      \* the state of each request
    staged,      \* the copies in the staging directory, by the request that wrote them
    elsewhere

importVars == <<proxied, contact, jar, held, import, staged, elsewhere>>
settings == <<proxied, contact>>

----------------------------------------------------------------------------
(* What is to be fetched, and from where.                                  *)

\* parse_source, and the upload's look at the first bytes: a document of IEEE
\* before any DOI, a DOI before arXiv, whose number alone must be all there is.
ParseSource(shown) ==
    CASE "pdf" \in shown -> "file"
      [] "ieee_url" \in shown -> "ieee"
      [] "acm_doi" \in shown -> "acm"
      [] "doi" \in shown -> "doi"
      [] "arxiv_url" \in shown \/ shown = {"bare_arxiv"} -> "arxiv"
      [] OTHER -> "none"

\* source_identifier: an IEEE document number identifies nothing.
Identified(src) == src \in {"arxiv", "acm", "doi"}
IsDoi(src) == src \in {"acm", "doi"}

\* pdf_target of a publisher, and a cookie to go there with.
ByProxy(r) == r.src \in {"acm", "ieee"} /\ r.cookie /\ proxied

\* Mutant of HostAllowed: the Location is followed wherever it leads.
HostAllowed_Any(host) == host # "none"

\* The proxy's host and its subdomains.
HostAllowed(host) == host \in {"proxy", "subdomain"}

NoRequest == [at |-> "new", src |-> "none", cookie |-> FALSE, host |-> "none", hops |-> 0,
              asked |-> {}, shown |-> {}, expired |-> FALSE, answer |-> "none",
              refused |-> FALSE]     \* refused, history: the removal of its copy failed

Ended == {"new", "answered", "cut"}
Answer(i, a) == import' = [import EXCEPT ![i].at = "answered", ![i].answer = a]
Step(i, at) == import' = [import EXCEPT ![i].at = at]

\* Where the search goes on after the proxy: to Unpaywall, with a DOI and an
\* address to ask with, or to its end.
AfterProxy(r) == IF IsDoi(r.src) /\ contact THEN "unpaywall" ELSE "give_up"

----------------------------------------------------------------------------

ImportInit ==
    /\ proxied \in BOOLEAN /\ contact \in BOOLEAN /\ jar \in BOOLEAN
    /\ held = [w \in Works |-> "absent"]
    /\ import = [i \in Imports |-> NoRequest] /\ staged = {} /\ elsewhere = 0

\* The handler reads the cookie, then the text.
Post(i) ==
    /\ import[i].at = "new"
    /\ \E shown \in Inputs :
         LET src == ParseSource(shown)
             r == [NoRequest EXCEPT !.src = src, !.cookie = jar]
         IN  import' = [import EXCEPT ![i] =
                 CASE src = "none" -> [r EXCEPT !.at = "answered", !.answer = "unsupported"]
                   [] src = "file" -> [r EXCEPT !.at = "stage"]
                   [] OTHER -> [r EXCEPT !.at = "known"]]
    /\ UNCHANGED <<settings, jar, held, staged, elsewhere>>

\* A work the library has under this identifier is not fetched; nor is any
\* when the library cannot be asked.
LookUpWork(i) ==
    LET r == import[i] IN
    /\ r.at = "known"
    /\ \/ Identified(r.src) /\ Answer(i, "error")
       \/ /\ Identified(r.src) /\ held[r.src] # "absent"
          /\ Answer(i, IF held[r.src] = "trashed" THEN "in_trash" ELSE "same_work")
       \/ /\ Identified(r.src) => held[r.src] = "absent"
          /\ import' = [import EXCEPT
                 ![i].at = CASE r.src = "arxiv" -> "plain"
                             [] ByProxy(r) -> "proxy"
                             [] OTHER -> AfterProxy(r),
                 ![i].host = IF ByProxy(r) THEN "proxy" ELSE "none"]
    /\ UNCHANGED <<settings, jar, held, staged, elsewhere>>

\* fetch_plain of arXiv: a PDF, a page, or no answer (a status that is no
\* success, a body over the limit, a timeout).
FetchPlain(i) ==
    /\ import[i].at = "plain"
    /\ \/ import' = [import EXCEPT ![i].at = "stage", ![i].asked = @ \cup {"arxiv"}]
       \/ import' = [import EXCEPT ![i].at = "give_up", ![i].asked = @ \cup {"arxiv"}]
       \/ import' = [import EXCEPT ![i].at = "answered", ![i].answer = "network",
                                   ![i].asked = @ \cup {"arxiv"}]
    /\ UNCHANGED <<settings, jar, held, staged, elsewhere>>

\* One turn of fetch_proxied's loop: the cookie goes to the host, which sends
\* the PDF, a page, an error, or elsewhere.
FetchProxied(i) ==
    LET r == [import[i] EXCEPT !.asked = @ \cup {"proxy"}, !.shown = @ \cup {import[i].host}]
        gone == [r EXCEPT !.at = AfterProxy(r)]
    IN
    /\ import[i].at = "proxy"
    /\ \/ import' = [import EXCEPT ![i] = [r EXCEPT !.at = "stage"]]
       \/ import' = [import EXCEPT ![i] = [gone EXCEPT !.expired = TRUE]]
       \/ import' = [import EXCEPT ![i] = gone]
       \/ \E host \in {"proxy", "subdomain", "elsewhere"} :
            import' = [import EXCEPT ![i] =
                IF ~HostAllowed(host) THEN [gone EXCEPT !.expired = TRUE]
                ELSE IF r.hops + 1 = MAX_HOPS THEN gone
                ELSE [r EXCEPT !.host = host, !.hops = @ + 1]]
    /\ UNCHANGED <<settings, jar, held, staged, elsewhere>>

\* Unpaywall names an open copy, or none; and the copy is there, or not.
AskUnpaywall(i) ==
    /\ import[i].at = "unpaywall"
    /\ \E at \in {"open_copy", "give_up"} :
         import' = [import EXCEPT ![i].at = at, ![i].asked = @ \cup {"unpaywall"}]
    /\ UNCHANGED <<settings, jar, held, staged, elsewhere>>

FetchOpenCopy(i) ==
    /\ import[i].at = "open_copy"
    /\ \E at \in {"stage", "give_up"} : Step(i, at)
    /\ UNCHANGED <<settings, jar, held, staged, elsewhere>>

\* Mutant of Explanation: whoever has a cookie is told to refresh it.
Explanation_ByCookie(r) == IF r.cookie THEN "expired" ELSE "unfetched"

\* "Refresh your cookie" when that is what failed, else what is known of the
\* paper.
Explanation(r) == IF r.expired THEN "expired" ELSE "unfetched"

GiveUpImport(i) ==
    /\ import[i].at = "give_up"
    /\ Answer(i, Explanation(import[i]))
    /\ UNCHANGED <<settings, jar, held, staged, elsewhere>>

\* ingest_bytes.
Stage(i) ==
    /\ import[i].at = "stage"
    /\ \/ Step(i, "ingest") /\ staged' = staged \cup {i}
       \/ Answer(i, "disk_full") /\ staged' \in {staged, staged \cup {i}}   \* the disk is full
    /\ UNCHANGED <<settings, jar, held, elsewhere>>

\* The pipeline (module Ingest), whose check of the work is the authority.
IngestStaged(i) ==
    LET w == import[i].src
        after(at, a) == import' = [import EXCEPT ![i].at = at, ![i].answer = a]
    IN
    /\ import[i].at = "ingest"
    /\ \/ after("discard", CASE held[w] = "absent" -> "ingested"
                             [] held[w] = "live" -> "same_work"
                             [] held[w] = "trashed" -> "in_trash")
          /\ held' = [held EXCEPT ![w] = IF @ = "absent" THEN "live" ELSE @]
       \/ after("unstage", "error") /\ UNCHANGED held
    /\ UNCHANGED <<settings, jar, staged, elsewhere>>

\* Mutant of Unstage: the copy of what failed is kept.
Unstage_Keeps(i) ==
    /\ import[i].at = "unstage" /\ Step(i, "answered")
    /\ UNCHANGED <<settings, jar, held, staged, elsewhere>>

\* The copy of an ingest that failed is removed; if that fails, nobody is told.
Unstage(i) ==
    /\ import[i].at = "unstage"
    /\ \/ Step(i, "answered") /\ staged' = staged \ {i}
       \/ /\ import' = [import EXCEPT ![i].at = "answered", ![i].refused = TRUE]
          /\ UNCHANGED staged
    /\ UNCHANGED <<settings, jar, held, elsewhere>>

\* Disposal::Discard.  A removal that fails is the answer, whatever became of
\* the paper, and is tried once more (Unstage).
Discard(i) ==
    /\ import[i].at = "discard"
    /\ \/ Step(i, "answered") /\ staged' = staged \ {i}
       \/ /\ import' = [import EXCEPT ![i].at = "unstage", ![i].answer = "error"]
          /\ UNCHANGED staged
    /\ UNCHANGED <<settings, jar, held, elsewhere>>

\* The client goes away, or the server dies: the request stops where it is.
CutImport(i) ==
    /\ import[i].at \notin Ended
    /\ Step(i, "cut")
    /\ UNCHANGED <<settings, jar, held, staged, elsewhere>>

\* The settings page stores or clears the cookie.
SetCookie ==
    /\ elsewhere < MaxElsewhere /\ elsewhere' = elsewhere + 1
    /\ jar' = ~jar
    /\ UNCHANGED <<settings, held, import, staged>>

\* The user trashes, restores and purges.
Curate(w) ==
    /\ elsewhere < MaxElsewhere /\ elsewhere' = elsewhere + 1
    /\ held[w] # "absent"
    /\ \E to \in {"absent", "live", "trashed"} \ {held[w]} :
         /\ to = "absent" => held[w] = "trashed"
         /\ held' = [held EXCEPT ![w] = to]
    /\ UNCHANGED <<settings, jar, import, staged>>

ImportStep(i) ==
    \/ LookUpWork(i) \/ FetchPlain(i) \/ FetchProxied(i) \/ AskUnpaywall(i) \/ FetchOpenCopy(i)
    \/ GiveUpImport(i) \/ Stage(i) \/ IngestStaged(i) \/ Unstage(i) \/ Discard(i)

ImportNext ==
    \/ \E i \in Imports : Post(i) \/ ImportStep(i) \/ CutImport(i)
    \/ SetCookie
    \/ \E w \in Works : Curate(w)

ImportSpec == ImportInit /\ [][ImportNext]_importVars

----------------------------------------------------------------------------
(* Properties.                                                             *)

ImportTypeOK ==
    /\ proxied \in BOOLEAN /\ contact \in BOOLEAN /\ jar \in BOOLEAN
    /\ held \in [Works -> {"absent", "live", "trashed"}]
    /\ staged \subseteq Imports /\ elsewhere \in 0 .. MaxElsewhere
    /\ \A i \in Imports :
         /\ import[i].src \in Works \cup {"none"} /\ import[i].hops < MAX_HOPS
         /\ import[i].asked \subseteq {"arxiv", "proxy", "unpaywall"}

\* The session cookie of the library's proxy is shown to that proxy's hosts
\* only, whatever chain of redirects an import is led along.
CookieStaysHome ==
    \A i \in Imports : import[i].shown \subseteq {"proxy", "subdomain"}

\* What an import explains is so.  A paper is given up only after every way open
\* to it was tried, those after a proxy that failed included; and a fresh cookie
\* is asked for only of who went to the proxy and was shown a page there.
ExplainsTruly ==
    \A i \in Imports :
      LET r == import[i] IN
      r.at = "answered" =>
        /\ r.answer \in {"expired", "unfetched"} =>
             /\ ByProxy(r) => "proxy" \in r.asked
             /\ IsDoi(r.src) /\ contact => "unpaywall" \in r.asked
             /\ r.src = "arxiv" => "arxiv" \in r.asked
        /\ r.answer = "expired" => r.expired /\ "proxy" \in r.asked

\* A copy stays in the staging directory only while its import runs, unless the
\* request was cut short, the disk was full, or its removal was refused.
StagedOnlyWhileRunning ==
    \A i \in staged :
      \/ import[i].at \in {"ingest", "unstage", "discard", "cut"}
      \/ import[i].answer = "disk_full" \/ import[i].refused

\* An import explains itself truly, and leaves neither cookie nor copy behind.
ImportsHold == CookieStaysHome /\ ExplainsTruly /\ StagedOnlyWhileRunning
=============================================================================
