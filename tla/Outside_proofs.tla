--------------------------- MODULE Outside_proofs ---------------------------
(***************************************************************************)
(* Proofs about the dealings with what is outside the library: imports,    *)
(* the model asked for a bibliography, requests to models, translators and *)
(* embedders, what the engines find, and the metadata the services give,   *)
(* for every set of works, readers, texts, corpora, services, policies and *)
(* bounds.  A component has an inductive invariant of its own, for none    *)
(* reads the state of another: ImportInv, RefInv, RequestsInv, QueryInv    *)
(* and ResolvingInv.                                                       *)
(***************************************************************************)
EXTENDS Importing, References, Requests, Querying, Resolving,
        FiniteSetTheorems, SequenceTheorems, WellFoundedInduction, TLAPS

----------------------------------------------------------------------------
(* Imports: what a request knows at each of its steps.                     *)

ImportStates == {"new", "known", "plain", "proxy", "unpaywall", "open_copy", "give_up", "stage",
                 "ingest", "unstage", "discard", "answered", "cut"}

IsImport(q) ==
    q \in [at : {q.at}, src : {q.src}, cookie : {q.cookie}, host : {q.host}, hops : {q.hops},
           asked : {q.asked}, shown : {q.shown}, expired : {q.expired}, answer : {q.answer},
           refused : {q.refused}]

\* It was at the proxy it had a cookie for, at arXiv for what is arXiv's.
WentByProxy(r) == ByProxy(r) => "proxy" \in r.asked
WentToArxiv(r) == r.src = "arxiv" => "arxiv" \in r.asked
WentToUnpaywall(r) == IsDoi(r.src) /\ contact => "unpaywall" \in r.asked
Tried(r) == WentByProxy(r) /\ WentToArxiv(r) /\ WentToUnpaywall(r)

ImportShape(r) ==
    /\ IsImport(r) /\ r.at \in ImportStates
    /\ r.src \in Works \cup {"none"} /\ (r.src = "none" => r.at \in Ended)
    /\ r.hops \in 0 .. MAX_HOPS - 1
    /\ r.asked \subseteq {"arxiv", "proxy", "unpaywall"}

\* What holds of a request, by the step it is at.
ImportOK(r) ==
    /\ ImportShape(r)
    /\ r.shown \subseteq {"proxy", "subdomain"}
    /\ r.expired => "proxy" \in r.asked
    /\ r.at = "plain" => r.src = "arxiv"
    /\ r.at = "proxy" => r.src # "arxiv" /\ r.host \in {"proxy", "subdomain"}
    /\ r.at \in {"unpaywall", "open_copy"} => WentByProxy(r) /\ r.src # "arxiv"
    /\ r.at = "open_copy" => "unpaywall" \in r.asked
    /\ r.at = "give_up" => Tried(r)
    /\ r.at \notin {"answered", "unstage", "discard", "cut"} => r.answer = "none"
    /\ r.at \in {"unstage", "discard"} => r.answer \notin {"expired", "unfetched"}
    /\ r.at = "answered" =>
         /\ r.answer \in {"expired", "unfetched"} => Tried(r)
         /\ r.answer = "expired" => r.expired

\* A copy in the staging directory is that of a request that is to remove it,
\* never came to, or could not.
Owned(i) ==
    \/ import[i].at \in {"ingest", "unstage", "discard", "cut"}
    \/ import[i].at = "answered" /\ (import[i].answer = "disk_full" \/ import[i].refused)

ImportInv ==
    /\ proxied \in BOOLEAN /\ contact \in BOOLEAN /\ jar \in BOOLEAN
    /\ held \in [Works -> {"absent", "live", "trashed"}]
    /\ staged \subseteq Imports /\ elsewhere \in 0 .. MaxElsewhere
    /\ DOMAIN import = Imports /\ import = [i \in Imports |-> import[i]]
    /\ \A i \in Imports : ImportOK(import[i])
    /\ \A i \in staged : Owned(i)

LEMMA ImportInvInit == ImportInit => ImportInv
<1> SUFFICES ASSUME ImportInit
             PROVE  ImportInv
  OBVIOUS
<1>1. ImportOK(NoRequest)
  BY ImportingAssumption
     DEF ImportOK, ImportShape, IsImport, NoRequest, ImportStates, Ended, Tried, WentByProxy
<1>2. \A i \in Imports : import[i] = NoRequest
  BY DEF ImportInit
<1> QED
  BY <1>1, <1>2, ImportingAssumption DEF ImportInit, ImportInv

\* One request changes, to what `q` is, and the copies with it.
LEMMA OneImport ==
    ASSUME ImportInv, NEW i \in Imports, NEW q,
           import' = [import EXCEPT ![i] = q], ImportOK(q), UNCHANGED <<settings, jar, elsewhere>>,
           held' \in [Works -> {"absent", "live", "trashed"}],
           staged' \subseteq staged \cup {i},
           i \in staged' => \/ q.at \in {"ingest", "unstage", "discard", "cut"}
                            \/ q.at = "answered" /\ (q.answer = "disk_full" \/ q.refused)
    PROVE  ImportInv'
<1>1. /\ proxied' = proxied /\ contact' = contact /\ jar' = jar /\ elsewhere' = elsewhere
  BY DEF settings
<1>3. /\ DOMAIN import' = Imports /\ import'[i] = q
      /\ \A j \in Imports \ {i} : import'[j] = import[j]
      /\ import' = [j \in Imports |-> import'[j]]
  BY DEF ImportInv
<1>4. ASSUME NEW j \in Imports
      PROVE  ImportOK(import[j])'
  <2>1. PICK p : p = import'[j] /\ ImportOK(p)
    BY <1>3 DEF ImportInv
  <2> QED
    BY <1>1, <2>1
       DEF ImportOK, ImportShape, IsImport, Tried, WentByProxy, WentToArxiv, WentToUnpaywall,
           ByProxy, IsDoi, Ended
<1>5. \A j \in staged' : Owned(j)'
  BY <1>3 DEF Owned, ImportInv
<1> QED
  BY <1>1, <1>3, <1>4, <1>5 DEF ImportInv

\* What is known of a request that is not at its end.
LEMMA RunningFacts ==
    ASSUME ImportInv, NEW i \in Imports
    PROVE  /\ IsImport(import[i]) /\ import[i].src \in Works \cup {"none"}
           /\ import[i].hops \in 0 .. MAX_HOPS - 1
           /\ import[i].asked \subseteq {"arxiv", "proxy", "unpaywall"}
           /\ import[i].shown \subseteq {"proxy", "subdomain"}
           /\ import[i].expired => "proxy" \in import[i].asked
           /\ import[i].at \notin Ended => import[i].src # "none"
           /\ import[i].at \notin {"answered", "unstage", "discard", "cut"} =>
                /\ import[i].answer = "none"
                /\ i \in staged => import[i].at = "ingest"
           /\ DOMAIN import = Imports /\ held \in [Works -> {"absent", "live", "trashed"}]
  BY DEF ImportInv, ImportOK, ImportShape, Owned

LEMMA PostKeeps ==
    ASSUME ImportInv, NEW i \in Imports, Post(i)
    PROVE  ImportInv'
<1>1. PICK shown \in Inputs :
        LET src == ParseSource(shown)
            r == [NoRequest EXCEPT !.src = src, !.cookie = jar]
        IN  import' = [import EXCEPT ![i] =
                CASE src = "none" -> [r EXCEPT !.at = "answered", !.answer = "unsupported"]
                  [] src = "file" -> [r EXCEPT !.at = "stage"]
                  [] OTHER -> [r EXCEPT !.at = "known"]]
  BY DEF Post
<1> DEFINE src == ParseSource(shown)
           r == [NoRequest EXCEPT !.src = src, !.cookie = jar]
<1>2. src \in Works \cup {"none"}
  BY DEF ParseSource, Works
<1>3. /\ IsImport(r) /\ r.src = src /\ r.host = "none" /\ r.hops = 0 /\ r.at = "new"
      /\ r.asked = {} /\ r.shown = {} /\ r.expired = FALSE /\ r.answer = "none"
  BY DEF IsImport, NoRequest
<1>4. import[i].at = "new" /\ UNCHANGED <<settings, jar, held, staged, elsewhere>>
  BY DEF Post
<1> HIDE DEF src
<1>5. CASE src = "none"
  <2> DEFINE q == [r EXCEPT !.at = "answered", !.answer = "unsupported"]
  <2>1. import' = [import EXCEPT ![i] = q]
    BY <1>1, <1>5 DEF src
  <2> HIDE DEF r
  <2>2. /\ IsImport(q) /\ q.src = r.src /\ q.hops = 0 /\ q.at = "answered" /\ q.asked = {}
        /\ q.shown = {} /\ q.expired = FALSE /\ q.answer = "unsupported"
    BY <1>3 DEF IsImport
  <2> HIDE DEF q
  <2>3. ImportOK(q)
    BY <1>2, <1>3, <2>2, ImportingAssumption DEF ImportOK, ImportShape, ImportStates, Ended
  <2> QED
    BY <1>4, <2>1, <2>2, <2>3, OneImport, RunningFacts
<1>6. ASSUME src # "none", NEW to \in {"stage", "known"},
             import' = [import EXCEPT ![i] = [r EXCEPT !.at = to]]
      PROVE  ImportInv'
  <2> DEFINE q == [r EXCEPT !.at = to]
  <2>1. import' = [import EXCEPT ![i] = q]
    BY <1>6
  <2> HIDE DEF r
  <2>2. /\ IsImport(q) /\ q.src = r.src /\ q.hops = 0 /\ q.at = to /\ q.asked = {}
        /\ q.shown = {} /\ q.expired = FALSE /\ q.answer = "none"
    BY <1>3 DEF IsImport
  <2> HIDE DEF q
  <2>3. ImportOK(q)
    BY <1>2, <1>3, <1>6, <2>2, ImportingAssumption DEF ImportOK, ImportShape, ImportStates, Ended
  <2> QED
    BY <1>4, <2>1, <2>2, <2>3, OneImport, RunningFacts
<1>7. src # "none" => \/ import' = [import EXCEPT ![i] = [r EXCEPT !.at = "stage"]]
                      \/ import' = [import EXCEPT ![i] = [r EXCEPT !.at = "known"]]
  BY <1>1 DEF src
<1> QED
  BY <1>5, <1>6, <1>7

\* A step that takes a request to `at`, with what it asked, and no word.
LEMMA OnTo ==
    ASSUME ImportInv, NEW i \in Imports, NEW q, import' = [import EXCEPT ![i] = q],
           UNCHANGED <<settings, jar, held, staged, elsewhere>>,
           import[i].at \in {"known", "plain", "proxy", "unpaywall", "open_copy"},
           IsImport(q), q.at \in {"plain", "proxy", "unpaywall", "open_copy", "give_up", "stage"},
           q.src = import[i].src, q.hops \in 0 .. MAX_HOPS - 1, q.cookie = import[i].cookie,
           import[i].asked \subseteq q.asked, q.asked \subseteq {"arxiv", "proxy", "unpaywall"},
           q.shown \subseteq {"proxy", "subdomain"},
           q.expired => "proxy" \in q.asked, q.answer = "none",
           q.at = "plain" => q.src = "arxiv",
           q.at = "proxy" => q.src # "arxiv" /\ q.host \in {"proxy", "subdomain"},
           q.at \in {"unpaywall", "open_copy"} => WentByProxy(q) /\ q.src # "arxiv",
           q.at = "open_copy" => "unpaywall" \in q.asked,
           q.at = "give_up" => Tried(q)
    PROVE  ImportInv'
<1>1. ImportOK(q)
  BY RunningFacts DEF ImportOK, ImportShape, ImportStates, Ended
<1>2. i \notin staged
  BY RunningFacts
<1> QED
  BY <1>1, <1>2, OneImport, RunningFacts

\* A request that is answered, of what it asked.
LEMMA Answers ==
    ASSUME ImportInv, NEW i \in Imports, NEW q, import' = [import EXCEPT ![i] = q],
           UNCHANGED <<settings, jar, held, elsewhere>>,
           import[i].at \notin {"answered", "unstage", "discard", "cut", "ingest"},
           IsImport(q), q.at = "answered",
           q.src = import[i].src, q.hops = import[i].hops, q.cookie = import[i].cookie,
           q.asked \subseteq {"arxiv", "proxy", "unpaywall"}, import[i].asked \subseteq q.asked,
           q.shown = import[i].shown, q.expired = import[i].expired,
           q.answer \in {"expired", "unfetched"} => Tried(q),
           q.answer = "expired" => q.expired,
           staged' = staged \/ (staged' = staged \cup {i} /\ q.answer = "disk_full")
    PROVE  ImportInv'
<1>1. ImportOK(q)
  BY RunningFacts DEF ImportOK, ImportShape, ImportStates, Ended
<1>2. i \notin staged
  BY RunningFacts
<1> QED
  BY <1>1, <1>2, OneImport, RunningFacts

LEMMA LookUpWorkKeeps ==
    ASSUME ImportInv, NEW i \in Imports, LookUpWork(i)
    PROVE  ImportInv'
<1> DEFINE r == import[i]
<1>1. /\ IsImport(r) /\ r.at = "known" /\ r.src \in Works /\ r.answer = "none"
      /\ UNCHANGED <<settings, jar, held, staged, elsewhere>>
  BY RunningFacts DEF LookUpWork, Ended
<1>2. ASSUME NEW a \in {"in_trash", "same_work", "error"}, Answer(i, a)
      PROVE  ImportInv'
  <2> DEFINE q == [r EXCEPT !.at = "answered", !.answer = a]
  <2>1. import' = [import EXCEPT ![i] = q]
    BY <1>2, RunningFacts DEF Answer
  <2>2. /\ IsImport(q) /\ q.at = "answered" /\ q.src = r.src /\ q.hops = r.hops
        /\ q.cookie = r.cookie /\ q.asked = r.asked /\ q.shown = r.shown
        /\ q.expired = r.expired /\ q.answer = a
    BY <1>1 DEF IsImport
  <2> HIDE DEF q
  <2> QED
    BY <1>1, <1>2, <2>1, <2>2, Answers, RunningFacts
<1>3. ASSUME NEW to \in {"plain", "proxy", "unpaywall", "give_up"}, NEW host,
             import' = [import EXCEPT ![i].at = to, ![i].host = host],
             to = "plain" => r.src = "arxiv",
             to = "proxy" => r.src # "arxiv" /\ host = "proxy",
             to = "unpaywall" => ~ByProxy(r) /\ r.src # "arxiv",
             to = "give_up" => ~ByProxy(r) /\ r.src # "arxiv" /\ ~(IsDoi(r.src) /\ contact)
      PROVE  ImportInv'
  <2> DEFINE q == [r EXCEPT !.at = to, !.host = host]
  <2>1. import' = [import EXCEPT ![i] = q]
    BY <1>3, RunningFacts
  <2>2. /\ IsImport(q) /\ q.at = to /\ q.src = r.src /\ q.hops = r.hops /\ q.host = host
        /\ q.cookie = r.cookie /\ q.asked = r.asked /\ q.shown = r.shown
        /\ q.expired = r.expired /\ q.answer = "none"
    BY <1>1 DEF IsImport
  <2> HIDE DEF q
  <2>3. ByProxy(q) <=> ByProxy(r)
    BY <2>2 DEF ByProxy
  <2>4. /\ q.at \in {"unpaywall", "open_copy"} => WentByProxy(q) /\ q.src # "arxiv"
        /\ q.at = "give_up" => Tried(q)
    BY <1>3, <2>2, <2>3 DEF WentByProxy, Tried, WentToArxiv, WentToUnpaywall
  <2> QED
    BY <1>1, <1>3, <2>1, <2>2, <2>4, OnTo, RunningFacts
<1>4. ByProxy(r) => r.src # "arxiv"
  BY DEF ByProxy
<1>5. \/ \E a \in {"in_trash", "same_work", "error"} : Answer(i, a)
      \/ \E to \in {"plain", "proxy", "unpaywall", "give_up"}, host \in {"proxy", "none"} :
           /\ import' = [import EXCEPT ![i].at = to, ![i].host = host]
           /\ to = "plain" => r.src = "arxiv"
           /\ to = "proxy" => r.src # "arxiv" /\ host = "proxy"
           /\ to = "unpaywall" => ~ByProxy(r) /\ r.src # "arxiv"
           /\ to = "give_up" => ~ByProxy(r) /\ r.src # "arxiv" /\ ~(IsDoi(r.src) /\ contact)
  <2>1. CASE \/ Answer(i, "error")
             \/ Answer(i, IF held[r.src] = "trashed" THEN "in_trash" ELSE "same_work")
    BY <2>1
  <2>2. CASE import' = [import EXCEPT
                 ![i].at = CASE r.src = "arxiv" -> "plain"
                             [] ByProxy(r) -> "proxy"
                             [] OTHER -> AfterProxy(r),
                 ![i].host = IF ByProxy(r) THEN "proxy" ELSE "none"]
    <3> DEFINE to == CASE r.src = "arxiv" -> "plain"
                       [] ByProxy(r) -> "proxy"
                       [] OTHER -> AfterProxy(r)
               host == IF ByProxy(r) THEN "proxy" ELSE "none"
    <3>1. import' = [import EXCEPT ![i].at = to, ![i].host = host]
      BY <2>2
    <3>2. /\ to \in {"plain", "proxy", "unpaywall", "give_up"} /\ host \in {"proxy", "none"}
          /\ to = "plain" => r.src = "arxiv"
          /\ to = "proxy" => r.src # "arxiv" /\ host = "proxy"
          /\ to = "unpaywall" => ~ByProxy(r) /\ r.src # "arxiv"
          /\ to = "give_up" => ~ByProxy(r) /\ r.src # "arxiv" /\ ~(IsDoi(r.src) /\ contact)
      BY <1>4 DEF AfterProxy
    <3> HIDE DEF to, host
    <3> QED
      BY <3>1, <3>2
  <2> QED
    BY <2>1, <2>2 DEF LookUpWork
<1> QED
  BY <1>2, <1>3, <1>5

LEMMA FetchPlainKeeps ==
    ASSUME ImportInv, NEW i \in Imports, FetchPlain(i)
    PROVE  ImportInv'
<1> DEFINE r == import[i]
<1>1. /\ IsImport(r) /\ r.at = "plain" /\ r.src = "arxiv" /\ r.answer = "none" /\ ~ByProxy(r)
      /\ r.asked \cup {"arxiv"} \subseteq {"arxiv", "proxy", "unpaywall"} /\ ~IsDoi(r.src)
      /\ UNCHANGED <<settings, jar, held, staged, elsewhere>>
  BY RunningFacts DEF FetchPlain, ImportInv, ImportOK, ByProxy, IsDoi
<1>2. ASSUME NEW to \in {"stage", "give_up"},
             import' = [import EXCEPT ![i].at = to, ![i].asked = @ \cup {"arxiv"}]
      PROVE  ImportInv'
  <2> DEFINE q == [r EXCEPT !.at = to, !.asked = r.asked \cup {"arxiv"}]
  <2>1. import' = [import EXCEPT ![i] = q]
    BY <1>2, RunningFacts
  <2>2. /\ IsImport(q) /\ q.at = to /\ q.src = r.src /\ q.hops = r.hops
        /\ q.cookie = r.cookie /\ q.asked = r.asked \cup {"arxiv"} /\ q.shown = r.shown
        /\ q.expired = r.expired /\ q.answer = "none"
    BY <1>1 DEF IsImport
  <2> HIDE DEF q
  <2>3. Tried(q)
    BY <1>1, <2>2 DEF Tried, WentByProxy, WentToArxiv, WentToUnpaywall, ByProxy
  <2> QED
    BY <1>1, <2>1, <2>2, <2>3, OnTo, RunningFacts
<1>3. ASSUME import' = [import EXCEPT ![i].at = "answered", ![i].answer = "network",
                                      ![i].asked = @ \cup {"arxiv"}]
      PROVE  ImportInv'
  <2> DEFINE q == [r EXCEPT !.at = "answered", !.answer = "network",
                            !.asked = r.asked \cup {"arxiv"}]
  <2>1. import' = [import EXCEPT ![i] = q]
    BY <1>3, RunningFacts
  <2>2. /\ IsImport(q) /\ q.at = "answered" /\ q.src = r.src /\ q.hops = r.hops
        /\ q.cookie = r.cookie /\ q.asked = r.asked \cup {"arxiv"} /\ q.shown = r.shown
        /\ q.expired = r.expired /\ q.answer = "network"
    BY <1>1 DEF IsImport
  <2> HIDE DEF q
  <2> QED
    BY <1>1, <2>1, <2>2, Answers, RunningFacts
<1> QED
  BY <1>2, <1>3 DEF FetchPlain

LEMMA AskUnpaywallKeeps ==
    ASSUME ImportInv, NEW i \in Imports, AskUnpaywall(i)
    PROVE  ImportInv'
<1> DEFINE r == import[i]
<1>1. PICK to \in {"open_copy", "give_up"} :
        import' = [import EXCEPT ![i].at = to, ![i].asked = @ \cup {"unpaywall"}]
  BY DEF AskUnpaywall
<1>2. /\ IsImport(r) /\ r.at = "unpaywall" /\ r.src # "arxiv" /\ r.answer = "none"
      /\ r.asked \cup {"unpaywall"} \subseteq {"arxiv", "proxy", "unpaywall"} /\ WentByProxy(r)
      /\ UNCHANGED <<settings, jar, held, staged, elsewhere>>
  BY RunningFacts DEF AskUnpaywall, ImportInv, ImportOK
<1> DEFINE q == [r EXCEPT !.at = to, !.asked = r.asked \cup {"unpaywall"}]
<1>3. import' = [import EXCEPT ![i] = q]
  BY <1>1, RunningFacts
<1>4. /\ IsImport(q) /\ q.at = to /\ q.src = r.src /\ q.hops = r.hops
      /\ q.cookie = r.cookie /\ q.asked = r.asked \cup {"unpaywall"} /\ q.shown = r.shown
      /\ q.expired = r.expired /\ q.answer = "none"
  BY <1>2 DEF IsImport
<1> HIDE DEF q
<1>5. WentByProxy(q) /\ Tried(q)
  BY <1>2, <1>4 DEF Tried, WentByProxy, WentToArxiv, WentToUnpaywall, ByProxy
<1> QED
  BY <1>2, <1>3, <1>4, <1>5, OnTo, RunningFacts

LEMMA FetchOpenCopyKeeps ==
    ASSUME ImportInv, NEW i \in Imports, FetchOpenCopy(i)
    PROVE  ImportInv'
<1> DEFINE r == import[i]
<1>1. PICK to \in {"stage", "give_up"} : Step(i, to)
  BY DEF FetchOpenCopy
<1>2. /\ IsImport(r) /\ r.at = "open_copy" /\ r.src # "arxiv" /\ r.answer = "none"
      /\ "unpaywall" \in r.asked /\ WentByProxy(r)
      /\ UNCHANGED <<settings, jar, held, staged, elsewhere>>
  BY RunningFacts DEF FetchOpenCopy, ImportInv, ImportOK
<1> DEFINE q == [r EXCEPT !.at = to]
<1>3. import' = [import EXCEPT ![i] = q]
  BY <1>1, RunningFacts DEF Step
<1>4. /\ IsImport(q) /\ q.at = to /\ q.src = r.src /\ q.hops = r.hops
      /\ q.cookie = r.cookie /\ q.asked = r.asked /\ q.shown = r.shown
      /\ q.expired = r.expired /\ q.answer = "none"
  BY <1>2 DEF IsImport
<1> HIDE DEF q
<1>5. Tried(q)
  BY <1>2, <1>4 DEF Tried, WentByProxy, WentToArxiv, WentToUnpaywall, ByProxy
<1> QED
  BY <1>2, <1>3, <1>4, <1>5, OnTo, RunningFacts

LEMMA GiveUpImportKeeps ==
    ASSUME ImportInv, NEW i \in Imports, GiveUpImport(i)
    PROVE  ImportInv'
<1> DEFINE r == import[i]
           a == Explanation(r)
           q == [r EXCEPT !.at = "answered", !.answer = a]
<1>1. /\ IsImport(r) /\ r.at = "give_up" /\ Tried(r)
      /\ UNCHANGED <<settings, jar, held, staged, elsewhere>>
  BY RunningFacts DEF GiveUpImport, ImportInv, ImportOK
<1>2. import' = [import EXCEPT ![i] = q]
  BY RunningFacts DEF GiveUpImport, Answer
<1>3. a = "expired" => r.expired
  BY DEF Explanation
<1> HIDE DEF a
<1>4. /\ IsImport(q) /\ q.at = "answered" /\ q.src = r.src /\ q.hops = r.hops
      /\ q.cookie = r.cookie /\ q.asked = r.asked /\ q.shown = r.shown
      /\ q.expired = r.expired /\ q.answer = a
  BY <1>1 DEF IsImport
<1> HIDE DEF q
<1>5. Tried(q)
  BY <1>1, <1>4 DEF Tried, WentByProxy, WentToArxiv, WentToUnpaywall, ByProxy
<1> QED
  BY <1>1, <1>2, <1>3, <1>4, <1>5, Answers, RunningFacts

\* A turn of the proxy's loop: whatever comes back, the proxy was asked.
LEMMA FetchProxiedKeeps ==
    ASSUME ImportInv, NEW i \in Imports, FetchProxied(i)
    PROVE  ImportInv'
<1> DEFINE p == import[i]
           r == [p EXCEPT !.asked = @ \cup {"proxy"}, !.shown = @ \cup {p.host}]
           gone == [r EXCEPT !.at = AfterProxy(r)]
<1>1. /\ IsImport(p) /\ p.at = "proxy" /\ p.src # "arxiv" /\ p.host \in {"proxy", "subdomain"}
      /\ p.answer = "none" /\ p.shown \cup {p.host} \subseteq {"proxy", "subdomain"}
      /\ p.asked \cup {"proxy"} \subseteq {"arxiv", "proxy", "unpaywall"}
      /\ p.hops \in 0 .. MAX_HOPS - 1
      /\ UNCHANGED <<settings, jar, held, staged, elsewhere>>
  BY RunningFacts DEF FetchProxied, ImportInv, ImportOK
<1>2. /\ IsImport(r) /\ r.at = p.at /\ r.src = p.src /\ r.hops = p.hops /\ r.host = p.host
      /\ r.cookie = p.cookie /\ r.asked = p.asked \cup {"proxy"} /\ r.shown = p.shown \cup {p.host}
      /\ r.expired = p.expired /\ r.answer = "none"
  BY <1>1 DEF IsImport
<1>3. \/ import' = [import EXCEPT ![i] = [r EXCEPT !.at = "stage"]]
      \/ import' = [import EXCEPT ![i] = [gone EXCEPT !.expired = TRUE]]
      \/ import' = [import EXCEPT ![i] = gone]
      \/ \E host \in {"proxy", "subdomain"} :
           /\ p.hops + 1 # MAX_HOPS
           /\ import' = [import EXCEPT ![i] = [r EXCEPT !.host = host, !.hops = @ + 1]]
  <2>1. r.hops = p.hops
    BY <1>2
  <2> HIDE DEF r
  <2> QED
    BY <2>1 DEF FetchProxied, HostAllowed, r
<1> HIDE DEF r
<1>4. /\ IsImport(gone) /\ gone.at = AfterProxy(r) /\ gone.src = r.src /\ gone.hops = r.hops
      /\ gone.cookie = r.cookie /\ gone.asked = r.asked /\ gone.shown = r.shown
      /\ gone.expired = r.expired /\ gone.answer = "none"
  BY <1>2 DEF IsImport
<1>5. /\ AfterProxy(r) \in {"unpaywall", "give_up"}
      /\ AfterProxy(r) = "give_up" => ~(IsDoi(r.src) /\ contact)
  BY DEF AfterProxy
<1> HIDE DEF gone
<1>6. CASE import' = [import EXCEPT ![i] = [r EXCEPT !.at = "stage"]]
  <2> DEFINE q == [r EXCEPT !.at = "stage"]
  <2>1. import' = [import EXCEPT ![i] = q]
    BY <1>6
  <2>2. /\ IsImport(q) /\ q.at = "stage" /\ q.src = r.src /\ q.hops = r.hops
        /\ q.cookie = r.cookie /\ q.asked = r.asked /\ q.shown = r.shown
        /\ q.expired = r.expired /\ q.answer = "none"
    BY <1>2 DEF IsImport
  <2> HIDE DEF q
  <2> QED
    BY <1>1, <1>2, <2>1, <2>2, OnTo
<1>7. ASSUME NEW q, import' = [import EXCEPT ![i] = q], IsImport(q),
             q.at = gone.at, q.src = gone.src, q.hops = gone.hops, q.cookie = gone.cookie,
             q.asked = gone.asked, q.shown = gone.shown, q.answer = "none"
      PROVE  ImportInv'
  <2>1. WentByProxy(q) /\ (q.at = "give_up" => Tried(q))
    BY <1>1, <1>2, <1>4, <1>5, <1>7 DEF Tried, WentByProxy, WentToArxiv, WentToUnpaywall, ByProxy
  <2> QED
    BY <1>1, <1>2, <1>4, <1>5, <1>7, <2>1, OnTo, ZenonT(30)
<1>8. CASE import' = [import EXCEPT ![i] = [gone EXCEPT !.expired = TRUE]]
  <2> DEFINE q == [gone EXCEPT !.expired = TRUE]
  <2>1. import' = [import EXCEPT ![i] = q]
    BY <1>8
  <2>2. /\ IsImport(q) /\ q.at = gone.at /\ q.src = gone.src /\ q.hops = gone.hops
        /\ q.cookie = gone.cookie /\ q.asked = gone.asked /\ q.shown = gone.shown
        /\ q.answer = "none"
    BY <1>4 DEF IsImport
  <2> HIDE DEF q
  <2> QED
    BY <1>7, <2>1, <2>2
<1>9. CASE import' = [import EXCEPT ![i] = gone]
  BY <1>4, <1>7, <1>9
<1>10. ASSUME NEW host \in {"proxy", "subdomain"}, p.hops + 1 # MAX_HOPS,
              import' = [import EXCEPT ![i] = [r EXCEPT !.host = host, !.hops = @ + 1]]
       PROVE  ImportInv'
  <2> DEFINE n == r.hops + 1
             q == [r EXCEPT !.host = host, !.hops = n]
  <2>1. import' = [import EXCEPT ![i] = q]
    BY <1>2, <1>10
  <2>2. n \in 0 .. MAX_HOPS - 1
    BY <1>1, <1>2, <1>10, ImportingAssumption
  <2> HIDE DEF n
  <2>3. /\ IsImport(q) /\ q.at = "proxy" /\ q.src = r.src /\ q.hops = n /\ q.host = host
        /\ q.cookie = r.cookie /\ q.asked = r.asked /\ q.shown = r.shown
        /\ q.expired = r.expired /\ q.answer = "none"
    BY <1>1, <1>2 DEF IsImport
  <2> HIDE DEF q
  <2> QED
    BY <1>1, <1>2, <2>1, <2>2, <2>3, OnTo
<1> QED
  BY <1>3, <1>6, <1>8, <1>9, <1>10

LEMMA StageKeeps ==
    ASSUME ImportInv, NEW i \in Imports, Stage(i)
    PROVE  ImportInv'
<1> DEFINE r == import[i]
<1>1. IsImport(r) /\ r.at = "stage" /\ UNCHANGED <<settings, jar, held, elsewhere>>
  BY RunningFacts DEF Stage
<1>2. CASE Step(i, "ingest") /\ staged' = staged \cup {i}
  <2> DEFINE q == [r EXCEPT !.at = "ingest"]
  <2>1. import' = [import EXCEPT ![i] = q]
    BY <1>2, RunningFacts DEF Step
  <2>2. /\ IsImport(q) /\ q.at = "ingest" /\ q.src = r.src /\ q.hops = r.hops
        /\ q.asked = r.asked /\ q.shown = r.shown
        /\ q.expired = r.expired /\ q.answer = r.answer
    BY <1>1 DEF IsImport
  <2> HIDE DEF q
  <2>3. ImportOK(q)
    BY <1>1, <2>2, RunningFacts DEF ImportOK, ImportShape, ImportStates, Ended
  <2> QED
    BY <1>1, <1>2, <2>1, <2>2, <2>3, OneImport, RunningFacts
<1>3. CASE Answer(i, "disk_full") /\ staged' \in {staged, staged \cup {i}}
  <2> DEFINE q == [r EXCEPT !.at = "answered", !.answer = "disk_full"]
  <2>1. import' = [import EXCEPT ![i] = q]
    BY <1>3, RunningFacts DEF Answer
  <2>2. /\ IsImport(q) /\ q.at = "answered" /\ q.src = r.src /\ q.hops = r.hops
        /\ q.cookie = r.cookie /\ q.asked = r.asked /\ q.shown = r.shown
        /\ q.expired = r.expired /\ q.answer = "disk_full"
    BY <1>1 DEF IsImport
  <2> HIDE DEF q
  <2> QED
    BY <1>1, <1>3, <2>1, <2>2, Answers, RunningFacts
<1> QED
  BY <1>2, <1>3 DEF Stage

LEMMA IngestStagedKeeps ==
    ASSUME ImportInv, NEW i \in Imports, IngestStaged(i)
    PROVE  ImportInv'
<1> DEFINE r == import[i]
<1>1. /\ IsImport(r) /\ r.at = "ingest" /\ UNCHANGED <<settings, jar, staged, elsewhere>>
      /\ r.src \in Works /\ held \in [Works -> {"absent", "live", "trashed"}]
  BY RunningFacts DEF IngestStaged, Ended
<1>2. PICK to \in {"discard", "unstage"}, a \in {"ingested", "same_work", "in_trash", "error"} :
        import' = [import EXCEPT ![i].at = to, ![i].answer = a]
  <2>1. held[r.src] \in {"absent", "live", "trashed"}
    BY <1>1
  <2> QED
    BY <2>1 DEF IngestStaged
<1>3. held' \in [Works -> {"absent", "live", "trashed"}]
  <2>1. CASE held' = held
    BY <1>1, <2>1
  <2>2. CASE held' = [held EXCEPT ![r.src] = IF @ = "absent" THEN "live" ELSE @]
    BY <1>1, <2>2
  <2> QED
    BY <2>1, <2>2 DEF IngestStaged
<1> DEFINE q == [r EXCEPT !.at = to, !.answer = a]
<1>4. import' = [import EXCEPT ![i] = q]
  BY <1>2, RunningFacts
<1>5. /\ IsImport(q) /\ q.at = to /\ q.src = r.src /\ q.hops = r.hops
      /\ q.asked = r.asked /\ q.shown = r.shown /\ q.expired = r.expired /\ q.answer = a
  BY <1>1 DEF IsImport
<1> HIDE DEF q
<1>6. ImportOK(q)
  BY <1>1, <1>5, RunningFacts DEF ImportOK, ImportShape, ImportStates, Ended
<1> QED
  BY <1>1, <1>3, <1>4, <1>5, <1>6, OneImport

\* The end of an ingest, and the end of a request that is cut short.
LEMMA EndKeeps ==
    ASSUME ImportInv, NEW i \in Imports, Unstage(i) \/ Discard(i) \/ CutImport(i)
    PROVE  ImportInv'
<1> DEFINE r == import[i]
<1>1. \/ \E to \in {"answered", "cut"} :
           /\ Step(i, to)
           /\ to = "answered" => staged' = staged \ {i} /\ r.at \in {"unstage", "discard"}
           /\ to = "cut" => staged' = staged
      \/ /\ import' = [import EXCEPT ![i].at = "answered", ![i].refused = TRUE]
         /\ r.at = "unstage" /\ staged' = staged
      \/ /\ import' = [import EXCEPT ![i].at = "unstage", ![i].answer = "error"]
         /\ r.at = "discard" /\ staged' = staged
  BY DEF Unstage, Discard, CutImport
<1>2. IsImport(r) /\ UNCHANGED <<settings, jar, held, elsewhere>>
  BY RunningFacts DEF Unstage, Discard, CutImport
<1>3. held' \in [Works -> {"absent", "live", "trashed"}]
  BY <1>2, RunningFacts
<1>4. ASSUME NEW to \in {"answered", "cut"}, Step(i, to),
             to = "answered" => staged' = staged \ {i} /\ r.at \in {"unstage", "discard"},
             to = "cut" => staged' = staged
      PROVE  ImportInv'
  <2> DEFINE q == [r EXCEPT !.at = to]
  <2>1. import' = [import EXCEPT ![i] = q]
    BY <1>4, RunningFacts DEF Step
  <2>2. /\ IsImport(q) /\ q.at = to /\ q.src = r.src /\ q.hops = r.hops
        /\ q.asked = r.asked /\ q.shown = r.shown /\ q.expired = r.expired /\ q.answer = r.answer
    BY <1>2 DEF IsImport
  <2> HIDE DEF q
  <2>3. to = "answered" => r.answer \notin {"expired", "unfetched"}
    BY <1>4 DEF ImportInv, ImportOK
  <2>4. ImportOK(q)
    BY <1>4, <2>2, <2>3, RunningFacts DEF ImportOK, ImportShape, ImportStates, Ended
  <2> QED
    BY <1>2, <1>3, <1>4, <2>1, <2>2, <2>4, OneImport
<1>5. ASSUME import' = [import EXCEPT ![i].at = "answered", ![i].refused = TRUE],
             r.at = "unstage", staged' = staged
      PROVE  ImportInv'
  <2> DEFINE q == [r EXCEPT !.at = "answered", !.refused = TRUE]
  <2>1. import' = [import EXCEPT ![i] = q]
    BY <1>5, RunningFacts
  <2>2. /\ IsImport(q) /\ q.at = "answered" /\ q.src = r.src /\ q.hops = r.hops
        /\ q.asked = r.asked /\ q.shown = r.shown /\ q.expired = r.expired
        /\ q.answer = r.answer /\ q.refused = TRUE
    BY <1>2 DEF IsImport
  <2> HIDE DEF q
  <2>3. r.answer \notin {"expired", "unfetched"}
    BY <1>5 DEF ImportInv, ImportOK
  <2>4. ImportOK(q)
    BY <1>5, <2>2, <2>3, RunningFacts DEF ImportOK, ImportShape, ImportStates, Ended
  <2> QED
    BY <1>2, <1>3, <1>5, <2>1, <2>2, <2>4, OneImport
<1>6. ASSUME import' = [import EXCEPT ![i].at = "unstage", ![i].answer = "error"],
             r.at = "discard", staged' = staged
      PROVE  ImportInv'
  <2> DEFINE q == [r EXCEPT !.at = "unstage", !.answer = "error"]
  <2>1. import' = [import EXCEPT ![i] = q]
    BY <1>6, RunningFacts
  <2>2. /\ IsImport(q) /\ q.at = "unstage" /\ q.src = r.src /\ q.hops = r.hops
        /\ q.asked = r.asked /\ q.shown = r.shown /\ q.expired = r.expired
        /\ q.answer = "error"
    BY <1>2 DEF IsImport
  <2> HIDE DEF q
  <2>3. ImportOK(q)
    BY <1>6, <2>2, RunningFacts DEF ImportOK, ImportShape, ImportStates, Ended
  <2> QED
    BY <1>2, <1>3, <1>6, <2>1, <2>2, <2>3, OneImport
<1> QED
  BY <1>1, <1>4, <1>5, <1>6

\* What the user does elsewhere does not touch a request.
LEMMA ElsewhereKeeps ==
    ASSUME ImportInv, SetCookie \/ \E w \in Works : Curate(w)
    PROVE  ImportInv'
<1>1. UNCHANGED <<proxied, contact, import, staged>>
  BY DEF SetCookie, Curate, settings
<1>2. elsewhere' \in 0 .. MaxElsewhere
  BY ImportingAssumption DEF SetCookie, Curate, ImportInv
<1>3. held' \in [Works -> {"absent", "live", "trashed"}] /\ jar' \in BOOLEAN
  BY DEF SetCookie, Curate, ImportInv
<1>4. ASSUME NEW j \in Imports
      PROVE  ImportOK(import[j])'
  <2>1. ImportOK(import[j])
    BY DEF ImportInv
  <2> QED
    BY <1>1, <2>1
       DEF ImportOK, ImportShape, IsImport, Tried, WentByProxy, WentToArxiv, WentToUnpaywall,
           ByProxy, IsDoi, Ended
<1> QED
  BY <1>1, <1>2, <1>3, <1>4 DEF ImportInv, Owned

LEMMA ImportInvNext == ImportInv /\ [ImportNext]_importVars => ImportInv'
<1> SUFFICES ASSUME ImportInv, [ImportNext]_importVars
             PROVE  ImportInv'
  OBVIOUS
<1>1. ASSUME NEW i \in Imports, Post(i) \/ ImportStep(i) \/ CutImport(i)
      PROVE  ImportInv'
  BY <1>1, PostKeeps, LookUpWorkKeeps, FetchPlainKeeps, FetchProxiedKeeps, AskUnpaywallKeeps,
     FetchOpenCopyKeeps, GiveUpImportKeeps, StageKeeps, IngestStagedKeeps, EndKeeps DEF ImportStep
<1>2. CASE UNCHANGED importVars
  BY <1>2 DEF importVars, settings, ImportInv, Owned, ImportOK, ImportShape, IsImport, Tried,
              WentByProxy, WentToArxiv, WentToUnpaywall, ByProxy, IsDoi, Ended
<1> QED
  BY <1>1, <1>2, ElsewhereKeeps DEF ImportNext

LEMMA ImportInvHolds == ImportInv => ImportTypeOK /\ ImportsHold
<1> SUFFICES ASSUME ImportInv
             PROVE  ImportTypeOK /\ ImportsHold
  OBVIOUS
<1> USE DEF ImportInv, ImportOK, ImportShape
<1>1. ImportTypeOK
  BY ImportingAssumption DEF ImportTypeOK
<1>2. CookieStaysHome
  BY DEF CookieStaysHome
<1>3. ExplainsTruly
  BY DEF ExplainsTruly, Tried, WentByProxy, WentToArxiv, WentToUnpaywall
<1>4. StagedOnlyWhileRunning
  BY DEF StagedOnlyWhileRunning, Owned
<1> QED
  BY <1>1, <1>2, <1>3, <1>4 DEF ImportsHold

----------------------------------------------------------------------------
(* Citations: what a request for the references of a paper has in hand.    *)

\* A request is a record of these fields.
IsRequest(q) ==
    q \in [at : {q.at}, gate : {q.gate}, bib : {q.bib}, parsed : {q.parsed}, llm : {q.llm}]

RefShape ==
    /\ release \in Nat /\ model \in BOOLEAN /\ restarts \in 0 .. MaxReleases
    /\ stored.bib \in Bibs \cup {NoBib} /\ gates \in 0 .. Cardinality(Readers)
    /\ DOMAIN open = Readers /\ open = [r \in Readers |-> open[r]]
    /\ \A r \in Readers :
         /\ IsRequest(open[r]) /\ open[r].at \in {"closed", "queued"} \cup Inner
         /\ open[r].gate \in 0 .. Cardinality(Readers) /\ open[r].bib \in Bibs \cup {NoBib}
    /\ DOMAIN stored.parsed = DOMAIN stored.bib.entries

\* Whoever is at it holds the one gate of the paper, and one of them is inside.
OneGate ==
    /\ \A r \in Readers : open[r].at # "closed" => open[r].gate = gates /\ gates # 0
    /\ \A r, q \in Readers : open[r].at \in Inner /\ open[q].at \in Inner => r = q

\* A parse on its way to the row: nothing stale is in it; of the entries the row is
\* of, it has what came from the model, and the model was not yet asked about them.
OnItsWay ==
    \A r \in Readers : open[r].at \in {"ask", "upsert"} =>
        /\ DOMAIN open[r].parsed = DOMAIN open[r].bib.entries
        /\ \A i \in DOMAIN open[r].parsed : ~StaleHeuristic(open[r].parsed[i])
        /\ open[r].bib.entries = stored.bib.entries =>
             /\ settled = {}
             /\ \A i \in DOMAIN stored.parsed : stored.parsed[i].src \in {"llm", "unknown"} =>
                    open[r].parsed[i] = stored.parsed[i]

\* What is settled was settled by this release.
SettledNow ==
    settled # {} => /\ stored.gen = release /\ stored.llm
                    /\ \A i \in DOMAIN stored.parsed : ~StaleHeuristic(stored.parsed[i])

\* Every parse is beside its entry.
Beside ==
    /\ \A i \in DOMAIN stored.parsed : stored.parsed[i].of \in {0, i}
    /\ \A r \in Readers : \A i \in DOMAIN open[r].parsed : open[r].parsed[i].of \in {0, i}

RefInv == RefShape /\ OneGate /\ OnItsWay /\ SettledNow /\ Beside

LEMMA RefInvInit == RefInit => RefInv
<1> SUFFICES ASSUME RefInit
             PROVE  RefInv
  OBVIOUS
<1> USE ReferencesAssumption DEF RefInit, NoRow, NoBib, Closed, Cited, Unparsed
<1>1. Cardinality(Readers) \in Nat
  BY FS_CardinalityType
<1>2. /\ stored.bib \in Bibs \cup {NoBib} /\ DOMAIN stored.parsed = DOMAIN stored.bib.entries
      /\ \A i \in DOMAIN stored.parsed : stored.parsed[i].of \in {0, i}
  <2>1. CASE stored = NoRow
    BY <2>1
  <2>2. CASE stored # NoRow
    <3>1. PICK b \in Bibs : stored = [bib |-> b, llm |-> TRUE, gen |-> 0,
              parsed |-> [i \in DOMAIN b.entries |->
                             IF i = 1 THEN Cited("unknown", 0, 1) ELSE Unparsed]]
      BY <2>2
    <3>2. /\ stored.bib = b
          /\ stored.parsed = [i \in DOMAIN b.entries |->
                                 IF i = 1 THEN Cited("unknown", 0, 1) ELSE Unparsed]
      BY <3>1
    <3> QED
      BY <3>2
  <2> QED
    BY <2>1, <2>2
<1>3. \A r \in Readers : /\ open[r].at = "closed" /\ open[r].gate = 0 /\ open[r].bib = NoBib
                         /\ open[r].parsed = <<>> /\ open[r].llm = FALSE /\ IsRequest(open[r])
  BY DEF IsRequest
<1>4. RefShape
  BY <1>1, <1>2, <1>3 DEF RefShape
<1> QED
  BY <1>2, <1>3, <1>4 DEF RefInv, OneGate, OnItsWay, SettledNow, Beside, Inner

\* One request changes, to what `q` is.
Becomes(r, q) == open' = [open EXCEPT ![r] = q]

LEMMA GateAlone ==
    ASSUME RefShape, OneGate, NEW r \in Readers, open[r].at # "closed", Alone
    PROVE  \A s \in Readers \ {r} : open[s].at = "closed"
<1> SUFFICES ASSUME NEW s \in Readers \ {r}, open[s].at # "closed"
             PROVE  FALSE
  OBVIOUS
<1>1. r \in Holders /\ s \in Holders /\ IsFiniteSet(Holders)
  <2>1. Holders \subseteq Readers
    BY DEF Holders, Working
  <2> QED
    BY <2>1, ReferencesAssumption, FS_Subset DEF Holders, Working, OneGate
<1>2. Cardinality({r}) = 1 /\ IsFiniteSet({r})
  BY FS_Singleton
<1>3. Cardinality({r}) < Cardinality(Holders)
  <2>1. {r} \subseteq Holders /\ {r} # Holders
    BY <1>1
  <2>2. Cardinality({r}) <= Cardinality(Holders) /\ (Cardinality({r}) = Cardinality(Holders) => {r} = Holders)
    BY <1>1, <2>1, FS_Subset
  <2>3. Cardinality({r}) \in Nat /\ Cardinality(Holders) \in Nat
    BY <1>1, <1>2, FS_CardinalityType
  <2> QED
    BY <2>1, <2>2, <2>3
<1>4. Cardinality(Holders) \in Nat
  BY <1>1, FS_CardinalityType
<1> QED
  BY <1>2, <1>3, <1>4 DEF Alone

LEMMA SeededWell ==
    ASSUME NEW bib, NEW seed, seed = <<>> \/ DOMAIN seed = DOMAIN bib.entries,
           \A i \in DOMAIN seed : seed[i].of \in {0, i}
    PROVE  /\ DOMAIN Seeded(bib, seed) = DOMAIN bib.entries
           /\ \A i \in DOMAIN bib.entries : /\ ~StaleHeuristic(Seeded(bib, seed)[i])
                                            /\ Seeded(bib, seed)[i].of \in {0, i}
           /\ DOMAIN seed = DOMAIN bib.entries =>
                \A i \in DOMAIN seed : seed[i].src \in {"llm", "unknown"} =>
                    Seeded(bib, seed)[i] = seed[i]
<1> DEFINE fresh == ParseAll(bib)
<1>1. DOMAIN fresh = DOMAIN bib.entries
  BY DEF ParseAll
<1>2. \A i \in DOMAIN bib.entries : fresh[i] = Heuristic(release, i) \/ fresh[i] = Unparsed
  BY DEF ParseAll
<1>3. \A i \in DOMAIN bib.entries : ~StaleHeuristic(fresh[i]) /\ fresh[i].of \in {0, i}
  <2>1. \A i : /\ ~StaleHeuristic(Heuristic(release, i)) /\ Heuristic(release, i).of = i
               /\ ~StaleHeuristic(Unparsed) /\ Unparsed.of = 0
    BY DEF Heuristic, Unparsed, Cited, StaleHeuristic
  <2> QED
    BY <1>2, <2>1
<1>4. /\ DOMAIN Seeded(bib, seed) = DOMAIN fresh
      /\ \A i \in DOMAIN fresh : Seeded(bib, seed)[i] =
            IF seed # <<>> /\ seed[i].src # "null" /\ ~StaleHeuristic(seed[i]) THEN seed[i]
            ELSE fresh[i]
  BY DEF Seeded
<1> HIDE DEF fresh
<1>5. \A i \in DOMAIN seed : seed # <<>>
  OBVIOUS
<1>6. \A i \in DOMAIN seed : seed[i].src \in {"llm", "unknown"} => ~StaleHeuristic(seed[i])
  BY DEF StaleHeuristic
<1> QED
  BY <1>1, <1>3, <1>4, <1>5, <1>6

LEMMA PlacedWell ==
    ASSUME NEW parsed, NEW reply,
           \A i \in DOMAIN parsed : parsed[i].of \in {0, i} /\ ~StaleHeuristic(parsed[i])
    PROVE  /\ DOMAIN Placed(parsed, reply) = DOMAIN parsed
           /\ \A i \in DOMAIN parsed :
                /\ Placed(parsed, reply)[i].of \in {0, i} /\ ~StaleHeuristic(Placed(parsed, reply)[i])
                /\ parsed[i].src # "null" => Placed(parsed, reply)[i] = parsed[i]
<1>1. \A i : i \in Leftover(parsed) <=> i \in DOMAIN parsed /\ parsed[i].src = "null"
  BY DEF Leftover
<1> QED
  BY <1>1 DEF Placed, Cited, StaleHeuristic

\* A request that is not at the row, or no longer, takes nothing along that matters.
LEMMA Idles ==
    ASSUME RefInv, NEW r \in Readers, NEW q, IsRequest(q), Becomes(r, q),
           q.at \in {"closed", "queued", "read", "leave"},
           q.bib \in Bibs \cup {NoBib},
           \A i \in DOMAIN q.parsed : q.parsed[i].of \in {0, i},
           q.gate \in 0 .. Cardinality(Readers), gates' \in 0 .. Cardinality(Readers),
           q.at # "closed" => q.gate = gates' /\ gates' # 0,
           \A s \in Readers \ {r} : open[s].at # "closed" => gates' = gates,
           q.at \in Inner => \A s \in Readers \ {r} : open[s].at \notin Inner,
           UNCHANGED <<release, model, restarts, stored, settled>>
    PROVE  RefInv'
<1>1. /\ DOMAIN open' = Readers /\ open' = [s \in Readers |-> open'[s]]
      /\ open'[r] = q /\ \A s \in Readers \ {r} : open'[s] = open[s]
  BY DEF Becomes, RefInv, RefShape
<1>2. RefShape'
  <2>1. \A s \in Readers :
          /\ IsRequest(open'[s]) /\ open'[s].at \in {"closed", "queued"} \cup Inner
          /\ open'[s].gate \in 0 .. Cardinality(Readers) /\ open'[s].bib \in Bibs \cup {NoBib}
    BY <1>1 DEF RefInv, RefShape, Inner
  <2> QED
    BY <1>1, <2>1 DEF RefInv, RefShape, IsRequest
<1>3. OneGate'
  BY <1>1 DEF RefInv, OneGate
<1>4. OnItsWay' /\ SettledNow'
  BY <1>1 DEF RefInv, OnItsWay, SettledNow, StaleHeuristic
<1>5. Beside'
  BY <1>1 DEF RefInv, Beside
<1> QED
  BY <1>2, <1>3, <1>4, <1>5 DEF RefInv

\* Only for what the request has in its hands, of the row and of its answers.
LEMMA Proceeds ==
    ASSUME RefInv, NEW r \in Readers, NEW q, IsRequest(q), Becomes(r, q),
           open[r].at \in Inner, q.at \in {"ask", "upsert"},
           q.bib = open[r].bib, q.gate = open[r].gate,
           DOMAIN q.parsed = DOMAIN q.bib.entries,
           \A i \in DOMAIN q.parsed : q.parsed[i].of \in {0, i} /\ ~StaleHeuristic(q.parsed[i]),
           q.bib.entries = stored.bib.entries =>
             /\ settled = {}
             /\ \A i \in DOMAIN stored.parsed : stored.parsed[i].src \in {"llm", "unknown"} =>
                    q.parsed[i] = stored.parsed[i],
           UNCHANGED <<release, model, restarts, stored, gates, settled>>
    PROVE  RefInv'
<1>1. /\ DOMAIN open' = Readers /\ open' = [s \in Readers |-> open'[s]]
      /\ open'[r] = q /\ \A s \in Readers \ {r} : open'[s] = open[s]
  BY DEF Becomes, RefInv, RefShape
<1>2. RefShape'
  <2>1. \A s \in Readers :
          /\ IsRequest(open'[s]) /\ open'[s].at \in {"closed", "queued"} \cup Inner
          /\ open'[s].gate \in 0 .. Cardinality(Readers) /\ open'[s].bib \in Bibs \cup {NoBib}
    BY <1>1 DEF RefInv, RefShape, Inner
  <2> QED
    BY <1>1, <2>1 DEF RefInv, RefShape, IsRequest
<1>3. OneGate'
  BY <1>1 DEF RefInv, OneGate, Inner
<1>4. SettledNow'
  BY DEF RefInv, SettledNow, StaleHeuristic
<1>5. OnItsWay'
  <2>1. \A c : StaleHeuristic(c)' = StaleHeuristic(c)
    BY DEF StaleHeuristic
  <2>2. \A s \in Readers : open'[s].at \in {"ask", "upsert"} => s = r
    BY <1>1 DEF RefInv, OneGate, Inner
  <2> QED
    BY <1>1, <2>1, <2>2 DEF OnItsWay, StaleHeuristic
<1>6. Beside'
  BY <1>1 DEF RefInv, Beside
<1> QED
  BY <1>2, <1>3, <1>4, <1>5, <1>6 DEF RefInv

LEMMA OpenPaperKeeps ==
    ASSUME RefInv, NEW r \in Readers, OpenPaper(r)
    PROVE  RefInv'
<1>1. PICK b \in Bibs, g \in {IF gates = 0 THEN NewGate ELSE gates} :
        /\ Becomes(r, [Closed EXCEPT !.at = "queued", !.bib = b, !.gate = g]) /\ gates' = g
        /\ open[r].at = "closed" /\ UNCHANGED <<release, model, restarts, stored, settled>>
  BY DEF OpenPaper, Becomes
<1> DEFINE q == [Closed EXCEPT !.at = "queued", !.bib = b, !.gate = g]
<1>2. Becomes(r, q)
  BY <1>1
<1>3. g \in 1 .. Cardinality(Readers)
  <2>1. Cardinality(Readers) \in Nat /\ Cardinality(Readers) >= 1
    <3>1. Cardinality(Readers) \in Nat /\ (Cardinality(Readers) = 0 <=> Readers = {})
      BY ReferencesAssumption, FS_CardinalityType, FS_EmptySet
    <3> QED
      BY <3>1
  <2>2. CASE gates = 0
    <3>1. Working = {}
      BY <2>2 DEF Working, RefInv, OneGate
    <3>2. 1 \in 1 .. Cardinality(Readers) /\ \A s \in Working : open[s].gate # 1
      BY <2>1, <3>1
    <3>3. NewGate \in 1 .. Cardinality(Readers)
      BY <3>2 DEF NewGate
    <3> QED
      BY <2>2, <3>3
  <2>3. CASE gates # 0
    BY <2>1, <2>3 DEF RefInv, RefShape
  <2> QED
    BY <2>2, <2>3
<1>4. Cardinality(Readers) \in Nat
  BY ReferencesAssumption, FS_CardinalityType
<1>5. /\ q.at = "queued" /\ q.gate = g /\ q.bib = b /\ q.parsed = <<>> /\ IsRequest(q)
  BY DEF IsRequest, Closed
<1>6. \A s \in Readers \ {r} : open[s].at # "closed" => gates' = gates
  BY <1>1 DEF RefInv, OneGate
<1> HIDE DEF q
<1> QED
  BY <1>1, <1>2, <1>3, <1>4, <1>5, <1>6, Idles DEF Inner

LEMMA EnterKeeps ==
    ASSUME RefInv, NEW r \in Readers, Enter(r)
    PROVE  RefInv'
<1> DEFINE q == [open[r] EXCEPT !.at = "read"]
<1>1. /\ Becomes(r, q) /\ open[r].at = "queued"
      /\ UNCHANGED <<release, model, restarts, stored, gates, settled>>
  BY DEF Enter, Go, Becomes, RefInv, RefShape
<1>2. /\ q.at = "read" /\ q.gate = open[r].gate /\ q.bib = open[r].bib
      /\ q.parsed = open[r].parsed /\ IsRequest(q)
  BY DEF RefInv, RefShape, IsRequest
<1>3. \A s \in Readers : open[s].at \notin Inner
  BY <1>1 DEF Enter, RefInv, OneGate, Inner
<1>4. /\ open[r].gate = gates /\ gates # 0 /\ gates \in 0 .. Cardinality(Readers)
      /\ open[r].bib \in Bibs \cup {NoBib}
      /\ \A i \in DOMAIN open[r].parsed : open[r].parsed[i].of \in {0, i}
  BY <1>1 DEF RefInv, OneGate, RefShape, Beside
<1> HIDE DEF q
<1> QED
  BY <1>1, <1>2, <1>3, <1>4, Idles

LEMMA ReadParseKeeps ==
    ASSUME RefInv, NEW r \in Readers, ReadParse(r)
    PROVE  RefInv'
<1> DEFINE hit == stored.bib.entries = open[r].bib.entries
           seed == IF hit THEN stored.parsed ELSE <<>>
           parsed == Seeded(open[r].bib, seed)
<1>1. /\ open[r].at = "read" /\ open[r].bib \in Bibs \cup {NoBib} /\ IsRequest(open[r])
      /\ open[r].gate = gates /\ gates # 0 /\ gates \in 0 .. Cardinality(Readers)
      /\ \A s \in Readers \ {r} : open[s].at \notin Inner
      /\ UNCHANGED <<release, model, restarts, stored, gates, settled>>
  BY DEF ReadParse, RefInv, RefShape, OneGate, Inner
<1>0. CASE Go(r, "leave")
  <2> DEFINE q == [open[r] EXCEPT !.at = "leave"]
  <2>1. Becomes(r, q)
    BY <1>0 DEF Go, Becomes, RefInv, RefShape
  <2>2. /\ q.at = "leave" /\ q.gate = open[r].gate /\ q.bib = open[r].bib
        /\ q.parsed = open[r].parsed /\ IsRequest(q)
    BY <1>1 DEF IsRequest
  <2>3. \A i \in DOMAIN open[r].parsed : open[r].parsed[i].of \in {0, i}
    BY DEF RefInv, Beside
  <2> HIDE DEF q
  <2> QED
    BY <1>1, <2>1, <2>2, <2>3, Idles
<1>2. CASE hit /\ ~Upgradeable /\ ~Go(r, "leave")
  <2> DEFINE q == [open[r] EXCEPT !.at = "leave", !.parsed = stored.parsed]
  <2>1. Becomes(r, q)
    BY <1>2 DEF ReadParse, Becomes, RefInv, RefShape
  <2>2. /\ q.at = "leave" /\ q.gate = open[r].gate /\ q.bib = open[r].bib
        /\ q.parsed = stored.parsed /\ IsRequest(q)
    BY <1>1 DEF IsRequest
  <2>3. \A i \in DOMAIN stored.parsed : stored.parsed[i].of \in {0, i}
    BY DEF RefInv, Beside
  <2> HIDE DEF q
  <2> QED
    BY <1>1, <2>1, <2>2, <2>3, Idles
<1>3. CASE ~(hit /\ ~Upgradeable) /\ ~Go(r, "leave")
  <2> DEFINE to == IF model /\ Leftover(parsed) # {} THEN "ask" ELSE "upsert"
             q == [open[r] EXCEPT !.parsed = parsed, !.at = to]
  <2>1. Becomes(r, q)
    BY <1>3 DEF ReadParse, Becomes, RefInv, RefShape
  <2>2. seed = <<>> \/ DOMAIN seed = DOMAIN open[r].bib.entries
    BY DEF RefInv, RefShape
  <2>3. \A i \in DOMAIN seed : seed[i].of \in {0, i}
    BY DEF RefInv, Beside
  <2>4. /\ DOMAIN parsed = DOMAIN open[r].bib.entries
        /\ \A i \in DOMAIN parsed : ~StaleHeuristic(parsed[i]) /\ parsed[i].of \in {0, i}
        /\ DOMAIN seed = DOMAIN open[r].bib.entries =>
             \A i \in DOMAIN seed : seed[i].src \in {"llm", "unknown"} => parsed[i] = seed[i]
    <3> HIDE DEF seed
    <3> QED
      BY <2>2, <2>3, SeededWell
  <2>5. hit => settled = {}
    BY <1>3 DEF RefInv, SettledNow, Upgradeable
  <2>6. hit => \A i \in DOMAIN stored.parsed : stored.parsed[i].src \in {"llm", "unknown"} =>
                   parsed[i] = stored.parsed[i]
    <3>1. SUFFICES ASSUME hit
                   PROVE  seed = stored.parsed /\ DOMAIN seed = DOMAIN open[r].bib.entries
      <4> HIDE DEF parsed
      <4> QED
        BY <2>4
    <3> QED
      BY <3>1 DEF RefInv, RefShape
  <2> HIDE DEF parsed, seed
  <2>7. /\ q.at \in {"ask", "upsert"} /\ q.gate = open[r].gate /\ q.bib = open[r].bib
        /\ q.parsed = parsed /\ IsRequest(q)
    BY <1>1 DEF IsRequest
  <2> HIDE DEF q
  <2>8. open[r].at \in Inner
    BY <1>1 DEF Inner
  <2> QED
    BY <1>1, <2>1, <2>4, <2>5, <2>6, <2>7, <2>8, Proceeds
<1> QED
  BY <1>0, <1>2, <1>3

LEMMA AskModelKeeps ==
    ASSUME RefInv, NEW r \in Readers, AskModel(r)
    PROVE  RefInv'
<1>1. /\ open[r].at = "ask" /\ open[r].bib \in Bibs \cup {NoBib} /\ IsRequest(open[r])
      /\ open[r].gate = gates /\ gates # 0 /\ gates \in 0 .. Cardinality(Readers)
      /\ \A s \in Readers \ {r} : open[s].at \notin Inner
      /\ \A i \in DOMAIN open[r].parsed : open[r].parsed[i].of \in {0, i}
      /\ UNCHANGED <<release, model, restarts, stored, gates, settled>>
  BY DEF AskModel, RefInv, RefShape, OneGate, Inner, Beside
<1>2. CASE Go(r, "leave")
  <2> DEFINE q == [open[r] EXCEPT !.at = "leave"]
  <2>1. Becomes(r, q)
    BY <1>2 DEF Go, Becomes, RefInv, RefShape
  <2>2. /\ q.at = "leave" /\ q.gate = open[r].gate /\ q.bib = open[r].bib
        /\ q.parsed = open[r].parsed /\ IsRequest(q)
    BY <1>1 DEF IsRequest
  <2> HIDE DEF q
  <2> QED
    BY <1>1, <2>1, <2>2, Idles
<1>3. ASSUME NEW reply, open' = [open EXCEPT ![r].at = "upsert", ![r].llm = TRUE,
                                             ![r].parsed = Placed(@, reply)]
      PROVE  RefInv'
  <2> DEFINE parsed == open[r].parsed
             q == [open[r] EXCEPT !.at = "upsert", !.llm = TRUE, !.parsed = Placed(parsed, reply)]
  <2>1. Becomes(r, q)
    BY <1>3 DEF Becomes, RefInv, RefShape
  <2>2. /\ q.at = "upsert" /\ q.gate = open[r].gate /\ q.bib = open[r].bib
        /\ q.parsed = Placed(parsed, reply) /\ IsRequest(q)
    BY <1>1 DEF IsRequest
  <2> HIDE DEF q
  <2>3. /\ DOMAIN parsed = DOMAIN open[r].bib.entries
        /\ \A i \in DOMAIN parsed : ~StaleHeuristic(parsed[i]) /\ parsed[i].of \in {0, i}
        /\ open[r].bib.entries = stored.bib.entries =>
             /\ settled = {}
             /\ \A i \in DOMAIN stored.parsed : stored.parsed[i].src \in {"llm", "unknown"} =>
                    parsed[i] = stored.parsed[i]
    BY <1>1 DEF RefInv, OnItsWay
  <2> HIDE DEF parsed
  <2>4. /\ DOMAIN Placed(parsed, reply) = DOMAIN parsed
        /\ \A i \in DOMAIN parsed :
             /\ Placed(parsed, reply)[i].of \in {0, i} /\ ~StaleHeuristic(Placed(parsed, reply)[i])
             /\ parsed[i].src # "null" => Placed(parsed, reply)[i] = parsed[i]
    BY <2>3, PlacedWell
  <2>5. DOMAIN stored.parsed = DOMAIN stored.bib.entries /\ open[r].at \in Inner
    BY <1>1 DEF RefInv, RefShape, Inner
  <2>6. open[r].bib.entries = stored.bib.entries =>
             /\ settled = {}
             /\ \A i \in DOMAIN stored.parsed : stored.parsed[i].src \in {"llm", "unknown"} =>
                    Placed(parsed, reply)[i] = stored.parsed[i]
    BY <2>3, <2>4, <2>5
  <2> QED
    BY <1>1, <2>1, <2>2, <2>3, <2>4, <2>5, <2>6, Proceeds
<1> QED
  BY <1>2, <1>3 DEF AskModel

LEMMA UpsertParseKeeps ==
    ASSUME RefInv, NEW r \in Readers, UpsertParse(r)
    PROVE  RefInv'
<1> DEFINE q == [open[r] EXCEPT !.at = "leave"]
<1>1. /\ open[r].at = "upsert" /\ open[r].bib \in Bibs \cup {NoBib} /\ IsRequest(open[r])
      /\ open[r].gate = gates /\ gates # 0 /\ gates \in 0 .. Cardinality(Readers)
      /\ \A s \in Readers \ {r} : open[s].at \notin Inner
      /\ \A i \in DOMAIN open[r].parsed : open[r].parsed[i].of \in {0, i}
      /\ UNCHANGED <<release, model, restarts, gates>>
  BY DEF UpsertParse, RefInv, RefShape, OneGate, Inner, Beside
<1>2. Becomes(r, q)
  BY DEF UpsertParse, Go, Becomes, RefInv, RefShape
<1>3. /\ q.at = "leave" /\ q.gate = open[r].gate /\ q.bib = open[r].bib
      /\ q.parsed = open[r].parsed /\ IsRequest(q)
  BY <1>1 DEF IsRequest
<1> HIDE DEF q
<1>4. CASE UNCHANGED <<stored, settled>>
  BY <1>1, <1>2, <1>3, <1>4, Idles
<1>5. CASE /\ stored' = [bib |-> open[r].bib, parsed |-> open[r].parsed,
                         gen |-> release, llm |-> open[r].llm]
           /\ settled' = IF open[r].llm THEN DOMAIN open[r].parsed ELSE {}
  <2>1. /\ DOMAIN open' = Readers /\ open' = [s \in Readers |-> open'[s]]
        /\ open'[r] = q /\ \A s \in Readers \ {r} : open'[s] = open[s]
    BY <1>2 DEF Becomes, RefInv, RefShape
  <2>2. /\ stored'.bib = open[r].bib /\ stored'.parsed = open[r].parsed
        /\ stored'.gen = release /\ stored'.llm = open[r].llm
    BY <1>5
  <2>3. /\ DOMAIN open[r].parsed = DOMAIN open[r].bib.entries
        /\ \A i \in DOMAIN open[r].parsed : ~StaleHeuristic(open[r].parsed[i])
    BY <1>1 DEF RefInv, OnItsWay
  <2>4. RefShape'
    <3>1. \A s \in Readers :
            /\ IsRequest(open'[s]) /\ open'[s].at \in {"closed", "queued"} \cup Inner
            /\ open'[s].gate \in 0 .. Cardinality(Readers) /\ open'[s].bib \in Bibs \cup {NoBib}
      BY <1>1, <1>3, <2>1 DEF RefInv, RefShape, Inner
    <3> QED
      BY <1>1, <2>1, <2>2, <2>3, <3>1 DEF RefInv, RefShape, IsRequest
  <2>5. OneGate'
    BY <1>1, <1>3, <2>1 DEF RefInv, OneGate, Inner
  <2>6. OnItsWay'
    BY <1>1, <1>3, <2>1 DEF OnItsWay, Inner
  <2>7. SettledNow'
    BY <1>1, <1>5, <2>2, <2>3 DEF SettledNow, StaleHeuristic
  <2>8. Beside'
    BY <1>1, <1>3, <2>1, <2>2 DEF RefInv, Beside
  <2> QED
    BY <2>4, <2>5, <2>6, <2>7, <2>8 DEF RefInv
<1> QED
  BY <1>4, <1>5 DEF UpsertParse

LEMMA LeaveKeeps ==
    ASSUME RefInv, NEW r \in Readers, LeaveGate(r) \/ CloseReader(r)
    PROVE  RefInv'
<1>1. /\ Becomes(r, Closed) /\ open[r].at # "closed" /\ (gates' = gates \/ (gates' = 0 /\ Alone))
      /\ UNCHANGED <<release, model, restarts, stored, settled>>
  BY DEF LeaveGate, CloseReader, Working, Becomes
<1>2. /\ Closed.at = "closed" /\ Closed.gate = 0 /\ Closed.bib = NoBib /\ Closed.parsed = <<>>
      /\ IsRequest(Closed)
  BY DEF Closed, IsRequest
<1>3. Cardinality(Readers) \in Nat /\ gates \in 0 .. Cardinality(Readers)
  BY ReferencesAssumption, FS_CardinalityType DEF RefInv, RefShape
<1>4. \A s \in Readers \ {r} : open[s].at # "closed" => gates' = gates
  BY <1>1, GateAlone DEF RefInv
<1> QED
  BY <1>1, <1>2, <1>3, <1>4, Idles DEF Inner

LEMMA RestartedKeeps ==
    ASSUME RefInv, Restarted
    PROVE  RefInv'
<1> USE ReferencesAssumption
<1>1. /\ restarts < MaxReleases /\ restarts' = restarts + 1 /\ release' \in {release, release + 1}
      /\ model' \in BOOLEAN /\ gates' = 0 /\ open' = [s \in Readers |-> Closed]
      /\ settled' = (IF release' = release THEN settled ELSE {}) /\ UNCHANGED stored
  BY DEF Restarted
<1>2. \A s \in Readers : /\ open'[s].at = "closed" /\ open'[s].gate = 0 /\ open'[s].bib = NoBib
                         /\ open'[s].parsed = <<>> /\ IsRequest(open'[s])
  BY <1>1 DEF Closed, IsRequest
<1>3. Cardinality(Readers) \in Nat
  BY FS_CardinalityType
<1>4. RefShape'
  BY <1>1, <1>2, <1>3 DEF RefInv, RefShape, IsRequest
<1>5. OneGate' /\ OnItsWay'
  BY <1>2 DEF OneGate, OnItsWay, Inner
<1>6. SettledNow'
  BY <1>1 DEF RefInv, SettledNow, StaleHeuristic
<1>7. Beside'
  BY <1>1, <1>2 DEF RefInv, Beside
<1> QED
  BY <1>4, <1>5, <1>6, <1>7 DEF RefInv

LEMMA RefInvNext == RefInv /\ [RefNext]_refVars => RefInv'
<1> SUFFICES ASSUME RefInv, [RefNext]_refVars
             PROVE  RefInv'
  OBVIOUS
<1>1. CASE Restarted
  BY <1>1, RestartedKeeps
<1>2. ASSUME NEW r \in Readers,
             OpenPaper(r) \/ Enter(r) \/ Parsing(r) \/ CloseReader(r)
      PROVE  RefInv'
  BY <1>2, OpenPaperKeeps, EnterKeeps, ReadParseKeeps, AskModelKeeps, UpsertParseKeeps,
     LeaveKeeps DEF Parsing
<1>3. CASE UNCHANGED refVars
  BY <1>3 DEF refVars, RefInv, RefShape, OneGate, OnItsWay, SettledNow, Beside, StaleHeuristic,
              IsRequest
<1> QED
  BY <1>1, <1>2, <1>3 DEF RefNext

LEMMA RefInvHolds == RefInv => RefTypeOK /\ ModelAskedWell
<1> SUFFICES ASSUME RefInv
             PROVE  RefTypeOK /\ ModelAskedWell
  OBVIOUS
<1>1. RefTypeOK
  BY DEF RefInv, RefShape, RefTypeOK
<1>2. Aligned
  BY DEF RefInv, Beside, Aligned
<1>3. PaidOnce
  <2> DEFINE inner == {r \in Readers : open[r].at \in Inner}
  <2>1. Cardinality(inner) <= 1
    <3>1. CASE inner = {}
      BY <3>1, FS_EmptySet
    <3>2. CASE inner # {}
      <4>1. PICK r \in Readers : r \in inner
        BY <3>2
      <4>2. inner = {r}
        BY <4>1 DEF RefInv, OneGate
      <4> HIDE DEF inner
      <4> QED
        BY <4>2, FS_Singleton, SMTT(30)
    <3> QED
      BY <3>1, <3>2
  <2>2. \A r \in Readers : open[r].at = "ask" /\ open[r].bib.entries = stored.bib.entries =>
            settled = {}
    BY DEF RefInv, OnItsWay
  <2> QED
    BY <2>1, <2>2 DEF PaidOnce
<1> QED
  BY <1>1, <1>2, <1>3 DEF ModelAskedWell

\* A step keeps the better parse: only an upsert writes the row, of what it kept.
LEMMA RefStepKeepsTheBetter ==
    ASSUME RefInv, [RefNext]_refVars,
           NEW i \in DOMAIN stored.parsed, stored'.bib.entries = stored.bib.entries,
           stored.parsed[i].src \in {"llm", "unknown"}
    PROVE  stored'.parsed[i] = stored.parsed[i]
<1>1. CASE stored' = stored
  BY <1>1
<1>2. CASE stored' # stored
  <2>1. PICK r \in Readers : UpsertParse(r)
    BY <1>2 DEF RefNext, refVars, Restarted, OpenPaper, Enter, Parsing, ReadParse, AskModel,
                LeaveGate, CloseReader, Go
  <2>2. /\ open[r].at = "upsert"
        /\ stored' = [bib |-> open[r].bib, parsed |-> open[r].parsed, gen |-> release,
                      llm |-> open[r].llm]
    BY <1>2, <2>1 DEF UpsertParse
  <2>3. stored'.bib = open[r].bib /\ stored'.parsed = open[r].parsed
    BY <2>2
  <2> QED
    BY <2>2, <2>3 DEF RefInv, OnItsWay
<1> QED
  BY <1>1, <1>2

----------------------------------------------------------------------------
(* Requests: lemmas about choices, sequences and recursive functions.      *)

LEMMA Smallest ==
    ASSUME NEW T \in SUBSET Nat, T # {}
    PROVE  \E x \in T : \A y \in T : x <= y
<1> DEFINE R == OpToRel(<, Nat)
<1>1. IsWellFoundedOn(R, Nat)
  BY NatLessThanWellFounded
<1> HIDE DEF R
<1>2. PICK x \in T : \A y \in T : ~(<<y, x>> \in R)
  BY <1>1, WFMin
<1>3. \A y \in T : y < x => <<y, x>> \in R
  BY DEF R, OpToRel
<1>4. ASSUME NEW y \in T PROVE x <= y
  <2>1. x \in Nat /\ y \in Nat /\ ~(y < x)
    BY <1>2, <1>3
  <2> QED
    BY <2>1
<1> QED
  BY <1>4

LEMMA Greatest ==
    ASSUME NEW T \in SUBSET Nat, T # {}, NEW b \in Nat, \A x \in T : x <= b
    PROVE  \E x \in T : \A y \in T : y <= x
<1> DEFINE D == {n \in Nat : b - n \in T}
<1>1. D # {}
  <2>1. PICK x \in T : TRUE
    OBVIOUS
  <2>2. x \in Nat /\ x <= b
    BY <2>1
  <2>3. b - x \in Nat /\ b - (b - x) = x
    BY <2>2
  <2> QED
    BY <2>1, <2>3
<1> HIDE DEF D
<1>2. PICK n \in D : \A m \in D : n <= m
  BY <1>1, Smallest DEF D
<1>3. n \in Nat /\ b - n \in T
  BY <1>2 DEF D
<1>4. ASSUME NEW y \in T PROVE y <= b - n
  <2>1. y \in Nat /\ y <= b
    OBVIOUS
  <2>2. b - y \in Nat /\ b - (b - y) = y
    BY <2>1
  <2>3. b - y \in D
    BY <2>2 DEF D
  <2>4. n <= b - y
    BY <1>2, <2>3
  <2> QED
    BY <1>3, <2>1, <2>2, <2>4
<1> QED
  BY <1>3, <1>4

\* A set of numbers that has 0, and with n the next, has all up to N.
LEMMA Climbing ==
    ASSUME NEW N \in Nat, NEW P, 0 \in P, \A n \in 0 .. N : n \in P /\ n < N => n + 1 \in P
    PROVE  \A n \in 0 .. N : n \in P
<1> SUFFICES ASSUME NEW m \in 0 .. N, m \notin P
             PROVE  FALSE
  OBVIOUS
<1> DEFINE T == {n \in 0 .. N : n \notin P}
<1>1. PICK x \in T : \A y \in T : x <= y
  <2>1. T \in SUBSET Nat /\ T # {}
    OBVIOUS
  <2> HIDE DEF T
  <2> QED
    BY <2>1, Smallest
<1>2. x # 0 /\ x \in 0 .. N
  BY <1>1
<1>3. x - 1 \in 0 .. N /\ x - 1 < N /\ (x - 1) + 1 = x /\ ~(x <= x - 1)
  BY <1>2
<1>4. x - 1 \in P
  BY <1>1, <1>3
<1> QED
  BY <1>1, <1>3, <1>4

\* A function whose value at n is said by what is below n exists.
IsStep(F, N, T) ==
    /\ F \in [(0 .. N) \X [0 .. N -> T] -> T]
    /\ \A n \in 0 .. N, g, h \in [0 .. N -> T] :
           (\A m \in 0 .. n - 1 : g[m] = h[m]) => F[<<n, g>>] = F[<<n, h>>]

Solves(g, F, N) == \A n \in 0 .. N : g[n] = F[<<n, g>>]

LEMMA Recursion ==
    ASSUME NEW N \in Nat, NEW T, NEW e \in T, NEW F, IsStep(F, N, T)
    PROVE  \E g : g \in [0 .. N -> T] /\ Solves(g, F, N)
<1> USE DEF IsStep, Solves
<1> DEFINE P == {n \in 0 .. N : \E g \in [0 .. N -> T] : \A m \in 0 .. n : g[m] = F[<<m, g>>]}
<1>1. ASSUME NEW n \in 0 .. N, NEW g \in [0 .. N -> T], \A m \in 0 .. n - 1 : g[m] = F[<<m, g>>]
      PROVE  n \in P
  <2> DEFINE h == [g EXCEPT ![n] = F[<<n, g>>]]
  <2>1. h \in [0 .. N -> T] /\ h[n] = F[<<n, g>>] /\ \A m \in 0 .. N : m # n => h[m] = g[m]
    OBVIOUS
  <2> HIDE DEF h
  <2>2. ASSUME NEW m \in 0 .. n
        PROVE  h[m] = F[<<m, h>>]
    <3>1. F[<<m, g>>] = F[<<m, h>>]
      <4>1. m \in 0 .. N /\ \A k \in 0 .. m - 1 : k \in 0 .. N /\ k # n
        OBVIOUS
      <4> QED
        BY <2>1, <4>1, ZenonT(30)
    <3>2. CASE m = n
      BY <2>1, <3>1, <3>2
    <3>3. CASE m # n
      <4>1. m \in 0 .. n - 1 /\ m \in 0 .. N
        BY <3>3
      <4> QED
        BY <1>1, <2>1, <3>1, <3>3, <4>1
    <3> QED
      BY <3>2, <3>3
  <2> QED
    BY <2>1, <2>2
<1>2. 0 \in P
  <2>1. [n \in 0 .. N |-> e] \in [0 .. N -> T] /\ 0 \in 0 .. N /\ 0 .. 0 - 1 = {}
    OBVIOUS
  <2> HIDE DEF P
  <2> QED
    BY <1>1, <2>1
<1>3. ASSUME NEW n \in 0 .. N, n \in P, n < N
      PROVE  n + 1 \in P
  <2>1. PICK g \in [0 .. N -> T] : \A m \in 0 .. n : g[m] = F[<<m, g>>]
    BY <1>3
  <2>2. n + 1 \in 0 .. N /\ (n + 1) - 1 = n
    BY <1>3
  <2> HIDE DEF P
  <2> QED
    BY <1>1, <2>1, <2>2
<1>4. N \in P
  <2>1. N \in 0 .. N
    OBVIOUS
  <2> HIDE DEF P
  <2>2. \A n \in 0 .. N : n \in P /\ n < N => n + 1 \in P
    BY <1>3
  <2>3. \A n \in 0 .. N : n \in P
    BY <1>2, <2>2, Climbing
  <2> QED
    BY <2>1, <2>3
<1> QED
  BY <1>4

Chars(texts) == UNION {ToSet(texts[i]) : i \in DOMAIN texts}

LEMMA ToSetOf ==
    ASSUME NEW S, NEW s \in Seq(S), NEW t \in Seq(S)
    PROVE  ToSet(s \o t) = ToSet(s) \cup ToSet(t)
<1>1. /\ Len(s) \in Nat /\ Len(t) \in Nat /\ DOMAIN s = 1 .. Len(s) /\ DOMAIN t = 1 .. Len(t)
      /\ DOMAIN (s \o t) = 1 .. Len(s) + Len(t)
      /\ \A i \in 1 .. Len(s) + Len(t) :
             (s \o t)[i] = IF i <= Len(s) THEN s[i] ELSE t[i - Len(s)]
  OBVIOUS
<1>2. ASSUME NEW x \in ToSet(s \o t) PROVE x \in ToSet(s) \cup ToSet(t)
  <2>1. PICK i \in 1 .. Len(s) + Len(t) : x = (s \o t)[i]
    BY <1>1 DEF ToSet
  <2>2. CASE i <= Len(s)
    BY <1>1, <2>1, <2>2 DEF ToSet
  <2>3. CASE ~(i <= Len(s))
    <3>1. i - Len(s) \in 1 .. Len(t) /\ x = t[i - Len(s)]
      BY <1>1, <2>1, <2>3
    <3> QED
      BY <1>1, <3>1 DEF ToSet
  <2> QED
    BY <2>2, <2>3
<1>3. ASSUME NEW x \in ToSet(s) PROVE x \in ToSet(s \o t)
  <2>1. PICK i \in 1 .. Len(s) : x = s[i]
    BY <1>1 DEF ToSet
  <2>2. i \in 1 .. Len(s) + Len(t) /\ (s \o t)[i] = x
    BY <1>1, <2>1
  <2> QED
    BY <1>1, <2>2 DEF ToSet
<1>4. ASSUME NEW x \in ToSet(t) PROVE x \in ToSet(s \o t)
  <2>1. PICK i \in 1 .. Len(t) : x = t[i]
    BY <1>1 DEF ToSet
  <2>2. Len(s) + i \in 1 .. Len(s) + Len(t) /\ (s \o t)[Len(s) + i] = x
    BY <1>1, <2>1
  <2> QED
    BY <1>1, <2>2 DEF ToSet
<1> QED
  BY <1>2, <1>3, <1>4

LEMMA CharsOf ==
    ASSUME NEW s \in Seq(Seq(Nat)), NEW t \in Seq(Seq(Nat))
    PROVE  Chars(s \o t) = Chars(s) \cup Chars(t)
<1>1. ASSUME NEW u PROVE Chars(u) = UNION {ToSet(x) : x \in ToSet(u)}
  <2>1. {ToSet(u[i]) : i \in DOMAIN u} = {ToSet(x) : x \in {u[i] : i \in DOMAIN u}}
    OBVIOUS
  <2> QED
    BY <2>1 DEF Chars, ToSet
<1>2. ToSet(s \o t) = ToSet(s) \cup ToSet(t)
  BY ToSetOf
<1> QED
  BY <1>1, <1>2

LEMMA CharsOfOne ==
    ASSUME NEW s \in Seq(Nat)
    PROVE  /\ <<s>> \in Seq(Seq(Nat)) /\ Chars(<<s>>) = ToSet(s) /\ DOMAIN <<s>> = {1} /\ <<s>>[1] = s
<1>1. DOMAIN <<s>> = {1} /\ <<s>>[1] = s
  OBVIOUS
<1> QED
  BY <1>1 DEF Chars

\* Of a sequence of sequences: none is longer than `n`.
NoneOver(texts, n) == \A i \in DOMAIN texts : Len(texts[i]) <= n

LEMMA ShortOf ==
    ASSUME NEW s \in Seq(Seq(Nat)), NEW t \in Seq(Seq(Nat)), NEW n, NoneOver(s, n), NoneOver(t, n)
    PROVE  NoneOver(s \o t, n)
<1>1. ToSet(s \o t) = ToSet(s) \cup ToSet(t)
  BY ToSetOf
<1>2. \A u : NoneOver(u, n) <=> \A x \in ToSet(u) : Len(x) <= n
  BY DEF NoneOver, ToSet
<1> QED
  BY <1>1, <1>2

----------------------------------------------------------------------------
(* split_long                                                              *)

CutAt(text, stops, left) ==
    LET from == Len(text) - left
        within == {n \in from + 2 .. from + TARGET_CHARS - 1 : text[n] \in stops}
    IN  IF within = {} THEN from + TARGET_CHARS ELSE Max(within)

Piece(text, from, to) == SubSeq(text, from + 1, to)

SplitStep(text, stops, left, g) ==
    IF left <= TARGET_CHARS THEN <<Piece(text, Len(text) - left, Len(text))>>
    ELSE <<Piece(text, Len(text) - left, CutAt(text, stops, left))>>
             \o g[Len(text) - CutAt(text, stops, left)]

LEMMA CutAtFacts ==
    ASSUME NEW text \in Seq(Nat), NEW stops, NEW left \in 0 .. Len(text), ~(left <= TARGET_CHARS)
    PROVE  LET from == Len(text) - left   cut == CutAt(text, stops, left) IN
           /\ cut \in Nat /\ from \in Nat /\ from < cut /\ cut <= from + TARGET_CHARS
           /\ cut <= Len(text) /\ Len(text) - cut \in 0 .. left - 1
<1> DEFINE from == Len(text) - left
           within == {n \in from + 2 .. from + TARGET_CHARS - 1 : text[n] \in stops}
           cut == CutAt(text, stops, left)
<1>1. /\ Len(text) \in Nat /\ TARGET_CHARS \in Nat /\ TARGET_CHARS > 0 /\ left \in Nat
      /\ left <= Len(text) /\ from \in Nat /\ from + TARGET_CHARS < Len(text)
  <2>1. TARGET_CHARS \in Nat /\ TARGET_CHARS > 0
    <3>1. TARGET_CHARS \in Nat \ {0}
      BY RequestsAssumption
    <3> QED
      BY <3>1
  <2>2. Len(text) \in Nat
    OBVIOUS
  <2> QED
    BY <2>1, <2>2
<1>2. cut \in from + 1 .. from + TARGET_CHARS
  <2>1. CASE within = {}
    <3>1. cut = from + TARGET_CHARS
      BY <2>1 DEF CutAt
    <3> QED
      BY <1>1, <3>1
  <2>2. CASE within # {}
    <3>1. within \in SUBSET Nat /\ \A x \in within : x <= from + TARGET_CHARS
      BY <1>1
    <3>2. cut = Max(within)
      BY <2>2 DEF CutAt
    <3>3. \A x \in within : x \in from + 1 .. from + TARGET_CHARS
      BY <1>1
    <3>4. from + TARGET_CHARS \in Nat
      BY <1>1
    <3> HIDE DEF within, cut
    <3>5. PICK m \in within : \A y \in within : y <= m
      BY <2>2, <3>1, <3>4, Greatest
    <3>6. Max(within) \in within
      <4>1. m \in within /\ \A y \in within : m >= y
        BY <3>1, <3>5
      <4> QED
        BY <4>1 DEF Max
    <3> QED
      BY <3>2, <3>3, <3>6
  <2> QED
    BY <2>1, <2>2
<1> HIDE DEF cut
<1>3. /\ cut \in Nat /\ from < cut /\ cut <= from + TARGET_CHARS
      /\ cut <= Len(text) /\ Len(text) - cut \in 0 .. left - 1
  BY <1>1, <1>2
<1> QED
  BY <1>1, <1>3 DEF cut

LEMMA PieceFacts ==
    ASSUME NEW text \in Seq(Nat), NEW from \in Nat, NEW to \in Nat, from <= to, to <= Len(text)
    PROVE  /\ Piece(text, from, to) \in Seq(Nat) /\ Len(Piece(text, from, to)) = to - from
           /\ ToSet(Piece(text, from, to)) = {text[n] : n \in from + 1 .. to}
<1> DEFINE p == Piece(text, from, to)
<1>1. /\ p \in Seq(Nat) /\ Len(p) = to - from /\ \A i \in 1 .. to - from : p[i] = text[from + i]
  BY DEF Piece
<1>2. DOMAIN p = 1 .. to - from
  BY <1>1
<1> HIDE DEF p
<1>3. ASSUME NEW x \in ToSet(p) PROVE x \in {text[n] : n \in from + 1 .. to}
  <2>1. PICK i \in 1 .. to - from : x = p[i]
    BY <1>2 DEF ToSet
  <2>2. from + i \in from + 1 .. to
    BY <2>1
  <2> QED
    BY <1>1, <2>1, <2>2
<1>4. ASSUME NEW n \in from + 1 .. to PROVE text[n] \in ToSet(p)
  <2>1. n - from \in 1 .. to - from /\ from + (n - from) = n
    OBVIOUS
  <2> QED
    BY <1>1, <1>2, <2>1 DEF ToSet
<1> QED
  BY <1>1, <1>3, <1>4 DEF p

\* The recursion of split_long is one.
LEMMA SplitLongRecurs ==
    ASSUME NEW text \in Seq(Nat), NEW stops
    PROVE  \E f : /\ SplitLong(text, stops) = f[Len(text)]
                  /\ \A left \in 0 .. Len(text) : f[left] = SplitStep(text, stops, left, f)
<1> DEFINE N == Len(text)
           T == Seq(Seq(Nat))
           f == CHOOSE g : g = [left \in 0 .. N |-> SplitStep(text, stops, left, g)]
           F == [p \in (0 .. N) \X [0 .. N -> T] |-> SplitStep(text, stops, p[1], p[2])]
<1>1. SplitLong(text, stops) = f[N]
  BY DEF SplitLong, SplitStep, CutAt, Piece
<1>2. N \in Nat /\ <<>> \in T
  OBVIOUS
<1>3. ASSUME NEW n \in 0 .. N, NEW g \in [0 .. N -> T]
      PROVE  SplitStep(text, stops, n, g) \in T
  <2>1. CASE n <= TARGET_CHARS
    <3>1. Piece(text, N - n, N) \in Seq(Nat)
      <4>1. N - n \in Nat /\ N - n <= N
        BY <1>2
      <4> QED
        BY <1>2, <4>1, PieceFacts
    <3> QED
      BY <2>1, <3>1, CharsOfOne DEF SplitStep
  <2>2. CASE ~(n <= TARGET_CHARS)
    <3> DEFINE c == CutAt(text, stops, n)
               q == Piece(text, N - n, c)
    <3>1. c \in Nat /\ N - n \in Nat /\ N - n <= c /\ c <= N /\ N - c \in 0 .. N
      BY <1>2, <2>2, CutAtFacts
    <3>2. q \in Seq(Nat)
      BY <3>1, PieceFacts
    <3>3. SplitStep(text, stops, n, g) = <<q>> \o g[N - c]
      BY <2>2 DEF SplitStep
    <3> HIDE DEF q, c
    <3>4. <<q>> \in T /\ g[N - c] \in T
      BY <3>1, <3>2, CharsOfOne
    <3> QED
      BY <3>3, <3>4
  <2> QED
    BY <2>1, <2>2
<1>4. F \in [(0 .. N) \X [0 .. N -> T] -> T]
  BY <1>3
<1>5. ASSUME NEW n \in 0 .. N, NEW g \in [0 .. N -> T], NEW h \in [0 .. N -> T],
             \A m \in 0 .. n - 1 : g[m] = h[m]
      PROVE  F[<<n, g>>] = F[<<n, h>>]
  <2>1. SplitStep(text, stops, n, g) = SplitStep(text, stops, n, h)
    <3>1. CASE n <= TARGET_CHARS
      BY <3>1 DEF SplitStep
    <3>2. CASE ~(n <= TARGET_CHARS)
      <4>1. N - CutAt(text, stops, n) \in 0 .. n - 1
        BY <3>2, CutAtFacts
      <4> QED
        BY <1>5, <3>2, <4>1 DEF SplitStep
    <3> QED
      BY <3>1, <3>2
  <2> QED
    BY <2>1
<1>6. \A n \in 0 .. N, g \in [0 .. N -> T] : F[<<n, g>>] = SplitStep(text, stops, n, g)
  OBVIOUS
<1> HIDE DEF F, T, N
<1>11. \A n \in 0 .. N, g, h \in [0 .. N -> T] :
          (\A m \in 0 .. n - 1 : g[m] = h[m]) => F[<<n, g>>] = F[<<n, h>>]
  BY <1>5
<1>12. IsStep(F, N, T)
  BY <1>4, <1>11 DEF IsStep
<1>13. \E g : g \in [0 .. N -> T] /\ Solves(g, F, N)
  BY <1>2, <1>12, Recursion
<1>7. PICK g \in [0 .. N -> T] : \A n \in 0 .. N : g[n] = F[<<n, g>>]
  BY <1>13 DEF Solves
<1>8. g = [n \in 0 .. N |-> SplitStep(text, stops, n, g)]
  BY <1>6, <1>7
<1>9. f = [left \in 0 .. N |-> SplitStep(text, stops, left, f)]
  BY <1>8
<1> HIDE DEF f
<1>10. \A left \in 0 .. N : f[left] = SplitStep(text, stops, left, f)
  BY <1>9
<1> QED
  BY <1>1, <1>10 DEF N

\* No piece is over the limit, and nothing of the text is lost.
LEMMA SplitLongFacts ==
    ASSUME NEW text \in Seq(Nat), NEW stops
    PROVE  /\ SplitLong(text, stops) \in Seq(Seq(Nat))
           /\ NoneOver(SplitLong(text, stops), TARGET_CHARS)
           /\ ToSet(text) \subseteq Chars(SplitLong(text, stops))
<1>1. PICK f : /\ SplitLong(text, stops) = f[Len(text)]
               /\ \A left \in 0 .. Len(text) : f[left] = SplitStep(text, stops, left, f)
  BY SplitLongRecurs
<1> DEFINE N == Len(text)
           Good(left) == /\ f[left] \in Seq(Seq(Nat)) /\ NoneOver(f[left], TARGET_CHARS)
                         /\ {text[n] : n \in N - left + 1 .. N} \subseteq Chars(f[left])
           Bad == {left \in 0 .. N : ~Good(left)}
<1>2. N \in Nat /\ TARGET_CHARS \in Nat /\ DOMAIN text = 1 .. N
  <2>1. TARGET_CHARS \in Nat \ {0}
    BY RequestsAssumption
  <2> QED
    BY <2>1
<1>3. ASSUME NEW left \in 0 .. N, \A m \in 0 .. left - 1 : Good(m)
      PROVE  Good(left)
  <2>0. f[left] = SplitStep(text, stops, left, f)
    BY <1>1
  <2>1. CASE left <= TARGET_CHARS
    <3> DEFINE from == N - left
               p == Piece(text, from, N)
    <3>0. from \in Nat /\ from <= N /\ N - from = left
      BY <1>2
    <3>1. p \in Seq(Nat) /\ Len(p) = left /\ ToSet(p) = {text[n] : n \in from + 1 .. N}
      <4> HIDE DEF from
      <4>1. N \in Nat /\ N <= Len(text)
        BY <1>2
      <4> HIDE DEF N
      <4>2. p \in Seq(Nat) /\ Len(p) = N - from /\ ToSet(p) = {text[n] : n \in from + 1 .. N}
        BY <3>0, <4>1, PieceFacts
      <4> QED
        BY <3>0, <4>2
    <3>2. f[left] = <<p>>
      BY <2>0, <2>1 DEF SplitStep
    <3> HIDE DEF p
    <3>3. /\ <<p>> \in Seq(Seq(Nat)) /\ Chars(<<p>>) = ToSet(p)
          /\ DOMAIN <<p>> = {1} /\ <<p>>[1] = p
      BY <3>1, CharsOfOne
    <3>4. NoneOver(<<p>>, TARGET_CHARS)
      BY <2>1, <3>1, <3>3 DEF NoneOver
    <3> QED
      BY <3>1, <3>2, <3>3, <3>4
  <2>2. CASE ~(left <= TARGET_CHARS)
    <3> DEFINE c == CutAt(text, stops, left)
               p == Piece(text, N - left, c)
    <3>1. /\ c \in Nat /\ N - left \in Nat /\ N - left < c /\ c <= (N - left) + TARGET_CHARS
          /\ c <= N /\ N - c \in 0 .. left - 1
      BY <1>2, <2>2, CutAtFacts
    <3>2. f[left] = <<p>> \o f[N - c]
      BY <2>0, <2>2 DEF SplitStep
    <3> HIDE DEF c
    <3>3. /\ p \in Seq(Nat) /\ Len(p) = c - (N - left)
          /\ ToSet(p) = {text[n] : n \in N - left + 1 .. c}
      <4> DEFINE from == N - left
      <4>1. from \in Nat /\ from <= c /\ c <= Len(text) /\ c \in Nat
        BY <3>1
      <4> HIDE DEF from, N
      <4>2. /\ Piece(text, from, c) \in Seq(Nat) /\ Len(Piece(text, from, c)) = c - from
            /\ ToSet(Piece(text, from, c)) = {text[n] : n \in from + 1 .. c}
        BY <4>1, PieceFacts
      <4> QED
        BY <4>2 DEF from
    <3>4. Good(N - c)
      BY <1>3, <3>1
    <3> HIDE DEF p
    <3>5. /\ <<p>> \in Seq(Seq(Nat)) /\ Chars(<<p>>) = ToSet(p)
          /\ DOMAIN <<p>> = {1} /\ <<p>>[1] = p
      BY <3>3, CharsOfOne
    <3>6. NoneOver(<<p>>, TARGET_CHARS)
      <4>1. Len(p) <= TARGET_CHARS
        BY <1>2, <3>1, <3>3
      <4> QED
        BY <3>5, <4>1 DEF NoneOver
    <3>7. <<p>> \o f[N - c] \in Seq(Seq(Nat)) /\ NoneOver(<<p>> \o f[N - c], TARGET_CHARS)
      <4> DEFINE r == f[N - c]
      <4>1. r \in Seq(Seq(Nat)) /\ NoneOver(r, TARGET_CHARS)
        BY <3>4
      <4> HIDE DEF r
      <4>2. <<p>> \o r \in Seq(Seq(Nat))
        BY <3>5, <4>1
      <4>3. NoneOver(<<p>> \o r, TARGET_CHARS)
        BY <3>5, <3>6, <4>1, ShortOf
      <4> QED
        BY <4>2, <4>3 DEF r
    <3>8. Chars(<<p>> \o f[N - c]) = Chars(<<p>>) \cup Chars(f[N - c])
      BY <3>4, <3>5, CharsOf
    <3>9. ASSUME NEW n \in N - left + 1 .. N
          PROVE  text[n] \in Chars(f[left])
      <4>1. CASE n <= c
        <5>1. n \in N - left + 1 .. c
          BY <3>1, <4>1
        <5> QED
          BY <3>2, <3>3, <3>5, <3>8, <5>1
      <4>2. CASE ~(n <= c)
        <5>1. n \in N - (N - c) + 1 .. N
          BY <1>2, <3>1, <4>2
        <5> QED
          BY <3>2, <3>4, <3>8, <5>1
      <4> QED
        BY <4>1, <4>2
    <3> QED
      BY <3>2, <3>7, <3>9
  <2> QED
    BY <2>1, <2>2
<1>4. Bad = {}
  <2> SUFFICES ASSUME Bad # {} PROVE FALSE
    OBVIOUS
  <2> HIDE DEF Good
  <2>1. Bad \in SUBSET Nat
    OBVIOUS
  <2>2. PICK x \in Bad : \A y \in Bad : x <= y
    <3> HIDE DEF Bad
    <3> QED
      BY <2>1, Smallest
  <2>3. x \in 0 .. N /\ ~Good(x)
    BY <2>2
  <2>4. \A m \in 0 .. x - 1 : m \in 0 .. N /\ ~(x <= m)
    BY <1>2, <2>3
  <2>5. \A m \in 0 .. x - 1 : Good(m)
    BY <2>2, <2>4
  <2> QED
    BY <1>3, <2>3, <2>5
<1>5. Good(N)
  <2>1. N \in 0 .. N
    BY <1>2
  <2> HIDE DEF Good
  <2> QED
    BY <1>4, <2>1
<1>6. {text[n] : n \in N - N + 1 .. N} = ToSet(text)
  BY <1>2 DEF ToSet
<1> QED
  BY <1>1, <1>5, <1>6

\* What a step takes to what exists: the values of a fold from left to right.
Moves(G, N, T) == G \in [(1 .. N) \X T -> T]

Folds(g, e, G, N, T) ==
    g \in [0 .. N -> T] /\ g[0] = e /\ \A k \in 1 .. N : g[k] = G[<<k, g[k - 1]>>]

LEMMA Folding ==
    ASSUME NEW N \in Nat, NEW T, NEW e \in T, NEW G, Moves(G, N, T)
    PROVE  \E g : Folds(g, e, G, N, T)
<1> DEFINE F == [p \in (0 .. N) \X [0 .. N -> T] |->
                    IF p[1] = 0 THEN e ELSE G[<<p[1], p[2][p[1] - 1]>>]]
<1>1. \A n \in 0 .. N : n # 0 => n \in 1 .. N /\ n - 1 \in 0 .. N
  OBVIOUS
<1>2. \A n \in 0 .. N, g \in [0 .. N -> T] :
          F[<<n, g>>] = IF n = 0 THEN e ELSE G[<<n, g[n - 1]>>]
  OBVIOUS
<1>3. F \in [(0 .. N) \X [0 .. N -> T] -> T]
  <2>1. \A n \in 0 .. N, g \in [0 .. N -> T] : n # 0 => <<n, g[n - 1]>> \in (1 .. N) \X T
    BY <1>1
  <2>2. \A n \in 0 .. N, g \in [0 .. N -> T] :
            (IF n = 0 THEN e ELSE G[<<n, g[n - 1]>>]) \in T
    BY <2>1 DEF Moves
  <2> QED
    BY <2>2
<1> HIDE DEF F
<1>4. ASSUME NEW n \in 0 .. N, NEW g \in [0 .. N -> T], NEW h \in [0 .. N -> T],
             \A m \in 0 .. n - 1 : g[m] = h[m]
      PROVE  F[<<n, g>>] = F[<<n, h>>]
  <2>1. n # 0 => n - 1 \in 0 .. n - 1
    OBVIOUS
  <2> QED
    BY <1>2, <1>4, <2>1, ZenonT(30)
<1>5. IsStep(F, N, T)
  BY <1>3, <1>4 DEF IsStep
<1>6. PICK g : g \in [0 .. N -> T] /\ Solves(g, F, N)
  BY <1>5, Recursion
<1>7. g[0] = e /\ \A k \in 1 .. N : g[k] = G[<<k, g[k - 1]>>]
  <2>1. 0 \in 0 .. N /\ \A k \in 1 .. N : k \in 0 .. N /\ k # 0
    OBVIOUS
  <2> QED
    BY <1>2, <1>6, <2>1 DEF Solves
<1> QED
  BY <1>6, <1>7 DEF Folds

Paragraph == [text : Seq(Nat), stops : SUBSET Nat]

LEMMA PiecesOfFacts ==
    ASSUME NEW paras \in Seq(Paragraph)
    PROVE  /\ PiecesOf(paras) \in Seq(Seq(Nat)) /\ NoneOver(PiecesOf(paras), TARGET_CHARS)
           /\ \A i \in DOMAIN paras : ToSet(paras[i].text) \subseteq Chars(PiecesOf(paras))
<1> DEFINE N == Len(paras)
           T == Seq(Seq(Nat))
           e == <<>>
           part(k) == SplitLong(paras[k].text, paras[k].stops)
           f == CHOOSE g : g = [k \in 0 .. N |-> IF k = 0 THEN <<>> ELSE g[k - 1] \o part(k)]
           G == [p \in (1 .. N) \X T |-> p[2] \o part(p[1])]
<1>1. PiecesOf(paras) = f[N]
  BY DEF PiecesOf
<1>2. N \in Nat /\ DOMAIN paras = 1 .. N /\ e \in T
  OBVIOUS
<1>3. \A k \in 1 .. N : /\ paras[k].text \in Seq(Nat) /\ part(k) \in T
                        /\ NoneOver(part(k), TARGET_CHARS)
                        /\ ToSet(paras[k].text) \subseteq Chars(part(k))
  <2>1. \A k \in 1 .. N : paras[k].text \in Seq(Nat)
    <3>1. \A k \in 1 .. N : paras[k] \in Paragraph
      BY <1>2
    <3> QED
      BY <3>1 DEF Paragraph
  <2> QED
    BY <2>1, SplitLongFacts
<1> HIDE DEF part
<1>4. ASSUME NEW k \in 1 .. N, NEW t \in T
      PROVE  G[<<k, t>>] = t \o part(k) /\ t \o part(k) \in T
  <2>1. part(k) \in T
    BY <1>3
  <2>2. t \o part(k) \in T
    BY <2>1
  <2> QED
    BY <2>2
<1>5. Moves(G, N, T)
  BY <1>4 DEF Moves
<1> HIDE DEF N, T, e, G
<1>6. PICK g : Folds(g, e, G, N, T)
  BY <1>2, <1>5, Folding
<1>7. \A k \in 1 .. N : k - 1 \in 0 .. N /\ k \in 0 .. N /\ k # 0
  BY <1>2
<1>8. g = [k \in 0 .. N |-> IF k = 0 THEN <<>> ELSE g[k - 1] \o part(k)]
  <2>1. g = [k \in 0 .. N |-> g[k]] /\ g[0] = <<>>
    BY <1>6 DEF Folds, e
  <2>2. \A k \in 0 .. N : k # 0 => k \in 1 .. N
    BY <1>2
  <2>3. \A k \in 1 .. N : g[k] = g[k - 1] \o part(k)
    BY <1>4, <1>6, <1>7 DEF Folds
  <2>4. \A k \in 0 .. N : g[k] = IF k = 0 THEN <<>> ELSE g[k - 1] \o part(k)
    BY <2>1, <2>2, <2>3
  <2> QED
    BY <2>1, <2>4
<1>9. f = [k \in 0 .. N |-> IF k = 0 THEN <<>> ELSE f[k - 1] \o part(k)]
  BY <1>8
<1> HIDE DEF f
<1> DEFINE P == {k \in 0 .. N : /\ f[k] \in T /\ NoneOver(f[k], TARGET_CHARS)
                                /\ \A i \in 1 .. k : ToSet(paras[i].text) \subseteq Chars(f[k])}
<1>10. 0 \in P
  <2>1. 0 \in 0 .. N /\ f[0] = <<>> /\ 1 .. 0 = {}
    BY <1>2, <1>9
  <2>2. <<>> \in T /\ NoneOver(<<>>, TARGET_CHARS)
    BY DEF T, NoneOver
  <2> QED
    BY <2>1, <2>2
<1>11. ASSUME NEW n \in 0 .. N, n \in P, n < N
       PROVE  n + 1 \in P
  <2>1. n + 1 \in 1 .. N /\ n + 1 \in 0 .. N /\ n + 1 # 0 /\ (n + 1) - 1 = n
    BY <1>2, <1>11
  <2> DEFINE t == f[n]
             u == part(n + 1)
  <2>2. f[n + 1] = t \o u
    BY <1>9, <2>1
  <2>3. /\ t \in T /\ NoneOver(t, TARGET_CHARS)
        /\ \A i \in 1 .. n : ToSet(paras[i].text) \subseteq Chars(t)
    BY <1>11
  <2>4. u \in T /\ NoneOver(u, TARGET_CHARS) /\ ToSet(paras[n + 1].text) \subseteq Chars(u)
    BY <1>3, <2>1
  <2> HIDE DEF t, u
  <2>5. t \o u \in T /\ NoneOver(t \o u, TARGET_CHARS) /\ Chars(t \o u) = Chars(t) \cup Chars(u)
    BY <2>3, <2>4, ShortOf, CharsOf DEF T
  <2>6. \A i \in 1 .. n + 1 : i \in 1 .. n \/ i = n + 1
    BY <2>1
  <2>7. \A i \in 1 .. n + 1 : ToSet(paras[i].text) \subseteq Chars(t \o u)
    BY <2>3, <2>4, <2>5, <2>6
  <2> QED
    BY <2>1, <2>2, <2>5, <2>7
<1>12. N \in P
  <2>1. N \in 0 .. N
    BY <1>2
  <2> HIDE DEF P
  <2>2. \A n \in 0 .. N : n \in P /\ n < N => n + 1 \in P
    BY <1>11
  <2>3. \A n \in 0 .. N : n \in P
    BY <1>2, <1>10, <2>2, Climbing
  <2> QED
    BY <2>1, <2>3
<1> QED
  BY <1>1, <1>2, <1>12 DEF T

ChunkLimit == TARGET_CHARS + OVERLAP_CHARS + 2

LEMMA LimitFacts ==
    /\ TARGET_CHARS \in Nat /\ OVERLAP_CHARS \in Nat /\ BATCH \in Nat /\ ChunkLimit \in Nat
    /\ TARGET_CHARS > 0 /\ BATCH > 0
<1>1. TARGET_CHARS \in Nat \ {0} /\ OVERLAP_CHARS \in Nat \ {0} /\ BATCH \in Nat \ {0}
  BY RequestsAssumption
<1> QED
  BY <1>1 DEF ChunkLimit

LEMMA TrimStartFacts ==
    ASSUME NEW text \in Seq(Nat)
    PROVE  TrimStart(text) \in Seq(Nat) /\ Len(TrimStart(text)) <= Len(text)
<1> DEFINE kept == {n \in DOMAIN text : text[n] # 0}
<1>1. Len(text) \in Nat /\ DOMAIN text = 1 .. Len(text)
  OBVIOUS
<1>2. CASE kept = {}
  <2>1. TrimStart(text) = <<>>
    BY <1>2 DEF TrimStart
  <2> QED
    BY <1>1, <2>1
<1>3. CASE kept # {}
  <2>1. TrimStart(text) = SubSeq(text, Min(kept), Len(text))
    BY <1>3 DEF TrimStart
  <2>2. kept \in SUBSET Nat /\ \A n \in kept : n \in 1 .. Len(text)
    BY <1>1
  <2> HIDE DEF kept
  <2>3. PICK m \in kept : \A y \in kept : m <= y
    BY <1>3, <2>2, Smallest
  <2>4. Min(kept) \in kept
    BY <2>3 DEF Min
  <2>5. PICK n \in 1 .. Len(text) : TrimStart(text) = SubSeq(text, n, Len(text))
    BY <2>1, <2>2, <2>4
  <2>6. SubSeq(text, n, Len(text)) \in Seq(Nat) /\ Len(SubSeq(text, n, Len(text))) = Len(text) - n + 1
    BY <1>1
  <2> QED
    BY <1>1, <2>5, <2>6
<1> QED
  BY <1>2, <1>3

LEMMA OverlapTailFacts ==
    ASSUME NEW text \in Seq(Nat)
    PROVE  OverlapTail(text) \in Seq(Nat) /\ Len(OverlapTail(text)) <= OVERLAP_CHARS
<1> DEFINE a == IF Len(text) > OVERLAP_CHARS THEN Len(text) - OVERLAP_CHARS + 1 ELSE 1
           tail == SubSeq(text, a, Len(text))
<1>1. /\ Len(text) \in Nat /\ a \in Nat /\ a >= 1 /\ OVERLAP_CHARS \in Nat
      /\ a <= Len(text) + 1 /\ Len(text) - a + 1 <= OVERLAP_CHARS
  BY LimitFacts
<1>2. OverlapTail(text) = TrimStart(tail)
  BY DEF OverlapTail
<1> HIDE DEF a
<1>3. tail \in Seq(Nat) /\ Len(tail) <= OVERLAP_CHARS /\ Len(tail) \in Nat
  BY <1>1
<1> HIDE DEF tail
<1>4. /\ TrimStart(tail) \in Seq(Nat) /\ Len(TrimStart(tail)) <= Len(tail)
      /\ Len(TrimStart(tail)) \in Nat
  BY <1>3, TrimStartFacts
<1> QED
  BY <1>1, <1>2, <1>3, <1>4

Packing == [done : Seq(Seq(Nat)), cur : Seq(Nat)]

\* What is packed, closed or not.
Held(acc) == Chars(acc.done) \cup ToSet(acc.cur)

PackedRight(acc) == NoneOver(acc.done, ChunkLimit) /\ Len(acc.cur) <= ChunkLimit

LEMMA PackedFacts ==
    ASSUME NEW acc \in Packing, NEW piece \in Seq(Nat), Len(piece) <= TARGET_CHARS, PackedRight(acc)
    PROVE  /\ Packed(acc, piece) \in Packing /\ PackedRight(Packed(acc, piece))
           /\ Held(acc) \cup ToSet(piece) \subseteq Held(Packed(acc, piece))
<1> DEFINE full == acc.cur # <<>> /\ Len(acc.cur) + Len(piece) + 2 > TARGET_CHARS
           cur == IF full THEN OverlapTail(acc.cur) ELSE acc.cur
           done == IF full THEN Append(acc.done, acc.cur) ELSE acc.done
           new == IF cur = <<>> THEN piece ELSE cur \o Break \o piece
<1>1. Packed(acc, piece) = [done |-> done, cur |-> new]
  BY DEF Packed
<1>2. /\ acc.done \in Seq(Seq(Nat)) /\ acc.cur \in Seq(Nat) /\ Len(acc.cur) \in Nat
      /\ Len(piece) \in Nat /\ Break \in Seq(Nat) /\ Len(Break) = 2
  BY DEF Packing, Break
<1>3. /\ cur \in Seq(Nat) /\ Len(cur) \in Nat
      /\ cur # <<>> => Len(cur) + Len(piece) + 2 <= ChunkLimit
  <2>1. CASE full
    <3>1. cur \in Seq(Nat) /\ Len(cur) <= OVERLAP_CHARS
      BY <1>2, <2>1, OverlapTailFacts
    <3> HIDE DEF cur
    <3>2. Len(cur) \in Nat
      BY <3>1
    <3> QED
      BY <1>2, <3>1, <3>2, LimitFacts DEF ChunkLimit
  <2>2. CASE ~full
    <3>1. cur = acc.cur
      BY <2>2
    <3>2. cur # <<>> => Len(cur) + Len(piece) + 2 <= TARGET_CHARS
      BY <1>2, <2>2, LimitFacts
    <3> HIDE DEF cur
    <3> QED
      BY <1>2, <3>1, <3>2, LimitFacts DEF ChunkLimit
  <2> QED
    BY <2>1, <2>2
<1>4. /\ done \in Seq(Seq(Nat)) /\ NoneOver(done, ChunkLimit)
      /\ Held(acc) \subseteq Chars(done) \cup ToSet(cur)
  <2>1. CASE full
    <3>1. done = acc.done \o <<acc.cur>>
      BY <1>2, <2>1, AppendIsConcat
    <3>2. /\ <<acc.cur>> \in Seq(Seq(Nat)) /\ Chars(<<acc.cur>>) = ToSet(acc.cur)
          /\ DOMAIN <<acc.cur>> = {1} /\ <<acc.cur>>[1] = acc.cur
      BY <1>2, CharsOfOne
    <3>3. NoneOver(<<acc.cur>>, ChunkLimit)
      BY <3>2 DEF NoneOver, PackedRight
    <3> HIDE DEF done
    <3>4. /\ NoneOver(acc.done \o <<acc.cur>>, ChunkLimit)
          /\ Chars(acc.done \o <<acc.cur>>) = Chars(acc.done) \cup Chars(<<acc.cur>>)
      BY <1>2, <3>2, <3>3, ShortOf, CharsOf DEF PackedRight
    <3>5. acc.done \o <<acc.cur>> \in Seq(Seq(Nat))
      BY <1>2, <3>2
    <3> QED
      BY <3>1, <3>2, <3>4, <3>5 DEF Held
  <2>2. CASE ~full
    BY <1>2, <2>2 DEF Held, PackedRight
  <2> QED
    BY <2>1, <2>2
<1> HIDE DEF cur, done, full
<1>5. /\ new \in Seq(Nat) /\ Len(new) <= ChunkLimit
      /\ ToSet(cur) \cup ToSet(piece) \subseteq ToSet(new)
  <2>1. CASE cur = <<>>
    <3>1. new = piece /\ ToSet(cur) = {}
      BY <2>1 DEF ToSet
    <3> QED
      BY <1>2, <3>1, LimitFacts DEF ChunkLimit
  <2>2. CASE cur # <<>>
    <3>1. new = cur \o Break \o piece
      BY <2>2
    <3> HIDE DEF new
    <3>2. cur \o Break \in Seq(Nat) /\ Len(cur \o Break) = Len(cur) + Len(Break)
      BY <1>2, <1>3, ConcatProperties
    <3>3. ToSet(cur \o Break) = ToSet(cur) \cup ToSet(Break)
      BY <1>2, <1>3, ToSetOf
    <3> DEFINE u == cur \o Break
    <3>4. u \o piece \in Seq(Nat) /\ Len(u \o piece) = Len(cur) + 2 + Len(piece)
      <4> HIDE DEF u
      <4>1. u \in Seq(Nat) /\ Len(u) = Len(cur) + 2
        BY <1>2, <3>2 DEF u
      <4>2. u \o piece \in Seq(Nat) /\ Len(u \o piece) = Len(u) + Len(piece)
        BY <1>2, <4>1, ConcatProperties
      <4> QED
        BY <4>1, <4>2
    <3>5. ToSet(u \o piece) = ToSet(u) \cup ToSet(piece)
      <4> HIDE DEF u
      <4>1. u \in Seq(Nat)
        BY <3>2 DEF u
      <4> QED
        BY <1>2, <4>1, ToSetOf
    <3> QED
      BY <1>2, <1>3, <2>2, <3>1, <3>3, <3>4, <3>5, LimitFacts
  <2> QED
    BY <2>1, <2>2
<1> HIDE DEF new
<1>6. Packed(acc, piece).done = done /\ Packed(acc, piece).cur = new
  BY <1>1
<1> QED
  BY <1>1, <1>4, <1>5, <1>6 DEF Packing, PackedRight, Held

\* Whatever is packed is held at the end.
LEMMA PackedOfFacts ==
    ASSUME NEW pieces \in Seq(Seq(Nat)), NoneOver(pieces, TARGET_CHARS)
    PROVE  /\ PackedOf(pieces) \in Packing /\ PackedRight(PackedOf(pieces))
           /\ Chars(pieces) \subseteq Held(PackedOf(pieces))
<1> DEFINE N == Len(pieces)
           T == {acc \in Packing : PackedRight(acc)}
           e == [done |-> <<>>, cur |-> <<>>]
           f == CHOOSE g : g = [k \in 0 .. N |-> IF k = 0 THEN [done |-> <<>>, cur |-> <<>>]
                                                 ELSE Packed(g[k - 1], pieces[k])]
           G == [p \in (1 .. N) \X T |-> Packed(p[2], pieces[p[1]])]
<1>1. PackedOf(pieces) = f[N]
  BY DEF PackedOf
<1>2. N \in Nat /\ DOMAIN pieces = 1 .. N
  OBVIOUS
<1>3. e \in T
  <2>1. e \in Packing /\ e.done = <<>> /\ e.cur = <<>>
    BY DEF Packing
  <2> QED
    BY <2>1, LimitFacts DEF PackedRight, NoneOver
<1>4. \A k \in 1 .. N : pieces[k] \in Seq(Nat) /\ Len(pieces[k]) <= TARGET_CHARS
  <2>1. \A k \in 1 .. N : pieces[k] \in Seq(Nat)
    BY <1>2
  <2>2. \A k \in 1 .. N : Len(pieces[k]) <= TARGET_CHARS
    BY <1>2 DEF NoneOver
  <2> QED
    BY <2>1, <2>2
<1>5. ASSUME NEW k \in 1 .. N, NEW t \in T
      PROVE  /\ G[<<k, t>>] = Packed(t, pieces[k]) /\ Packed(t, pieces[k]) \in T
             /\ Held(t) \cup ToSet(pieces[k]) \subseteq Held(Packed(t, pieces[k]))
  <2>1. t \in Packing /\ PackedRight(t) /\ <<k, t>> \in (1 .. N) \X T
    OBVIOUS
  <2> QED
    BY <1>4, <2>1, PackedFacts
<1>6. Moves(G, N, T)
  BY <1>5 DEF Moves
<1> HIDE DEF N, T, G
<1>7. PICK g : Folds(g, e, G, N, T)
  <2> HIDE DEF e
  <2> QED
    BY <1>2, <1>3, <1>6, Folding
<1>8. \A k \in 1 .. N : k - 1 \in 0 .. N /\ k \in 0 .. N /\ k # 0
  BY <1>2
<1>9. g = [k \in 0 .. N |-> IF k = 0 THEN [done |-> <<>>, cur |-> <<>>]
                            ELSE Packed(g[k - 1], pieces[k])]
  <2>1. g = [k \in 0 .. N |-> g[k]] /\ g[0] = e
    BY <1>7 DEF Folds
  <2>2. \A k \in 0 .. N : k # 0 => k \in 1 .. N
    BY <1>2
  <2>3. \A k \in 1 .. N : g[k] = Packed(g[k - 1], pieces[k])
    BY <1>5, <1>7, <1>8 DEF Folds
  <2>4. \A k \in 0 .. N : g[k] = IF k = 0 THEN e ELSE Packed(g[k - 1], pieces[k])
    BY <2>1, <2>2, <2>3
  <2> QED
    BY <2>1, <2>4
<1>10. f = [k \in 0 .. N |-> IF k = 0 THEN [done |-> <<>>, cur |-> <<>>]
                             ELSE Packed(f[k - 1], pieces[k])]
  BY <1>9
<1> HIDE DEF f
<1> DEFINE P == {k \in 0 .. N : f[k] \in T /\ \A i \in 1 .. k : ToSet(pieces[i]) \subseteq Held(f[k])}
<1>11. 0 \in P
  <2>1. 0 \in 0 .. N /\ f[0] = e /\ 1 .. 0 = {}
    BY <1>2, <1>10
  <2> QED
    BY <1>3, <2>1
<1>12. ASSUME NEW n \in 0 .. N, n \in P, n < N
       PROVE  n + 1 \in P
  <2>1. n + 1 \in 1 .. N /\ n + 1 \in 0 .. N /\ n + 1 # 0 /\ (n + 1) - 1 = n
    BY <1>2, <1>12
  <2> DEFINE t == f[n]
  <2>2. f[n + 1] = Packed(t, pieces[n + 1])
    BY <1>10, <2>1
  <2>3. t \in T /\ \A i \in 1 .. n : ToSet(pieces[i]) \subseteq Held(t)
    BY <1>12
  <2> HIDE DEF t
  <2>4. /\ Packed(t, pieces[n + 1]) \in T
        /\ Held(t) \cup ToSet(pieces[n + 1]) \subseteq Held(Packed(t, pieces[n + 1]))
    BY <1>5, <2>1, <2>3
  <2>5. \A i \in 1 .. n + 1 : i \in 1 .. n \/ i = n + 1
    BY <2>1
  <2>6. \A i \in 1 .. n + 1 : ToSet(pieces[i]) \subseteq Held(f[n + 1])
    BY <2>2, <2>3, <2>4, <2>5
  <2> QED
    BY <2>1, <2>2, <2>4, <2>6
<1>13. N \in P
  <2>1. N \in 0 .. N
    BY <1>2
  <2> HIDE DEF P
  <2>2. \A n \in 0 .. N : n \in P /\ n < N => n + 1 \in P
    BY <1>12
  <2>3. \A n \in 0 .. N : n \in P
    BY <1>2, <1>11, <2>2, Climbing
  <2> QED
    BY <2>1, <2>3
<1>14. Chars(pieces) \subseteq Held(f[N])
  BY <1>2, <1>13 DEF Chars
<1> QED
  BY <1>1, <1>13, <1>14 DEF T

\* The chunks of a page: none over the limit, and all of the page in them.
LEMMA ChunkPageFacts ==
    ASSUME NEW paras \in Seq(Paragraph)
    PROVE  /\ ChunkPage(paras) \in Seq(Seq(Nat)) /\ NoneOver(ChunkPage(paras), ChunkLimit)
           /\ \A i \in DOMAIN paras : ToSet(paras[i].text) \subseteq Chars(ChunkPage(paras))
<1> DEFINE packed == PackedOf(PiecesOf(paras))
           last == IF packed.cur = <<>> THEN <<>> ELSE <<packed.cur>>
<1>1. /\ packed \in Packing /\ PackedRight(packed)
      /\ \A i \in DOMAIN paras : ToSet(paras[i].text) \subseteq Held(packed)
  BY PiecesOfFacts, PackedOfFacts
<1>2. ChunkPage(paras) = packed.done \o last
  BY DEF ChunkPage
<1> HIDE DEF packed
<1>3. /\ packed.done \in Seq(Seq(Nat)) /\ NoneOver(packed.done, ChunkLimit)
      /\ packed.cur \in Seq(Nat) /\ Len(packed.cur) <= ChunkLimit
  BY <1>1 DEF Packing, PackedRight
<1>4. /\ last \in Seq(Seq(Nat)) /\ NoneOver(last, ChunkLimit) /\ Chars(last) = ToSet(packed.cur)
  <2>1. CASE packed.cur = <<>>
    <3>1. last = <<>>
      BY <2>1
    <3>2. Chars(<<>>) = {} /\ ToSet(packed.cur) = {}
      BY <2>1 DEF Chars, ToSet
    <3> QED
      BY <3>1, <3>2 DEF NoneOver
  <2>2. CASE packed.cur # <<>>
    BY <1>3, <2>2, CharsOfOne DEF NoneOver
  <2> QED
    BY <2>1, <2>2
<1> HIDE DEF last
<1>5. packed.done \o last \in Seq(Seq(Nat)) /\ NoneOver(packed.done \o last, ChunkLimit)
  BY <1>3, <1>4, ShortOf
<1>6. Chars(packed.done \o last) = Held(packed)
  BY <1>3, <1>4, CharsOf DEF Held
<1> QED
  BY <1>1, <1>2, <1>5, <1>6

PageText == [page : Nat, text : Seq(Nat)]

LEMMA OnPageFacts ==
    ASSUME NEW k \in Nat, NEW texts \in Seq(Seq(Nat))
    PROVE  /\ OnPage(k, texts) \in Seq(PageText)
           /\ ToSet(OnPage(k, texts)) = {[page |-> k, text |-> c] : c \in ToSet(texts)}
<1> DEFINE o == OnPage(k, texts)
<1>1. Len(texts) \in Nat /\ DOMAIN texts = 1 .. Len(texts)
  OBVIOUS
<1>2. o = [n \in 1 .. Len(texts) |-> [page |-> k, text |-> texts[n]]]
  BY DEF OnPage
<1>3. \A n \in 1 .. Len(texts) : [page |-> k, text |-> texts[n]] \in PageText
  <2>1. \A n \in 1 .. Len(texts) : texts[n] \in Seq(Nat)
    BY <1>1
  <2> QED
    BY <2>1 DEF PageText
<1> HIDE DEF o
<1>4. o \in Seq(PageText)
  BY <1>1, <1>2, <1>3
<1>5. ToSet(o) = {[page |-> k, text |-> c] : c \in ToSet(texts)}
  BY <1>1, <1>2 DEF ToSet
<1> QED
  BY <1>4, <1>5 DEF o

Paper == Seq(Seq(Paragraph))

LEMMA BodyOfFacts ==
    ASSUME NEW pages \in Paper
    PROVE  /\ BodyOf(pages) \in Seq(PageText)
           /\ \A x \in ToSet(BodyOf(pages)) : Len(x.text) <= ChunkLimit
           /\ \A j \in DOMAIN pages : \A c \in ToSet(ChunkPage(pages[j])) :
                  [page |-> j, text |-> c] \in ToSet(BodyOf(pages))
<1> DEFINE N == Len(pages)
           T == Seq(PageText)
           e == <<>>
           part(k) == OnPage(k, ChunkPage(pages[k]))
           f == CHOOSE g : g = [k \in 0 .. N |-> IF k = 0 THEN <<>> ELSE g[k - 1] \o part(k)]
           G == [p \in (1 .. N) \X T |-> p[2] \o part(p[1])]
           Short(u) == \A x \in ToSet(u) : Len(x.text) <= ChunkLimit
           Carries(u, j) == \A c \in ToSet(ChunkPage(pages[j])) : [page |-> j, text |-> c] \in ToSet(u)
<1>1. BodyOf(pages) = f[N]
  BY DEF BodyOf
<1>2. N \in Nat /\ DOMAIN pages = 1 .. N /\ e \in T
  BY DEF Paper
<1>3. ASSUME NEW k \in 1 .. N
      PROVE  part(k) \in T /\ Short(part(k)) /\ Carries(part(k), k)
  <2>1. pages[k] \in Seq(Paragraph)
    BY <1>2 DEF Paper
  <2> DEFINE texts == ChunkPage(pages[k])
  <2>2. texts \in Seq(Seq(Nat)) /\ NoneOver(texts, ChunkLimit)
    BY <2>1, ChunkPageFacts
  <2> HIDE DEF texts
  <2>3. /\ OnPage(k, texts) \in T
        /\ ToSet(OnPage(k, texts)) = {[page |-> k, text |-> c] : c \in ToSet(texts)}
    BY <2>2, OnPageFacts
  <2>4. \A c \in ToSet(texts) : Len(c) <= ChunkLimit
    BY <2>2 DEF NoneOver, ToSet
  <2>5. \A c : [page |-> k, text |-> c].text = c
    OBVIOUS
  <2>6. Short(OnPage(k, texts))
    BY <2>3, <2>4, <2>5
  <2> QED
    BY <2>3, <2>6 DEF texts
<1> HIDE DEF part
<1>4. ASSUME NEW k \in 1 .. N, NEW t \in T
      PROVE  G[<<k, t>>] = t \o part(k) /\ t \o part(k) \in T
  <2>1. part(k) \in T
    BY <1>3
  <2>2. t \o part(k) \in T
    BY <2>1
  <2> QED
    BY <2>2
<1>5. Moves(G, N, T)
  BY <1>4 DEF Moves
<1> HIDE DEF N, T, e, G
<1>6. PICK g : Folds(g, e, G, N, T)
  BY <1>2, <1>5, Folding
<1>7. \A k \in 1 .. N : k - 1 \in 0 .. N /\ k \in 0 .. N /\ k # 0
  BY <1>2
<1>8. g = [k \in 0 .. N |-> IF k = 0 THEN <<>> ELSE g[k - 1] \o part(k)]
  <2>1. g = [k \in 0 .. N |-> g[k]] /\ g[0] = <<>>
    BY <1>6 DEF Folds, e
  <2>2. \A k \in 0 .. N : k # 0 => k \in 1 .. N
    BY <1>2
  <2>3. \A k \in 1 .. N : g[k] = g[k - 1] \o part(k)
    BY <1>4, <1>6, <1>7 DEF Folds
  <2>4. \A k \in 0 .. N : g[k] = IF k = 0 THEN <<>> ELSE g[k - 1] \o part(k)
    BY <2>1, <2>2, <2>3
  <2> QED
    BY <2>1, <2>4
<1>9. f = [k \in 0 .. N |-> IF k = 0 THEN <<>> ELSE f[k - 1] \o part(k)]
  BY <1>8
<1> HIDE DEF f
<1> DEFINE P == {k \in 0 .. N : f[k] \in T /\ Short(f[k]) /\ \A i \in 1 .. k : Carries(f[k], i)}
<1>10. 0 \in P
  <2>1. 0 \in 0 .. N /\ f[0] = <<>> /\ 1 .. 0 = {} /\ <<>> \in T /\ ToSet(<<>>) = {}
    BY <1>2, <1>9 DEF ToSet, e
  <2> QED
    BY <2>1
<1>11. ASSUME NEW n \in 0 .. N, n \in P, n < N
       PROVE  n + 1 \in P
  <2>1. n + 1 \in 1 .. N /\ n + 1 \in 0 .. N /\ n + 1 # 0 /\ (n + 1) - 1 = n
    BY <1>2, <1>11
  <2> DEFINE t == f[n]
             u == part(n + 1)
  <2>2. f[n + 1] = t \o u
    BY <1>9, <2>1
  <2>3. t \in T /\ Short(t) /\ \A i \in 1 .. n : Carries(t, i)
    BY <1>11
  <2>4. u \in T /\ Short(u) /\ Carries(u, n + 1)
    BY <1>3, <2>1
  <2> HIDE DEF t, u
  <2>5. t \o u \in T /\ ToSet(t \o u) = ToSet(t) \cup ToSet(u)
    BY <2>3, <2>4, ToSetOf DEF T
  <2>6. \A i \in 1 .. n + 1 : i \in 1 .. n \/ i = n + 1
    BY <2>1
  <2>7. Short(t \o u) /\ \A i \in 1 .. n + 1 : Carries(t \o u, i)
    BY <2>3, <2>4, <2>5, <2>6
  <2> HIDE DEF Short, Carries
  <2> QED
    BY <2>1, <2>2, <2>5, <2>7
<1>12. N \in P
  <2>1. N \in 0 .. N
    BY <1>2
  <2> HIDE DEF P
  <2>2. \A n \in 0 .. N : n \in P /\ n < N => n + 1 \in P
    BY <1>11
  <2>3. \A n \in 0 .. N : n \in P
    BY <1>2, <1>10, <2>2, Climbing
  <2> QED
    BY <2>1, <2>3
<1> QED
  BY <1>1, <1>2, <1>12 DEF T

Chunked == [seq : Nat, page : Nat, text : Seq(Nat)]

\* What is embedded of a paper: chunks of limited length, and of every page all.
LEMMA ChunkPaperFacts ==
    ASSUME NEW t \in Texts
    PROVE  /\ ChunkPaper(t) \in Seq(Chunked)
           /\ \A c \in ToSet(ChunkPaper(t)) : Len(c.text) <= ChunkLimit
           /\ \A k \in 1 .. Len(t.pages) : \A para \in ToSet(t.pages[k]) :
                ToSet(para.text) \subseteq
                  UNION {ToSet(c.text) : c \in {d \in ToSet(ChunkPaper(t)) : d.page = k}}
<1> DEFINE body == BodyOf(t.pages)
           chunk(n) == [seq |-> n, page |-> body[n].page, text |-> body[n].text]
           numbered == [n \in 1 .. Len(body) |-> chunk(n)]
           head == IF t.summary THEN <<[seq |-> 0, page |-> 0, text |-> <<>>]>> ELSE <<>>
<1>1. t.pages \in Paper
  BY RequestsAssumption DEF Paper, Paragraph
<1>2. /\ body \in Seq(PageText) /\ \A x \in ToSet(body) : Len(x.text) <= ChunkLimit
      /\ \A j \in DOMAIN t.pages : \A c \in ToSet(ChunkPage(t.pages[j])) :
             [page |-> j, text |-> c] \in ToSet(body)
  BY <1>1, BodyOfFacts
<1>3. ChunkPaper(t) = head \o numbered
  BY DEF ChunkPaper
<1> HIDE DEF body
<1>4. Len(body) \in Nat /\ DOMAIN body = 1 .. Len(body)
  BY <1>2
<1>5. \A n \in 1 .. Len(body) : chunk(n) \in Chunked /\ body[n] \in ToSet(body)
  <2>1. \A n \in 1 .. Len(body) : body[n] \in PageText
    BY <1>2, <1>4
  <2> QED
    BY <1>4, <2>1 DEF PageText, Chunked, ToSet
<1>6. \A n \in 1 .. Len(body) : chunk(n).page = body[n].page /\ chunk(n).text = body[n].text
  OBVIOUS
<1> HIDE DEF chunk
<1>7. numbered \in Seq(Chunked) /\ ToSet(numbered) = {chunk(n) : n \in 1 .. Len(body)}
  BY <1>4, <1>5, SMTT(30) DEF ToSet
<1>8. head \in Seq(Chunked) /\ \A c \in ToSet(head) : c.text = <<>>
  <2> DEFINE h == [seq |-> 0, page |-> 0, text |-> <<>>]
  <2>1. h \in Chunked /\ h.text = <<>>
    BY DEF Chunked
  <2>2. head = <<>> \/ head = <<h>>
    OBVIOUS
  <2> HIDE DEF h, head
  <2>3. <<>> \in Seq(Chunked) /\ <<h>> \in Seq(Chunked) /\ ToSet(<<>>) = {} /\ ToSet(<<h>>) = {h}
    <3>1. DOMAIN <<h>> = {1} /\ <<h>>[1] = h /\ DOMAIN <<>> = {}
      OBVIOUS
    <3> QED
      BY <2>1, <3>1 DEF ToSet
  <2> QED
    BY <2>1, <2>2, <2>3
<1> HIDE DEF head, numbered
<1>9. /\ ChunkPaper(t) \in Seq(Chunked)
      /\ ToSet(ChunkPaper(t)) = ToSet(head) \cup ToSet(numbered)
  BY <1>3, <1>7, <1>8, ToSetOf
<1>10. ASSUME NEW c \in ToSet(ChunkPaper(t))
       PROVE  Len(c.text) <= ChunkLimit
  <2>1. CASE c \in ToSet(head)
    BY <1>8, <2>1, LimitFacts
  <2>2. CASE c \in ToSet(numbered)
    BY <1>2, <1>5, <1>6, <1>7, <2>2
  <2> QED
    BY <1>9, <2>1, <2>2
<1>11. ASSUME NEW k \in 1 .. Len(t.pages), NEW para \in ToSet(t.pages[k]), NEW x \in ToSet(para.text)
       PROVE  \E d \in ToSet(ChunkPaper(t)) : d.page = k /\ x \in ToSet(d.text)
  <2>1. k \in DOMAIN t.pages /\ t.pages[k] \in Seq(Paragraph)
    BY <1>1 DEF Paper
  <2>2. PICK i \in DOMAIN t.pages[k] : para = t.pages[k][i]
    BY DEF ToSet
  <2>3. x \in Chars(ChunkPage(t.pages[k]))
    BY <2>1, <2>2, ChunkPageFacts
  <2>4. PICK c \in ToSet(ChunkPage(t.pages[k])) : x \in ToSet(c)
    BY <2>3 DEF Chars, ToSet
  <2> DEFINE p == [page |-> k, text |-> c]
  <2>5. p \in ToSet(body) /\ p.page = k /\ p.text = c
    BY <1>2, <2>1
  <2> HIDE DEF p
  <2>6. PICK n \in 1 .. Len(body) : p = body[n]
    BY <1>4, <2>5 DEF ToSet
  <2>7. chunk(n) \in ToSet(ChunkPaper(t)) /\ chunk(n).page = k /\ chunk(n).text = c
    BY <1>6, <1>7, <1>9, <2>5, <2>6
  <2> QED
    BY <2>4, <2>7
<1> QED
  BY <1>9, <1>10, <1>11

----------------------------------------------------------------------------
(* Lists made of sets.                                                     *)

IsOrder(S, R) ==
    /\ \A x \in S : <<x, x>> \notin R
    /\ \A x, y \in S : x # y => <<x, y>> \in R \/ <<y, x>> \in R
    /\ \A x, y, z \in S : <<x, y>> \in R /\ <<y, z>> \in R => <<x, z>> \in R

\* Counting those that precede it ranks a finite set from 0 on, without gap or tie.
LEMMA Counted ==
    ASSUME NEW S, IsFiniteSet(S), NEW R, IsOrder(S, R), NEW N \in Nat, N = Cardinality(S)
    PROVE  /\ \A x \in S : IsFiniteSet(Preceding(S, R, x)) /\ Cardinality(Preceding(S, R, x)) \in 0 .. N - 1
           /\ \A x, y \in S : <<x, y>> \in R =>
                Cardinality(Preceding(S, R, x)) < Cardinality(Preceding(S, R, y))
           /\ \A n \in 1 .. N : \E x \in S : Cardinality(Preceding(S, R, x)) = n - 1
<1>1. \A x \in S : IsFiniteSet(Preceding(S, R, x)) /\ Cardinality(Preceding(S, R, x)) \in 0 .. N - 1
  <2> SUFFICES ASSUME NEW x \in S
               PROVE  IsFiniteSet(Preceding(S, R, x)) /\ Cardinality(Preceding(S, R, x)) \in 0 .. N - 1
    OBVIOUS
  <2>1. IsFiniteSet(S \ {x}) /\ Cardinality(S \ {x}) = N - 1
    BY FS_RemoveElement
  <2>2. Preceding(S, R, x) \in SUBSET (S \ {x})
    BY DEF Preceding, IsOrder
  <2>3. /\ IsFiniteSet(Preceding(S, R, x)) /\ Cardinality(Preceding(S, R, x)) \in Nat
        /\ Cardinality(Preceding(S, R, x)) <= Cardinality(S \ {x})
    BY <2>1, <2>2, FS_Subset, FS_CardinalityType
  <2> QED
    BY <2>1, <2>3
<1>2. ASSUME NEW x \in S, NEW y \in S, <<x, y>> \in R
      PROVE  Cardinality(Preceding(S, R, x)) < Cardinality(Preceding(S, R, y))
  <2>1. Preceding(S, R, x) \in SUBSET Preceding(S, R, y)
    BY <1>2 DEF Preceding, IsOrder
  <2>2. x \in Preceding(S, R, y) /\ x \notin Preceding(S, R, x)
    BY <1>2 DEF Preceding, IsOrder
  <2>3. IsFiniteSet(Preceding(S, R, y))
    BY <1>1
  <2>4. /\ Cardinality(Preceding(S, R, x)) <= Cardinality(Preceding(S, R, y))
        /\ Cardinality(Preceding(S, R, x)) = Cardinality(Preceding(S, R, y))
             => Preceding(S, R, x) = Preceding(S, R, y)
    BY <2>1, <2>3, FS_Subset
  <2>5. Cardinality(Preceding(S, R, x)) # Cardinality(Preceding(S, R, y))
    BY <2>2, <2>4
  <2> QED
    BY <1>1, <2>4, <2>5
<1> DEFINE rank == [x \in S |-> Cardinality(Preceding(S, R, x)) + 1]
<1>3. rank \in [S -> 1 .. N]
  <2>1. \A x \in S : Cardinality(Preceding(S, R, x)) + 1 \in 1 .. N
    BY <1>1
  <2> QED
    BY <2>1
<1>4. \A x, y \in S : rank[x] = rank[y] => x = y
  <2> SUFFICES ASSUME NEW x \in S, NEW y \in S,
                      Cardinality(Preceding(S, R, x)) + 1 = Cardinality(Preceding(S, R, y)) + 1, x # y
               PROVE  FALSE
    OBVIOUS
  <2>1. Cardinality(Preceding(S, R, x)) = Cardinality(Preceding(S, R, y))
    BY <1>1
  <2>2. <<x, y>> \in R \/ <<y, x>> \in R
    BY DEF IsOrder
  <2> QED
    BY <1>1, <1>2, <2>1, <2>2
<1>5. \A x \in S : rank[x] = Cardinality(Preceding(S, R, x)) + 1
  OBVIOUS
<1> HIDE DEF rank
<1>6. rank \in Injection(S, 1 .. N)
  BY <1>3, <1>4 DEF Injection, IsInjective
<1>7. IsFiniteSet(1 .. N) /\ Cardinality(1 .. N) = N
  BY FS_Interval
<1>8. rank \in Surjection(S, 1 .. N)
  BY <1>6, <1>7, FS_Injection
<1>9. \A n \in 1 .. N : \E x \in S : rank[x] = n
  BY <1>8 DEF Surjection
<1>10. \A n \in 1 .. N : \E x \in S : Cardinality(Preceding(S, R, x)) = n - 1
  BY <1>1, <1>5, <1>9
<1> QED
  BY <1>1, <1>2, <1>10

\* A sorted set is a list of its members, each once, and in the order.
SortedOut(s, S, R, N) ==
    /\ s \in Seq(S) /\ Len(s) = N /\ DOMAIN s = 1 .. N
    /\ \A n \in 1 .. N : s[n] \in S /\ Cardinality(Preceding(S, R, s[n])) = n - 1
    /\ \A x \in S : \E n \in 1 .. N : s[n] = x
    /\ \A m, n \in 1 .. N : s[m] = s[n] => m = n
    /\ \A m, n \in 1 .. N : m < n <=> <<s[m], s[n]>> \in R

LEMMA Sorts ==
    ASSUME NEW S, IsFiniteSet(S), NEW R, IsOrder(S, R), NEW N \in Nat, N = Cardinality(S)
    PROVE  SortedOut(InOrder(S, R), S, R, N)
<1> DEFINE before(x) == Cardinality(Preceding(S, R, x))
           s == InOrder(S, R)
<1>1. /\ \A x \in S : before(x) \in 0 .. N - 1
      /\ \A x, y \in S : <<x, y>> \in R => before(x) < before(y)
      /\ \A n \in 1 .. N : \E x \in S : before(x) = n - 1
  BY Counted
<1>2. s = [n \in 1 .. N |-> CHOOSE x \in S : before(x) = n - 1]
  BY DEF InOrder
<1>3. \A x, y \in S : x # y => <<x, y>> \in R \/ <<y, x>> \in R
  BY DEF IsOrder
<1> HIDE DEF before, s
<1>4. \A n \in 1 .. N : s[n] \in S /\ before(s[n]) = n - 1
  BY <1>1, <1>2
<1>5. ASSUME NEW x \in S, NEW y \in S, before(x) = before(y) PROVE x = y
  <2>1. before(x) \in Int /\ before(y) \in Int /\ ~ (before(x) < before(y))
        /\ ~ (before(y) < before(x))
    BY <1>1, <1>5
  <2>2. <<x, y>> \notin R /\ <<y, x>> \notin R
    BY <1>1, <2>1
  <2> QED
    BY <1>3, <2>2
<1>6. ASSUME NEW x \in S PROVE \E n \in 1 .. N : s[n] = x
  <2>1. PICK n \in 1 .. N : n = before(x) + 1
    BY <1>1
  <2>2. before(s[n]) = before(x)
    BY <1>1, <1>4, <2>1
  <2> QED
    BY <1>4, <1>5, <2>2
<1>7. ASSUME NEW m \in 1 .. N, NEW n \in 1 .. N PROVE m < n <=> <<s[m], s[n]>> \in R
  <2>1. before(s[m]) = m - 1 /\ before(s[n]) = n - 1 /\ s[m] \in S /\ s[n] \in S
    BY <1>4
  <2>2. <<s[m], s[n]>> \in R => m < n
    <3>1. <<s[m], s[n]>> \in R => before(s[m]) < before(s[n])
      BY <1>1, <2>1
    <3> QED
      BY <2>1, <3>1
  <2>3. <<s[n], s[m]>> \in R => n < m
    <3>1. <<s[n], s[m]>> \in R => before(s[n]) < before(s[m])
      BY <1>1, <2>1
    <3> QED
      BY <2>1, <3>1
  <2>4. m < n => s[m] # s[n] /\ ~ (n < m)
    BY <2>1
  <2> QED
    BY <1>3, <2>1, <2>2, <2>3, <2>4
<1>8. \A m, n \in 1 .. N : s[m] = s[n] => m = n
  <2> SUFFICES ASSUME NEW m \in 1 .. N, NEW n \in 1 .. N, s[m] = s[n] PROVE m = n
    OBVIOUS
  <2>1. m - 1 = n - 1
    BY <1>4
  <2> QED
    BY <2>1
<1>9. s \in Seq(S) /\ Len(s) = N /\ DOMAIN s = 1 .. N
  <2>1. s \in [1 .. N -> S]
    BY <1>2, <1>4
  <2> QED
    BY <2>1
<1> QED
  BY <1>4, <1>6, <1>7, <1>8, <1>9 DEF SortedOut, before, s

LEMMA Rises ==
    ASSUME NEW S \in SUBSET Nat, IsFiniteSet(S), NEW N \in Nat, N = Cardinality(S)
    PROVE  /\ Rising(S) \in Seq(S) /\ Len(Rising(S)) = N /\ DOMAIN Rising(S) = 1 .. N
           /\ \A n \in 1 .. N : /\ Rising(S)[n] \in S
                                /\ Cardinality({i \in S : i < Rising(S)[n]}) = n - 1
           /\ \A i \in S : \E n \in 1 .. N : Rising(S)[n] = i
           /\ \A m, n \in 1 .. N : m < n <=> Rising(S)[m] < Rising(S)[n]
<1> DEFINE R == {ij \in S \X S : ij[1] < ij[2]}
<1>1. \A i, j \in S : <<i, j>> \in R <=> i < j
  OBVIOUS
<1>2. \A i \in S : i \in Nat
  OBVIOUS
<1>3. Rising(S) = InOrder(S, R)
  BY DEF Rising
<1> HIDE DEF R
<1>4. IsOrder(S, R)
  <2>1. \A i \in S : <<i, i>> \notin R
    BY <1>1, <1>2
  <2>2. \A i, j \in S : i # j => <<i, j>> \in R \/ <<j, i>> \in R
    BY <1>1, <1>2
  <2>3. \A i, j, k \in S : <<i, j>> \in R /\ <<j, k>> \in R => <<i, k>> \in R
    BY <1>1, <1>2
  <2> QED
    BY <2>1, <2>2, <2>3 DEF IsOrder
<1>5. SortedOut(Rising(S), S, R, N)
  BY <1>3, <1>4, Sorts
<1>6. \A i \in S : Preceding(S, R, i) = {j \in S : j < i}
  BY <1>1 DEF Preceding
<1>7. \A n \in 1 .. N : /\ Rising(S)[n] \in S
                        /\ Cardinality({i \in S : i < Rising(S)[n]}) = n - 1
  <2> SUFFICES ASSUME NEW n \in 1 .. N
               PROVE  /\ Rising(S)[n] \in S
                      /\ Cardinality({i \in S : i < Rising(S)[n]}) = n - 1
    OBVIOUS
  <2>1. Rising(S)[n] \in S /\ Cardinality(Preceding(S, R, Rising(S)[n])) = n - 1
    BY <1>5 DEF SortedOut
  <2> QED
    BY <1>6, <2>1
<1>8. \A m, n \in 1 .. N : m < n <=> Rising(S)[m] < Rising(S)[n]
  BY <1>1, <1>5 DEF SortedOut
<1> QED
  BY <1>5, <1>7, <1>8 DEF SortedOut

Places(s, T) == {i \in DOMAIN s : s[i] \in T}

\* t is what is left of s when only T stays: places gives where each was.
IsSifted(t, s, T, places) ==
    /\ Len(t) \in Nat /\ DOMAIN t = 1 .. Len(t) /\ Len(t) <= Len(s)
    /\ Len(t) = Cardinality(Places(s, T))
    /\ places \in [1 .. Len(t) -> DOMAIN s]
    /\ \A n \in 1 .. Len(t) :
         /\ t[n] = s[places[n]] /\ t[n] \in T
         /\ Cardinality({i \in Places(s, T) : i < places[n]}) = n - 1
    /\ \A i \in DOMAIN s : s[i] \in T => \E n \in 1 .. Len(t) : places[n] = i
    /\ \A m, n \in 1 .. Len(t) : m < n <=> places[m] < places[n]

LEMMA Sifts ==
    ASSUME NEW X, NEW s \in Seq(X), NEW T
    PROVE  Sifted(s, T) \in Seq(X) /\ \E places : IsSifted(Sifted(s, T), s, T, places)
<1> DEFINE S == Places(s, T)
           r == Rising(S)
           t == Sifted(s, T)
<1>1. Len(s) \in Nat /\ DOMAIN s = 1 .. Len(s) /\ \A i \in 1 .. Len(s) : s[i] \in X
  OBVIOUS
<1>2. IsFiniteSet(1 .. Len(s)) /\ Cardinality(1 .. Len(s)) = Len(s)
  <2>1. PICK L \in Nat : L = Len(s)
    BY <1>1
  <2>2. IsFiniteSet(1 .. L) /\ Cardinality(1 .. L) = L
    BY FS_Interval
  <2> QED
    BY <2>1, <2>2
<1>3. S \in SUBSET (1 .. Len(s)) /\ S \in SUBSET Nat
  BY <1>1 DEF Places
<1>4. IsFiniteSet(S) /\ Cardinality(S) \in Nat /\ Cardinality(S) <= Len(s)
  BY <1>1, <1>2, <1>3, FS_Subset, FS_CardinalityType
<1>5. PICK N \in Nat : N = Cardinality(S)
  BY <1>4
<1>6. /\ r \in Seq(S) /\ Len(r) = N /\ DOMAIN r = 1 .. N
      /\ \A n \in 1 .. N : r[n] \in S /\ Cardinality({i \in S : i < r[n]}) = n - 1
      /\ \A i \in S : \E n \in 1 .. N : r[n] = i
      /\ \A m, n \in 1 .. N : m < n <=> r[m] < r[n]
  <2> HIDE DEF S
  <2> QED
    BY <1>3, <1>4, <1>5, Rises
<1>7. t = [n \in 1 .. N |-> s[r[n]]]
  <2>1. t = [n \in DOMAIN r |-> s[r[n]]]
    BY DEF Sifted, Places
  <2> HIDE DEF t, r
  <2> QED
    BY <1>6, <2>1
<1>8. \A i \in S : i \in 1 .. Len(s) /\ s[i] \in X /\ s[i] \in T
  BY <1>1 DEF Places
<1>9. \A i \in DOMAIN s : s[i] \in T => i \in S
  BY DEF Places
<1> HIDE DEF S, r, t
<1>10. t \in [1 .. N -> X]
  BY <1>6, <1>7, <1>8
<1>11. t \in Seq(X) /\ Len(t) = N /\ DOMAIN t = 1 .. N
  BY <1>10
<1>12. \A n \in 1 .. N : t[n] = s[r[n]] /\ t[n] \in T
  BY <1>6, <1>7, <1>8
<1>13. r \in [1 .. N -> DOMAIN s]
  BY <1>1, <1>6, <1>8
<1>14. IsSifted(t, s, T, r)
  BY <1>1, <1>4, <1>5, <1>6, <1>9, <1>11, <1>12, <1>13 DEF IsSifted, S
<1> QED
  BY <1>11, <1>14 DEF t

\* What a reader of a filtered list sees.
LEMMA Sifting ==
    ASSUME NEW X, NEW s \in Seq(X), NEW T
    PROVE  /\ Sifted(s, T) \in Seq(X) /\ Len(Sifted(s, T)) <= Len(s)
           /\ \A n \in DOMAIN Sifted(s, T) :
                Sifted(s, T)[n] \in T /\ \E i \in DOMAIN s : s[i] = Sifted(s, T)[n]
           /\ \A i \in DOMAIN s :
                s[i] \in T => \E n \in DOMAIN Sifted(s, T) : Sifted(s, T)[n] = s[i]
<1>1. /\ Sifted(s, T) \in Seq(X)
      /\ \E places : IsSifted(Sifted(s, T), s, T, places)
  BY Sifts
<1>2. PICK places : IsSifted(Sifted(s, T), s, T, places)
  BY <1>1
<1> DEFINE t == Sifted(s, T)
<1> HIDE DEF t
<1>3. t \in Seq(X) /\ IsSifted(t, s, T, places)
  BY <1>1, <1>2 DEF t
<1>4. /\ Len(t) <= Len(s)
      /\ \A n \in DOMAIN t : t[n] \in T /\ \E i \in DOMAIN s : s[i] = t[n]
      /\ \A i \in DOMAIN s : s[i] \in T => \E n \in DOMAIN t : t[n] = s[i]
  <2>1. /\ DOMAIN t = 1 .. Len(t) /\ Len(t) <= Len(s) /\ places \in [1 .. Len(t) -> DOMAIN s]
        /\ \A n \in 1 .. Len(t) : t[n] = s[places[n]] /\ t[n] \in T
        /\ \A i \in DOMAIN s : s[i] \in T => \E n \in 1 .. Len(t) : places[n] = i
    BY <1>3 DEF IsSifted
  <2>2. \A n \in DOMAIN t : t[n] \in T /\ \E i \in DOMAIN s : s[i] = t[n]
    BY <2>1
  <2>3. \A i \in DOMAIN s : s[i] \in T => \E n \in DOMAIN t : t[n] = s[i]
    BY <2>1
  <2> QED
    BY <2>1, <2>2, <2>3
<1> QED
  BY <1>3, <1>4 DEF t

----------------------------------------------------------------------------
(* The transport.                                                          *)

LEMMA OfTwo ==
    ASSUME NEW a \in Nat, NEW b \in Nat
    PROVE  /\ Max({a, b}) = IF a >= b THEN a ELSE b
           /\ Min({a, b}) = IF a <= b THEN a ELSE b
<1>1. Max({a, b}) = IF a >= b THEN a ELSE b
  <2> DEFINE m == IF a >= b THEN a ELSE b
  <2>1. m \in {a, b} /\ \A y \in {a, b} : m >= y
    OBVIOUS
  <2>2. \A x \in {a, b} : (\A y \in {a, b} : x >= y) => x = m
    OBVIOUS
  <2> HIDE DEF m
  <2>3. Max({a, b}) = m
    BY <2>1, <2>2 DEF Max
  <2> QED
    BY <2>3 DEF m
<1>2. Min({a, b}) = IF a <= b THEN a ELSE b
  <2> DEFINE m == IF a <= b THEN a ELSE b
  <2>1. m \in {a, b} /\ \A y \in {a, b} : m <= y
    OBVIOUS
  <2>2. \A x \in {a, b} : (\A y \in {a, b} : x <= y) => x = m
    OBVIOUS
  <2> HIDE DEF m
  <2>3. Min({a, b}) = m
    BY <2>1, <2>2 DEF Min
  <2> QED
    BY <2>3 DEF m
<1> QED
  BY <1>1, <1>2

LEMMA DoubledFacts == \A n \in 0 .. 16 : Doubled[n] \in Nat
<1> DEFINE f == CHOOSE g : g = [n \in 0 .. 16 |-> IF n = 0 THEN 1 ELSE 2 * g[n - 1]]
           G == [p \in (1 .. 16) \X Nat |-> 2 * p[2]]
<1>1. Doubled = f
  BY DEF Doubled
<1>2. \A k \in 1 .. 16, t \in Nat : G[<<k, t>>] = 2 * t
  OBVIOUS
<1>3. Moves(G, 16, Nat)
  BY DEF Moves
<1> HIDE DEF G
<1>4. PICK g : Folds(g, 1, G, 16, Nat)
  BY <1>3, Folding
<1>5. g = [n \in 0 .. 16 |-> IF n = 0 THEN 1 ELSE 2 * g[n - 1]]
  <2>1. g = [n \in 0 .. 16 |-> g[n]] /\ g[0] = 1
    BY <1>4 DEF Folds
  <2>2. \A k \in 0 .. 16 : k # 0 => k \in 1 .. 16 /\ k - 1 \in 0 .. 16
    OBVIOUS
  <2>3. \A k \in 1 .. 16 : g[k] = 2 * g[k - 1]
    BY <1>2, <1>4, <2>2 DEF Folds
  <2>4. \A k \in 0 .. 16 : g[k] = IF k = 0 THEN 1 ELSE 2 * g[k - 1]
    BY <2>1, <2>2, <2>3
  <2> QED
    BY <2>1, <2>4
<1>6. f = [n \in 0 .. 16 |-> IF n = 0 THEN 1 ELSE 2 * f[n - 1]]
  BY <1>5
<1> HIDE DEF f
<1> DEFINE P == {n \in 0 .. 16 : f[n] \in Nat}
<1>7. 0 \in P
  BY <1>6
<1>8. ASSUME NEW n \in 0 .. 16, n \in P, n < 16
      PROVE  n + 1 \in P
  <2>1. n + 1 \in 0 .. 16 /\ n + 1 # 0 /\ (n + 1) - 1 = n
    BY <1>8
  <2>2. f[n + 1] = 2 * f[n]
    BY <1>6, <2>1
  <2> QED
    BY <1>8, <2>1, <2>2
<1>9. \A n \in 0 .. 16 : n \in P
  <2> HIDE DEF P
  <2>1. \A n \in 0 .. 16 : n \in P /\ n < 16 => n + 1 \in P
    BY <1>8
  <2> QED
    BY <1>7, <2>1, Climbing
<1> QED
  BY <1>1, <1>9

PolicyOK(p) ==
    /\ p.attempts \in Nat /\ p.attempts > 0 /\ p.base \in Nat
    /\ p.max_delay \in Nat /\ p.retry_after_cap \in Nat

Longest(p) == Max({p.max_delay, p.retry_after_cap})

LEMMA PolicyFacts ==
    ASSUME NEW kind
    PROVE  PolicyOK(Policy(kind)) /\ Longest(Policy(kind)) \in Nat
<1>1. Policy(kind) \in [attempts : Nat \ {0}, base : Nat, max_delay : Nat, retry_after_cap : Nat]
  BY RequestsAssumption DEF Policy
<1>2. PolicyOK(Policy(kind))
  BY <1>1 DEF PolicyOK
<1> QED
  BY <1>2, OfTwo DEF PolicyOK, Longest

\* Between two attempts nobody waits longer than the policy's longest.
LEMMA DelayForFacts ==
    ASSUME NEW p, PolicyOK(p), NEW n \in Nat, NEW after,
           after = <<>> \/ \E a \in Nat : after = <<a>>
    PROVE  DelayFor(p, n, after) \in Nat /\ DelayFor(p, n, after) <= Longest(p)
<1>1. /\ p.base \in Nat /\ p.max_delay \in Nat /\ p.retry_after_cap \in Nat
      /\ p.max_delay <= Longest(p) /\ p.retry_after_cap <= Longest(p)
  BY OfTwo DEF PolicyOK, Longest
<1>2. CASE after # <<>>
  <2> PICK a \in Nat : after = <<a>>
    BY <1>2
  <2>1. DelayFor(p, n, after) = Min({a, p.retry_after_cap})
    BY <1>2 DEF DelayFor
  <2>2. Min({a, p.retry_after_cap}) \in Nat /\ Min({a, p.retry_after_cap}) <= p.retry_after_cap
    <3>1. Min({a, p.retry_after_cap}) =
            IF a <= p.retry_after_cap THEN a ELSE p.retry_after_cap
      BY <1>1, OfTwo
    <3> QED
      BY <1>1, <3>1
  <2>3. Longest(p) \in Nat
    BY <1>1, OfTwo DEF Longest
  <2> QED
    BY <1>1, <2>1, <2>2, <2>3
<1>3. CASE after = <<>>
  <2> DEFINE m == Min({n, 16})
             d == p.base * Doubled[m]
  <2>1. m \in 0 .. 16
    <3>1. 16 \in Nat
      OBVIOUS
    <3>2. m = IF n <= 16 THEN n ELSE 16
      BY <3>1, OfTwo
    <3> HIDE DEF m
    <3> QED
      BY <3>2
  <2> HIDE DEF m
  <2>2. Doubled[m] \in Nat
    BY <2>1, DoubledFacts
  <2>3. d \in Nat
    BY <1>1, <2>2
  <2>4. DelayFor(p, n, after) = Min({d, p.max_delay})
    BY <1>3 DEF DelayFor, m
  <2> HIDE DEF d
  <2>5. Min({d, p.max_delay}) \in Nat /\ Min({d, p.max_delay}) <= p.max_delay
    <3>1. Min({d, p.max_delay}) = IF d <= p.max_delay THEN d ELSE p.max_delay
      BY <1>1, <2>3, OfTwo
    <3> QED
      BY <1>1, <2>3, <3>1
  <2>6. Longest(p) \in Nat
    BY <1>1, OfTwo DEF Longest
  <2> QED
    BY <1>1, <2>4, <2>5, <2>6
<1> QED
  BY <1>2, <1>3

IsCall(q) ==
    q \in [at : {q.at}, kind : {q.kind}, chunks : {q.chunks}, todo : {q.todo}, out : {q.out},
           attempt : {q.attempt}, sent : {q.sent}, waited : {q.waited}, reply : {q.reply},
           asked : {q.asked}, answer : {q.answer}, misled : {q.misled}]

Asks == Providers \cup {"embed"}

CallShape(c) ==
    /\ IsCall(c) /\ c.kind \in Asks \cup {"other", "none"}
    /\ c.at \in {"idle", "send", "read", "done"} /\ (c.at = "idle" => c = NoCall)
    /\ c.at \in {"send", "read"} => c.kind \in Asks /\ c.answer = "none"
    /\ c.sent \in Nat /\ c.waited \in Nat /\ c.attempt \in Nat

\* Whoever waits is at his last try at the latest, and has waited as long as the tries
\* he made took.
CallPatient(c) ==
    c.kind \in Asks =>
      /\ c.attempt < Policy(c.kind).attempts
      /\ c.sent = c.attempt \/ (c.at # "send" /\ c.sent = c.attempt + 1)
      /\ c.waited <= c.sent * Timeout[c.kind] + c.attempt * Longest(Policy(c.kind))
      /\ c.at = "read" => c.reply = "ok"
      /\ c.at = "done" /\ c.answer = "failed" /\ c.reply \in {"limited", "busy", "timeout",
           "unreachable"} => c.sent = Policy(c.kind).attempts

\* What is in hand and what is to come are the chunks of a paper, unless a reply
\* misled.
CallWhole(c) ==
    c.kind = "embed" =>
      /\ \E t \in Texts : c.chunks = ChunkPaper(t)
      /\ c.at \in {"send", "read"} =>
           /\ c.todo \in Seq(Chunked) /\ c.todo # <<>>
           /\ ~c.misled => c.out \in Seq(Chunked) /\ c.chunks = c.out \o c.todo
      /\ c.answer = "vectors" /\ ~c.misled => c.out = c.chunks

CallAsAsked(c) ==
    /\ c.kind \in Providers /\ (c.at \in {"send", "read"} \/ c.answer = "translated") =>
         c.kind \in providers /\ (c.asked # "none" => c.kind = c.asked)
    /\ c.kind = "other" => c.answer # "translated"
    /\ c.answer = "not_configured" => c.asked \in Providers \ providers

RequestsInv ==
    /\ providers \subseteq Providers /\ preferred \in Providers \cup {"none"}
    /\ CallShape(call) /\ CallPatient(call) /\ CallWhole(call) /\ CallAsAsked(call)

LEMMA RequestsInvInit == RequestsInit => RequestsInv
BY DEF RequestsInit, RequestsInv, NoCall, CallShape, CallPatient, CallWhole, CallAsAsked, IsCall, Asks,
       Providers

\* The fields of a fresh call of a kind.
LEMMA AskFacts ==
    ASSUME NEW kind, NEW todo
    PROVE  LET q == Ask(kind, todo)
           IN  /\ IsCall(q) /\ q.at = "send" /\ q.kind = kind /\ q.todo = todo /\ q.chunks = <<>>
               /\ q.out = <<>> /\ q.attempt = 0 /\ q.sent = 0 /\ q.waited = 0 /\ q.reply = "none"
               /\ q.asked = "none" /\ q.answer = "none"
  BY DEF IsCall, Ask, NoCall

LEMMA ZeroWaits ==
    ASSUME NEW a \in Nat, NEW b \in Nat
    PROVE  0 * a + 0 * b = 0
  OBVIOUS

LEMMA EmbedPaperKeeps ==
    ASSUME RequestsInv, EmbedPaper
    PROVE  RequestsInv'
<1>1. PICK t \in Texts :
        call' = IF ChunkPaper(t) = <<>> THEN [NoCall EXCEPT !.at = "done", !.answer = "vectors"]
                ELSE [Ask("embed", ChunkPaper(t)) EXCEPT !.chunks = ChunkPaper(t)]
  BY DEF EmbedPaper
<1> DEFINE chunks == ChunkPaper(t)
<1>2. chunks \in Seq(Chunked)
  BY ChunkPaperFacts
<1>3. UNCHANGED <<providers, preferred>>
  BY DEF EmbedPaper
<1>4. CASE chunks = <<>>
  <2> DEFINE q == [NoCall EXCEPT !.at = "done", !.answer = "vectors"]
  <2>1. call' = q
    BY <1>1, <1>4
  <2>2. /\ IsCall(q) /\ q.at = "done" /\ q.kind = "none" /\ q.answer = "vectors"
        /\ q.attempt = 0 /\ q.sent = 0 /\ q.waited = 0
    BY DEF IsCall, NoCall
  <2> HIDE DEF q
  <2>3. CallShape(q) /\ CallPatient(q) /\ CallWhole(q) /\ CallAsAsked(q)
    BY <2>2 DEF CallShape, CallPatient, CallWhole, CallAsAsked, Asks, Providers
  <2> QED
    BY <1>3, <2>1, <2>3
       DEF RequestsInv, CallShape, CallPatient, CallWhole, CallAsAsked, IsCall
<1>5. CASE chunks # <<>>
  <2> DEFINE a == Ask("embed", chunks)
             q == [a EXCEPT !.chunks = chunks]
  <2>1. call' = q
    BY <1>1, <1>5
  <2> HIDE DEF chunks
  <2>2. /\ IsCall(a) /\ a.at = "send" /\ a.kind = "embed" /\ a.todo = chunks /\ a.out = <<>>
        /\ a.attempt = 0 /\ a.sent = 0 /\ a.waited = 0 /\ a.asked = "none" /\ a.answer = "none"
    BY AskFacts
  <2> HIDE DEF a
  <2>3. /\ IsCall(q) /\ q.at = "send" /\ q.kind = "embed" /\ q.todo = chunks /\ q.out = <<>>
        /\ q.attempt = 0 /\ q.sent = 0 /\ q.waited = 0 /\ q.asked = "none" /\ q.answer = "none"
        /\ q.chunks = chunks
    BY <2>2 DEF IsCall
  <2> HIDE DEF q
  <2>4. CallShape(q) /\ CallAsAsked(q)
    BY <2>3 DEF CallShape, CallAsAsked, Asks, Providers
  <2>5. CallPatient(q)
    <3>1. PolicyOK(Policy("embed")) /\ Longest(Policy("embed")) \in Nat /\ Timeout["embed"] \in Nat
      BY PolicyFacts, RequestsAssumption
    <3>2. 0 * Timeout["embed"] + 0 * Longest(Policy("embed")) = 0
      BY <3>1, ZeroWaits
    <3> QED
      BY <2>3, <3>1, <3>2 DEF CallPatient, PolicyOK
  <2>6. CallWhole(q)
    <3>1. <<>> \in Seq(Chunked) /\ <<>> \o chunks = chunks
      BY <1>2
    <3> QED
      BY <1>2, <1>5, <2>3, <3>1 DEF CallWhole, chunks
  <2> QED
    BY <1>3, <2>1, <2>4, <2>5, <2>6
       DEF RequestsInv, CallShape, CallPatient, CallWhole, CallAsAsked, IsCall
<1> QED
  BY <1>4, <1>5

LEMMA OneCall ==
    ASSUME RequestsInv, NEW q, call' = q, UNCHANGED <<providers, preferred>>,
           CallShape(q), CallPatient(q), CallWhole(q), CallAsAsked(q)
    PROVE  RequestsInv'
  BY DEF RequestsInv, CallShape, CallPatient, CallWhole, CallAsAsked, IsCall

LEMMA DefaultIsThere ==
    ASSUME RequestsInv, providers # {}
    PROVE  DefaultProvider \in providers
  BY DEF RequestsInv, DefaultProvider, Providers

LEMMA TranslateKeeps ==
    ASSUME RequestsInv, Translate
    PROVE  RequestsInv'
<1>1. PICK wanted \in Providers \cup {"none", "other"} :
         LET p == IF wanted = "none" THEN DefaultProvider ELSE wanted
             c == [Ask(p, <<>>) EXCEPT !.asked = wanted]
             ends(end) == call' = [c EXCEPT !.at = "done", !.answer = end]
         IN  IF providers = {} THEN ends("unavailable")
             ELSE IF wanted = "other" THEN ends("bad_request")
             ELSE IF p \notin providers THEN ends("not_configured")
             ELSE \/ call' = c
                  \/ p = "deepl" /\ ends("failed")
  BY DEF Translate
<1> DEFINE p == IF wanted = "none" THEN DefaultProvider ELSE wanted
           b == Ask(p, <<>>)
           c == [b EXCEPT !.asked = wanted]
           ended(end) == [c EXCEPT !.at = "done", !.answer = end]
<1>2. p \in Providers \cup {"other"} /\ UNCHANGED <<providers, preferred>>
  BY DEF DefaultProvider, RequestsInv, Translate, Providers
<1>3. \/ call' = c /\ p \in providers /\ wanted # "other"
      \/ \E end \in {"unavailable", "bad_request", "not_configured", "failed"} :
           /\ call' = ended(end)
           /\ end = "not_configured" => p \notin providers /\ wanted # "other" /\ providers # {}
  BY <1>1
<1>4. wanted # "none" => p = wanted
  OBVIOUS
<1>5. wanted = "none" /\ providers # {} => p \in providers
  BY DefaultIsThere
<1> HIDE DEF p
<1>6. /\ IsCall(b) /\ b.at = "send" /\ b.kind = p /\ b.attempt = 0 /\ b.sent = 0 /\ b.waited = 0
      /\ b.reply = "none" /\ b.answer = "none"
  BY AskFacts
<1> HIDE DEF b
<1>7. /\ IsCall(c) /\ c.at = "send" /\ c.kind = p /\ c.attempt = 0 /\ c.sent = 0 /\ c.waited = 0
      /\ c.reply = "none" /\ c.answer = "none" /\ c.asked = wanted
  BY <1>6 DEF IsCall
<1> HIDE DEF c
<1>8. p \in Providers => /\ PolicyOK(Policy(p)) /\ Longest(Policy(p)) \in Nat /\ Timeout[p] \in Nat
                         /\ 0 * Timeout[p] + 0 * Longest(Policy(p)) = 0
  <2> SUFFICES ASSUME p \in Providers
               PROVE  /\ PolicyOK(Policy(p)) /\ Longest(Policy(p)) \in Nat /\ Timeout[p] \in Nat
                      /\ 0 * Timeout[p] + 0 * Longest(Policy(p)) = 0
    OBVIOUS
  <2>1. PolicyOK(Policy(p)) /\ Longest(Policy(p)) \in Nat /\ Timeout[p] \in Nat
    BY PolicyFacts, RequestsAssumption DEF Providers
  <2> QED
    BY <2>1, ZeroWaits
<1>9. CASE call' = c /\ p \in providers /\ wanted # "other"
  <2>1. p \in Providers /\ p # "other" /\ p # "embed" /\ p # "none"
    BY <1>9 DEF RequestsInv, Providers
  <2>5. c.kind \in Asks
    BY <1>7, <2>1 DEF Asks
  <2>6. CallShape(c)
    BY <1>7, <2>5 DEF CallShape
  <2>2. CallShape(c) /\ CallWhole(c)
    BY <1>7, <2>1, <2>6 DEF CallWhole
  <2>4. CallAsAsked(c)
    BY <1>4, <1>7, <1>9, <2>1 DEF CallAsAsked
  <2>3. CallPatient(c)
    BY <1>7, <1>8, <2>1 DEF CallPatient, PolicyOK
  <2> QED
    BY <1>2, <1>9, <2>2, <2>3, <2>4, OneCall
<1>10. ASSUME NEW end \in {"unavailable", "bad_request", "not_configured", "failed"},
              call' = ended(end),
              end = "not_configured" => p \notin providers /\ wanted # "other" /\ providers # {}
       PROVE  RequestsInv'
  <2> DEFINE q == ended(end)
  <2>1. /\ IsCall(q) /\ q.at = "done" /\ q.kind = p /\ q.attempt = 0 /\ q.sent = 0 /\ q.waited = 0
        /\ q.reply = "none" /\ q.answer = end /\ q.asked = wanted
    BY <1>7 DEF IsCall
  <2>2. call' = q
    BY <1>10
  <2> HIDE DEF q
  <2>3. p \in Asks => p \in Providers
    BY <1>2 DEF Asks, Providers
  <2>4. CallShape(q) /\ CallWhole(q)
    BY <1>2, <2>1 DEF CallShape, CallWhole, Asks, Providers
  <2>5. CallAsAsked(q)
    <3>1. end = "not_configured" => wanted \in Providers \ providers
      BY <1>4, <1>5, <1>10
    <3> QED
      BY <1>10, <2>1, <3>1 DEF CallAsAsked
  <2>6. CallPatient(q)
    BY <1>8, <2>1, <2>3 DEF CallPatient, PolicyOK
  <2> QED
    BY <1>2, <2>2, <2>4, <2>5, <2>6, OneCall
<1> QED
  BY <1>3, <1>9, <1>10

\* Nothing of what is asked changes while it is sent.
LEMMA SentKeeps ==
    ASSUME RequestsInv, NEW q, call.at = "send", IsCall(q), call' = q,
           UNCHANGED <<providers, preferred>>,
           q.at \in {"send", "read", "done"}, q.kind = call.kind, q.chunks = call.chunks,
           q.todo = call.todo, q.out = call.out, q.asked = call.asked, q.misled = call.misled,
           q.attempt \in Nat, q.sent \in Nat, q.waited \in Nat,
           q.answer \in {"none", "failed"}, q.at # "done" => q.answer = "none",
           CallPatient(q)
    PROVE  RequestsInv'
<1>1. CallShape(q)
  BY DEF RequestsInv, CallShape
<1>2. CallWhole(q)
  BY DEF RequestsInv, CallWhole
<1>3. CallAsAsked(q)
  BY DEF RequestsInv, CallAsAsked, CallShape, Asks, Providers
<1> QED
  BY <1>1, <1>2, <1>3, OneCall

LEMMA OneMore ==
    ASSUME NEW s \in Nat, NEW a \in Nat, NEW T \in Nat, NEW D \in Nat, NEW w \in Nat,
           w <= s * T + a * D, NEW t \in Nat, t <= T, NEW d \in Nat, d <= D
    PROVE  /\ w + t <= (s + 1) * T + a * D
           /\ w + t + d <= (s + 1) * T + (a + 1) * D
<1>1. /\ (s + 1) * T = s * T + T /\ (a + 1) * D = a * D + D
      /\ s * T \in Nat /\ a * D \in Nat
  OBVIOUS
<1> QED
  BY <1>1

LEMMA SendKeeps ==
    ASSUME RequestsInv, Send
    PROVE  RequestsInv'
<1>1. PICK reply \in {"ok", "torn", "refused", "limited", "busy", "unreachable", "timeout"},
           after \in {<<>>} \cup {<<a>> : a \in RetryAfters} :
         LET sent == [call EXCEPT !.sent = @ + 1, !.reply = reply,
                          !.waited = @ + IF reply = "timeout" THEN Timeout[call.kind] ELSE 0]
         IN  call' =
              IF reply = "ok" THEN [sent EXCEPT !.at = "read"]
              ELSE IF ~IsRetryable(reply) \/ LastTry(call)
              THEN [sent EXCEPT !.at = "done", !.answer = "failed"]
              ELSE [sent EXCEPT !.attempt = @ + 1,
                        !.waited = @ + DelayFor(Policy(call.kind), call.attempt, after)]
  BY DEF Send
<1> DEFINE k == call.kind
           p == Policy(k)
           T == Timeout[k]
           D == Longest(p)
           s == call.sent + 1
           lost == IF reply = "timeout" THEN T ELSE 0
           w == call.waited + lost
           d == DelayFor(p, call.attempt, after)
           sent == [call EXCEPT !.sent = s, !.reply = reply, !.waited = w]
<1>2. /\ call.at = "send" /\ IsCall(call) /\ k \in Asks /\ call.answer = "none"
      /\ call.sent \in Nat /\ call.waited \in Nat /\ call.attempt \in Nat
      /\ UNCHANGED <<providers, preferred>>
  BY DEF Send, RequestsInv, CallShape
<1>3. /\ call.attempt < p.attempts /\ call.sent = call.attempt
      /\ call.waited <= call.sent * T + call.attempt * D
  BY <1>2 DEF RequestsInv, CallPatient
<1>4. PolicyOK(p) /\ D \in Nat /\ T \in Nat
  BY <1>2, PolicyFacts, RequestsAssumption DEF Asks, Providers
<1>17. after = <<>> \/ \E a \in Nat : after = <<a>>
  BY RequestsAssumption
<1>5. p.attempts \in Nat
  BY <1>4 DEF PolicyOK
<1>6. d \in Nat /\ d <= D
  BY <1>2, <1>4, <1>17, DelayForFacts
<1>7. lost \in Nat /\ lost <= T
  BY <1>4
<1>8. \/ reply = "ok" /\ call' = [sent EXCEPT !.at = "read"]
      \/ /\ reply # "ok" /\ (~IsRetryable(reply) \/ LastTry(call))
         /\ call' = [sent EXCEPT !.at = "done", !.answer = "failed"]
      \/ /\ reply # "ok" /\ ~LastTry(call)
         /\ call' = [sent EXCEPT !.attempt = @ + 1, !.waited = @ + d]
  BY <1>1
<1> HIDE DEF k, p, T, D, lost, d
<1>9. /\ s \in Nat /\ w \in Nat /\ w <= s * T + call.attempt * D
      /\ w + d \in Nat /\ w + d <= s * T + (call.attempt + 1) * D
  <2>1. PICK u \in Nat, v \in Nat, a \in Nat :
          u = call.sent /\ v = call.waited /\ a = call.attempt
    BY <1>2
  <2>2. v <= u * T + a * D
    BY <1>3, <2>1
  <2>3. v + lost <= (u + 1) * T + a * D /\ v + lost + d <= (u + 1) * T + (a + 1) * D
    BY <1>4, <1>6, <1>7, <2>2, OneMore
  <2>4. u + 1 \in Nat /\ v + lost \in Nat /\ v + lost + d \in Nat
    BY <1>6, <1>7
  <2> QED
    BY <2>1, <2>3, <2>4
<1>10. s = call.attempt + 1
  BY <1>3
<1>11. LastTry(call) <=> call.attempt + 1 >= p.attempts
  BY DEF LastTry, p, k
<1> HIDE DEF w, s
<1>12. /\ IsCall(sent) /\ sent.at = "send" /\ sent.kind = k /\ sent.chunks = call.chunks
       /\ sent.todo = call.todo /\ sent.out = call.out /\ sent.asked = call.asked
       /\ sent.attempt = call.attempt /\ sent.sent = s /\ sent.waited = w /\ sent.answer = "none"
       /\ sent.reply = reply /\ sent.misled = call.misled
  BY <1>2 DEF IsCall, k
<1> HIDE DEF sent
<1>13. ASSUME NEW q, q.kind = k, q.attempt \in Nat, q.attempt < p.attempts,
              q.sent = q.attempt \/ (q.at # "send" /\ q.sent = q.attempt + 1),
              q.waited <= q.sent * T + q.attempt * D,
              q.at = "read" => q.reply = "ok",
              q.at = "done" /\ q.answer = "failed" /\ q.reply \in {"limited", "busy", "timeout",
                "unreachable"} => q.sent = p.attempts
       PROVE  CallPatient(q)
  BY <1>13 DEF CallPatient, p, T, D
<1>14. CASE reply = "ok" /\ call' = [sent EXCEPT !.at = "read"]
  <2> DEFINE q == [sent EXCEPT !.at = "read"]
  <2>1. /\ IsCall(q) /\ q.at = "read" /\ q.kind = k /\ q.chunks = call.chunks
        /\ q.todo = call.todo /\ q.out = call.out /\ q.asked = call.asked
        /\ q.attempt = call.attempt /\ q.sent = s /\ q.waited = w /\ q.answer = "none"
        /\ q.reply = reply /\ q.misled = call.misled
    BY <1>12 DEF IsCall
  <2>2. call' = q
    BY <1>14
  <2> HIDE DEF q
  <2>3. CallPatient(q)
    BY <1>2, <1>3, <1>9, <1>10, <1>13, <1>14, <2>1
  <2> QED
    BY <1>2, <1>9, <2>1, <2>2, <2>3, SentKeeps DEF k
<1>15. CASE /\ reply # "ok" /\ (~IsRetryable(reply) \/ LastTry(call))
            /\ call' = [sent EXCEPT !.at = "done", !.answer = "failed"]
  <2> DEFINE q == [sent EXCEPT !.at = "done", !.answer = "failed"]
  <2>1. /\ IsCall(q) /\ q.at = "done" /\ q.kind = k /\ q.chunks = call.chunks
        /\ q.todo = call.todo /\ q.out = call.out /\ q.asked = call.asked
        /\ q.attempt = call.attempt /\ q.sent = s /\ q.waited = w /\ q.answer = "failed"
        /\ q.reply = reply /\ q.misled = call.misled
    BY <1>12 DEF IsCall
  <2>2. call' = q
    BY <1>15
  <2> HIDE DEF q
  <2>3. reply \in {"limited", "busy", "timeout", "unreachable"} => s = p.attempts
    <3>1. reply \in {"limited", "busy", "timeout", "unreachable"} => LastTry(call)
      BY <1>15 DEF IsRetryable
    <3> QED
      BY <1>2, <1>3, <1>5, <1>10, <1>11, <3>1
  <2>4. CallPatient(q)
    BY <1>2, <1>3, <1>9, <1>10, <1>13, <2>1, <2>3
  <2> QED
    BY <1>2, <1>9, <2>1, <2>2, <2>4, SentKeeps DEF k
<1>16. CASE /\ reply # "ok" /\ ~LastTry(call)
            /\ call' = [sent EXCEPT !.attempt = @ + 1, !.waited = @ + d]
  <2> DEFINE n == call.attempt + 1
             wd == w + d
             q == [sent EXCEPT !.attempt = n, !.waited = wd]
  <2>1. call' = q
    BY <1>12, <1>16
  <2>2. n \in Nat /\ n < p.attempts /\ wd \in Nat /\ wd <= s * T + n * D /\ s = n
    BY <1>2, <1>5, <1>9, <1>10, <1>11, <1>16
  <2> HIDE DEF n, wd
  <2>3. /\ IsCall(q) /\ q.at = "send" /\ q.kind = k /\ q.chunks = call.chunks
        /\ q.todo = call.todo /\ q.out = call.out /\ q.asked = call.asked
        /\ q.attempt = n /\ q.sent = s /\ q.waited = wd /\ q.answer = "none"
        /\ q.reply = reply /\ q.misled = call.misled
    BY <1>12 DEF IsCall
  <2> HIDE DEF q
  <2>4. CallPatient(q)
    BY <1>13, <2>2, <2>3
  <2> QED
    BY <1>2, <1>9, <2>1, <2>2, <2>3, <2>4, SentKeeps DEF k
<1> QED
  BY <1>8, <1>14, <1>15, <1>16

LEMMA SplitAt ==
    ASSUME NEW T, NEW todo \in Seq(T), NEW n \in 1 .. Len(todo)
    PROVE  /\ SubSeq(todo, 1, n) \in Seq(T) /\ Len(SubSeq(todo, 1, n)) = n
           /\ SubSeq(todo, n + 1, Len(todo)) \in Seq(T)
           /\ SubSeq(todo, 1, n) \o SubSeq(todo, n + 1, Len(todo)) = todo
<1> DEFINE N == Len(todo)
<1>1. /\ N \in Nat /\ n \in Nat /\ 1 <= n /\ n <= N /\ 1 \in Int /\ n \in Int /\ n + 1 \in Int
      /\ N \in Int /\ \A i \in 1 .. N : todo[i] \in T
  OBVIOUS
<1> HIDE DEF N
<1>2. (\A i \in 1 .. n : todo[i] \in T) /\ (\A i \in n + 1 .. N : todo[i] \in T)
  BY <1>1
<1>3. SubSeq(todo, 1, n) \in Seq(T) /\ Len(SubSeq(todo, 1, n)) = n
  <2>1. /\ SubSeq(todo, 1, n) \in Seq(T)
        /\ Len(SubSeq(todo, 1, n)) = IF 1 <= n THEN n - 1 + 1 ELSE 0
    BY <1>1, <1>2, SubSeqProperties
  <2> QED
    BY <1>1, <2>1
<1>4. SubSeq(todo, n + 1, N) \in Seq(T)
  BY <1>1, <1>2, SubSeqProperties
<1>5. SubSeq(todo, 1, n) \o SubSeq(todo, n + 1, N) = SubSeq(todo, 1, N)
  <2>1. 1 \in 1 .. N + 1 /\ n \in 1 - 1 .. N /\ N \in n .. N
    BY <1>1
  <2> QED
    BY <2>1, ConcatAdjacentSubSeq DEF N
<1>6. SubSeq(todo, 1, N) = todo
  BY SubSeqFull DEF N
<1> QED
  BY <1>3, <1>4, <1>5, <1>6 DEF N

LEMMA Regrouped ==
    ASSUME NEW T, NEW a \in Seq(T), NEW b \in Seq(T), NEW c \in Seq(T)
    PROVE  a \o b \in Seq(T) /\ (a \o b) \o c = a \o (b \o c)
  BY ConcatProperties, ConcatAssociative

LEMMA BatchFacts ==
    ASSUME call.todo \in Seq(Chunked), call.todo # <<>>
    PROVE  LET rest == SubSeq(call.todo, Len(Batch) + 1, Len(call.todo))
           IN  /\ Batch \in Seq(Chunked) /\ Len(Batch) \in Nat /\ Len(Batch) > 0
               /\ rest \in Seq(Chunked) /\ Batch \o rest = call.todo
<1> DEFINE todo == call.todo
           n == Min({BATCH, Len(todo)})
<1>1. BATCH \in Nat \ {0} /\ Len(todo) \in Nat \ {0}
  <2>1. BATCH \in Nat \ {0}
    BY RequestsAssumption
  <2> QED
    BY <2>1
<1>2. n \in 1 .. Len(todo)
  <2>1. n = IF BATCH <= Len(todo) THEN BATCH ELSE Len(todo)
    BY <1>1, OfTwo
  <2> HIDE DEF n, todo
  <2> QED
    BY <1>1, <2>1
<1>3. Batch = SubSeq(todo, 1, n)
  BY DEF Batch
<1> HIDE DEF n, todo
<1>4. todo \in Seq(Chunked) /\ todo # <<>>
  BY DEF todo
<1>5. /\ Batch \in Seq(Chunked) /\ Len(Batch) = n
      /\ SubSeq(todo, n + 1, Len(todo)) \in Seq(Chunked)
      /\ Batch \o SubSeq(todo, n + 1, Len(todo)) = todo
  BY <1>2, <1>3, <1>4, SplitAt
<1> QED
  BY <1>1, <1>2, <1>5, SMTT(30) DEF todo

\* Sorted by index, a full reply is the batch, whatever its order was.
LEMMA VectorsInFacts ==
    ASSUME Batch \in Seq(Chunked), Len(Batch) > 0, NEW data \in EmbedderSays, ~WrongCount(data),
           WellIndexed(data)
    PROVE  VectorsIn(data) = Batch
<1> DEFINE N == Len(Batch)
           S == 1 .. N
           R == {mn \in S \X S : \/ data[mn[1]].index < data[mn[2]].index
                                 \/ data[mn[1]].index = data[mn[2]].index /\ mn[1] < mn[2]}
           order == InOrder(S, R)
<1>12. \A L \in Nat : IsFiniteSet(1 .. L) /\ Cardinality(1 .. L) = L
  BY FS_Interval
<1>13. N \in Nat /\ N > 0 /\ N = Len(Batch) /\ DOMAIN Batch = S
  OBVIOUS
<1> HIDE DEF N
<1>1. N \in Nat /\ DOMAIN Batch = S /\ IsFiniteSet(S) /\ Cardinality(S) = N
  BY <1>12, <1>13
<1>2. Len(data) = N /\ DOMAIN data = S
  <2>1. PICK m \in {N - 1, N} : \E T : data \in [1 .. m -> T]
    BY <1>13 DEF EmbedderSays
  <2>2. Len(data) = N
    BY <1>13 DEF WrongCount
  <2>3. m \in Nat
    BY <1>13
  <2>4. Len(data) = m /\ DOMAIN data = 1 .. m
    BY <2>1, <2>3
  <2> QED
    BY <2>2, <2>4
<1>3. /\ \A n \in S : data[n].index \in S /\ data[n].vector = Batch[data[n].index]
      /\ \A m, n \in S : data[m].index = data[n].index => m = n
  BY <1>1, <1>2 DEF WellIndexed
<1> DEFINE placed == [n \in S |-> data[n].index]
<1>4. /\ placed \in [S -> S] /\ \A m, n \in S : placed[m] = placed[n] => m = n
      /\ \A n \in S : placed[n] = data[n].index
  BY <1>3
<1>5. VectorsIn(data) = [n \in S |-> data[order[n]].vector]
  BY <1>2 DEF VectorsIn
<1>6. \A m, n \in S : <<m, n>> \in R <=> placed[m] < placed[n]
  <2> SUFFICES ASSUME NEW m \in S, NEW n \in S
               PROVE  <<m, n>> \in R <=> placed[m] < placed[n]
    OBVIOUS
  <2>1. placed[m] = data[m].index /\ placed[n] = data[n].index /\ placed[m] \in Nat /\ placed[n] \in Nat
    BY <1>1, <1>4
  <2>2. placed[m] = placed[n] => m = n
    BY <1>4
  <2>3. m \in Nat /\ n \in Nat
    BY <1>1
  <2> HIDE DEF placed
  <2> QED
    BY <2>1, <2>2, <2>3
<1> HIDE DEF R, placed, order
<1>7. IsOrder(S, R)
  <2>1. \A n \in S : placed[n] \in Nat
    BY <1>1, <1>4
  <2>2. \A m, n \in S : m # n => placed[m] # placed[n]
    BY <1>4
  <2> HIDE DEF S
  <2>3. \A n \in S : <<n, n>> \notin R
    BY <1>6, <2>1
  <2>4. \A m, n \in S : m # n => <<m, n>> \in R \/ <<n, m>> \in R
    BY <1>6, <2>1, <2>2
  <2>5. \A m, n, k \in S : <<m, n>> \in R /\ <<n, k>> \in R => <<m, k>> \in R
    BY <1>6, <2>1
  <2> QED
    BY <2>3, <2>4, <2>5 DEF IsOrder
<1>8. \A n \in S : order[n] \in S /\ Cardinality(Preceding(S, R, order[n])) = n - 1
  <2>1. SortedOut(order, S, R, N)
    BY <1>1, <1>7, Sorts DEF order
  <2> QED
    BY <2>1 DEF SortedOut
<1>9. ASSUME NEW k \in S
      PROVE  Cardinality(Preceding(S, R, k)) = placed[k] - 1
  <2> DEFINE P == Preceding(S, R, k)
             M == placed[k] - 1
             f == [m \in P |-> placed[m]]
  <2>1. placed[k] \in S /\ M \in Nat /\ placed[k] = M + 1
    BY <1>1, <1>4
  <2>2. P = {m \in S : placed[m] < placed[k]}
    BY <1>6 DEF Preceding
  <2>3. IsFiniteSet(1 .. M) /\ Cardinality(1 .. M) = M
    BY <1>12, <2>1
  <2>4. placed \in Surjection(S, S)
    BY <1>1, <1>4, FS_Injection DEF Injection, IsInjective
  <2>5. \A i \in S : \E m \in S : placed[m] = i
    BY <2>4 DEF Surjection
  <2>6. \A i \in S : i < placed[k] <=> i \in 1 .. M
    BY <1>1, <2>1
  <2>7. \A i \in 1 .. M : i \in S
    BY <1>1, <2>1
  <2>8. \A m \in S : placed[m] \in S
    BY <1>4
  <2> HIDE DEF S, M
  <2>9. f \in Bijection(P, 1 .. M)
    <3>1. f \in [P -> 1 .. M]
      BY <2>2, <2>6, <2>8
    <3>2. \A m, n \in P : f[m] = f[n] => m = n
      BY <1>4, <2>2
    <3>3. \A i \in 1 .. M : \E m \in P : f[m] = i
      BY <2>2, <2>5, <2>6, <2>7
    <3> QED
      BY <3>1, <3>2, <3>3 DEF Bijection, Injection, Surjection, IsInjective
  <2>10. P \in SUBSET S
    BY <2>2
  <2> HIDE DEF P, f
  <2>11. IsFiniteSet(P)
    BY <1>1, <2>10, FS_Subset
  <2>12. Cardinality(P) = Cardinality(1 .. M)
    BY <2>9, <2>11, FS_Bijection DEF ExistsBijection
  <2> QED
    BY <2>3, <2>12 DEF P, M
<1>10. ASSUME NEW n \in S
       PROVE  data[order[n]].vector = Batch[n]
  <2>1. order[n] \in S /\ placed[order[n]] - 1 = n - 1
    BY <1>8, <1>9
  <2>2. placed[order[n]] = n
    <3>1. placed[order[n]] \in Nat /\ n \in Nat
      BY <1>1, <1>4, <2>1
    <3> QED
      BY <2>1, <3>1
  <2> QED
    BY <1>3, <1>4, <2>1, <2>2
<1>11. Batch = [n \in S |-> Batch[n]]
  BY <1>13
<1> QED
  BY <1>5, <1>10, <1>11

\* A call that has been read is done with an answer, and is otherwise as it was.
LEMMA ResultKeeps ==
    ASSUME RequestsInv, call.at = "read", NEW end \in {"failed", "translated"},
           end = "translated" => call.kind \in Providers,
           call' = Result(end), UNCHANGED <<providers, preferred>>
    PROVE  RequestsInv'
<1> DEFINE q == Result(end)
<1>1. IsCall(call)
  BY DEF RequestsInv, CallShape
<1>2. /\ IsCall(q) /\ q.at = "done" /\ q.kind = call.kind /\ q.chunks = call.chunks
      /\ q.todo = call.todo /\ q.out = call.out /\ q.asked = call.asked
      /\ q.attempt = call.attempt /\ q.sent = call.sent /\ q.waited = call.waited
      /\ q.answer = end /\ q.reply = call.reply /\ q.misled = call.misled
  BY <1>1 DEF IsCall, Result
<1> HIDE DEF q
<1>3. CallShape(q)
  BY <1>2 DEF RequestsInv, CallShape
<1>4. CallPatient(q)
  <2>1. call.kind \in Asks => /\ call.attempt < Policy(call.kind).attempts
                              /\ call.sent = call.attempt \/ call.sent = call.attempt + 1
                              /\ call.waited <= call.sent * Timeout[call.kind] + call.attempt * Longest(Policy(call.kind))
                              /\ call.reply = "ok"
    BY DEF RequestsInv, CallPatient
  <2> QED
    BY <1>2, <2>1 DEF CallPatient
<1>5. CallWhole(q)
  BY <1>2 DEF RequestsInv, CallWhole
<1>6. CallAsAsked(q)
  <2>1. CallAsAsked(call) /\ call.kind \in Asks
    BY DEF RequestsInv, CallShape
  <2>2. call.kind \in Providers =>
            call.kind \in providers /\ (call.asked # "none" => call.kind = call.asked)
    BY <2>1 DEF CallAsAsked
  <2>3. call.kind # "other"
    BY <2>1 DEF Asks, Providers
  <2> QED
    BY <1>2, <2>2, <2>3 DEF CallAsAsked
<1> QED
  BY <1>3, <1>4, <1>5, <1>6, OneCall DEF q

LEMMA ReadTranslationKeeps ==
    ASSUME RequestsInv, ReadTranslation
    PROVE  RequestsInv'
  BY ResultKeeps DEF ReadTranslation

LEMMA ReadVectorsKeeps ==
    ASSUME RequestsInv, ReadVectors
    PROVE  RequestsInv'
<1> DEFINE rest == SubSeq(call.todo, Len(Batch) + 1, Len(call.todo))
<1>1. /\ call.at = "read" /\ call.kind = "embed" /\ UNCHANGED <<providers, preferred>>
      /\ IsCall(call)
  BY DEF ReadVectors, RequestsInv, CallShape
<1>2. PICK t \in Texts : call.chunks = ChunkPaper(t)
  BY <1>1 DEF RequestsInv, CallWhole
<1>3. /\ call.todo \in Seq(Chunked) /\ call.todo # <<>>
      /\ ~call.misled => call.out \in Seq(Chunked) /\ call.chunks = call.out \o call.todo
  BY <1>1 DEF RequestsInv, CallWhole
<1>4. /\ Batch \in Seq(Chunked) /\ Len(Batch) \in Nat /\ Len(Batch) > 0
      /\ rest \in Seq(Chunked) /\ Batch \o rest = call.todo
  BY <1>3, BatchFacts
<1>5. \/ call' = Result("failed")
      \/ \E o, lied :
           LET g == [call EXCEPT !.out = o, !.todo = rest, !.attempt = 0, !.sent = 0, !.waited = 0,
                         !.misled = lied]
           IN  /\ ~lied => o = call.out \o Batch /\ ~call.misled
               /\ \/ rest # <<>> /\ call' = [g EXCEPT !.at = "send"]
                  \/ rest = <<>> /\ call' = [g EXCEPT !.at = "done", !.answer = "vectors"]
  <2>1. CASE call' = Result("failed")
    BY <2>1
  <2>2. CASE \E data \in EmbedderSays :
            LET got == [call EXCEPT !.out = @ \o VectorsIn(data), !.todo = rest,
                            !.attempt = 0, !.sent = 0, !.waited = 0,
                            !.misled = @ \/ ~WellIndexed(data)]
            IN  call' = IF WrongCount(data) THEN Result("failed")
                        ELSE IF rest # <<>> THEN [got EXCEPT !.at = "send"]
                        ELSE [got EXCEPT !.at = "done", !.answer = "vectors"]
    <3>1. PICK data \in EmbedderSays :
            LET got == [call EXCEPT !.out = @ \o VectorsIn(data), !.todo = rest,
                            !.attempt = 0, !.sent = 0, !.waited = 0,
                            !.misled = @ \/ ~WellIndexed(data)]
            IN  call' = IF WrongCount(data) THEN Result("failed")
                        ELSE IF rest # <<>> THEN [got EXCEPT !.at = "send"]
                        ELSE [got EXCEPT !.at = "done", !.answer = "vectors"]
      BY <2>2
    <3> HIDE DEF rest
    <3>2. CASE WrongCount(data)
      BY <3>1, <3>2
    <3>3. CASE ~WrongCount(data)
      <4> DEFINE o == call.out \o VectorsIn(data)
                 lied == call.misled \/ ~WellIndexed(data)
                 g == [call EXCEPT !.out = o, !.todo = rest, !.attempt = 0, !.sent = 0,
                           !.waited = 0, !.misled = lied]
      <4>1. WellIndexed(data) => VectorsIn(data) = Batch
        BY <1>4, <3>3, VectorsInFacts
      <4>2. ~lied => o = call.out \o Batch /\ ~call.misled
        BY <4>1
      <4>3. [call EXCEPT !.out = @ \o VectorsIn(data), !.todo = rest,
                            !.attempt = 0, !.sent = 0, !.waited = 0,
                            !.misled = @ \/ ~WellIndexed(data)] = g
        BY <1>1 DEF IsCall
      <4>4. \/ rest # <<>> /\ call' = [g EXCEPT !.at = "send"]
            \/ rest = <<>> /\ call' = [g EXCEPT !.at = "done", !.answer = "vectors"]
        <5> HIDE DEF g
        <5> QED
          BY <3>1, <3>3, <4>3
      <4> HIDE DEF o, lied
      <4> QED
        BY <4>2, <4>4
    <3> QED
      BY <3>2, <3>3
  <2> QED
    BY <2>1, <2>2 DEF ReadVectors
<1>10. CASE call' = Result("failed")
  BY <1>1, <1>10, ResultKeeps
<1> SUFFICES ASSUME NEW o, NEW lied, ~lied => o = call.out \o Batch /\ ~call.misled,
                    LET g == [call EXCEPT !.out = o, !.todo = rest, !.attempt = 0, !.sent = 0,
                                  !.waited = 0, !.misled = lied]
                    IN  \/ rest # <<>> /\ call' = [g EXCEPT !.at = "send"]
                        \/ rest = <<>> /\ call' = [g EXCEPT !.at = "done", !.answer = "vectors"]
             PROVE  RequestsInv'
  BY <1>5, <1>10
<1> DEFINE g == [call EXCEPT !.out = o, !.todo = rest, !.attempt = 0, !.sent = 0, !.waited = 0,
                     !.misled = lied]
<1>13. \/ rest # <<>> /\ call' = [g EXCEPT !.at = "send"]
       \/ rest = <<>> /\ call' = [g EXCEPT !.at = "done", !.answer = "vectors"]
  OBVIOUS
<1>6. ~lied => o \in Seq(Chunked) /\ o \o rest = call.chunks
  <2> SUFFICES ASSUME ~lied
               PROVE  o \in Seq(Chunked) /\ o \o rest = call.chunks
    OBVIOUS
  <2> HIDE DEF rest
  <2>1. PICK a : a = call.out
    OBVIOUS
  <2>2. PICK b : b = Batch
    OBVIOUS
  <2>3. PICK c : c = rest
    OBVIOUS
  <2>4. a \in Seq(Chunked) /\ b \in Seq(Chunked) /\ c \in Seq(Chunked)
    BY <1>3, <1>4, <2>1, <2>2, <2>3
  <2>5. a \o b \in Seq(Chunked) /\ (a \o b) \o c = a \o (b \o c)
    BY <2>4, Regrouped
  <2>6. o = a \o b /\ a \o (b \o c) = call.chunks
    BY <1>3, <1>4, <2>1, <2>2, <2>3
  <2> QED
    BY <2>3, <2>5, <2>6
<1> HIDE DEF rest
<1>7. /\ IsCall(g) /\ g.at = "read" /\ g.kind = "embed" /\ g.chunks = call.chunks
      /\ g.todo = rest /\ g.out = o /\ g.asked = call.asked
      /\ g.attempt = 0 /\ g.sent = 0 /\ g.waited = 0 /\ g.answer = call.answer
      /\ g.misled = lied
  BY <1>1 DEF IsCall
<1> HIDE DEF g
<1>8. call.answer = "none"
  BY <1>1 DEF RequestsInv, CallShape
<1>9. /\ PolicyOK(Policy("embed"))
      /\ 0 * Timeout["embed"] + 0 * Longest(Policy("embed")) = 0
  <2>1. PolicyOK(Policy("embed")) /\ Longest(Policy("embed")) \in Nat /\ Timeout["embed"] \in Nat
    BY PolicyFacts, RequestsAssumption
  <2> QED
    BY <2>1, ZeroWaits
<1>11. CASE rest # <<>> /\ call' = [g EXCEPT !.at = "send"]
  <2> DEFINE q == [g EXCEPT !.at = "send"]
  <2>1. /\ IsCall(q) /\ q.at = "send" /\ q.kind = "embed" /\ q.chunks = call.chunks
        /\ q.todo = rest /\ q.out = o /\ q.asked = call.asked
        /\ q.attempt = 0 /\ q.sent = 0 /\ q.waited = 0 /\ q.answer = "none"
        /\ q.misled = lied
    BY <1>7, <1>8 DEF IsCall
  <2>2. call' = q
    BY <1>11
  <2> HIDE DEF q
  <2>3. CallShape(q) /\ CallAsAsked(q)
    BY <2>1 DEF CallShape, CallAsAsked, Asks, Providers
  <2>4. CallPatient(q)
    BY <1>9, <2>1 DEF CallPatient, PolicyOK
  <2>5. CallWhole(q)
    BY <1>2, <1>4, <1>6, <1>11, <2>1 DEF CallWhole
  <2> QED
    BY <1>1, <2>2, <2>3, <2>4, <2>5, OneCall
<1>12. CASE rest = <<>> /\ call' = [g EXCEPT !.at = "done", !.answer = "vectors"]
  <2> DEFINE q == [g EXCEPT !.at = "done", !.answer = "vectors"]
  <2>1. /\ IsCall(q) /\ q.at = "done" /\ q.kind = "embed" /\ q.chunks = call.chunks
        /\ q.todo = rest /\ q.out = o /\ q.asked = call.asked
        /\ q.attempt = 0 /\ q.sent = 0 /\ q.waited = 0 /\ q.answer = "vectors"
        /\ q.misled = lied
    BY <1>7 DEF IsCall
  <2>2. call' = q
    BY <1>12
  <2> HIDE DEF q
  <2>3. CallShape(q) /\ CallAsAsked(q)
    BY <2>1 DEF CallShape, CallAsAsked, Asks, Providers
  <2>4. CallPatient(q)
    BY <1>9, <2>1 DEF CallPatient, PolicyOK
  <2>6. ~lied => o = call.chunks
    BY <1>6, <1>12
  <2>5. CallWhole(q)
    BY <1>2, <2>1, <2>6 DEF CallWhole
  <2> QED
    BY <1>1, <2>2, <2>3, <2>4, <2>5, OneCall
<1> QED
  BY <1>11, <1>12, <1>13

LEMMA RequestsInvNext == RequestsInv /\ [RequestsNext]_requestVars => RequestsInv'
<1> SUFFICES ASSUME RequestsInv, [RequestsNext]_requestVars
             PROVE  RequestsInv'
  OBVIOUS
<1>1. CASE RequestsNext
  BY <1>1, EmbedPaperKeeps, TranslateKeeps, SendKeeps, ReadVectorsKeeps, ReadTranslationKeeps
     DEF RequestsNext
<1>2. CASE UNCHANGED requestVars
  BY <1>2 DEF RequestsInv, CallShape, CallPatient, CallWhole, CallAsAsked, IsCall, requestVars
<1> QED
  BY <1>1, <1>2

LEMMA WaitsGrow ==
    ASSUME NEW a \in Nat, NEW n \in Nat, a <= n, NEW D \in Nat
    PROVE  a * D <= n * D
<1>1. PICK m \in Nat : n = a + m
  <2>1. n - a \in Nat /\ n = a + (n - a)
    OBVIOUS
  <2> QED
    BY <2>1
<1>2. n * D = a * D + m * D /\ m * D \in Nat /\ a * D \in Nat
  BY <1>1
<1> QED
  BY <1>2

LEMMA PatienceHolds == RequestsInv => Patience
<1> SUFFICES ASSUME RequestsInv, call.kind \in Asks
             PROVE  Patience
  BY DEF Patience, Asks
<1> DEFINE k == call.kind
           p == Policy(k)
           D == Longest(p)
           T == Timeout[k]
<1>1. /\ call.sent \in Nat /\ call.waited \in Nat /\ call.attempt \in Nat
      /\ call.attempt < p.attempts
      /\ call.sent = call.attempt \/ call.sent = call.attempt + 1
      /\ call.waited <= call.sent * T + call.attempt * D
      /\ call.at = "done" /\ call.answer = "failed" /\ call.reply \in {"limited", "busy", "timeout",
           "unreachable"} => call.sent = p.attempts
  BY DEF RequestsInv, CallShape, CallPatient
<1>2. p.attempts \in Nat /\ D \in Nat /\ T \in Nat
  BY PolicyFacts, RequestsAssumption DEF Asks, Providers, PolicyOK
<1>3. D = Max({p.max_delay, p.retry_after_cap})
  BY DEF Longest
<1>4. k = "deepl" => call.waited <= 124
  <2> SUFFICES ASSUME k = "deepl"
               PROVE  call.waited <= 124
    OBVIOUS
  <2>1. p.attempts = 2 /\ p.max_delay = 4 /\ p.retry_after_cap = 4 /\ T = 60
    BY InteractiveAssumption DEF Policy
  <2>2. D = 4
    BY <1>3, <2>1, OfTwo
  <2> HIDE DEF p, D, T
  <2>3. call.attempt \in {0, 1} /\ call.sent \in {0, 1, 2}
    BY <1>1, <2>1
  <2>4. call.waited <= call.sent * 60 + call.attempt * 4
    BY <1>1, <2>1, <2>2
  <2> QED
    BY <1>1, <2>3, <2>4
<1> HIDE DEF p, D, T, k
<1>5. call.sent <= p.attempts
  BY <1>1, <1>2
<1>6. call.attempt * D <= (p.attempts - 1) * D
  <2>1. p.attempts - 1 \in Nat /\ call.attempt <= p.attempts - 1
    BY <1>1, <1>2
  <2> QED
    BY <1>1, <1>2, <2>1, WaitsGrow
<1>7. call.waited <= call.sent * T + (p.attempts - 1) * D
  <2>1. call.sent * T \in Nat /\ call.attempt * D \in Nat /\ (p.attempts - 1) * D \in Int
    BY <1>1, <1>2
  <2> QED
    BY <1>1, <1>6, <2>1
<1> QED
  BY <1>1, <1>3, <1>4, <1>5, <1>7 DEF Patience, p, T, k

LEMMA AllEmbeddedHolds == RequestsInv => AllEmbedded
<1> SUFFICES ASSUME RequestsInv, call.kind = "embed", call.answer = "vectors"
             PROVE  AllEmbedded
  BY DEF AllEmbedded
<1>1. PICK t \in Texts : call.chunks = ChunkPaper(t)
  BY DEF RequestsInv, CallWhole
<1>2. ~call.misled => call.out = call.chunks
  BY DEF RequestsInv, CallWhole
<1> DEFINE cs == call.chunks
<1>3. /\ cs \in Seq(Chunked)
      /\ \A c \in ToSet(cs) : Len(c.text) <= TARGET_CHARS + OVERLAP_CHARS + 2
      /\ \A k \in 1 .. Len(t.pages) : \A para \in ToSet(t.pages[k]) :
           ToSet(para.text) \subseteq UNION {ToSet(c.text) : c \in {d \in ToSet(cs) : d.page = k}}
  <2>1. /\ ChunkPaper(t) \in Seq(Chunked)
        /\ \A c \in ToSet(ChunkPaper(t)) : Len(c.text) <= ChunkLimit
        /\ \A k \in 1 .. Len(t.pages) : \A para \in ToSet(t.pages[k]) :
             ToSet(para.text) \subseteq
               UNION {ToSet(c.text) : c \in {d \in ToSet(ChunkPaper(t)) : d.page = k}}
    BY ChunkPaperFacts
  <2> QED
    BY <1>1, <2>1, Zenon DEF ChunkLimit
<1>4. ~call.misled => Points = {[chunk |-> c, vector |-> c] : c \in ToSet(cs)}
  <2> SUFFICES ASSUME ~call.misled
               PROVE  Points = {[chunk |-> c, vector |-> c] : c \in ToSet(cs)}
    OBVIOUS
  <2>1. Len(cs) \in Nat /\ DOMAIN cs = 1 .. Len(cs)
    BY <1>3
  <2>2. Min({Len(cs), Len(cs)}) = Len(cs)
    BY <2>1, OfTwo
  <2>3. Points = {[chunk |-> cs[n], vector |-> cs[n]] : n \in 1 .. Len(cs)}
    BY <1>2, <2>2 DEF Points
  <2>4. ToSet(cs) = {cs[n] : n \in 1 .. Len(cs)}
    BY <2>1 DEF ToSet
  <2> HIDE DEF cs
  <2> QED
    BY <2>3, <2>4
<1> QED
  BY <1>1, <1>3, <1>4 DEF AllEmbedded

LEMMA RequestsInvHolds == RequestsInv => RequestsTypeOK /\ RequestsHold
<1> SUFFICES ASSUME RequestsInv
             PROVE  RequestsTypeOK /\ RequestsHold
  OBVIOUS
<1>1. RequestsTypeOK
  BY DEF RequestsInv, RequestsTypeOK, CallShape, Asks
<1>2. ProviderAsAsked
  BY DEF RequestsInv, ProviderAsAsked, CallAsAsked, CallShape
<1> QED
  BY <1>1, <1>2, PatienceHolds, AllEmbeddedHolds DEF RequestsHold

----------------------------------------------------------------------------
(* Searches: what the engines return.                                      *)

LEMMA CutIs ==
    ASSUME NEW X, NEW s \in Seq(X), NEW n \in Nat
    PROVE  /\ Cut(s, n) \in Seq(X) /\ Len(Cut(s, n)) <= n /\ Len(Cut(s, n)) <= Len(s)
           /\ \A i \in DOMAIN s : i <= n => i \in DOMAIN Cut(s, n)
           /\ \A i \in DOMAIN Cut(s, n) : i \in DOMAIN s /\ Cut(s, n)[i] = s[i]
<1>1. PICK m \in Nat : m = IF Len(s) < n THEN Len(s) ELSE n
  OBVIOUS
<1>2. Cut(s, n) = SubSeq(s, 1, m) /\ m <= n /\ m <= Len(s)
  BY <1>1 DEF Cut
<1>3. /\ SubSeq(s, 1, m) \in Seq(X) /\ Len(SubSeq(s, 1, m)) = m
      /\ \A i \in 1 .. m : SubSeq(s, 1, m)[i] = s[i]
  BY <1>2
<1>4. DOMAIN SubSeq(s, 1, m) = 1 .. m /\ DOMAIN s = 1 .. Len(s)
  BY <1>3
<1> HIDE DEF Cut
<1>5. \A i \in DOMAIN s : i <= n => i \in 1 .. m
  <2>1. PICK L \in Nat : L = Len(s)
    OBVIOUS
  <2>2. \A i \in 1 .. L : i <= n => i \in 1 .. m
    BY <1>1, <2>1
  <2> QED
    BY <1>4, <2>1, <2>2
<1> QED
  BY <1>2, <1>3, <1>4, <1>5

\* One of the scope's is missing only if as many of them are before it.
NotCutOff(s, n, T) ==
    \A i \in DOMAIN s :
        s[i] \in T /\ Cardinality({j \in Places(s, T) : j < i}) < n
          => \E k \in DOMAIN Within(s, n, T) : Within(s, n, T)[k] = s[i]

\* What an engine returns of a ranking: the scope's, up to the limit.
LEMMA WithinIs ==
    ASSUME NEW X, NEW s \in Seq(X), NEW n \in Nat, NEW T
    PROVE  /\ Within(s, n, T) \in Seq(X) /\ Len(Within(s, n, T)) <= n
           /\ \A i \in DOMAIN Within(s, n, T) :
                Within(s, n, T)[i] \in T /\ \E j \in DOMAIN s : s[j] = Within(s, n, T)[i]
           /\ NotCutOff(s, n, T)
<1> DEFINE t == Sifted(s, T)
           w == Within(s, n, T)
<1>1. t \in Seq(X) /\ \E places : IsSifted(t, s, T, places)
  BY Sifts
<1>2. PICK places : IsSifted(t, s, T, places)
  BY <1>1
<1>3. w = Cut(t, n)
  BY DEF Within
<1> HIDE DEF t, w
<1>4. /\ w \in Seq(X) /\ Len(w) <= n
      /\ \A i \in DOMAIN t : i <= n => i \in DOMAIN w
      /\ \A i \in DOMAIN w : i \in DOMAIN t /\ w[i] = t[i]
  BY <1>1, <1>3, CutIs
<1>5. /\ DOMAIN t = 1 .. Len(t) /\ Len(t) \in Nat /\ places \in [1 .. Len(t) -> DOMAIN s]
      /\ \A k \in 1 .. Len(t) :
           /\ t[k] = s[places[k]] /\ t[k] \in T
           /\ Cardinality({i \in Places(s, T) : i < places[k]}) = k - 1
      /\ \A i \in DOMAIN s : s[i] \in T => \E k \in 1 .. Len(t) : places[k] = i
  BY <1>2 DEF IsSifted
<1>6. ASSUME NEW i \in DOMAIN w PROVE w[i] \in T /\ \E j \in DOMAIN s : s[j] = w[i]
  <2>1. i \in 1 .. Len(t) /\ w[i] = t[i]
    BY <1>4, <1>5, <1>6
  <2> QED
    BY <1>5, <2>1
<1>7. ASSUME NEW i \in DOMAIN s, s[i] \in T, Cardinality({j \in Places(s, T) : j < i}) < n
      PROVE  \E k \in DOMAIN w : w[k] = s[i]
  <2>1. PICK k \in 1 .. Len(t) : places[k] = i
    BY <1>5, <1>7
  <2>2. Cardinality({j \in Places(s, T) : j < i}) = k - 1 /\ t[k] = s[i]
    BY <1>5, <2>1
  <2>3. k \in DOMAIN t /\ k <= n
    BY <1>5, <1>7, <2>1, <2>2
  <2> QED
    BY <1>4, <2>2, <2>3
<1> QED
  BY <1>4, <1>6, <1>7 DEF w, NotCutOff

LEMMA QueryingNumbers ==
    /\ \A p \in Corpus : p \in Nat
    /\ KEYWORD_LIMIT \in Nat /\ SEMANTIC_LIMIT \in Nat /\ RRF_K \in Nat
    /\ Whole \in Nat /\ Whole > 0
    /\ \A n \in 1 .. KEYWORD_LIMIT : Whole % (RRF_K + n) = 0
    /\ \A n \in 1 .. SEMANTIC_LIMIT : Whole % (RRF_K + n) = 0
    /\ \A list \in Ranks : list \in Seq(Corpus)
    /\ \A list \in Nearest : list \in Seq([paper : Corpus, seq : Nat])
    /\ \A tokens \in Asked : tokens \in Seq([key : STRING, value : STRING])
<1>1. /\ \A p \in Corpus : p \in Nat
      /\ KEYWORD_LIMIT \in Nat /\ SEMANTIC_LIMIT \in Nat /\ RRF_K \in Nat
      /\ Whole \in Nat /\ Whole > 0
  BY QueryingAssumption
<1>2. /\ \A n \in 1 .. KEYWORD_LIMIT : Whole % (RRF_K + n) = 0
      /\ \A n \in 1 .. SEMANTIC_LIMIT : Whole % (RRF_K + n) = 0
  BY QueryingAssumption
<1>3. /\ \A list \in Ranks : list \in Seq(Corpus)
      /\ \A list \in Nearest : list \in Seq([paper : Corpus, seq : Nat])
      /\ \A tokens \in Asked : tokens \in Seq([key : STRING, value : STRING])
  BY QueryingAssumption, ZenonT(30)
<1> QED
  BY <1>1, <1>2, <1>3

LEMMA KeywordHitsIs ==
    ASSUME NEW tokens, NEW order \in Seq(Corpus), NEW in
    PROVE  /\ KeywordHits(tokens, order, in) \in Seq(Corpus)
           /\ Len(KeywordHits(tokens, order, in)) <= KEYWORD_LIMIT
           /\ \A i \in DOMAIN KeywordHits(tokens, order, in) :
                /\ KeywordHits(tokens, order, in)[i] \in in
                /\ Matches(tokens, KeywordHits(tokens, order, in)[i])
<1> DEFINE T == {p \in in : Matches(tokens, p)}
<1>1. /\ Within(order, KEYWORD_LIMIT, T) \in Seq(Corpus)
      /\ Len(Within(order, KEYWORD_LIMIT, T)) <= KEYWORD_LIMIT
      /\ \A i \in DOMAIN Within(order, KEYWORD_LIMIT, T) : Within(order, KEYWORD_LIMIT, T)[i] \in T
  <2> HIDE DEF T
  <2> QED
    BY QueryingNumbers, WithinIs
<1>2. \A p \in T : p \in in /\ Matches(tokens, p)
  OBVIOUS
<1>3. KeywordHits(tokens, order, in) = Within(order, KEYWORD_LIMIT, T)
  BY DEF KeywordHits
<1> HIDE DEF T
<1> QED
  BY <1>1, <1>2, <1>3

\* The near chunks: of papers in the scope and of a selected part, one of each paper.
LEMMA NearHitsIs ==
    ASSUME NEW tokens, NEW order \in Seq([paper : Corpus, seq : Nat]), NEW in
    PROVE  /\ NearHits(tokens, order, in) \in Seq([paper : Corpus, seq : Nat])
           /\ Len(NearHits(tokens, order, in)) <= SEMANTIC_LIMIT
           /\ \A i \in DOMAIN NearHits(tokens, order, in) :
                /\ NearHits(tokens, order, in)[i].paper \in in
                /\ \E c \in ToSet(order) : /\ c.paper = NearHits(tokens, order, in)[i].paper
                                           /\ ChunkAsked(tokens, c.seq)
           /\ \A i, j \in DOMAIN NearHits(tokens, order, in) :
                NearHits(tokens, order, in)[i].paper = NearHits(tokens, order, in)[j].paper => i = j
<1> DEFINE X == [paper : Corpus, seq : Nat]
           T == {c \in ToSet(order) : c.paper \in in /\ ChunkAsked(tokens, c.seq)}
           chunks == Within(order, SEMANTIC_LIMIT, T)
           S == {i \in DOMAIN chunks : \A j \in 1 .. i - 1 : chunks[j].paper # chunks[i].paper}
           best == Rising(S)
           n == NearHits(tokens, order, in)
<1>1. /\ chunks \in Seq(X) /\ Len(chunks) <= SEMANTIC_LIMIT
      /\ \A i \in DOMAIN chunks : chunks[i] \in T
  <2> HIDE DEF T, X
  <2>1. order \in Seq(X)
    BY DEF X
  <2> QED
    BY <2>1, QueryingNumbers, WithinIs
<1>2. n = [i \in DOMAIN best |-> chunks[best[i]]]
  BY DEF NearHits
<1>3. \A c \in T : c.paper \in in /\ c \in ToSet(order) /\ ChunkAsked(tokens, c.seq)
  OBVIOUS
<1> HIDE DEF T, chunks
<1>4. PICK L \in Nat : L = Len(chunks) /\ DOMAIN chunks = 1 .. L
  BY <1>1
<1>5. IsFiniteSet(1 .. L) /\ Cardinality(1 .. L) = L
  BY FS_Interval
<1>6. S \in SUBSET (1 .. L) /\ S \in SUBSET Nat
  BY <1>4
<1>7. \A i, j \in S : j < i => chunks[j].paper # chunks[i].paper
  <2> SUFFICES ASSUME NEW i \in S, NEW j \in S, j < i PROVE chunks[j].paper # chunks[i].paper
    OBVIOUS
  <2>1. j \in 1 .. i - 1
    BY <1>6
  <2> QED
    BY <2>1
<1> HIDE DEF S
<1>8. IsFiniteSet(S) /\ Cardinality(S) \in Nat /\ Cardinality(S) <= L
  BY <1>5, <1>6, FS_Subset, FS_CardinalityType
<1>9. PICK N \in Nat : N = Cardinality(S)
  BY <1>8
<1>10. /\ DOMAIN best = 1 .. N /\ \A i \in 1 .. N : best[i] \in S
       /\ \A i, j \in 1 .. N : i < j <=> best[i] < best[j]
  BY <1>6, <1>8, <1>9, Rises
<1> HIDE DEF best, n
<1>11. n \in [1 .. N -> X] /\ DOMAIN n = 1 .. N
  <2> HIDE DEF X
  <2>1. \A i \in 1 .. N : chunks[best[i]] \in X
    <3> SUFFICES ASSUME NEW i \in 1 .. N PROVE chunks[best[i]] \in X
      OBVIOUS
    <3>1. best[i] \in DOMAIN chunks
      BY <1>4, <1>6, <1>10
    <3> QED
      BY <1>1, <3>1
  <2> QED
    BY <1>2, <1>10, <2>1
<1>12. n \in Seq(X) /\ Len(n) = N
  <2> HIDE DEF X
  <2> QED
    BY <1>11
<1>13. ASSUME NEW i \in 1 .. N
       PROVE  /\ n[i].paper \in in
              /\ \E c \in ToSet(order) : c.paper = n[i].paper /\ ChunkAsked(tokens, c.seq)
  <2>1. n[i] = chunks[best[i]] /\ best[i] \in DOMAIN chunks
    BY <1>2, <1>4, <1>6, <1>10
  <2>2. n[i] \in T
    BY <1>1, <2>1
  <2> QED
    BY <1>3, <2>2
<1>14. \A i, j \in 1 .. N : n[i].paper = n[j].paper => i = j
  <2> SUFFICES ASSUME NEW i \in 1 .. N, NEW j \in 1 .. N, n[i].paper = n[j].paper, i # j
               PROVE  FALSE
    OBVIOUS
  <2>1. n[i] = chunks[best[i]] /\ n[j] = chunks[best[j]]
    BY <1>2, <1>10
  <2>2. best[i] \in S /\ best[j] \in S /\ (best[i] < best[j] \/ best[j] < best[i])
    BY <1>10
  <2> QED
    BY <1>7, <2>1, <2>2
<1>15. Len(n) <= SEMANTIC_LIMIT
  BY <1>1, <1>4, <1>8, <1>9, <1>12, QueryingNumbers
<1> QED
  BY <1>11, <1>12, <1>13, <1>14, <1>15 DEF n

----------------------------------------------------------------------------
(* The fusion.                                                             *)

\* The elements of a list are as many as its places if none is there twice.
LEMMA Elements ==
    ASSUME NEW n \in Nat, NEW s, DOMAIN s = 1 .. n
    PROVE  /\ IsFiniteSet(ToSet(s))
           /\ (\A i, j \in 1 .. n : s[i] = s[j] => i = j) => Cardinality(ToSet(s)) = n
<1> DEFINE T == ToSet(s)
           g == [i \in 1 .. n |-> s[i]]
<1>1. IsFiniteSet(1 .. n) /\ Cardinality(1 .. n) = n
  BY FS_Interval
<1>2. g \in [1 .. n -> T] /\ \A t \in T : \E i \in 1 .. n : g[i] = t
  BY DEF ToSet
<1>3. \A i \in 1 .. n : g[i] = s[i]
  OBVIOUS
<1> HIDE DEF g, T
<1>4. g \in Surjection(1 .. n, T)
  BY <1>2 DEF Surjection
<1>5. IsFiniteSet(T) /\ (Cardinality(T) = Cardinality(1 .. n) <=> g \in Injection(1 .. n, T))
  BY <1>1, <1>4, FS_Surjection
<1>6. ASSUME \A i, j \in 1 .. n : s[i] = s[j] => i = j PROVE Cardinality(T) = n
  <2>1. g \in Injection(1 .. n, T)
    BY <1>2, <1>3, <1>6 DEF Injection, IsInjective
  <2> QED
    BY <1>1, <1>5, <2>1
<1> QED
  BY <1>5, <1>6 DEF T

LEMMA QuotientFalls ==
    ASSUME NEW W \in Nat, W > 0, NEW a \in Nat, NEW b \in Nat, a > 0, a < b, W % a = 0, W % b = 0
    PROVE  /\ W \div a \in Nat /\ W \div b \in Nat /\ W \div a > W \div b /\ W \div b > 0
<1>1. PICK x \in Nat : x = W \div a
  OBVIOUS
<1>2. PICK y \in Nat : y = W \div b
  OBVIOUS
<1>3. W = a * x
  BY <1>1
<1>4. W = b * y
  BY <1>2
<1>5. y > 0
  <2>1. y = 0 => b * y = 0
    OBVIOUS
  <2> QED
    BY <1>4, <2>1
<1>6. ASSUME x <= y PROVE FALSE
  <2>1. a * x <= a * y
    BY <1>6
  <2>2. a * y < b * y
    BY <1>5
  <2> QED
    BY <1>3, <1>4, <2>1, <2>2
<1> QED
  BY <1>1, <1>2, <1>5, <1>6

LEMMA RankIs ==
    ASSUME NEW list, NEW p, Has(list, p)
    PROVE  Rank(list, p) \in DOMAIN list /\ list[Rank(list, p)] = p
BY DEF Has, Rank

LEMMA ShareIs ==
    ASSUME NEW list \in Seq(Corpus), Len(list) <= KEYWORD_LIMIT \/ Len(list) <= SEMANTIC_LIMIT,
           NEW p
    PROVE  /\ Share(list, p) \in Nat
           /\ Has(list, p) => Share(list, p) > 0
           /\ \A q : Has(list, p) /\ Has(list, q) /\ Rank(list, p) < Rank(list, q)
                       => Share(list, p) > Share(list, q)
<1>1. ASSUME NEW q, Has(list, q)
      PROVE  /\ Rank(list, q) \in Nat /\ Rank(list, q) > 0 /\ Whole % (RRF_K + Rank(list, q)) = 0
             /\ Share(list, q) = Whole \div (RRF_K + Rank(list, q))
  <2>1. Rank(list, q) \in 1 .. Len(list)
    BY <1>1, RankIs
  <2>2. Rank(list, q) \in 1 .. KEYWORD_LIMIT \/ Rank(list, q) \in 1 .. SEMANTIC_LIMIT
    BY <2>1, QueryingNumbers
  <2>3. Whole % (RRF_K + Rank(list, q)) = 0
    BY <2>2, QueryingNumbers
  <2>4. Share(list, q) = Whole \div (RRF_K + Rank(list, q))
    BY <1>1 DEF Share
  <2> QED
    BY <2>1, <2>3, <2>4
<1>2. Whole \in Nat /\ Whole > 0 /\ RRF_K \in Nat
  BY QueryingNumbers
<1>3. ASSUME Has(list, p) PROVE Share(list, p) \in Nat /\ Share(list, p) > 0
  <2>1. PICK r \in Nat : r = RRF_K + Rank(list, p) /\ r > 0
    BY <1>1, <1>2, <1>3
  <2>2. Whole % r = 0 /\ Share(list, p) = Whole \div r
    BY <1>1, <1>3, <2>1
  <2>3. PICK x \in Nat : x = Whole \div r
    BY <1>2, <2>1
  <2>4. Whole = r * x
    BY <1>2, <2>1, <2>2, <2>3, SMTT(30)
  <2>5. x = 0 => r * x = 0
    BY <2>1
  <2> QED
    BY <1>2, <2>2, <2>3, <2>4, <2>5
<1>4. ASSUME NEW q, Has(list, p), Has(list, q), Rank(list, p) < Rank(list, q)
      PROVE  Share(list, p) > Share(list, q)
  <2>1. PICK a \in Nat : a = RRF_K + Rank(list, p) /\ a > 0
    BY <1>1, <1>2, <1>4
  <2>2. PICK b \in Nat : b = RRF_K + Rank(list, q) /\ a < b
    BY <1>1, <1>2, <1>4, <2>1
  <2>3. Whole % a = 0 /\ Whole % b = 0
    BY <1>1, <1>4, <2>1, <2>2
  <2>4. Whole \div a > Whole \div b
    BY <1>2, <2>1, <2>2, <2>3, QuotientFalls
  <2> QED
    BY <1>1, <1>4, <2>1, <2>2, <2>4
<1>5. ~Has(list, p) => Share(list, p) = 0
  BY DEF Share
<1> QED
  BY <1>3, <1>4, <1>5

\* A list that does not put q before p, or has p alone, gives p no less.
Ahead(list, p, q) == Has(list, q) => (Has(list, p) /\ Rank(list, p) < Rank(list, q))

LEMMA ScoreFalls ==
    ASSUME NEW a \in Seq(Corpus), Len(a) <= KEYWORD_LIMIT,
           NEW b \in Seq(Corpus), Len(b) <= SEMANTIC_LIMIT, NEW p, NEW q,
           Ahead(a, p, q), Ahead(b, p, q), Has(a, q) \/ Has(b, q)
    PROVE  Score(a, b, p) > Score(a, b, q)
<1>1. /\ Share(a, p) \in Nat /\ Share(a, q) \in Nat /\ Share(b, p) \in Nat /\ Share(b, q) \in Nat
      /\ Has(a, p) /\ Has(a, q) /\ Rank(a, p) < Rank(a, q) => Share(a, p) > Share(a, q)
      /\ Has(b, p) /\ Has(b, q) /\ Rank(b, p) < Rank(b, q) => Share(b, p) > Share(b, q)
  BY ShareIs
<1>2. (~Has(a, q) => Share(a, q) = 0) /\ (~Has(b, q) => Share(b, q) = 0)
  BY DEF Share
<1>3. (Has(a, q) => Share(a, p) > Share(a, q)) /\ (Has(b, q) => Share(b, p) > Share(b, q))
  BY <1>1 DEF Ahead
<1>4. Share(a, p) >= Share(a, q) /\ Share(b, p) >= Share(b, q)
  BY <1>1, <1>2, <1>3
<1> QED
  BY <1>1, <1>3, <1>4 DEF Score

Found(a, b) == ToSet(a) \cup ToSet(b)
BetterIn(a, b) == {pq \in Found(a, b) \X Found(a, b) : Better(a, b, pq[1], pq[2])}

LEMMA FusedIs ==
    ASSUME NEW a \in Seq(Corpus), Len(a) <= KEYWORD_LIMIT,
           NEW b \in Seq(Corpus), Len(b) <= SEMANTIC_LIMIT
    PROVE  /\ Fused(a, b) \in Seq(Corpus)
           /\ \A p : Has(a, p) \/ Has(b, p) <=> Has(Fused(a, b), p)
           /\ \A i, j \in DOMAIN Fused(a, b) : Fused(a, b)[i] = Fused(a, b)[j] => i = j
           /\ \A i, j \in DOMAIN Fused(a, b) :
                Better(a, b, Fused(a, b)[i], Fused(a, b)[j]) => i < j
<1> DEFINE S == Found(a, b)
           R == BetterIn(a, b)
           f == Fused(a, b)
<1>1. ToSet(a) \in SUBSET Corpus /\ ToSet(b) \in SUBSET Corpus
  BY DEF ToSet
<1>2. IsFiniteSet(ToSet(a)) /\ IsFiniteSet(ToSet(b))
  <2>1. PICK m \in Nat : m = Len(a) /\ DOMAIN a = 1 .. m
    OBVIOUS
  <2>2. PICK n \in Nat : n = Len(b) /\ DOMAIN b = 1 .. n
    OBVIOUS
  <2> QED
    BY <2>1, <2>2, Elements
<1>3. IsFiniteSet(S) /\ S \in SUBSET Corpus
  BY <1>1, <1>2, FS_Union DEF Found
<1>4. PICK N \in Nat : N = Cardinality(S)
  BY <1>3, FS_CardinalityType
<1>5. \A p, q \in S : <<p, q>> \in R <=> Better(a, b, p, q)
  BY DEF BetterIn
<1>6. \A p \in S : p \in Nat /\ Score(a, b, p) \in Nat
  <2> SUFFICES ASSUME NEW p \in S PROVE p \in Nat /\ Score(a, b, p) \in Nat
    OBVIOUS
  <2>1. Share(a, p) \in Nat /\ Share(b, p) \in Nat
    BY ShareIs
  <2> QED
    BY <1>3, <2>1, QueryingNumbers DEF Score
<1>7. f = InOrder(S, R)
  BY DEF Fused, Found, BetterIn
<1>8. \A p : p \in S <=> Has(a, p) \/ Has(b, p)
  BY DEF Found, ToSet, Has
<1> HIDE DEF S, R, f
<1>9. IsOrder(S, R)
  <2>1. \A p \in S : ~Better(a, b, p, p)
    BY <1>6 DEF Better
  <2>2. \A p, q \in S : p # q => Better(a, b, p, q) \/ Better(a, b, q, p)
    BY <1>6 DEF Better
  <2>3. \A p, q, r \in S : Better(a, b, p, q) /\ Better(a, b, q, r) => Better(a, b, p, r)
    BY <1>6 DEF Better
  <2> QED
    BY <1>5, <2>1, <2>2, <2>3 DEF IsOrder
<1>10. SortedOut(f, S, R, N)
  BY <1>3, <1>4, <1>7, <1>9, Sorts
<1>11. f \in Seq(Corpus) /\ DOMAIN f = 1 .. N
  <2>1. f \in Seq(S) /\ DOMAIN f = 1 .. N
    BY <1>10 DEF SortedOut
  <2> QED
    BY <1>3, <2>1
<1>12. \A p : p \in S <=> Has(f, p)
  <2>1. /\ DOMAIN f = 1 .. N /\ \A n \in 1 .. N : f[n] \in S
        /\ \A p \in S : \E n \in 1 .. N : f[n] = p
    BY <1>10 DEF SortedOut
  <2> QED
    BY <2>1 DEF Has
<1>13. \A i, j \in DOMAIN f : f[i] = f[j] => i = j
  BY <1>10 DEF SortedOut
<1>14. \A i, j \in DOMAIN f : Better(a, b, f[i], f[j]) => i < j
  BY <1>5, <1>10 DEF SortedOut
<1> QED
  BY <1>8, <1>11, <1>12, <1>13, <1>14 DEF f

----------------------------------------------------------------------------
(* Searches: what holds between the steps.                                 *)

QueryPhases == {"asked", "keyword", "semantic", "hydrate", "done"}

Keeps(p) == Demands(typed) \subseteq paper[p].traits

\* What the keyword engine has said by the end of its step.
KeywordSaid == IF "keyword" \in engines THEN KeywordHits(typed, ranking, scope) ELSE <<>>

HitOrder == Sifted(Fused(hits, Papers(near)), {p \in Corpus : Shown(p)})

Hydrated == [i \in DOMAIN HitOrder |-> Label(HitOrder[i])]

\* Of a paper nobody touched, the filter says at every step what it said at first.
ScopeHolds ==
    /\ scope \subseteq Corpus
    /\ \A p \in Corpus \ disturbed : paper[p].at = "live"
    /\ phase # "asked" => \A p \in Corpus \ disturbed : p \in scope <=> Keeps(p)

QueryInv ==
    /\ typed \in Asked /\ ranking \in Ranks /\ nearest \in Nearest
    /\ semantic \in BOOLEAN /\ phase \in QueryPhases
    /\ paper \in [Corpus -> Rows]
    /\ ScopeHolds
    /\ phase \in {"asked", "keyword"} => hits = <<>>
    /\ phase \in {"asked", "keyword", "semantic"} => near = <<>>
    /\ phase \in {"semantic", "hydrate"} => hits = KeywordSaid
    /\ near \in {<<>>, NearHits(typed, nearest, scope)}
    /\ near # <<>> => "semantic" \in engines /\ Text(typed) # <<>>
    /\ phase # "done" => answer = <<>>
    /\ phase = "done" =>
         \/ scope = {} /\ hits = <<>> /\ near = <<>> /\ answer = <<>>
         \/ hits = KeywordSaid /\ answer = Hydrated

LEMMA QueryInvInit == QueryInit => QueryInv
<1> SUFFICES ASSUME QueryInit PROVE QueryInv
  OBVIOUS
<1>1. paper \in [Corpus -> Rows] /\ \A p \in Corpus : paper[p].at = "live"
  <2>1. paper \in [Corpus -> [at : {"live"}, traits : {{}, {"tag"}}]]
    BY DEF QueryInit
  <2>2. \A row \in [at : {"live"}, traits : {{}, {"tag"}}] : row \in Rows /\ row.at = "live"
    BY DEF Rows, Traits
  <2> QED
    BY <2>1, <2>2
<1>2. ScopeHolds
  BY <1>1 DEF ScopeHolds, QueryInit
<1> QED
  BY <1>1, <1>2 DEF QueryInv, QueryInit, QueryPhases

LEMMA ScopeKeeps == ASSUME QueryInv, Scope PROVE QueryInv'
<1>1. /\ phase = "asked" /\ hits = <<>> /\ near = <<>> /\ answer = <<>>
      /\ UNCHANGED <<paper, request, hits, near, answer, disturbed>>
  BY DEF Scope, QueryInv
<1>2. /\ typed' = typed /\ engines' = engines /\ ranking' = ranking /\ nearest' = nearest
      /\ paper' = paper /\ hits' = <<>> /\ near' = <<>> /\ answer' = <<>> /\ disturbed' = disturbed
  BY <1>1 DEF request
<1>3. /\ scope' = IF Demands(typed) = {} THEN Corpus ELSE Matching(Demands(typed))
      /\ phase' = IF scope' = {} /\ Demands(typed) # {} THEN "done" ELSE "keyword"
      /\ semantic' \in BOOLEAN
  BY DEF Scope
<1>4. \A p \in Corpus \ disturbed : paper[p].at = "live"
  BY DEF QueryInv, ScopeHolds
<1>5. ScopeHolds'
  <2>1. scope' \in SUBSET Corpus
    BY <1>3 DEF Matching
  <2>2. \A p \in Corpus \ disturbed : p \in scope' <=> Demands(typed) \subseteq paper[p].traits
    BY <1>3, <1>4 DEF Matching
  <2> QED
    BY <1>2, <1>4, <2>1, <2>2 DEF ScopeHolds, Keeps
<1>6. phase' \in {"done", "keyword"} /\ (phase' = "done" => scope' = {})
  BY <1>3
<1> QED
  BY <1>2, <1>3, <1>5, <1>6 DEF QueryInv, QueryPhases

\* The steps after the scope is known leave what it depends on alone.
LEMMA ScopeStays ==
    ASSUME QueryInv, UNCHANGED <<paper, request, scope, disturbed>>, phase # "asked"
    PROVE  /\ ScopeHolds' /\ typed' \in Asked /\ ranking' \in Ranks /\ nearest' \in Nearest
           /\ paper' \in [Corpus -> Rows]
           /\ typed' = typed /\ engines' = engines /\ ranking' = ranking /\ nearest' = nearest
           /\ scope' = scope /\ paper' = paper
<1>1. /\ typed' = typed /\ engines' = engines /\ ranking' = ranking /\ nearest' = nearest
      /\ paper' = paper /\ scope' = scope /\ disturbed' = disturbed
  BY DEF request
<1>2. ScopeHolds'
  BY <1>1 DEF QueryInv, ScopeHolds, Keeps
<1> QED
  BY <1>1, <1>2 DEF QueryInv

LEMMA KeywordKeeps == ASSUME QueryInv, Keyword PROVE QueryInv'
<1>1. /\ phase = "keyword" /\ phase' = "semantic"
      /\ hits' = KeywordSaid /\ near' = near /\ semantic' = semantic /\ answer' = answer
      /\ near = <<>> /\ answer = <<>> /\ semantic \in BOOLEAN
      /\ UNCHANGED <<paper, request, scope, disturbed>>
  BY DEF Keyword, KeywordSaid, QueryInv
<1>2. /\ ScopeHolds' /\ typed' \in Asked /\ ranking' \in Ranks /\ nearest' \in Nearest
      /\ paper' \in [Corpus -> Rows]
      /\ typed' = typed /\ engines' = engines /\ ranking' = ranking /\ scope' = scope
  BY <1>1, ScopeStays
<1>3. hits' = KeywordSaid'
  BY <1>1, <1>2 DEF KeywordSaid
<1> QED
  BY <1>1, <1>2, <1>3 DEF QueryInv, QueryPhases

LEMMA SemanticKeeps == ASSUME QueryInv, Semantic PROVE QueryInv'
<1>1. /\ phase = "semantic" /\ phase' = "hydrate" /\ hits' = hits /\ answer' = answer
      /\ UNCHANGED <<paper, request, scope, disturbed>>
      /\ near' \in {near, NearHits(typed, nearest, scope)} /\ semantic' \in {semantic, FALSE}
      /\ near' # near => "semantic" \in engines /\ Text(typed) # <<>>
  BY DEF Semantic
<1>2. hits = KeywordSaid /\ near = <<>> /\ answer = <<>> /\ semantic \in BOOLEAN
  BY <1>1 DEF QueryInv
<1>3. /\ ScopeHolds' /\ typed' \in Asked /\ ranking' \in Ranks /\ nearest' \in Nearest
      /\ paper' \in [Corpus -> Rows]
      /\ typed' = typed /\ engines' = engines /\ ranking' = ranking /\ nearest' = nearest
      /\ scope' = scope
  BY <1>1, ScopeStays
<1>4. hits' = KeywordSaid'
  BY <1>1, <1>2, <1>3 DEF KeywordSaid
<1>5. near' \in {<<>>, NearHits(typed', nearest', scope')} /\ semantic' \in BOOLEAN
  BY <1>1, <1>2, <1>3
<1> QED
  BY <1>1, <1>2, <1>3, <1>4, <1>5 DEF QueryInv, QueryPhases

LEMMA HydrateKeeps == ASSUME QueryInv, Hydrate PROVE QueryInv'
<1>1. /\ phase = "hydrate" /\ phase' = "done" /\ answer' = Hydrated
      /\ hits' = hits /\ near' = near /\ semantic' = semantic
      /\ UNCHANGED <<paper, request, scope, disturbed>>
  BY DEF Hydrate, Hydrated, HitOrder
<1>2. hits = KeywordSaid /\ semantic \in BOOLEAN /\ near \in {<<>>, NearHits(typed, nearest, scope)}
  BY <1>1 DEF QueryInv
<1>3. /\ ScopeHolds' /\ typed' \in Asked /\ ranking' \in Ranks /\ nearest' \in Nearest
      /\ paper' \in [Corpus -> Rows]
      /\ typed' = typed /\ engines' = engines /\ ranking' = ranking /\ nearest' = nearest
      /\ scope' = scope /\ paper' = paper
  BY <1>1, ScopeStays
<1>4. hits' = KeywordSaid'
  BY <1>1, <1>2, <1>3 DEF KeywordSaid
<1>5. Hydrated' = Hydrated
  BY <1>1, <1>3 DEF Hydrated, HitOrder, Shown, Label
<1>6. near' \in {<<>>, NearHits(typed', nearest', scope')} /\ semantic' \in BOOLEAN
  BY <1>1, <1>2, <1>3
<1> QED
  BY <1>1, <1>3, <1>4, <1>5, <1>6 DEF QueryInv, QueryPhases

LEMMA DisturbKeeps == ASSUME QueryInv, NEW p \in Corpus, Disturb(p) PROVE QueryInv'
<1>1. /\ phase # "done" /\ disturbed = {} /\ disturbed' = {p}
      /\ typed' = typed /\ engines' = engines /\ ranking' = ranking /\ nearest' = nearest
      /\ phase' = phase /\ scope' = scope /\ hits' = hits /\ near' = near
      /\ semantic' = semantic /\ answer' = answer
  BY DEF Disturb, request
<1>2. PICK row \in [at : {"trashed", "purged"}, traits : {paper[p].traits}]
                    \cup [at : {"live"}, traits : {{}}] :
         paper' = [paper EXCEPT ![p] = row]
  BY DEF Disturb
<1>3. paper \in [Corpus -> Rows]
  BY DEF QueryInv
<1>4. row \in Rows
  <2>1. paper[p].traits \in SUBSET Traits
    BY <1>3 DEF Rows
  <2> QED
    BY <2>1 DEF Rows
<1>5. paper' \in [Corpus -> Rows] /\ \A q \in Corpus \ {p} : paper'[q] = paper[q]
  BY <1>2, <1>3, <1>4
<1>6. ScopeHolds'
  <2>1. /\ scope \subseteq Corpus
        /\ \A q \in Corpus : paper[q].at = "live"
        /\ phase # "asked" => \A q \in Corpus : q \in scope <=> Keeps(q)
    BY <1>1 DEF QueryInv, ScopeHolds
  <2>2. \A q \in Corpus \ {p} : Keeps(q)' = Keeps(q)
    BY <1>1, <1>5 DEF Keeps
  <2> QED
    BY <1>1, <1>5, <2>1, <2>2 DEF ScopeHolds
<1>7. KeywordSaid' = KeywordSaid
  BY <1>1 DEF KeywordSaid
<1> QED
  BY <1>1, <1>5, <1>6, <1>7 DEF QueryInv

LEMMA QueryInvNext == QueryInv /\ [QueryNext]_queryVars => QueryInv'
<1> SUFFICES ASSUME QueryInv, [QueryNext]_queryVars PROVE QueryInv'
  OBVIOUS
<1>1. CASE Scope
  BY <1>1, ScopeKeeps
<1>2. CASE Keyword
  BY <1>2, KeywordKeeps
<1>3. CASE Semantic
  BY <1>3, SemanticKeeps
<1>4. CASE Hydrate
  BY <1>4, HydrateKeeps
<1>5. CASE \E p \in Corpus : Disturb(p)
  BY <1>5, DisturbKeeps
<1>6. CASE UNCHANGED queryVars
  BY <1>6 DEF queryVars, QueryInv, ScopeHolds, Keeps, KeywordSaid, Hydrated, HitOrder, Shown, Label
<1> QED
  BY <1>1, <1>2, <1>3, <1>4, <1>5, <1>6 DEF QueryNext

LEMMA EnginesSaid ==
    ASSUME QueryInv
    PROVE  /\ hits \in Seq(Corpus) /\ Len(hits) <= KEYWORD_LIMIT
           /\ \A p : Has(hits, p) => /\ p \in scope /\ Matches(typed, p)
                                     /\ "keyword" \in engines
           /\ near \in Seq([paper : Corpus, seq : Nat]) /\ Len(near) <= SEMANTIC_LIMIT
           /\ Papers(near) \in Seq(Corpus) /\ Len(Papers(near)) <= SEMANTIC_LIMIT
           /\ \A p : Has(Papers(near), p) =>
                /\ p \in scope /\ "semantic" \in engines /\ Text(typed) # <<>>
                /\ \E c \in ToSet(nearest) : c.paper = p /\ ChunkAsked(typed, c.seq)
<1>1. ranking \in Seq(Corpus) /\ nearest \in Seq([paper : Corpus, seq : Nat])
  BY QueryingNumbers DEF QueryInv
<1>2. hits \in {<<>>, KeywordHits(typed, ranking, scope)}
  BY DEF QueryInv, QueryPhases, KeywordSaid
<1>a. hits # <<>> => "keyword" \in engines
  BY DEF QueryInv, QueryPhases, KeywordSaid
<1>3. /\ hits \in Seq(Corpus) /\ Len(hits) <= KEYWORD_LIMIT
      /\ \A p : Has(hits, p) => p \in scope /\ Matches(typed, p)
  <2>1. CASE hits = <<>>
    BY <2>1, QueryingNumbers DEF Has
  <2>2. CASE hits = KeywordHits(typed, ranking, scope)
    <3>1. PICK tokens, order, in : tokens = typed /\ order = ranking /\ in = scope
      OBVIOUS
    <3>2. PICK h : h = KeywordHits(tokens, order, in)
      OBVIOUS
    <3>3. /\ h \in Seq(Corpus) /\ Len(h) <= KEYWORD_LIMIT
          /\ \A i \in DOMAIN h : h[i] \in in /\ Matches(tokens, h[i])
      <4>1. order \in Seq(Corpus)
        BY <1>1, <3>1
      <4>2. /\ KeywordHits(tokens, order, in) \in Seq(Corpus)
            /\ Len(KeywordHits(tokens, order, in)) <= KEYWORD_LIMIT
            /\ \A i \in DOMAIN KeywordHits(tokens, order, in) :
                 /\ KeywordHits(tokens, order, in)[i] \in in
                 /\ Matches(tokens, KeywordHits(tokens, order, in)[i])
        BY <4>1, KeywordHitsIs
      <4> QED
        BY <3>2, <4>2
    <3>4. h = hits
      BY <2>2, <3>1, <3>2
    <3> QED
      BY <3>1, <3>3, <3>4 DEF Has
  <2> QED
    BY <1>2, <2>1, <2>2
<1>4. /\ near \in Seq([paper : Corpus, seq : Nat]) /\ Len(near) <= SEMANTIC_LIMIT
      /\ \A i \in DOMAIN near :
           /\ near[i].paper \in scope
           /\ \E c \in ToSet(nearest) : c.paper = near[i].paper /\ ChunkAsked(typed, c.seq)
  <2>1. CASE near = <<>>
    BY <2>1, QueryingNumbers
  <2>2. CASE near = NearHits(typed, nearest, scope)
    <3>1. /\ NearHits(typed, nearest, scope) \in Seq([paper : Corpus, seq : Nat])
          /\ Len(NearHits(typed, nearest, scope)) <= SEMANTIC_LIMIT
          /\ \A i \in DOMAIN NearHits(typed, nearest, scope) :
               /\ NearHits(typed, nearest, scope)[i].paper \in scope
               /\ \E c \in ToSet(nearest) : /\ c.paper = NearHits(typed, nearest, scope)[i].paper
                                            /\ ChunkAsked(typed, c.seq)
      BY <1>1, NearHitsIs
    <3> HIDE DEF NearHits
    <3> QED
      BY <2>2, <3>1
  <2> QED
    BY <2>1, <2>2 DEF QueryInv
<1>5. Papers(near) \in Seq(Corpus) /\ Len(Papers(near)) <= SEMANTIC_LIMIT
  <2>1. PICK n \in Nat : n = Len(near) /\ DOMAIN near = 1 .. n
    BY <1>4
  <2>2. \A i \in 1 .. n : near[i].paper \in Corpus
    <3>1. PICK X : X = [paper : Corpus, seq : Nat]
      OBVIOUS
    <3>2. near \in Seq(X) /\ Len(near) = n
      BY <1>4, <2>1, <3>1
    <3>3. \A i \in 1 .. n : near[i] \in X
      BY <3>2
    <3> QED
      BY <3>1, <3>3
  <2>3. Papers(near) \in [1 .. n -> Corpus]
    BY <2>1, <2>2 DEF Papers
  <2> QED
    BY <1>4, <2>1, <2>3
<1>6. ASSUME NEW p, Has(Papers(near), p)
      PROVE  /\ p \in scope /\ "semantic" \in engines /\ Text(typed) # <<>>
             /\ \E c \in ToSet(nearest) : c.paper = p /\ ChunkAsked(typed, c.seq)
  <2>1. DOMAIN Papers(near) = DOMAIN near /\ \A i \in DOMAIN near : Papers(near)[i] = near[i].paper
    BY DEF Papers
  <2>2. PICK i \in DOMAIN near : near[i].paper = p
    BY <1>6, <2>1 DEF Has
  <2>3. near # <<>>
    BY <2>2
  <2> QED
    BY <1>4, <2>2, <2>3 DEF QueryInv
<1>7. \A p : Has(hits, p) => hits # <<>>
  BY DEF Has
<1> QED
  BY <1>a, <1>3, <1>4, <1>5, <1>6, <1>7

\* The fields that may be named with a paper the keyword engine found.
FieldsOf(p) == IF Marked(typed, p) = {} THEN {"title"} ELSE Marked(typed, p)

LEMMA SelectedIs ==
    ASSUME NEW X, NEW s \in Seq(X)
    PROVE  Selected(s) \in SUBSET AllFields
<1>1. PICK T : T = {t \in ToSet(s) : t.key = "in" /\ Qualifies(t)}
  OBVIOUS
<1>2. \A i \in DOMAIN Sifted(s, T) : Sifted(s, T)[i] \in T
  BY Sifting
<1>3. \A t \in T : t.value \in AllFields
  BY <1>1 DEF Qualifies
<1>4. \A t \in ToSet(Named(s, "in")) : t.value \in AllFields
  BY <1>1, <1>2, <1>3 DEF Named, ToSet
<1> QED
  BY <1>4 DEF Selected

LEMMA BestFieldIs ==
    ASSUME QueryInv, NEW p
    PROVE  BestField(typed, p) \in FieldsOf(p) /\ FieldsOf(p) \in SUBSET AllFields
<1>1. DOMAIN Fields = 1 .. 5 /\ AllFields = {Fields[i] : i \in 1 .. 5} /\ Fields[1] = "title"
  BY DEF Fields, AllFields
<1>2. "title" \in AllFields
  BY <1>1
<1>3. Marked(typed, p) \in SUBSET AllFields
  <2>1. Selected(typed) \in SUBSET AllFields
    <3>1. typed \in Seq([key : STRING, value : STRING])
      BY QueryingNumbers DEF QueryInv
    <3> QED
      BY <3>1, SelectedIs
  <2> QED
    BY <2>1 DEF Marked
<1>4. CASE Marked(typed, p) = {}
  BY <1>2, <1>4 DEF BestField, FieldsOf
<1>5. CASE Marked(typed, p) # {}
  <2> DEFINE Fits(i) == Fields[i] \in Marked(typed, p)
  <2>1. \E i \in 1 .. 5 : Fits(i)
    BY <1>1, <1>3, <1>5
  <2>2. BestField(typed, p) =
          Fields[CHOOSE i \in 1 .. 5 : Fits(i) /\ \A j \in 1 .. i - 1 : ~Fits(j)]
    BY <1>1, <1>5 DEF BestField
  <2>a. \A i \in 1 .. 5 : Fits(i) => Fields[i] \in Marked(typed, p)
    OBVIOUS
  <2> HIDE DEF Fits
  <2>3. \E i \in 1 .. 5 : Fits(i) /\ \A j \in 1 .. i - 1 : ~Fits(j)
    <3>1. PICK k \in 1 .. 5 : Fits(k)
      BY <2>1
    <3>2. k = 1 \/ k = 2 \/ k = 3 \/ k = 4 \/ k = 5
      OBVIOUS
    <3>3. Fits(1) \/ Fits(2) \/ Fits(3) \/ Fits(4) \/ Fits(5)
      BY <3>1, <3>2
    <3>4. /\ \A j \in 1 .. 1 - 1 : FALSE
          /\ \A j \in 1 .. 2 - 1 : j = 1
          /\ \A j \in 1 .. 3 - 1 : j = 1 \/ j = 2
          /\ \A j \in 1 .. 4 - 1 : j = 1 \/ j = 2 \/ j = 3
          /\ \A j \in 1 .. 5 - 1 : j = 1 \/ j = 2 \/ j = 3 \/ j = 4
      OBVIOUS
    <3>5. 1 \in 1 .. 5 /\ 2 \in 1 .. 5 /\ 3 \in 1 .. 5 /\ 4 \in 1 .. 5 /\ 5 \in 1 .. 5
      OBVIOUS
    <3> QED
      BY <3>3, <3>4, <3>5, ZenonT(30)
  <2>4. BestField(typed, p) \in Marked(typed, p)
    BY <2>2, <2>3, <2>a
  <2> QED
    BY <1>3, <1>5, <2>4 DEF FieldsOf
<1> QED
  BY <1>4, <1>5

LEMMA LabelIs ==
    ASSUME QueryInv, NEW p \in Corpus
    PROVE  /\ Label(p).paper = p /\ Label(p).engine \in {"keyword", "semantic", "both"}
           /\ Label(p).field \in AllFields
           /\ Label(p).engine \in {"keyword", "both"} =>
                Has(hits, p) /\ Label(p).field \in FieldsOf(p)
           /\ Label(p).engine \in {"semantic", "both"} =>
                Has(Papers(near), p) \/ ~Has(hits, p)
<1>1. Label(p).paper = p /\ Label(p).engine \in {"keyword", "semantic", "both"}
  BY DEF Label
<1>2. CASE Has(hits, p)
  <2>1. Label(p).field = BestField(typed, p)
    BY <1>2 DEF Label
  <2>2. Label(p).engine = IF Has(Papers(near), p) THEN "both" ELSE "keyword"
    BY <1>2 DEF Label
  <2>3. Label(p).field \in FieldsOf(p) /\ Label(p).field \in AllFields
    BY <2>1, BestFieldIs
  <2> QED
    BY <1>1, <1>2, <2>2, <2>3
<1>3. CASE ~Has(hits, p)
  <2>1. Label(p).field \in {"abstract", "body"} /\ Label(p).engine = "semantic"
    BY <1>3 DEF Label
  <2>2. "abstract" \in AllFields /\ "body" \in AllFields
    <3>1. /\ DOMAIN Fields = 1 .. 5 /\ Fields[3] = "abstract" /\ Fields[5] = "body"
          /\ 3 \in 1 .. 5 /\ 5 \in 1 .. 5
      BY DEF Fields
    <3> QED
      BY <3>1 DEF AllFields
  <2> QED
    BY <1>1, <1>3, <2>1, <2>2
<1> QED
  BY <1>2, <1>3

\* What is shown: every live paper an engine found, once, the better ones first.
LEMMA HydratedIs ==
    ASSUME QueryInv
    PROVE  /\ Len(Hydrated) \in Nat /\ DOMAIN Hydrated = 1 .. Len(Hydrated)
           /\ \A i \in DOMAIN Hydrated :
                /\ Hydrated[i] = Label(Hydrated[i].paper)
                /\ Hydrated[i].paper \in Corpus /\ Shown(Hydrated[i].paper)
                /\ Has(hits, Hydrated[i].paper) \/ Has(Papers(near), Hydrated[i].paper)
           /\ \A p \in Corpus : (Has(hits, p) \/ Has(Papers(near), p)) /\ Shown(p) =>
                \E i \in DOMAIN Hydrated : Hydrated[i].paper = p
           /\ \A i, j \in DOMAIN Hydrated :
                /\ Hydrated[i].paper = Hydrated[j].paper => i = j
                /\ Better(hits, Papers(near), Hydrated[i].paper, Hydrated[j].paper) => i < j
<1>1. PICK a, b : a = hits /\ b = Papers(near)
  OBVIOUS
<1>2. /\ a \in Seq(Corpus) /\ Len(a) <= KEYWORD_LIMIT
      /\ b \in Seq(Corpus) /\ Len(b) <= SEMANTIC_LIMIT
  BY <1>1, EnginesSaid
<1>3. PICK f : f = Fused(a, b)
  OBVIOUS
<1>4. /\ f \in Seq(Corpus)
      /\ \A p : Has(a, p) \/ Has(b, p) <=> Has(f, p)
      /\ \A i, j \in DOMAIN f : f[i] = f[j] => i = j
      /\ \A i, j \in DOMAIN f : Better(a, b, f[i], f[j]) => i < j
  BY <1>2, <1>3, FusedIs
<1>5. PICK T : T = {p \in Corpus : Shown(p)}
  OBVIOUS
<1>6. Sifted(f, T) \in Seq(Corpus) /\ \E places : IsSifted(Sifted(f, T), f, T, places)
  BY <1>4, Sifts
<1>7. PICK t : t = Sifted(f, T)
  OBVIOUS
<1>8. t = HitOrder
  BY <1>1, <1>3, <1>5, <1>7 DEF HitOrder
<1>9. t \in Seq(Corpus) /\ \E places : IsSifted(t, f, T, places)
  BY <1>6, <1>7
<1>10. PICK places : IsSifted(t, f, T, places)
  BY <1>9
<1>11. PICK n \in Nat : n = Len(t) /\ DOMAIN t = 1 .. n
  BY <1>9
<1>12. /\ places \in [1 .. n -> DOMAIN f]
       /\ \A i \in 1 .. n : t[i] = f[places[i]] /\ t[i] \in T
       /\ \A i \in DOMAIN f : f[i] \in T => \E m \in 1 .. n : places[m] = i
       /\ \A i, j \in 1 .. n : i < j <=> places[i] < places[j]
  BY <1>10, <1>11 DEF IsSifted
<1>13. \A i \in 1 .. n : t[i] \in Corpus /\ Shown(t[i]) /\ (Has(a, t[i]) \/ Has(b, t[i]))
  <2> SUFFICES ASSUME NEW i \in 1 .. n
               PROVE  t[i] \in Corpus /\ Shown(t[i]) /\ (Has(a, t[i]) \/ Has(b, t[i]))
    OBVIOUS
  <2>1. t[i] \in Corpus /\ Shown(t[i])
    BY <1>5, <1>12
  <2>2. Has(f, t[i])
    BY <1>12 DEF Has
  <2> QED
    BY <1>4, <2>1, <2>2
<1>14. ASSUME NEW p \in Corpus, Has(a, p) \/ Has(b, p), Shown(p)
       PROVE  \E i \in 1 .. n : t[i] = p
  <2>1. PICK k \in DOMAIN f : f[k] = p
    BY <1>4, <1>14 DEF Has
  <2>2. f[k] \in T
    BY <1>5, <1>14, <2>1
  <2> QED
    BY <1>12, <2>1, <2>2
<1>15. ASSUME NEW i \in 1 .. n, NEW j \in 1 .. n
       PROVE  /\ t[i] = t[j] => i = j
              /\ Better(a, b, t[i], t[j]) => i < j
  <2>1. /\ t[i] = f[places[i]] /\ t[j] = f[places[j]]
        /\ places[i] \in DOMAIN f /\ places[j] \in DOMAIN f
    BY <1>12
  <2>2. DOMAIN f = 1 .. Len(f) /\ Len(f) \in Nat
    BY <1>4
  <2>3. places[i] \in Nat /\ places[j] \in Nat
    BY <2>1, <2>2
  <2>4. t[i] = t[j] => places[i] = places[j]
    BY <1>4, <2>1
  <2>5. places[i] = places[j] => i = j
    <3>1. ~ (places[i] < places[j]) /\ ~ (places[j] < places[i]) => ~ (i < j) /\ ~ (j < i)
      BY <1>12
    <3> QED
      BY <2>3, <3>1
  <2>6. Better(a, b, t[i], t[j]) => places[i] < places[j]
    BY <1>4, <2>1
  <2> QED
    BY <1>12, <2>4, <2>5, <2>6
<1>16. PICK h : h = Hydrated
  OBVIOUS
<1>17. h = [i \in 1 .. n |-> Label(t[i])]
  BY <1>8, <1>11, <1>16 DEF Hydrated
<1>18. \A i \in 1 .. n : h[i] = Label(t[i]) /\ h[i].paper = t[i]
  BY <1>13, <1>17, LabelIs
<1>19. DOMAIN h = 1 .. n /\ Len(h) = n
  <2>1. PICK X : X = {Label(t[i]) : i \in 1 .. n}
    OBVIOUS
  <2>2. h \in [1 .. n -> X]
    BY <1>17, <2>1
  <2>3. h \in Seq(X)
    BY <2>2
  <2> QED
    BY <1>17, <2>3
<1>20. \A i \in DOMAIN h :
         /\ h[i] = Label(h[i].paper) /\ h[i].paper \in Corpus /\ Shown(h[i].paper)
         /\ Has(a, h[i].paper) \/ Has(b, h[i].paper)
  BY <1>13, <1>18, <1>19
<1>21. \A p \in Corpus : (Has(a, p) \/ Has(b, p)) /\ Shown(p) => \E i \in DOMAIN h : h[i].paper = p
  BY <1>14, <1>18, <1>19
<1>22. \A i, j \in DOMAIN h :
         /\ h[i].paper = h[j].paper => i = j
         /\ Better(a, b, h[i].paper, h[j].paper) => i < j
  BY <1>15, <1>18, <1>19
<1> QED
  BY <1>1, <1>16, <1>19, <1>20, <1>21, <1>22

\* What is sifted out of the tokens is all of them that are of the kind.
LEMMA TokensOf ==
    ASSUME NEW X, NEW s \in Seq(X), NEW T
    PROVE  \A i \in DOMAIN s : s[i] \in T => s[i] \in ToSet(Sifted(s, T))
<1>1. PICK t : t = Sifted(s, T)
  OBVIOUS
<1>2. \A i \in DOMAIN s : s[i] \in T => \E n \in DOMAIN t : t[n] = s[i]
  BY <1>1, Sifting
<1>3. \A n \in DOMAIN t : t[n] \in ToSet(t)
  BY DEF ToSet
<1>4. \A i \in DOMAIN s : s[i] \in T => s[i] \in ToSet(t)
  BY <1>2, <1>3
<1> QED
  BY <1>1, <1>4

\* The last of a kind: none of the kind comes after it.
LEMMA LastOf ==
    ASSUME NEW X, NEW s \in Seq(X), NEW T, NEW i \in DOMAIN s, s[i] \in T,
           \A j \in DOMAIN s : j > i => s[j] \notin T
    PROVE  Sifted(s, T) # <<>> /\ Last(Sifted(s, T)) = s[i]
<1>1. PICK t : t = Sifted(s, T)
  OBVIOUS
<1>2. t \in Seq(X) /\ \E places : IsSifted(t, s, T, places)
  BY <1>1, Sifts
<1>3. PICK places : IsSifted(t, s, T, places)
  BY <1>2
<1>4. PICK n \in Nat : n = Len(t)
  BY <1>2
<1>5. /\ DOMAIN t = 1 .. n /\ places \in [1 .. n -> DOMAIN s]
      /\ \A k \in 1 .. n : t[k] = s[places[k]] /\ t[k] \in T
      /\ \A k \in DOMAIN s : s[k] \in T => \E m \in 1 .. n : places[m] = k
      /\ \A k, m \in 1 .. n : k < m <=> places[k] < places[m]
  BY <1>3, <1>4 DEF IsSifted
<1>6. PICK m \in 1 .. n : places[m] = i
  BY <1>5
<1>7. \A k \in DOMAIN s : k \in Nat
  OBVIOUS
<1>8. n \in 1 .. n /\ (m < n \/ m = n)
  BY <1>6
<1>9. ~ (m < n)
  <2>1. m < n => places[m] < places[n]
    BY <1>5, <1>8
  <2>2. places[n] \in DOMAIN s /\ s[places[n]] \in T
    BY <1>5, <1>8
  <2>3. places[n] \in Nat /\ i \in Nat
    BY <1>7, <2>2
  <2>4. ~ (i < places[n])
    BY <2>2, <2>3
  <2> QED
    BY <1>6, <2>1, <2>4
<1>10. t[n] = s[i] /\ n # 0
  BY <1>5, <1>6, <1>8, <1>9
<1>11. Last(t) = t[n] /\ t # <<>>
  BY <1>2, <1>4, <1>10 DEF Last
<1> QED
  BY <1>1, <1>10, <1>11

LEMMA EachTokenCounts == ASSUME QueryInv PROVE TokensCount
<1>1. typed \in Seq([key : STRING, value : STRING])
  BY QueryingNumbers DEF QueryInv
<1>2. PICK X, s : X = [key : STRING, value : STRING] /\ s = typed
  OBVIOUS
<1>3. s \in Seq(X)
  BY <1>1, <1>2
<1> SUFFICES ASSUME NEW i \in DOMAIN s
             PROVE  \/ s[i] \in ToSet(Text(s)) \cup ToSet(Named(s, "author"))
                    \/ s[i].key \in {"tag", "project"} /\ s[i].value \in Demands(s)
                    \/ s[i].key \in {"is", "status"} /\ s[i].value \in Demands(s) \cap Traits
                    \/ s[i].key = "in" /\ s[i].value \in Selected(s) \cap AllFields
                    \/ \E j \in DOMAIN s : /\ j > i /\ s[i].key \in Single
                                            /\ s[j].key = s[i].key /\ Qualifies(s[j])
  BY <1>2 DEF TokensCount
<1>4. \A j \in DOMAIN s : s[j] \in ToSet(s)
  BY DEF ToSet
<1>5. \A key : \A j \in DOMAIN s :
        s[j].key = key /\ Qualifies(s[j]) => s[j] \in ToSet(Named(s, key))
  <2> SUFFICES ASSUME NEW key, NEW j \in DOMAIN s, s[j].key = key, Qualifies(s[j])
               PROVE  s[j] \in ToSet(Named(s, key))
    OBVIOUS
  <2>1. PICK T : T = {t \in ToSet(s) : t.key = key /\ Qualifies(t)}
    OBVIOUS
  <2>2. s[j] \in T
    BY <1>4, <2>1
  <2>3. s[j] \in ToSet(Sifted(s, T))
    BY <1>3, <2>2, TokensOf
  <2> QED
    BY <2>1, <2>3 DEF Named
<1>6. CASE ~Qualifies(s[i])
  <2>1. PICK T : T = {t \in ToSet(s) : ~Qualifies(t)}
    OBVIOUS
  <2>2. s[i] \in ToSet(Sifted(s, T))
    BY <1>3, <1>4, <1>6, <2>1, TokensOf
  <2> QED
    BY <2>1, <2>2 DEF Text
<1>7. CASE Qualifies(s[i]) /\ s[i].key = "in"
  <2>1. s[i] \in ToSet(Named(s, "in"))
    BY <1>5, <1>7
  <2>2. s[i].value \in {t.value : t \in ToSet(Named(s, "in"))}
    BY <2>1
  <2> QED
    BY <1>7, <2>2 DEF Selected, Qualifies
<1>8. CASE Qualifies(s[i]) /\ s[i].key = "author"
  BY <1>5, <1>8
<1>9. CASE Qualifies(s[i]) /\ s[i].key = "is"
  <2>1. s[i] \in ToSet(Named(s, "is")) /\ s[i].value = "starred"
    BY <1>5, <1>9 DEF Qualifies
  <2> QED
    BY <1>9, <2>1 DEF Demands, Traits
<1>10. CASE Qualifies(s[i]) /\ s[i].key \in Single
  <2>1. PICK key, T : key = s[i].key /\ T = {t \in ToSet(s) : t.key = key /\ Qualifies(t)}
    OBVIOUS
  <2>2. CASE \E j \in DOMAIN s : j > i /\ s[j] \in T
    BY <1>10, <2>1, <2>2
  <2>3. CASE \A j \in DOMAIN s : j > i => s[j] \notin T
    <3>1. s[i] \in T
      BY <1>4, <1>10, <2>1
    <3>2. Sifted(s, T) # <<>> /\ Last(Sifted(s, T)) = s[i]
      BY <1>3, <2>3, <3>1, LastOf
    <3>3. Named(s, key) # <<>> /\ Last(Named(s, key)) = s[i]
      BY <2>1, <3>2 DEF Named
    <3>4. key \in {k \in Single : Named(s, k) # <<>>}
      BY <1>10, <2>1, <3>3
    <3>5. s[i].value \in Demands(s)
      BY <3>3, <3>4 DEF Demands
    <3>6. s[i].key = "status" => s[i].value \in Traits
      BY <1>10 DEF Qualifies, Traits
    <3> QED
      BY <1>10, <3>5, <3>6 DEF Single
  <2> QED
    BY <2>2, <2>3
<1> QED
  BY <1>6, <1>7, <1>8, <1>9, <1>10 DEF Qualifies, Single

LEMMA OnlyWhatWasAsked == ASSUME QueryInv PROVE AnswersAreFound
<1>1. CASE answer = <<>>
  BY <1>1 DEF AnswersAreFound
<1>2. CASE answer = Hydrated
  <2>1. PICK h : h = Hydrated
    OBVIOUS
  <2>2. \A i \in DOMAIN h :
          /\ h[i] = Label(h[i].paper) /\ h[i].paper \in Corpus
          /\ Has(hits, h[i].paper) \/ Has(Papers(near), h[i].paper)
    BY <2>1, HydratedIs
  <2>3. ASSUME NEW i \in DOMAIN h, h[i].engine \in {"keyword", "both"}
        PROVE  /\ "keyword" \in engines /\ Matches(typed, h[i].paper)
               /\ h[i].field \in FieldsOf(h[i].paper)
    <3>1. PICK p \in Corpus : p = h[i].paper /\ h[i] = Label(p)
      BY <2>2
    <3>2. Has(hits, p) /\ Label(p).field \in FieldsOf(p)
      BY <2>3, <3>1, LabelIs
    <3> QED
      BY <3>1, <3>2, EnginesSaid
  <2>4. ASSUME NEW i \in DOMAIN h, h[i].engine \in {"semantic", "both"}
        PROVE  /\ "semantic" \in engines /\ Text(typed) # <<>>
               /\ \E c \in ToSet(nearest) : c.paper = h[i].paper /\ ChunkAsked(typed, c.seq)
    <3>1. PICK p \in Corpus : p = h[i].paper /\ h[i] = Label(p)
      BY <2>2
    <3>2. Has(Papers(near), p)
      BY <2>2, <2>4, <3>1, LabelIs
    <3> QED
      BY <3>1, <3>2, EnginesSaid
  <2> QED
    BY <1>2, <2>1, <2>3, <2>4 DEF AnswersAreFound, FieldsOf
<1> QED
  BY <1>1, <1>2 DEF QueryInv

\* A paper that nobody touched is among the keyword hits if the limit leaves room.
LEMMA NotMissed ==
    ASSUME QueryInv, hits = KeywordSaid, "keyword" \in engines,
           NEW i \in DOMAIN ranking, ranking[i] \in scope, Matches(typed, ranking[i]),
           \/ i <= KEYWORD_LIMIT
           \/ Cardinality({j \in 1 .. i - 1 : ranking[j] \in scope}) < KEYWORD_LIMIT
    PROVE  Has(hits, ranking[i])
<1>1. PICK T : T = {p \in scope : Matches(typed, p)}
  OBVIOUS
<1>2. PICK s : s = ranking
  OBVIOUS
<1>3. s \in Seq(Corpus)
  BY <1>2, QueryingNumbers DEF QueryInv
<1>4. hits = Within(s, KEYWORD_LIMIT, T)
  BY <1>1, <1>2 DEF KeywordSaid, KeywordHits
<1>5. i \in Nat /\ i >= 1
  BY <1>2, <1>3
<1>6. PICK k \in Nat : k = i - 1
  BY <1>5
<1>7. IsFiniteSet(1 .. k) /\ Cardinality(1 .. k) = k
  BY FS_Interval
<1>8. PICK P, Q : P = {j \in Places(s, T) : j < i} /\ Q = {j \in 1 .. i - 1 : s[j] \in scope}
  OBVIOUS
<1>9. \A j \in Places(s, T) : j \in Nat /\ j >= 1 /\ s[j] \in scope
  BY <1>1, <1>3 DEF Places
<1>10. P \in SUBSET Q /\ Q \in SUBSET (1 .. k)
  <2>1. \A j \in P : j \in 1 .. i - 1 /\ s[j] \in scope
    BY <1>5, <1>8, <1>9
  <2> QED
    BY <1>6, <1>8, <2>1
<1>11. /\ IsFiniteSet(Q) /\ Cardinality(Q) \in Nat /\ Cardinality(Q) <= k
       /\ Cardinality(P) \in Nat /\ Cardinality(P) <= Cardinality(Q)
  BY <1>7, <1>10, FS_Subset, FS_CardinalityType
<1>12. i <= KEYWORD_LIMIT \/ Cardinality(Q) < KEYWORD_LIMIT
  BY <1>2, <1>8
<1>13. Cardinality(P) < KEYWORD_LIMIT
  BY <1>5, <1>6, <1>11, <1>12, QueryingNumbers
<1>14. s[i] \in T /\ i \in DOMAIN s
  BY <1>1, <1>2
<1>15. NotCutOff(s, KEYWORD_LIMIT, T)
  BY <1>3, WithinIs, QueryingNumbers
<1>16. \E m \in DOMAIN hits : hits[m] = s[i]
  BY <1>4, <1>8, <1>13, <1>14, <1>15 DEF NotCutOff
<1> QED
  BY <1>2, <1>16 DEF Has

LEMMA AnswersWell == ASSUME QueryInv PROVE SearchAnswers
<1> SUFFICES ASSUME phase = "done"
             PROVE  /\ \A p \in Answered : paper[p].at = "live"
                           /\ (p \in disturbed \/ Demands(typed) \subseteq paper[p].traits)
                    /\ Cardinality(Answered) = Len(answer)
                    /\ \A p \in Corpus \ disturbed, i \in DOMAIN ranking :
                         /\ "keyword" \in engines /\ ranking[i] = p /\ Matches(typed, p)
                         /\ Demands(typed) \subseteq paper[p].traits
                         /\ \/ i <= KEYWORD_LIMIT
                            \/ Cardinality({j \in 1 .. i - 1 : ranking[j] \in scope}) < KEYWORD_LIMIT
                         => p \in Answered
                    /\ \A i, j \in DOMAIN answer :
                         /\ Ahead(hits, answer[i].paper, answer[j].paper)
                         /\ Ahead(Papers(near), answer[i].paper, answer[j].paper)
                         /\ answer[i].paper # answer[j].paper
                         => i < j
  BY DEF SearchAnswers, Ahead
<1>1. /\ \A p \in Corpus \ disturbed : paper[p].at = "live"
      /\ \A p \in Corpus \ disturbed : p \in scope <=> Demands(typed) \subseteq paper[p].traits
  BY DEF QueryInv, ScopeHolds, Keeps
<1>2. CASE scope = {} /\ answer = <<>>
  <2>1. Answered = {} /\ DOMAIN answer = {} /\ Len(answer) = 0
    BY <1>2 DEF Answered
  <2>2. Cardinality({}) = 0
    BY FS_EmptySet
  <2>3. \A p \in Corpus \ disturbed : ~ (Demands(typed) \subseteq paper[p].traits)
    BY <1>1, <1>2
  <2> QED
    BY <2>1, <2>2, <2>3
<1>3. CASE hits = KeywordSaid /\ answer = Hydrated
  <2>1. /\ Len(answer) \in Nat /\ DOMAIN answer = 1 .. Len(answer)
        /\ \A i \in DOMAIN answer :
             /\ answer[i].paper \in Corpus /\ Shown(answer[i].paper)
             /\ Has(hits, answer[i].paper) \/ Has(Papers(near), answer[i].paper)
        /\ \A p \in Corpus : (Has(hits, p) \/ Has(Papers(near), p)) /\ Shown(p) =>
             \E i \in DOMAIN answer : answer[i].paper = p
        /\ \A i, j \in DOMAIN answer :
             /\ answer[i].paper = answer[j].paper => i = j
             /\ Better(hits, Papers(near), answer[i].paper, answer[j].paper) => i < j
    <3>1. PICK h : h = Hydrated
      OBVIOUS
    <3>2. /\ Len(h) \in Nat /\ DOMAIN h = 1 .. Len(h)
          /\ \A i \in DOMAIN h :
               /\ h[i].paper \in Corpus /\ Shown(h[i].paper)
               /\ Has(hits, h[i].paper) \/ Has(Papers(near), h[i].paper)
          /\ \A p \in Corpus : (Has(hits, p) \/ Has(Papers(near), p)) /\ Shown(p) =>
               \E i \in DOMAIN h : h[i].paper = p
          /\ \A i, j \in DOMAIN h :
               /\ h[i].paper = h[j].paper => i = j
               /\ Better(hits, Papers(near), h[i].paper, h[j].paper) => i < j
      BY <3>1, HydratedIs
    <3> QED
      BY <1>3, <3>1, <3>2
  <2>2. ASSUME NEW p \in Answered
        PROVE  paper[p].at = "live" /\ (p \in disturbed \/ Demands(typed) \subseteq paper[p].traits)
    <3>1. PICK i \in DOMAIN answer : p = answer[i].paper
      BY DEF Answered
    <3>2. p \in Corpus /\ Shown(p) /\ (Has(hits, p) \/ Has(Papers(near), p))
      BY <2>1, <3>1
    <3>3. p \in scope
      BY <3>2, EnginesSaid
    <3> QED
      BY <1>1, <3>2, <3>3 DEF Shown
  <2>3. Cardinality(Answered) = Len(answer)
    <3>1. PICK n \in Nat : n = Len(answer) /\ DOMAIN answer = 1 .. n
      BY <2>1
    <3>2. PICK s : s = [i \in 1 .. n |-> answer[i].paper]
      OBVIOUS
    <3>3. DOMAIN s = 1 .. n /\ \A i, j \in 1 .. n : s[i] = s[j] => i = j
      BY <2>1, <3>1, <3>2
    <3>4. Cardinality(ToSet(s)) = n
      <4>1. DOMAIN s = 1 .. n
        BY <3>3
      <4>2. \A i, j \in 1 .. n : s[i] = s[j] => i = j
        BY <3>3
      <4> QED
        BY <4>1, <4>2, Elements
    <3>5. Answered = ToSet(s)
      BY <3>1, <3>2 DEF Answered, ToSet
    <3> QED
      BY <3>1, <3>4, <3>5
  <2>4. ASSUME NEW p \in Corpus \ disturbed, NEW i \in DOMAIN ranking,
               "keyword" \in engines, ranking[i] = p, Matches(typed, p),
               Demands(typed) \subseteq paper[p].traits,
               \/ i <= KEYWORD_LIMIT
               \/ Cardinality({j \in 1 .. i - 1 : ranking[j] \in scope}) < KEYWORD_LIMIT
        PROVE  p \in Answered
    <3>1. p \in scope /\ Shown(p)
      BY <1>1, <2>4 DEF Shown
    <3>2. Has(hits, p)
      BY <1>3, <2>4, <3>1, NotMissed
    <3> QED
      BY <2>1, <3>1, <3>2 DEF Answered
  <2>5. ASSUME NEW i \in DOMAIN answer, NEW j \in DOMAIN answer,
               Ahead(hits, answer[i].paper, answer[j].paper),
               Ahead(Papers(near), answer[i].paper, answer[j].paper)
        PROVE  i < j
    <3>1. PICK a, b, p, q : /\ a = hits /\ b = Papers(near)
                            /\ p = answer[i].paper /\ q = answer[j].paper
      OBVIOUS
    <3>2. /\ a \in Seq(Corpus) /\ Len(a) <= KEYWORD_LIMIT
          /\ b \in Seq(Corpus) /\ Len(b) <= SEMANTIC_LIMIT
      BY <3>1, EnginesSaid
    <3>3. Ahead(a, p, q) /\ Ahead(b, p, q) /\ (Has(a, q) \/ Has(b, q))
      BY <2>1, <2>5, <3>1
    <3>4. Score(a, b, p) > Score(a, b, q)
      BY <3>2, <3>3, ScoreFalls
    <3>5. Better(a, b, p, q)
      BY <3>4 DEF Better
    <3> QED
      BY <2>1, <3>1, <3>5
  <2> QED
    BY <2>2, <2>3, <2>4, <2>5
<1> QED
  BY <1>2, <1>3 DEF QueryInv

LEMMA QueryInvHolds == QueryInv => QueryTypeOK /\ SearchHolds
<1> SUFFICES ASSUME QueryInv PROVE QueryTypeOK /\ SearchHolds
  OBVIOUS
<1>1. SearchHolds
  BY EachTokenCounts, OnlyWhatWasAsked, AnswersWell DEF SearchHolds
<1>2. \A i \in DOMAIN near : near[i].paper \in Corpus
  <2>1. near \in Seq([paper : Corpus, seq : Nat])
    BY EnginesSaid
  <2>2. PICK X, s : X = [paper : Corpus, seq : Nat] /\ s = near
    OBVIOUS
  <2>3. s \in Seq(X)
    BY <2>1, <2>2
  <2>4. \A i \in DOMAIN s : s[i] \in X
    BY <2>3
  <2> QED
    BY <2>2, <2>4
<1>3. \A i \in DOMAIN answer :
        /\ answer[i].paper \in Corpus /\ answer[i].field \in AllFields
        /\ answer[i].engine \in {"keyword", "semantic", "both"}
  <2>1. CASE answer = <<>>
    BY <2>1
  <2>2. CASE answer = Hydrated
    <3>1. \A i \in DOMAIN Hydrated : /\ Hydrated[i] = Label(Hydrated[i].paper)
                                     /\ Hydrated[i].paper \in Corpus
      BY HydratedIs
    <3>2. \A p \in Corpus : /\ Label(p).engine \in {"keyword", "semantic", "both"}
                            /\ Label(p).field \in AllFields
      BY LabelIs
    <3> QED
      BY <2>2, <3>1, <3>2
  <2> QED
    BY <2>1, <2>2 DEF QueryInv
<1>4. hits \in Seq(Corpus)
  BY EnginesSaid
<1> QED
  BY <1>1, <1>2, <1>3, <1>4 DEF QueryTypeOK, QueryInv, QueryPhases, ScopeHolds

\* A search answers what was typed: every token counts, unless a later one of its key
\* takes its place; the answer is of live papers that satisfy the filter, each once,
\* none missed that matches and the limits leave room for, in the order both engines
\* agree on; and what is in it an engine that was wanted did find, by the words or an
\* author that were typed, or near the text, under a field that says where.  (Authors
\* do not narrow the search: any word or author is enough, as the parser is set.)
THEOREM SearchHoldsAlways == QuerySpec => [](QueryTypeOK /\ SearchHolds)
<1>1. QueryInv => QueryTypeOK /\ SearchHolds
  BY QueryInvHolds
<1> QED
  BY <1>1, QueryInvInit, QueryInvNext, PTL DEF QuerySpec

----------------------------------------------------------------------------
(* Metadata: what is known of a page at each step of the search for it.    *)

\* A record as the services' answers are made into.
IsRecord(c) ==
    /\ c = [title |-> c.title, authors |-> c.authors, venue |-> c.venue, abstract |-> c.abstract,
            doi |-> c.doi, arxiv |-> c.arxiv, key |-> c.key, source |-> c.source]
    /\ c.title \in Titles \cup {NONE}

Qualifying(c) == Qualified(QueryTitle, page, c)

NoneHeard == \A c \in heard : ~Qualifying(c)

NotLiker(c, d) == Qualifying(c) => ScoreOf(QueryTitle, c) <= ScoreOf(QueryTitle, d)

\* What DBLP had: nobody that passes, or a preprint that does.
DblpHeard ==
    /\ QueryTitle # NONE /\ resolution = Nobody
    /\ \A c \in heard :
         /\ c.source = "dblp"
         /\ (dblp.key # NONE /\ c.key = dblp.key /\ c.doi = dblp.doi) => c.title = dblp.title
    /\ dblp = Nobody => NoneHeard
    /\ dblp # Nobody => dblp \in heard /\ Qualifying(dblp) /\ dblp.venue # "unaccepted"
                        /\ dblp.source = "dblp"
    /\ dblp # Nobody => \A c \in heard : NotLiker(c, dblp)

\* What is filed, after everybody who was to be asked was.
Resolved ==
    /\ resolution = Nobody => NoneHeard
    /\ resolution # Nobody =>
         /\ Qualifying(resolution) /\ resolution.venue # "unaccepted"
         /\ resolution.source \in {"dblp", "openreview", "crossref"}
         /\ \E c \in heard : c.title = resolution.title /\ c.venue = resolution.venue
         /\ \A c \in heard :
              /\ (resolution.key # NONE /\ c.key = resolution.key /\ c.doi = resolution.doi)
                     => Confident(resolution.title, c)
              /\ resolution.source = "dblp" /\ IsCorrPreprint(resolution) /\ Qualifying(c)
                     => c.source = "dblp" /\ NotLiker(c, resolution)

\* The page's own identifier is not lost on the way.
IdentKnown ==
    /\ ident.kind \in {"doi", "arxiv", NONE} /\ (ident.kind # NONE => ident.id # NONE)
    /\ header.arxiv = NONE /\ header.source \in {NONE, "grobid"}
    /\ ident.kind = "arxiv" => resolution.arxiv \in {NONE, ident.id}

ResolvingInv ==
    /\ page \in Pages /\ asked \in BOOLEAN
    /\ at \in {"identify", "by_id", "dblp", "openreview", "crossref", "store", "done",
               "candidates"}
    /\ IsRecord(header) /\ IsRecord(dblp) /\ IsRecord(resolution)
    /\ IdentKnown
    /\ at = "candidates" => asked
    /\ asked => at \in {"candidates", "done"}
    /\ at \in {"identify", "by_id", "dblp", "candidates"} =>
         dblp = Nobody /\ resolution = Nobody /\ heard = {}
    /\ at = "by_id" => ident.kind # NONE
    /\ at \in {"dblp", "openreview", "crossref"} => ident.kind = NONE
    /\ at = "openreview" => DblpHeard
    /\ at = "crossref" => QueryTitle # NONE /\ resolution = Nobody /\ NoneHeard
    /\ at \in {"store", "done"} /\ ~asked /\ ident.kind = NONE => Resolved
    /\ at # "done" => meta = Nobody /\ picks = <<>>
    /\ at = "done" => IF asked THEN meta = Nobody /\ Len(picks) <= MAX_CANDIDATES /\ CandidatesRanked
                      ELSE meta = ResolveFields /\ picks = <<>>

LEMMA ResolvingNumbers ==
    /\ MATCH_THRESHOLD \in Nat /\ MATCH_THRESHOLD <= 100 /\ MAX_CANDIDATES \in Nat
    /\ \A a, b \in Titles : Similarity[<<a, b>>] \in Nat /\ Similarity[<<a, b>>] <= 100
    /\ \A a \in Titles : Similarity[<<a, a>>] = 100
<1>1. /\ Similarity \in [Titles \X Titles -> 0 .. 100] /\ MATCH_THRESHOLD \in 0 .. 100
      /\ MAX_CANDIDATES \in Nat /\ \A a \in Titles : Similarity[<<a, a>>] = 100
  BY ResolvingAssumption, ZenonT(30)
<1>2. \A a, b \in Titles : <<a, b>> \in Titles \X Titles
  OBVIOUS
<1>3. \A a, b \in Titles : Similarity[<<a, b>>] \in 0 .. 100
  BY <1>1, <1>2
<1> QED
  BY <1>1, <1>3

LEMMA ScoreIs ==
    ASSUME NEW query \in Titles, NEW c, c.title \in Titles \cup {NONE}
    PROVE  /\ ScoreOf(query, c) \in Nat /\ ScoreOf(query, c) <= 101
           /\ Confident(query, c) => c.title # NONE /\ c.title \in Titles
BY ResolvingNumbers DEF ScoreOf, Confident

\* The best match passes; nobody is, only if nobody passes.
LEMMA BestMatchIs ==
    ASSUME NEW X, NEW cands \in Seq(X), NEW query \in Titles, NEW p,
           \A c \in ToSet(cands) : c.title \in Titles \cup {NONE} /\ c.source # NONE
    PROVE  \/ /\ BestMatch(query, p, cands) = Nobody
              /\ \A c \in ToSet(cands) : ~Qualified(query, p, c)
           \/ /\ BestMatch(query, p, cands) # Nobody
              /\ BestMatch(query, p, cands) \in ToSet(cands)
              /\ Qualified(query, p, BestMatch(query, p, cands))
              /\ \A c \in ToSet(cands) : Qualified(query, p, c) =>
                   ScoreOf(query, c) <= ScoreOf(query, BestMatch(query, p, cands))
<1> DEFINE pass == {i \in DOMAIN cands : Qualified(query, p, cands[i])}
           score(i) == ScoreOf(query, cands[i])
           IsBest(i) == /\ \A j \in pass : score(j) <= score(i)
                        /\ \A j \in pass : score(j) = score(i) => i <= j
           scores == {score(i) : i \in pass}
<1>1. \A i \in DOMAIN cands : i \in Nat /\ cands[i] \in ToSet(cands)
  BY DEF ToSet
<1>2. \A c \in ToSet(cands) : \E i \in DOMAIN cands : c = cands[i]
  BY DEF ToSet
<1>3. \A i \in pass : i \in DOMAIN cands /\ Qualified(query, p, cands[i])
  OBVIOUS
<1>4. \A i \in DOMAIN cands : Qualified(query, p, cands[i]) => i \in pass
  OBVIOUS
<1>5. \A i \in pass : score(i) \in Nat /\ score(i) <= 101
  BY <1>1, <1>3, ScoreIs
<1>6. BestMatch(query, p, cands) =
        IF pass = {} THEN Nobody ELSE cands[CHOOSE i \in pass : IsBest(i)]
  BY DEF BestMatch
<1>7. \A s \in scores : s \in Nat /\ s <= 101 /\ \E i \in pass : s = score(i)
  BY <1>5
<1>8. \A i \in pass : score(i) \in scores
  OBVIOUS
<1>a. \A i \in DOMAIN cands : score(i) = ScoreOf(query, cands[i])
  OBVIOUS
<1> HIDE DEF pass, score, scores
<1>9. ASSUME pass # {} PROVE \E i \in pass : IsBest(i)
  <2>1. scores \in SUBSET Nat /\ scores # {}
    BY <1>7, <1>8, <1>9
  <2>2. PICK m \in scores : \A s \in scores : s <= m
    BY <1>7, <2>1, Greatest
  <2>3. PICK T : T = {i \in pass : score(i) = m}
    OBVIOUS
  <2>4. T \in SUBSET Nat /\ T # {}
    BY <1>1, <1>3, <1>7, <2>2, <2>3
  <2>5. PICK i \in T : \A j \in T : i <= j
    BY <2>4, Smallest
  <2>6. i \in pass /\ score(i) = m /\ \A j \in pass : score(j) <= m
    BY <1>8, <2>2, <2>3, <2>5
  <2>7. \A j \in pass : score(j) = score(i) => i <= j
    BY <2>3, <2>5, <2>6
  <2> QED
    BY <2>6, <2>7
<1>10. CASE pass = {}
  BY <1>2, <1>4, <1>6, <1>10
<1>11. CASE pass # {}
  <2>1. PICK i \in pass : BestMatch(query, p, cands) = cands[i] /\ IsBest(i)
    <3> HIDE DEF IsBest
    <3> QED
      BY <1>6, <1>9, <1>11
  <2>a. \A c \in ToSet(cands) : Qualified(query, p, c) =>
          ScoreOf(query, c) <= ScoreOf(query, cands[i])
    BY <1>2, <1>3, <1>4, <1>a, <2>1
  <2>2. cands[i] \in ToSet(cands) /\ Qualified(query, p, cands[i]) /\ cands[i].source # NONE
    BY <1>1, <1>3, <2>1
  <2>3. Nobody.source = NONE
    BY DEF Nobody
  <2> QED
    BY <2>1, <2>2, <2>3, <2>a
<1> QED
  BY <1>10, <1>11

----------------------------------------------------------------------------
(* The services' answers as records.                                       *)

LEMMA RepliesAre ==
    ASSUME NEW service \in Services, NEW r \in Replied(service)
    PROVE  /\ Len(r) \in Nat /\ DOMAIN r = 1 .. Len(r) /\ r \in Seq(Said(service))
           /\ \A i \in 1 .. Len(r) : r[i] \in Said(service) /\ r[i].title \in Titles \cup {NONE}
<1>1. \A item \in Said(service) : item.title \in Titles \cup {NONE}
  BY ResolvingAssumption
<1>2. Replies[service] \subseteq Seq(Said(service))
  BY ResolvingAssumption
<1>3. PICK X : X = Said(service)
  OBVIOUS
<1>4. r \in Seq(X)
  <2>1. r \in Replies[service] \/ r = <<>>
    BY DEF Replied
  <2>2. <<>> \in Seq(X)
    OBVIOUS
  <2> QED
    BY <1>2, <1>3, <2>1, <2>2, ZenonT(30)
<1>5. Len(r) \in Nat /\ DOMAIN r = 1 .. Len(r) /\ \A i \in 1 .. Len(r) : r[i] \in X
  BY <1>4
<1> QED
  BY <1>1, <1>3, <1>4, <1>5

LEMMA NobodyIs ==
    /\ IsRecord(Nobody) /\ Nobody.title = NONE /\ Nobody.key = NONE /\ Nobody.doi = NONE
    /\ Nobody.arxiv = NONE /\ Nobody.source = NONE
BY DEF Nobody, IsRecord

LEMMA RecordIs ==
    ASSUME NEW t \in Titles \cup {NONE}, NEW a, NEW v, NEW b, NEW d, NEW x, NEW k, NEW w, NEW c,
           c = [title |-> t, authors |-> a, venue |-> v, abstract |-> b, doi |-> d, arxiv |-> x,
                key |-> k, source |-> w]
    PROVE  /\ IsRecord(c) /\ c.title = t /\ c.authors = a /\ c.venue = v /\ c.abstract = b
           /\ c.doi = d /\ c.arxiv = x /\ c.key = k /\ c.source = w
<1>1. /\ c.title = t /\ c.authors = a /\ c.venue = v /\ c.abstract = b
      /\ c.doi = d /\ c.arxiv = x /\ c.key = k /\ c.source = w
  OBVIOUS
<1> QED
  BY <1>1 DEF IsRecord

\* A list is of its own elements.
LEMMA ListIs ==
    ASSUME NEW n \in Nat, NEW s, s = [i \in 1 .. n |-> s[i]]
    PROVE  s \in Seq(ToSet(s)) /\ Len(s) = n /\ DOMAIN s = 1 .. n
<1>1. PICK X : X = ToSet(s)
  OBVIOUS
<1>2. \A i \in 1 .. n : s[i] \in X
  BY <1>1 DEF ToSet
<1>3. s \in [1 .. n -> X]
  BY <1>2
<1> QED
  BY <1>1, <1>3

\* What DBLP, Crossref and OpenReview say is of records of theirs.
IsOf(c, source) ==
    /\ IsRecord(c) /\ c.source = source /\ c.venue # "unaccepted" /\ c.arxiv = NONE
    /\ source # "dblp" => c.key = NONE
    /\ source = "openreview" => c.doi = NONE

LEMMA DblpSays ==
    ASSUME NEW r \in Replied("dblp")
    PROVE  /\ FromDblp(r) \in Seq(ToSet(FromDblp(r)))
           /\ \A c \in ToSet(FromDblp(r)) : IsOf(c, "dblp")
           /\ \A c, d \in ToSet(FromDblp(r)) :
                c.key # NONE /\ c.key = d.key /\ c.doi = d.doi => c.title = d.title
<1>0. "dblp" \in Services
  BY DEF Services
<1>1. /\ Len(r) \in Nat /\ DOMAIN r = 1 .. Len(r)
      /\ \A i \in 1 .. Len(r) : r[i] \in Said("dblp") /\ r[i].title \in Titles \cup {NONE}
  BY <1>0, RepliesAre
<1>2. PICK s : s = FromDblp(r)
  OBVIOUS
<1>3. PICK n \in Nat : n = Len(r)
  BY <1>1
<1>4. s = [i \in 1 .. n |-> [Record(r[i], "dblp") EXCEPT !.doi = r[i].doi, !.key = r[i].key]]
  BY <1>1, <1>2, <1>3 DEF FromDblp
<1>5. s \in Seq(ToSet(s)) /\ DOMAIN s = 1 .. n
  BY <1>4, ListIs
<1>6. \A i \in 1 .. n :
        s[i] = [title |-> r[i].title, authors |-> r[i].authors, venue |-> r[i].venue,
                abstract |-> NONE, doi |-> r[i].doi, arxiv |-> NONE, key |-> r[i].key,
                source |-> "dblp"]
  BY <1>4 DEF Record, Nobody
<1>7. \A i \in 1 .. n : r[i].venue # "unaccepted"
  BY <1>1, <1>3, ResolvingAssumption
<1>a. \A i \in 1 .. n : /\ IsRecord(s[i]) /\ s[i].title = r[i].title /\ s[i].venue = r[i].venue
                         /\ s[i].doi = r[i].doi /\ s[i].arxiv = NONE /\ s[i].key = r[i].key
                         /\ s[i].source = "dblp"
  <2> SUFFICES ASSUME NEW i \in 1 .. n
               PROVE  /\ IsRecord(s[i]) /\ s[i].title = r[i].title /\ s[i].venue = r[i].venue
                      /\ s[i].doi = r[i].doi /\ s[i].arxiv = NONE /\ s[i].key = r[i].key
                      /\ s[i].source = "dblp"
    OBVIOUS
  <2>1. r[i].title \in Titles \cup {NONE}
    BY <1>1, <1>3
  <2>2. PICK c, t, a, v, d, k : /\ c = s[i] /\ t = r[i].title /\ a = r[i].authors
                                /\ v = r[i].venue /\ d = r[i].doi /\ k = r[i].key
    OBVIOUS
  <2>3. c = [title |-> t, authors |-> a, venue |-> v, abstract |-> NONE, doi |-> d,
             arxiv |-> NONE, key |-> k, source |-> "dblp"]
    BY <1>6, <2>2
  <2>4. t \in Titles \cup {NONE}
    BY <2>1, <2>2
  <2> QED
    BY <2>2, <2>3, <2>4, RecordIs
<1>8. \A i \in 1 .. n : IsOf(s[i], "dblp")
  BY <1>7, <1>a DEF IsOf
<1>9. \A i, j \in 1 .. n :
        s[i].key # NONE /\ s[i].key = s[j].key /\ s[i].doi = s[j].doi => s[i].title = s[j].title
  <2>1. \A i, j \in 1 .. n :
          r[i].key # NONE /\ r[i].key = r[j].key /\ r[i].doi = r[j].doi => r[i].title = r[j].title
    <3>1. CASE r = <<>>
      BY <1>3, <3>1
    <3>2. CASE r # <<>>
      <4>1. r \in Replies["dblp"]
        BY <3>2 DEF Replied
      <4> QED
        BY <1>1, <1>3, <4>1, ResolvingAssumption
    <3> QED
      BY <3>1, <3>2
  <2> QED
    BY <1>a, <2>1
<1>10. \A c \in ToSet(s) : \E i \in 1 .. n : c = s[i]
  BY <1>5 DEF ToSet
<1> QED
  BY <1>2, <1>5, <1>8, <1>9, <1>10

LEMMA CrossrefSays ==
    ASSUME NEW r, Len(r) \in Nat, DOMAIN r = 1 .. Len(r),
           \A i \in 1 .. Len(r) : r[i].title \in Titles \cup {NONE}
    PROVE  /\ FromCrossref(r) \in Seq(ToSet(FromCrossref(r)))
           /\ Len(FromCrossref(r)) = Len(r)
           /\ \A i \in 1 .. Len(r) : /\ IsRecord(FromCrossref(r)[i])
                                     /\ FromCrossref(r)[i].arxiv = NONE
                                     /\ FromCrossref(r)[i].venue = r[i].venue
           /\ \A c \in ToSet(FromCrossref(r)) :
                (\A i \in 1 .. Len(r) : r[i].venue # "unaccepted") => IsOf(c, "crossref")
<1>1. PICK s, n : s = FromCrossref(r) /\ n = Len(r)
  OBVIOUS
<1>2. n \in Nat /\ s = [i \in 1 .. n |->
                          [Record(r[i], "crossref") EXCEPT !.doi = r[i].doi, !.abstract = r[i].abstract]]
  BY <1>1 DEF FromCrossref
<1>3. s \in Seq(ToSet(s)) /\ Len(s) = n /\ DOMAIN s = 1 .. n
  BY <1>2, ListIs
<1>4. \A i \in 1 .. n :
        s[i] = [title |-> r[i].title, authors |-> r[i].authors, venue |-> r[i].venue,
                abstract |-> r[i].abstract, doi |-> r[i].doi, arxiv |-> NONE, key |-> NONE,
                source |-> "crossref"]
  BY <1>2 DEF Record, Nobody
<1>5. \A i \in 1 .. n : /\ IsRecord(s[i]) /\ s[i].arxiv = NONE /\ s[i].venue = r[i].venue
                         /\ s[i].key = NONE /\ s[i].source = "crossref"
  <2> SUFFICES ASSUME NEW i \in 1 .. n
               PROVE  /\ IsRecord(s[i]) /\ s[i].arxiv = NONE /\ s[i].venue = r[i].venue
                      /\ s[i].key = NONE /\ s[i].source = "crossref"
    OBVIOUS
  <2>1. r[i].title \in Titles \cup {NONE}
    BY <1>1
  <2>2. PICK c, t, a, v, b, d : /\ c = s[i] /\ t = r[i].title /\ a = r[i].authors
                                /\ v = r[i].venue /\ b = r[i].abstract /\ d = r[i].doi
    OBVIOUS
  <2>3. c = [title |-> t, authors |-> a, venue |-> v, abstract |-> b, doi |-> d,
             arxiv |-> NONE, key |-> NONE, source |-> "crossref"]
    BY <1>4, <2>2
  <2>4. t \in Titles \cup {NONE}
    BY <2>1, <2>2
  <2> QED
    BY <2>2, <2>3, <2>4, RecordIs
<1>6. \A i \in 1 .. n : r[i].venue # "unaccepted" => IsOf(s[i], "crossref")
  BY <1>5 DEF IsOf
<1>7. \A c \in ToSet(s) : \E i \in 1 .. n : c = s[i]
  BY <1>3 DEF ToSet
<1>8. \A c \in ToSet(s) : (\A i \in 1 .. n : r[i].venue # "unaccepted") => IsOf(c, "crossref")
  BY <1>6, <1>7
<1> QED
  BY <1>1, <1>3, <1>5, <1>8

LEMMA OpenReviewSays ==
    ASSUME NEW service \in Services, NEW r \in Replied(service)
    PROVE  /\ FromOpenReview(r) \in Seq(ToSet(FromOpenReview(r)))
           /\ \A c \in ToSet(FromOpenReview(r)) : IsOf(c, "openreview")
<1>1. /\ Len(r) \in Nat /\ DOMAIN r = 1 .. Len(r) /\ r \in Seq(Said(service))
      /\ \A i \in 1 .. Len(r) : r[i] \in Said(service) /\ r[i].title \in Titles \cup {NONE}
  BY RepliesAre
<1>2. PICK X, T : /\ X = Said(service)
                  /\ T = {x \in ToSet(r) : x.title # NONE /\ x.venue \notin {NONE, "unaccepted"}}
  OBVIOUS
<1>3. r \in Seq(X)
  BY <1>1, <1>2
<1>4. PICK u : u = Sifted(r, T)
  OBVIOUS
<1>5. u \in Seq(X) /\ \A i \in DOMAIN u : u[i] \in T
  <2>1. /\ Sifted(r, T) \in Seq(X) /\ Len(Sifted(r, T)) <= Len(r)
        /\ \A n \in DOMAIN Sifted(r, T) :
             Sifted(r, T)[n] \in T /\ \E i \in DOMAIN r : r[i] = Sifted(r, T)[n]
        /\ \A i \in DOMAIN r :
             r[i] \in T => \E n \in DOMAIN Sifted(r, T) : Sifted(r, T)[n] = r[i]
    BY <1>3, Sifting
  <2> QED
    BY <1>4, <2>1
<1>6. PICK n \in Nat : n = Len(u) /\ DOMAIN u = 1 .. n
  BY <1>5
<1>7. PICK s : s = FromOpenReview(r)
  OBVIOUS
<1>8. s = [i \in 1 .. n |-> [Record(u[i], "openreview") EXCEPT !.abstract = u[i].abstract]]
  BY <1>2, <1>4, <1>6, <1>7 DEF FromOpenReview
<1>9. s \in Seq(ToSet(s)) /\ DOMAIN s = 1 .. n
  BY <1>8, ListIs
<1>10. \A i \in 1 .. n :
        s[i] = [title |-> u[i].title, authors |-> u[i].authors, venue |-> u[i].venue,
                abstract |-> u[i].abstract, doi |-> NONE, arxiv |-> NONE, key |-> NONE,
                source |-> "openreview"]
  BY <1>8 DEF Record, Nobody
<1>11. \A x \in T : x.title \in Titles \cup {NONE} /\ x.venue # "unaccepted"
  <2> SUFFICES ASSUME NEW x \in T PROVE x.title \in Titles \cup {NONE} /\ x.venue # "unaccepted"
    OBVIOUS
  <2>1. x \in ToSet(r) /\ x.venue # "unaccepted"
    BY <1>2
  <2>2. PICK i \in 1 .. Len(r) : x = r[i]
    BY <1>1, <2>1 DEF ToSet
  <2> QED
    BY <1>1, <2>1, <2>2
<1>12. \A i \in 1 .. n : IsOf(s[i], "openreview")
  <2> SUFFICES ASSUME NEW i \in 1 .. n PROVE IsOf(s[i], "openreview")
    OBVIOUS
  <2>1. u[i].title \in Titles \cup {NONE} /\ u[i].venue # "unaccepted"
    BY <1>5, <1>6, <1>11
  <2>2. PICK c, t, a, v, b : /\ c = s[i] /\ t = u[i].title /\ a = u[i].authors
                             /\ v = u[i].venue /\ b = u[i].abstract
    OBVIOUS
  <2>3. c = [title |-> t, authors |-> a, venue |-> v, abstract |-> b, doi |-> NONE,
             arxiv |-> NONE, key |-> NONE, source |-> "openreview"]
    BY <1>10, <2>2
  <2>4. t \in Titles \cup {NONE} /\ v # "unaccepted"
    BY <2>1, <2>2
  <2>5. /\ IsRecord(c) /\ c.venue = v /\ c.doi = NONE /\ c.arxiv = NONE /\ c.key = NONE
        /\ c.source = "openreview"
    BY <2>3, <2>4, RecordIs
  <2> QED
    BY <2>2, <2>4, <2>5 DEF IsOf
<1>13. \A c \in ToSet(s) : \E i \in 1 .. n : c = s[i]
  BY <1>9 DEF ToSet
<1> QED
  BY <1>7, <1>9, <1>12, <1>13

----------------------------------------------------------------------------
(* The candidates of a search by hand.                                     *)

IsRanked(s, query, found) ==
    /\ Len(s) <= MAX_CANDIDATES /\ Len(s) \in Nat /\ DOMAIN s = 1 .. Len(s)
    /\ \A i, j \in DOMAIN s : i < j =>
         /\ ScoreOf(query, s[i]) >= ScoreOf(query, s[j])
         /\ DedupKey(s[i]) = DedupKey(s[j]) => DedupKey(s[i]) = <<>>
    /\ s # <<>> => \A c \in found :
         \/ c \in ToSet(s)
         \/ \E i \in DOMAIN s : DedupKey(s[i]) # <<>> /\ DedupKey(s[i]) = DedupKey(c)
         \/ /\ Len(s) = MAX_CANDIDATES
            /\ \E d \in found :
                 /\ d = c \/ (DedupKey(c) # <<>> /\ DedupKey(d) = DedupKey(c))
                 /\ ScoreOf(query, d) <= ScoreOf(query, s[Len(s)])

Fresh(cands) ==
    {i \in DOMAIN cands : \/ DedupKey(cands[i]) = <<>>
                          \/ \A j \in 1 .. i - 1 : DedupKey(cands[j]) # DedupKey(cands[i])}

LikerIn(query, cands) ==
    {ij \in Fresh(cands) \X Fresh(cands) : Liker(query, cands, ij[1], ij[2])}

LEMMA RankedWell ==
    ASSUME NEW X, NEW cands \in Seq(X), NEW query \in Titles,
           \A c \in ToSet(cands) : c.title \in Titles \cup {NONE}
    PROVE  IsRanked(RankCandidates(query, cands), query, ToSet(cands))
<1> DEFINE score(i) == ScoreOf(query, cands[i])
           key(i) == DedupKey(cands[i])
<1>1. PICK L \in Nat : L = Len(cands) /\ DOMAIN cands = 1 .. L
  OBVIOUS
<1>2. \A i \in 1 .. L : cands[i] \in X /\ cands[i] \in ToSet(cands) /\ score(i) \in Nat
  BY <1>1, ScoreIs DEF ToSet
<1>3. \A c \in ToSet(cands) : \E i \in 1 .. L : c = cands[i]
  BY <1>1 DEF ToSet
<1>4. PICK S, R : S = Fresh(cands) /\ R = LikerIn(query, cands)
  OBVIOUS
<1>5. /\ S \in SUBSET (1 .. L) /\ S \in SUBSET Nat
      /\ \A i \in 1 .. L : i \in S <=> key(i) = <<>> \/ \A j \in 1 .. i - 1 : key(j) # key(i)
  BY <1>1, <1>4 DEF Fresh
<1>6. \A i, j \in S : <<i, j>> \in R <=> \/ score(i) > score(j)
                                         \/ score(i) = score(j) /\ i < j
  BY <1>4 DEF LikerIn, Liker
<1>7. IsFiniteSet(S)
  <2>1. IsFiniteSet(1 .. L)
    BY FS_Interval
  <2> QED
    BY <1>5, <2>1, FS_Subset
<1>8. PICK N \in Nat : N = Cardinality(S)
  BY <1>7, FS_CardinalityType
<1> HIDE DEF score, key
<1>9. IsOrder(S, R)
  <2>1. \A i \in S : i \in Nat /\ score(i) \in Nat
    BY <1>2, <1>5
  <2>2. \A i \in S : <<i, i>> \notin R
    BY <1>6, <2>1
  <2>3. \A i, j \in S : i # j => <<i, j>> \in R \/ <<j, i>> \in R
    BY <1>6, <2>1
  <2>4. \A i, j, k \in S : <<i, j>> \in R /\ <<j, k>> \in R => <<i, k>> \in R
    BY <1>6, <2>1
  <2> QED
    BY <2>2, <2>3, <2>4 DEF IsOrder
<1>10. PICK order : order = InOrder(S, R)
  OBVIOUS
<1>11. SortedOut(order, S, R, N)
  BY <1>7, <1>8, <1>9, <1>10, Sorts
<1>12. /\ DOMAIN order = 1 .. N /\ \A n \in 1 .. N : order[n] \in S
       /\ \A i \in S : \E n \in 1 .. N : order[n] = i
       /\ \A m, n \in 1 .. N : order[m] = order[n] => m = n
       /\ \A m, n \in 1 .. N : m < n <=> <<order[m], order[n]>> \in R
  BY <1>11 DEF SortedOut
<1>13. PICK t : t = [n \in 1 .. N |-> cands[order[n]]]
  OBVIOUS
<1>14. PICK s : s = RankCandidates(query, cands)
  OBVIOUS
<1>15. s = Cut(t, MAX_CANDIDATES)
  <2>1. s = Cap([n \in DOMAIN order |-> cands[order[n]]])
    BY <1>4, <1>10, <1>14 DEF RankCandidates, Fresh, LikerIn
  <2>2. s = Cap(t)
    BY <1>12, <1>13, <2>1
  <2> QED
    BY <2>2 DEF Cap, Cut
<1>16. t \in Seq(X) /\ Len(t) = N /\ DOMAIN t = 1 .. N
  <2>1. \A n \in 1 .. N : cands[order[n]] \in X
    BY <1>2, <1>5, <1>12
  <2>2. t \in [1 .. N -> X]
    BY <1>13, <2>1
  <2> QED
    BY <2>2
<1>17. /\ s \in Seq(X) /\ Len(s) <= MAX_CANDIDATES /\ Len(s) <= N
       /\ \A i \in 1 .. N : i <= MAX_CANDIDATES => i \in DOMAIN s
       /\ \A i \in DOMAIN s : i \in 1 .. N /\ s[i] = t[i]
  <2>1. PICK m \in Nat : m = MAX_CANDIDATES
    BY ResolvingNumbers
  <2>2. /\ Cut(t, m) \in Seq(X) /\ Len(Cut(t, m)) <= m /\ Len(Cut(t, m)) <= Len(t)
        /\ \A i \in DOMAIN t : i <= m => i \in DOMAIN Cut(t, m)
        /\ \A i \in DOMAIN Cut(t, m) : i \in DOMAIN t /\ Cut(t, m)[i] = t[i]
    BY <1>16, CutIs
  <2> QED
    BY <1>15, <1>16, <2>1, <2>2
<1>18. PICK M \in Nat : M = Len(s) /\ DOMAIN s = 1 .. M
  BY <1>17
<1>19. \A n \in 1 .. M : /\ n \in 1 .. N /\ order[n] \in S /\ order[n] \in 1 .. L
                         /\ s[n] = cands[order[n]]
                         /\ ScoreOf(query, s[n]) = score(order[n]) /\ DedupKey(s[n]) = key(order[n])
  BY <1>5, <1>12, <1>13, <1>17, <1>18 DEF score, key
<1>20. ASSUME NEW m \in 1 .. N, NEW n \in 1 .. N, m <= n
       PROVE  score(order[m]) >= score(order[n])
  <2>1. order[m] \in S /\ order[n] \in S /\ score(order[m]) \in Nat /\ score(order[n]) \in Nat
    BY <1>2, <1>5, <1>12
  <2>2. CASE m < n
    <3>1. <<order[m], order[n]>> \in R
      BY <1>12, <2>2
    <3>2. score(order[m]) > score(order[n]) \/ score(order[m]) = score(order[n])
      BY <1>6, <2>1, <3>1
    <3> QED
      BY <2>1, <3>2
  <2>3. CASE m = n
    BY <2>1, <2>3
  <2> QED
    BY <1>20, <2>2, <2>3
<1>21. \A i, j \in S : i < j /\ key(i) = key(j) => key(i) = <<>>
  <2> SUFFICES ASSUME NEW i \in S, NEW j \in S, i < j, key(i) = key(j) PROVE key(i) = <<>>
    OBVIOUS
  <2>1. i \in 1 .. j - 1 /\ j \in 1 .. L
    BY <1>5
  <2> QED
    BY <1>5, <2>1
<1>22. ASSUME NEW i \in 1 .. M, NEW j \in 1 .. M, i < j
       PROVE  /\ ScoreOf(query, s[i]) >= ScoreOf(query, s[j])
              /\ DedupKey(s[i]) = DedupKey(s[j]) => DedupKey(s[i]) = <<>>
  <2>1. score(order[i]) >= score(order[j])
    BY <1>19, <1>20, <1>22
  <2>2. order[i] # order[j] /\ order[i] \in S /\ order[j] \in S
    BY <1>12, <1>19, <1>22
  <2>3. order[i] \in Nat /\ order[j] \in Nat
    BY <1>5, <2>2
  <2>4. order[i] < order[j] \/ order[j] < order[i]
    BY <2>2, <2>3
  <2>5. key(order[i]) = key(order[j]) => key(order[i]) = <<>>
    BY <1>21, <2>2, <2>4
  <2> QED
    BY <1>19, <2>1, <2>5
<1>23. ASSUME s # <<>>, NEW i \in S
       PROVE  \/ cands[i] \in ToSet(s)
              \/ M = MAX_CANDIDATES /\ ScoreOf(query, cands[i]) <= ScoreOf(query, s[M])
  <2>1. PICK n \in 1 .. N : order[n] = i
    BY <1>12
  <2>2. CASE n \in 1 .. M
    <3>1. s[n] = cands[i]
      BY <1>19, <2>1, <2>2
    <3> QED
      BY <1>18, <2>2, <3>1 DEF ToSet
  <2>3. CASE n \notin 1 .. M
    <3>1. M < n /\ M # 0
      <4>1. M = 0 => s = <<>>
        BY <1>17, <1>18
      <4> QED
        BY <1>23, <2>3, <4>1
    <3>2. ~ (n <= MAX_CANDIDATES)
      BY <1>17, <1>18, <2>3
    <3>3. M = MAX_CANDIDATES
      <4>1. MAX_CANDIDATES \in 1 .. N => MAX_CANDIDATES \in 1 .. M
        BY <1>17, <1>18
      <4>2. MAX_CANDIDATES \in Nat /\ M <= MAX_CANDIDATES
        BY <1>17, <1>18, ResolvingNumbers
      <4> QED
        BY <3>1, <3>2, <4>1, <4>2
    <3>4. M \in 1 .. M /\ M \in 1 .. N /\ M <= n
      BY <3>1
    <3>5. score(order[M]) >= score(i)
      BY <1>20, <2>1, <3>4
    <3>6. score(order[M]) \in Nat /\ score(i) \in Nat
      BY <1>2, <1>5, <1>19, <3>4
    <3>7. ScoreOf(query, cands[i]) <= ScoreOf(query, s[M])
      BY <1>19, <3>4, <3>5, <3>6 DEF score
    <3> QED
      BY <3>3, <3>7
  <2> QED
    BY <2>2, <2>3
<1>24. ASSUME s # <<>>, NEW c \in ToSet(cands)
       PROVE  \/ c \in ToSet(s)
              \/ \E n \in 1 .. M : DedupKey(s[n]) # <<>> /\ DedupKey(s[n]) = DedupKey(c)
              \/ /\ M = MAX_CANDIDATES
                 /\ \E d \in ToSet(cands) :
                      /\ d = c \/ (DedupKey(c) # <<>> /\ DedupKey(d) = DedupKey(c))
                      /\ ScoreOf(query, d) <= ScoreOf(query, s[M])
  <2>1. PICK i \in 1 .. L : c = cands[i]
    BY <1>3
  <2>2. CASE i \in S
    BY <1>23, <1>24, <2>1, <2>2
  <2>3. CASE i \notin S
    <3>1. PICK T : T = {j \in 1 .. i - 1 : key(j) = key(i)}
      OBVIOUS
    <3>2. T # {} /\ T \in SUBSET Nat /\ key(i) # <<>>
      BY <1>5, <2>3, <3>1
    <3>3. PICK j \in T : \A k \in T : j <= k
      BY <3>2, Smallest
    <3>4. j \in 1 .. L /\ j \in 1 .. i - 1 /\ key(j) = key(i)
      BY <3>1, <3>3
    <3>5. ASSUME NEW k \in 1 .. j - 1 PROVE key(k) # key(j)
      <4>1. k \in 1 .. i - 1 /\ ~ (j <= k)
        BY <3>4
      <4> QED
        BY <3>1, <3>3, <3>4, <4>1
    <3>6. j \in S
      BY <1>5, <3>4, <3>5
    <3>7. /\ cands[j] \in ToSet(cands)
          /\ DedupKey(cands[j]) # <<>> /\ DedupKey(cands[j]) = DedupKey(c)
      BY <1>2, <2>1, <3>2, <3>4 DEF key
    <3>8. CASE cands[j] \in ToSet(s)
      <4>1. PICK n \in 1 .. M : s[n] = cands[j]
        BY <1>18, <3>8 DEF ToSet
      <4> QED
        BY <3>7, <4>1
    <3>9. CASE M = MAX_CANDIDATES /\ ScoreOf(query, cands[j]) <= ScoreOf(query, s[M])
      BY <3>7, <3>9
    <3> QED
      BY <1>23, <1>24, <3>6, <3>8, <3>9
  <2> QED
    BY <2>2, <2>3
<1>25. IsRanked(s, query, ToSet(cands))
  BY <1>17, <1>18, <1>22, <1>24 DEF IsRanked
<1> QED
  BY <1>14, <1>25

----------------------------------------------------------------------------
(* The steps.                                                              *)

LEMMA TitlesKnown ==
    ASSUME page \in Pages, IsRecord(header)
    PROVE  QueryTitle \in Titles \cup {NONE} /\ Provisional \in Titles \cup {NONE}
<1>1. Provisional \in Titles \cup {NONE}
  BY PagesAssumption DEF Provisional
<1>2. header.title \in Titles \cup {NONE}
  BY DEF IsRecord
<1> QED
  BY <1>1, <1>2 DEF QueryTitle, Or

LEMMA ResolvingInvInit == ResolvingInit => ResolvingInv
<1> SUFFICES ASSUME ResolvingInit PROVE ResolvingInv
  OBVIOUS
<1>1. /\ page \in Pages /\ asked \in BOOLEAN /\ at = IF asked THEN "candidates" ELSE "identify"
      /\ ident \in {Identify(page)} \cup Hints
      /\ header = Nobody /\ dblp = Nobody /\ resolution = Nobody /\ meta = Nobody
      /\ picks = <<>> /\ heard = {}
  BY DEF ResolvingInit
<1>2. ident.kind \in {"doi", "arxiv", NONE} /\ (ident.kind # NONE => ident.id # NONE)
  <2>1. CASE ident = Identify(page)
    <3>1. CASE page.doi # NONE
      BY <2>1, <3>1 DEF Identify
    <3>2. CASE page.doi = NONE /\ page.arxiv # NONE
      BY <2>1, <3>2 DEF Identify
    <3>3. CASE page.doi = NONE /\ page.arxiv = NONE
      BY <2>1, <3>3 DEF Identify
    <3> QED
      BY <3>1, <3>2, <3>3
  <2>2. CASE ident \in Hints
    BY <2>2, ResolvingAssumption
  <2> QED
    BY <1>1, <2>1, <2>2
<1>3. IdentKnown
  BY <1>1, <1>2, NobodyIs DEF IdentKnown
<1> QED
  BY <1>1, <1>3, NobodyIs DEF ResolvingInv

\* What is asked of a record does not change while the page and its header do not.
LEMMA Unasked ==
    ASSUME UNCHANGED <<page, header>>
    PROVE  /\ QueryTitle' = QueryTitle /\ Provisional' = Provisional
           /\ \A c : Qualifying(c)' <=> Qualifying(c)
BY DEF QueryTitle, Provisional, Qualifying

LEMMA ReadHeaderKeeps == ASSUME ResolvingInv, ReadHeader PROVE ResolvingInv'
<1>1. /\ at = "identify" /\ at' = IF ident.kind = NONE THEN "dblp" ELSE "by_id"
      /\ page' = page /\ asked' = asked /\ ident' = ident
      /\ dblp' = dblp /\ resolution' = resolution /\ meta' = meta /\ picks' = picks
      /\ heard' = heard
      /\ \/ \E r \in Replied("grobid") : header' = FromGrobid(r)
         \/ header' = header
  BY DEF ReadHeader, Known
<1>2. /\ page \in Pages /\ asked \in BOOLEAN /\ IsRecord(header) /\ IdentKnown
      /\ dblp = Nobody /\ resolution = Nobody /\ heard = {} /\ meta = Nobody /\ picks = <<>>
      /\ ~asked
  BY <1>1 DEF ResolvingInv
<1>3. IsRecord(header') /\ header'.arxiv = NONE /\ header'.source \in {NONE, "grobid"}
  <2>1. CASE header' = header
    BY <1>2, <2>1 DEF IdentKnown
  <2>2. ASSUME NEW r \in Replied("grobid"), header' = FromGrobid(r)
        PROVE  IsRecord(header') /\ header'.arxiv = NONE /\ header'.source \in {NONE, "grobid"}
    <3>1. CASE r = <<>>
      BY <2>2, <3>1, NobodyIs DEF FromGrobid
    <3>2. CASE r # <<>>
      <4>1. "grobid" \in Services
        BY DEF Services
      <4>2. /\ Len(r) \in Nat /\ DOMAIN r = 1 .. Len(r) /\ r \in Seq(Said("grobid"))
            /\ \A i \in 1 .. Len(r) : r[i].title \in Titles \cup {NONE}
        BY <4>1, RepliesAre
      <4>3. 1 \in 1 .. Len(r)
        BY <3>2, <4>2
      <4>4. PICK c, t, a, b : /\ c = FromGrobid(r) /\ t = r[1].title /\ a = r[1].authors
                              /\ b = r[1].abstract
        OBVIOUS
      <4>5. c = [title |-> t, authors |-> a, venue |-> NONE, abstract |-> b, doi |-> NONE,
                 arxiv |-> NONE, key |-> NONE, source |-> "grobid"]
        BY <3>2, <4>4 DEF FromGrobid, Record, Nobody
      <4>6. t \in Titles \cup {NONE}
        BY <4>2, <4>3, <4>4
      <4> QED
        BY <2>2, <4>4, <4>5, <4>6, RecordIs
    <3> QED
      BY <3>1, <3>2
  <2> QED
    BY <1>1, <2>1, <2>2
<1>4. IdentKnown'
  BY <1>1, <1>2, <1>3 DEF IdentKnown
<1> QED
  BY <1>1, <1>2, <1>3, <1>4, NobodyIs DEF ResolvingInv

LEMMA WithDoi ==
    ASSUME NEW c, IsRecord(c), NEW d
    PROVE  /\ IsRecord([c EXCEPT !.doi = d]) /\ [c EXCEPT !.doi = d].arxiv = c.arxiv
BY DEF IsRecord

LEMMA LookUpKeeps == ASSUME ResolvingInv, LookUp PROVE ResolvingInv'
<1>1. /\ at = "by_id" /\ at' = "store"
      /\ page' = page /\ asked' = asked /\ ident' = ident /\ header' = header
      /\ dblp' = dblp /\ meta' = meta /\ picks' = picks /\ heard' = heard
  BY DEF LookUp, Known
<1>2. PICK r \in Replied("by_id") :
         resolution' = IF ident.kind = "arxiv" THEN FromArxiv(r, ident.id)
                       ELSE IF r = <<>> THEN Nobody
                       ELSE [FromCrossref(r)[1] EXCEPT !.doi = Or(@, ident.id)]
  BY DEF LookUp
<1>3. "by_id" \in Services
  BY DEF Services
<1>4. /\ Len(r) \in Nat /\ DOMAIN r = 1 .. Len(r) /\ r \in Seq(Said("by_id"))
      /\ \A i \in 1 .. Len(r) : r[i].title \in Titles \cup {NONE}
  BY <1>3, RepliesAre
<1>5. r # <<>> => 1 \in 1 .. Len(r)
  BY <1>4
<1>6. /\ page \in Pages /\ asked \in BOOLEAN /\ IsRecord(header) /\ IsRecord(dblp) /\ IdentKnown
      /\ meta = Nobody /\ picks = <<>> /\ ~asked
  BY <1>1 DEF ResolvingInv
<1>7. CASE r = <<>>
  <2>1. resolution' = Nobody
    BY <1>2, <1>7 DEF FromArxiv
  <2>2. IdentKnown'
    BY <1>1, <1>6, <2>1, NobodyIs DEF IdentKnown
  <2> QED
    BY <1>1, <1>6, <2>1, <2>2, NobodyIs DEF ResolvingInv, Resolved, NoneHeard
<1>8. CASE r # <<>> /\ ident.kind = "arxiv"
  <2>1. PICK c, t, a, b, d, x : /\ c = resolution' /\ t = r[1].title /\ a = r[1].authors
                                /\ b = r[1].abstract /\ d = r[1].doi /\ x = ident.id
    OBVIOUS
  <2>2. c = [title |-> t, authors |-> a, venue |-> NONE, abstract |-> b, doi |-> d,
             arxiv |-> x, key |-> NONE, source |-> "arxiv"]
    BY <1>2, <1>8, <2>1 DEF FromArxiv, Record, Nobody
  <2>3. t \in Titles \cup {NONE}
    BY <1>4, <1>5, <1>8, <2>1
  <2>4. IsRecord(c) /\ c.arxiv = x
    BY <2>2, <2>3, RecordIs
  <2>5. IdentKnown'
    BY <1>1, <1>6, <2>1, <2>4 DEF IdentKnown
  <2> QED
    BY <1>1, <1>6, <1>8, <2>1, <2>4, <2>5 DEF ResolvingInv, NONE
<1>9. CASE r # <<>> /\ ident.kind # "arxiv"
  <2>1. PICK c, d : c = FromCrossref(r)[1] /\ d = Or(FromCrossref(r)[1].doi, ident.id)
    OBVIOUS
  <2>2. IsRecord(c) /\ c.arxiv = NONE
    BY <1>4, <1>5, <1>9, <2>1, CrossrefSays
  <2>3. resolution' = [c EXCEPT !.doi = d]
    BY <1>2, <1>9, <2>1
  <2>4. IsRecord(resolution') /\ resolution'.arxiv = NONE
    BY <2>2, <2>3, WithDoi
  <2>5. IdentKnown'
    BY <1>1, <1>6, <1>9, <2>4 DEF IdentKnown
  <2>6. ident.kind # NONE
    BY <1>1 DEF ResolvingInv
  <2> QED
    BY <1>1, <1>6, <2>4, <2>5, <2>6 DEF ResolvingInv
<1> QED
  BY <1>7, <1>8, <1>9

\* A title, once it is one.
LEMMA ConfidentAlike ==
    ASSUME NEW q, NEW c, NEW d, c.title = d.title
    PROVE  Confident(q, c) <=> Confident(q, d)
BY DEF Confident, ScoreOf

LEMMA ConfidentSelf ==
    ASSUME NEW c, c.title \in Titles
    PROVE  c.title # NONE => Confident(c.title, c)
<1>1. ScoreOf(c.title, c) = IF c.title = NONE THEN 0 ELSE 1 + 100
  BY ResolvingNumbers DEF ScoreOf
<1> QED
  BY <1>1, ResolvingNumbers DEF Confident

LEMMA SearchDblpKeeps == ASSUME ResolvingInv, SearchDblp PROVE ResolvingInv'
<1>1. /\ at = "dblp" /\ page' = page /\ asked' = asked /\ ident' = ident /\ header' = header
      /\ meta' = meta /\ picks' = picks
  BY DEF SearchDblp, Known
<1>2. /\ page \in Pages /\ asked \in BOOLEAN /\ IsRecord(header) /\ IsRecord(dblp) /\ IdentKnown
      /\ meta = Nobody /\ picks = <<>> /\ ~asked /\ ident.kind = NONE
      /\ dblp = Nobody /\ resolution = Nobody /\ heard = {}
  BY <1>1 DEF ResolvingInv
<1>3. QueryTitle \in Titles \cup {NONE} /\ QueryTitle' = QueryTitle
      /\ \A c : Qualifying(c)' <=> Qualifying(c)
  BY <1>1, <1>2, TitlesKnown, Unasked
<1>4. CASE QueryTitle = NONE
  <2>1. at' = "store" /\ dblp' = Nobody /\ resolution' = Nobody /\ heard' = {}
    BY <1>2, <1>4 DEF SearchDblp
  <2>2. IdentKnown'
    BY <1>1, <1>2, <2>1 DEF IdentKnown
  <2> QED
    BY <1>1, <1>2, <2>1, <2>2 DEF ResolvingInv, Resolved, NoneHeard
<1>5. CASE QueryTitle # NONE
  <2>1. PICK r \in Replied("dblp") :
          LET best == BestMatch(QueryTitle, page, FromDblp(r))
              ends == best # Nobody /\ ~IsCorrPreprint(best)
          IN  /\ heard' = heard \cup ToSet(FromDblp(r))
              /\ dblp' = best
              /\ resolution' = IF ends THEN best ELSE Nobody
              /\ at' = IF ends THEN "store" ELSE "openreview"
    BY <1>5 DEF SearchDblp
  <2>2. PICK cands, q, p, best : /\ cands = FromDblp(r) /\ q = QueryTitle /\ p = page
                                 /\ best = BestMatch(q, p, cands)
    OBVIOUS
  <2>3. /\ heard' = ToSet(cands) /\ dblp' = best
        /\ best # Nobody /\ ~IsCorrPreprint(best) => resolution' = best /\ at' = "store"
        /\ ~(best # Nobody /\ ~IsCorrPreprint(best)) => resolution' = Nobody /\ at' = "openreview"
    BY <1>2, <2>1, <2>2
  <2>4. /\ cands \in Seq(ToSet(cands)) /\ \A c \in ToSet(cands) : IsOf(c, "dblp")
        /\ \A c, d \in ToSet(cands) :
             c.key # NONE /\ c.key = d.key /\ c.doi = d.doi => c.title = d.title
    BY <2>2, DblpSays
  <2>5. \A c \in ToSet(cands) : /\ c.title \in Titles \cup {NONE} /\ c.source # NONE
                                /\ c.source = "dblp" /\ IsRecord(c) /\ c.venue # "unaccepted"
                                /\ c.arxiv = NONE
    BY <2>4 DEF IsOf, IsRecord, NONE
  <2>6. q \in Titles
    BY <1>3, <1>5, <2>2
  <2>7. \/ best = Nobody /\ \A c \in ToSet(cands) : ~Qualified(q, p, c)
        \/ best # Nobody /\ best \in ToSet(cands) /\ Qualified(q, p, best)
    BY <2>2, <2>4, <2>5, <2>6, BestMatchIs
  <2>a. best # Nobody => \A c \in ToSet(cands) :
          Qualified(q, p, c) => ScoreOf(q, c) <= ScoreOf(q, best)
    BY <2>2, <2>4, <2>5, <2>6, BestMatchIs
  <2>8. \A c : Qualifying(c) <=> Qualified(q, p, c)
    BY <2>2 DEF Qualifying
  <2>9. IsRecord(best) /\ best.arxiv = NONE
    BY <2>5, <2>7, NobodyIs
  <2>10. IsRecord(dblp') /\ IsRecord(resolution') /\ resolution'.arxiv = NONE
    BY <2>3, <2>9, NobodyIs
  <2>11. IdentKnown'
    BY <1>1, <1>2, <2>10 DEF IdentKnown
  <2>12. CASE best # Nobody /\ ~IsCorrPreprint(best)
    <3>1. \A c \in ToSet(cands) :
            best.key # NONE /\ c.key = best.key /\ c.doi = best.doi => Confident(best.title, c)
      <4> SUFFICES ASSUME NEW c \in ToSet(cands),
                          best.key # NONE, c.key = best.key, c.doi = best.doi
                   PROVE  Confident(best.title, c)
        OBVIOUS
      <4>1. c.title = best.title
        BY <2>4, <2>7, <2>12
      <4>2. best.title # NONE /\ best.title \in Titles
        BY <2>5, <2>6, <2>7, <2>12, ScoreIs DEF Qualified
      <4>3. Confident(best.title, best)
        BY <4>2, ConfidentSelf
      <4> QED
        BY <4>1, <4>3, ConfidentAlike
    <3>a. \A c \in ToSet(cands) : NotLiker(c, best)'
      BY <1>3, <2>2, <2>8, <2>12, <2>a DEF NotLiker
    <3>2. Resolved'
      BY <1>3, <2>3, <2>5, <2>7, <2>8, <2>12, <3>1, <3>a DEF Resolved, NotLiker
    <3> QED
      BY <1>1, <1>2, <2>3, <2>10, <2>11, <2>12, <3>2 DEF ResolvingInv
  <2>13. CASE ~(best # Nobody /\ ~IsCorrPreprint(best))
    <3>1. DblpHeard'
      <4>1. QueryTitle' # NONE /\ resolution' = Nobody
        BY <1>3, <1>5, <2>3, <2>13
      <4>2. \A c \in heard' :
              /\ c.source = "dblp"
              /\ (dblp'.key # NONE /\ c.key = dblp'.key /\ c.doi = dblp'.doi)
                     => c.title = dblp'.title
        BY <2>3, <2>4, <2>5, <2>7, NobodyIs
      <4>3. dblp' = Nobody => NoneHeard'
        BY <1>3, <2>3, <2>7, <2>8 DEF NoneHeard
      <4>4. dblp' # Nobody => dblp' \in heard' /\ Qualifying(dblp)' /\ dblp'.venue # "unaccepted"
                              /\ dblp'.source = "dblp"
        <5>1. Qualifying(dblp)' <=> Qualified(q, p, best)
          BY <1>1, <1>3, <2>2, <2>3 DEF Qualifying
        <5> QED
          BY <2>3, <2>5, <2>7, <5>1
      <4>5. dblp' # Nobody => \A c \in heard' : NotLiker(c, dblp)'
        <5>1. \A c : NotLiker(c, dblp)' <=> (Qualified(q, p, c) => ScoreOf(q, c) <= ScoreOf(q, best))
          BY <1>3, <2>2, <2>3, <2>8 DEF NotLiker
        <5> QED
          BY <2>3, <2>a, <5>1
      <4> QED
        BY <4>1, <4>2, <4>3, <4>4, <4>5 DEF DblpHeard
    <3> QED
      BY <1>1, <1>2, <2>3, <2>10, <2>11, <2>13, <3>1 DEF ResolvingInv
  <2> QED
    BY <2>12, <2>13
<1> QED
  BY <1>4, <1>5

\* A grafted record keeps its title, authors, venue and source; its key and DOI are
\* the preprint's if the two are alike.
LEMMA GraftIs ==
    ASSUME NEW b, IsOf(b, "openreview"), NEW d, IsRecord(d)
    PROVE  LET g == GraftIdentifiers(b, d) IN
           /\ IsRecord(g) /\ g.title = b.title /\ g.authors = b.authors /\ g.venue = b.venue
           /\ g.source = "openreview"
           /\ \/ g.key = NONE
              \/ g.key = d.key /\ g.doi = d.doi /\ Confident(b.title, d)
<1>1. IsRecord(b) /\ b.source = "openreview" /\ b.key = NONE /\ b.doi = NONE
  BY DEF IsOf
<1>2. CASE ~Confident(b.title, d)
  BY <1>1, <1>2 DEF GraftIdentifiers
<1>3. CASE Confident(b.title, d)
  <2>1. PICK g, x, w, t, a, v, k, e :
          /\ g = GraftIdentifiers(b, d) /\ x = Or(b.arxiv, d.arxiv) /\ w = Or(b.abstract, d.abstract)
          /\ t = b.title /\ a = b.authors /\ v = b.venue /\ k = d.key /\ e = d.doi
    OBVIOUS
  <2>2. PICK b1, b2, b3, b4 :
          b = [title |-> t, authors |-> a, venue |-> v, abstract |-> b1,
               doi |-> b2, arxiv |-> b3, key |-> b4, source |-> "openreview"]
    BY <1>1, <2>1 DEF IsRecord
  <2>3. g = [b EXCEPT !.doi = Or(@, d.doi), !.arxiv = Or(@, d.arxiv),
                      !.key = Or(@, d.key), !.abstract = Or(@, d.abstract)]
    BY <1>3, <2>1 DEF GraftIdentifiers
  <2>4. Or(b.doi, d.doi) = e /\ Or(b.key, d.key) = k
    BY <1>1, <2>1 DEF Or
  <2>5. g = [b EXCEPT !.doi = e, !.arxiv = x, !.key = k, !.abstract = w]
    BY <2>1, <2>3, <2>4
  <2>6. g = [title |-> t, authors |-> a, venue |-> v, abstract |-> w,
             doi |-> e, arxiv |-> x, key |-> k, source |-> "openreview"]
    BY <2>2, <2>5
  <2>7. t \in Titles \cup {NONE}
    BY <1>1, <2>1 DEF IsRecord
  <2>8. /\ IsRecord(g) /\ g.title = t /\ g.authors = a /\ g.venue = v /\ g.source = "openreview"
        /\ g.key = k /\ g.doi = e
    BY <2>6, <2>7, RecordIs
  <2> QED
    BY <1>3, <2>1, <2>8
<1> QED
  BY <1>2, <1>3

LEMMA SearchOpenReviewKeeps == ASSUME ResolvingInv, SearchOpenReview PROVE ResolvingInv'
<1>1. /\ at = "openreview" /\ page' = page /\ asked' = asked /\ ident' = ident
      /\ header' = header /\ dblp' = dblp /\ meta' = meta /\ picks' = picks
  BY DEF SearchOpenReview, Known
<1>2. /\ page \in Pages /\ asked \in BOOLEAN /\ IsRecord(header) /\ IsRecord(dblp) /\ IdentKnown
      /\ meta = Nobody /\ picks = <<>> /\ ~asked /\ ident.kind = NONE /\ DblpHeard
  BY <1>1 DEF ResolvingInv
<1>3. QueryTitle \in Titles \cup {NONE} /\ QueryTitle' = QueryTitle
      /\ \A c : Qualifying(c)' <=> Qualifying(c)
  BY <1>1, <1>2, TitlesKnown, Unasked
<1>4. PICK r2 \in Replied("openreview2"), r1 \in Replied("openreview1") :
        LET cands == FromOpenReview(r2) \o FromOpenReview(r1)
            best == BestMatch(QueryTitle, page, cands)
        IN  /\ heard' = heard \cup ToSet(cands)
            /\ resolution' = IF best = Nobody THEN dblp
                             ELSE IF dblp = Nobody THEN best
                             ELSE GraftIdentifiers(best, dblp)
            /\ at' = IF resolution' = Nobody THEN "crossref" ELSE "store"
  BY DEF SearchOpenReview
<1>5. PICK s2, s1, cands, q, p, best, d :
        /\ s2 = FromOpenReview(r2) /\ s1 = FromOpenReview(r1) /\ cands = s2 \o s1
        /\ q = QueryTitle /\ p = page /\ best = BestMatch(q, p, cands) /\ d = dblp
  OBVIOUS
<1>6. /\ heard' = heard \cup ToSet(cands)
      /\ resolution' = IF best = Nobody THEN d ELSE IF d = Nobody THEN best
                       ELSE GraftIdentifiers(best, d)
      /\ at' = IF resolution' = Nobody THEN "crossref" ELSE "store"
  BY <1>4, <1>5
<1>7. /\ s2 \in Seq(ToSet(s2)) /\ \A c \in ToSet(s2) : IsOf(c, "openreview")
      /\ s1 \in Seq(ToSet(s1)) /\ \A c \in ToSet(s1) : IsOf(c, "openreview")
  <2>1. "openreview2" \in Services /\ "openreview1" \in Services
    BY DEF Services
  <2> QED
    BY <1>5, <2>1, OpenReviewSays
<1>8. PICK X : X = ToSet(s2) \cup ToSet(s1)
  OBVIOUS
<1>9. s2 \in Seq(X) /\ s1 \in Seq(X)
  <2>1. ToSet(s2) \subseteq X /\ ToSet(s1) \subseteq X
    BY <1>8
  <2>2. \A S, T, s : S \subseteq T /\ s \in Seq(S) => s \in Seq(T)
    OBVIOUS
  <2> QED
    BY <1>7, <2>1, <2>2
<1>10. cands \in Seq(X) /\ ToSet(cands) = X
  <2>1. cands \in Seq(X)
    BY <1>5, <1>9
  <2>2. ToSet(s2 \o s1) = ToSet(s2) \cup ToSet(s1)
    BY <1>9, ToSetOf
  <2> QED
    BY <1>5, <1>8, <2>1, <2>2
<1>11. \A c \in ToSet(cands) : IsOf(c, "openreview")
  BY <1>7, <1>8, <1>10
<1>12. \A c \in ToSet(cands) :
         /\ c.title \in Titles \cup {NONE} /\ c.source # NONE /\ c.source = "openreview"
         /\ IsRecord(c) /\ c.venue # "unaccepted" /\ c.key = NONE
  BY <1>11 DEF IsOf, IsRecord, NONE
<1>13. q \in Titles /\ q # NONE
  BY <1>2, <1>3, <1>5 DEF DblpHeard
<1>14. \/ best = Nobody /\ \A c \in ToSet(cands) : ~Qualified(q, p, c)
       \/ best # Nobody /\ best \in ToSet(cands) /\ Qualified(q, p, best)
  BY <1>5, <1>10, <1>12, <1>13, BestMatchIs
<1>15. \A c : Qualifying(c) <=> Qualified(q, p, c)
  BY <1>5 DEF Qualifying
<1>16. /\ resolution = Nobody
       /\ \A c \in heard :
            /\ c.source = "dblp"
            /\ (d.key # NONE /\ c.key = d.key /\ c.doi = d.doi) => c.title = d.title
       /\ d = Nobody => \A c \in heard : ~Qualified(q, p, c)
       /\ d # Nobody => d \in heard /\ Qualified(q, p, d) /\ d.venue # "unaccepted"
                        /\ d.source = "dblp"
  BY <1>2, <1>5, <1>15 DEF DblpHeard, NoneHeard
<1>a. d # Nobody => \A c \in heard : NotLiker(c, d)
  BY <1>2, <1>5 DEF DblpHeard
<1>17. IsRecord(d) /\ (d # Nobody => d.title \in Titles /\ d.title # NONE)
  BY <1>2, <1>5, <1>13, <1>16, ScoreIs DEF IsRecord, Qualified
<1>18. CASE best = Nobody /\ d = Nobody
  <2>1. resolution' = Nobody /\ at' = "crossref"
    BY <1>6, <1>18
  <2>2. NoneHeard'
    BY <1>3, <1>6, <1>14, <1>15, <1>16, <1>18 DEF NoneHeard
  <2>3. IdentKnown'
    BY <1>1, <1>2, <2>1, NobodyIs DEF IdentKnown
  <2> QED
    BY <1>1, <1>2, <1>3, <1>5, <1>13, <2>1, <2>2, <2>3, NobodyIs DEF ResolvingInv
<1>19. CASE best = Nobody /\ d # Nobody
  <2>1. resolution' = d /\ at' = "store"
    BY <1>6, <1>19
  <2>2. \A c \in heard' :
          /\ (d.key # NONE /\ c.key = d.key /\ c.doi = d.doi) => Confident(d.title, c)
          /\ Qualified(q, p, c) => c.source = "dblp"
    <3> SUFFICES ASSUME NEW c \in heard'
                 PROVE  /\ (d.key # NONE /\ c.key = d.key /\ c.doi = d.doi) => Confident(d.title, c)
                        /\ Qualified(q, p, c) => c.source = "dblp"
      OBVIOUS
    <3>1. CASE c \in heard
      <4>1. Confident(d.title, d)
        BY <1>17, <1>19, ConfidentSelf
      <4> QED
        BY <1>16, <3>1, <4>1, ConfidentAlike
    <3>2. CASE c \in ToSet(cands)
      BY <1>12, <1>14, <1>19, <3>2
    <3> QED
      BY <1>6, <3>1, <3>2
  <2>a. \A c \in heard' : NotLiker(c, d)
    BY <1>6, <1>14, <1>15, <1>19, <1>a DEF NotLiker
  <2>b. \A c : NotLiker(c, resolution)' <=> NotLiker(c, d)
    BY <1>3, <2>1 DEF NotLiker
  <2>3. Resolved'
    BY <1>3, <1>6, <1>15, <1>16, <1>19, <2>1, <2>2, <2>a, <2>b DEF Resolved
  <2>4. IdentKnown'
    BY <1>1, <1>2, <2>1 DEF IdentKnown, NONE
  <2> QED
    BY <1>1, <1>2, <1>5, <1>17, <2>1, <2>3, <2>4 DEF ResolvingInv
<1>20. CASE best # Nobody
  <2>1. /\ best \in ToSet(cands) /\ Qualified(q, p, best) /\ IsOf(best, "openreview")
        /\ best.title \in Titles /\ best.title # NONE /\ best.source = "openreview"
        /\ best.key = NONE /\ best.venue # "unaccepted" /\ IsRecord(best)
    BY <1>11, <1>12, <1>13, <1>14, <1>20, ScoreIs DEF Qualified
  <2>2. PICK g : g = resolution'
    OBVIOUS
  <2>3. /\ IsRecord(g) /\ g.title = best.title /\ g.authors = best.authors
        /\ g.venue = best.venue /\ g.source = "openreview"
        /\ \/ g.key = NONE
           \/ g.key = d.key /\ g.doi = d.doi /\ Confident(best.title, d)
    <3>1. CASE d = Nobody
      BY <1>6, <1>20, <2>1, <2>2, <3>1
    <3>2. CASE d # Nobody
      <4>1. g = GraftIdentifiers(best, d)
        BY <1>6, <1>20, <2>2, <3>2
      <4> QED
        BY <1>17, <2>1, <4>1, GraftIs
    <3> QED
      BY <3>1, <3>2
  <2>4. g # Nobody /\ at' = "store"
    BY <1>6, <2>2, <2>3, NobodyIs DEF NONE
  <2>5. \A c \in heard' :
          (g.key # NONE /\ c.key = g.key /\ c.doi = g.doi) => Confident(g.title, c)
    <3> SUFFICES ASSUME NEW c \in heard', g.key # NONE, c.key = g.key, c.doi = g.doi
                 PROVE  Confident(g.title, c)
      OBVIOUS
    <3>1. d.key # NONE /\ c.key = d.key /\ c.doi = d.doi /\ Confident(best.title, d)
      BY <2>3
    <3>2. c \in heard
      BY <1>6, <1>12, <3>1
    <3>3. c.title = d.title
      BY <1>16, <3>1, <3>2
    <3> QED
      BY <2>3, <3>1, <3>3, ConfidentAlike
  <2>6. Qualified(q, p, g)
    BY <2>1, <2>3 DEF Qualified, Confident, ScoreOf
  <2>7. Qualifying(resolution)' <=> Qualified(q, p, g)
    BY <1>1, <1>3, <1>5, <2>2 DEF Qualifying
  <2>8. Resolved'
    <3>1. \E c \in heard' : c.title = g.title /\ c.venue = g.venue
      BY <1>6, <2>1, <2>3
    <3>2. g.source # "dblp" /\ g.source = "openreview" /\ g.venue # "unaccepted"
      BY <2>1, <2>3
    <3> QED
      BY <2>2, <2>4, <2>5, <2>6, <2>7, <3>1, <3>2 DEF Resolved
  <2>9. IdentKnown'
    BY <1>1, <1>2 DEF IdentKnown, NONE
  <2> QED
    BY <1>1, <1>2, <2>2, <2>3, <2>4, <2>8, <2>9 DEF ResolvingInv
<1> QED
  BY <1>18, <1>19, <1>20

LEMMA SearchCrossrefKeeps == ASSUME ResolvingInv, SearchCrossref PROVE ResolvingInv'
<1>1. /\ at = "crossref" /\ at' = "store" /\ page' = page /\ asked' = asked /\ ident' = ident
      /\ header' = header /\ dblp' = dblp /\ meta' = meta /\ picks' = picks
  BY DEF SearchCrossref, Known
<1>2. /\ page \in Pages /\ asked \in BOOLEAN /\ IsRecord(header) /\ IsRecord(dblp) /\ IdentKnown
      /\ meta = Nobody /\ picks = <<>> /\ ~asked /\ ident.kind = NONE
      /\ QueryTitle # NONE /\ resolution = Nobody /\ NoneHeard
  BY <1>1 DEF ResolvingInv
<1>3. QueryTitle \in Titles \cup {NONE} /\ QueryTitle' = QueryTitle
      /\ \A c : Qualifying(c)' <=> Qualifying(c)
  BY <1>1, <1>2, TitlesKnown, Unasked
<1>4. PICK r \in Replied("crossref") :
        /\ heard' = heard \cup ToSet(FromCrossref(r))
        /\ resolution' = BestMatch(QueryTitle, page, FromCrossref(r))
  BY DEF SearchCrossref
<1>5. PICK cands, q, p, best : /\ cands = FromCrossref(r) /\ q = QueryTitle /\ p = page
                               /\ best = BestMatch(q, p, cands)
  OBVIOUS
<1>6. cands \in Seq(ToSet(cands)) /\ \A c \in ToSet(cands) : IsOf(c, "crossref")
  <2>1. "crossref" \in Services
    BY DEF Services
  <2>2. /\ Len(r) \in Nat /\ DOMAIN r = 1 .. Len(r)
        /\ \A i \in 1 .. Len(r) : r[i] \in Said("crossref") /\ r[i].title \in Titles \cup {NONE}
    BY <2>1, RepliesAre
  <2>3. \A i \in 1 .. Len(r) : r[i].venue # "unaccepted"
    BY <2>2, ResolvingAssumption
  <2> QED
    BY <1>5, <2>2, <2>3, CrossrefSays
<1>7. \A c \in ToSet(cands) :
        /\ c.title \in Titles \cup {NONE} /\ c.source # NONE /\ c.source = "crossref"
        /\ IsRecord(c) /\ c.venue # "unaccepted" /\ c.key = NONE
  BY <1>6 DEF IsOf, IsRecord, NONE
<1>8. q \in Titles /\ resolution' = best /\ heard' = heard \cup ToSet(cands)
  BY <1>2, <1>3, <1>4, <1>5
<1>9. \/ best = Nobody /\ \A c \in ToSet(cands) : ~Qualified(q, p, c)
      \/ best # Nobody /\ best \in ToSet(cands) /\ Qualified(q, p, best)
  BY <1>5, <1>6, <1>7, <1>8, BestMatchIs
<1>10. \A c : Qualifying(c) <=> Qualified(q, p, c)
  BY <1>5 DEF Qualifying
<1>11. IsRecord(best) /\ (best # Nobody => best.key = NONE)
  BY <1>7, <1>9, NobodyIs
<1>12. Resolved'
  <2>1. best = Nobody => NoneHeard'
    BY <1>2, <1>3, <1>8, <1>9, <1>10 DEF NoneHeard
  <2>2. Qualifying(resolution)' <=> Qualified(q, p, best)
    BY <1>1, <1>3, <1>5, <1>8 DEF Qualifying
  <2>3. best # Nobody =>
          /\ best.venue # "unaccepted" /\ best.source = "crossref" /\ best.key = NONE
          /\ best \in heard' /\ Qualified(q, p, best)
    BY <1>7, <1>8, <1>9
  <2> QED
    BY <1>8, <2>1, <2>2, <2>3 DEF Resolved
<1>13. IdentKnown'
  BY <1>1, <1>2 DEF IdentKnown, NONE
<1> QED
  BY <1>1, <1>2, <1>8, <1>11, <1>12, <1>13 DEF ResolvingInv

LEMMA StoreMetaKeeps == ASSUME ResolvingInv, StoreMeta PROVE ResolvingInv'
<1>1. /\ at = "store" /\ at' = "done" /\ page' = page /\ asked' = asked /\ ident' = ident
      /\ header' = header /\ dblp' = dblp /\ resolution' = resolution /\ picks' = picks
      /\ heard' = heard /\ meta' = ResolveFields
  BY DEF StoreMeta, Known
<1>2. /\ page \in Pages /\ asked \in BOOLEAN /\ IsRecord(header) /\ IsRecord(dblp)
      /\ IsRecord(resolution) /\ IdentKnown /\ picks = <<>> /\ ~asked
      /\ ident.kind = NONE => Resolved
  BY <1>1 DEF ResolvingInv
<1>3. \A c : Qualifying(c)' <=> Qualifying(c)
  BY <1>1, Unasked
<1>4. ident.kind = NONE => Resolved'
  <2>1. Qualifying(resolution)' <=> Qualifying(resolution)
    BY <1>1 DEF Qualifying, QueryTitle, Provisional
  <2>2. \A c : NotLiker(c, resolution)' <=> NotLiker(c, resolution)
    BY <1>1, <1>3 DEF NotLiker, QueryTitle, Provisional
  <2> QED
    BY <1>1, <1>2, <1>3, <2>1, <2>2 DEF Resolved, NoneHeard
<1>5. ResolveFields' = ResolveFields
  BY <1>1 DEF ResolveFields, Provisional
<1>6. IdentKnown'
  BY <1>1, <1>2 DEF IdentKnown
<1> QED
  BY <1>1, <1>2, <1>4, <1>5, <1>6 DEF ResolvingInv

LEMMA SearchCandidatesKeeps == ASSUME ResolvingInv, SearchCandidates PROVE ResolvingInv'
<1>1. /\ at = "candidates" /\ at' = "done" /\ page' = page /\ asked' = asked /\ ident' = ident
      /\ header' = header /\ dblp' = dblp /\ resolution' = resolution /\ meta' = meta
      /\ Provisional # NONE
  BY DEF SearchCandidates, Known
<1>2. /\ page \in Pages /\ asked \in BOOLEAN /\ asked /\ IsRecord(header) /\ IsRecord(dblp)
      /\ IsRecord(resolution) /\ IdentKnown /\ meta = Nobody
  BY <1>1 DEF ResolvingInv
<1>3. Provisional \in Titles /\ Provisional' = Provisional
  BY <1>1, <1>2, TitlesKnown, Unasked
<1>4. PICK d \in Replied("dblp"), c \in Replied("crossref"),
           r2 \in Replied("openreview2"), r1 \in Replied("openreview1") :
        LET cands == FromDblp(d) \o FromCrossref(c) \o FromOpenReview(r2) \o FromOpenReview(r1)
        IN  picks' = RankCandidates(Provisional, cands) /\ heard' = ToSet(cands)
  BY DEF SearchCandidates
<1>5. PICK sd, sc, s2, s1, q : /\ sd = FromDblp(d) /\ sc = FromCrossref(c)
                               /\ s2 = FromOpenReview(r2) /\ s1 = FromOpenReview(r1)
                               /\ q = Provisional
  OBVIOUS
<1>6. PICK X : X = ToSet(sd) \cup ToSet(sc) \cup ToSet(s2) \cup ToSet(s1)
  OBVIOUS
<1>7. /\ sd \in Seq(ToSet(sd)) /\ sc \in Seq(ToSet(sc))
      /\ s2 \in Seq(ToSet(s2)) /\ s1 \in Seq(ToSet(s1))
      /\ \A x \in X : x.title \in Titles \cup {NONE}
  <2>1. sd \in Seq(ToSet(sd)) /\ \A x \in ToSet(sd) : IsOf(x, "dblp")
    BY <1>5, DblpSays
  <2>2. sc \in Seq(ToSet(sc)) /\ \A x \in ToSet(sc) : IsOf(x, "crossref")
    <3>1. "crossref" \in Services
      BY DEF Services
    <3>2. /\ Len(c) \in Nat /\ DOMAIN c = 1 .. Len(c)
          /\ \A i \in 1 .. Len(c) : c[i] \in Said("crossref") /\ c[i].title \in Titles \cup {NONE}
      BY <3>1, RepliesAre
    <3>3. \A i \in 1 .. Len(c) : c[i].venue # "unaccepted"
      BY <3>2, ResolvingAssumption
    <3> QED
      BY <1>5, <3>2, <3>3, CrossrefSays
  <2>3. /\ s2 \in Seq(ToSet(s2)) /\ \A x \in ToSet(s2) : IsOf(x, "openreview")
        /\ s1 \in Seq(ToSet(s1)) /\ \A x \in ToSet(s1) : IsOf(x, "openreview")
    <3>1. "openreview2" \in Services /\ "openreview1" \in Services
      BY DEF Services
    <3> QED
      BY <1>5, <3>1, OpenReviewSays
  <2> QED
    BY <1>6, <2>1, <2>2, <2>3 DEF IsOf, IsRecord
<1>8. sd \in Seq(X) /\ sc \in Seq(X) /\ s2 \in Seq(X) /\ s1 \in Seq(X)
  <2>1. /\ ToSet(sd) \subseteq X /\ ToSet(sc) \subseteq X
        /\ ToSet(s2) \subseteq X /\ ToSet(s1) \subseteq X
    BY <1>6
  <2>2. \A S, T, s : S \subseteq T /\ s \in Seq(S) => s \in Seq(T)
    OBVIOUS
  <2> QED
    BY <1>7, <2>1, <2>2
<1>9. PICK cands : cands = sd \o sc \o s2 \o s1
  OBVIOUS
<1>10. cands \in Seq(X) /\ ToSet(cands) \subseteq X
  <2>1. cands \in Seq(X)
    BY <1>8, <1>9
  <2>2. \A i \in DOMAIN cands : cands[i] \in X
    BY <2>1
  <2> QED
    BY <2>1, <2>2 DEF ToSet
<1>11. picks' = RankCandidates(q, cands) /\ heard' = ToSet(cands)
  BY <1>4, <1>5, <1>9
<1>12. IsRanked(RankCandidates(q, cands), q, ToSet(cands))
  <2>1. \A x \in ToSet(cands) : x.title \in Titles \cup {NONE}
    BY <1>7, <1>10
  <2>2. q \in Titles
    BY <1>3, <1>5
  <2> QED
    BY <1>10, <2>1, <2>2, RankedWell
<1>13. PICK s, f : s = picks' /\ f = heard'
  OBVIOUS
<1>14. IsRanked(s, q, f)
  BY <1>11, <1>12, <1>13
<1>15. /\ Len(s) <= MAX_CANDIDATES
       /\ \A i, j \in DOMAIN s : i < j =>
            /\ ScoreOf(q, s[i]) >= ScoreOf(q, s[j])
            /\ DedupKey(s[i]) = DedupKey(s[j]) => DedupKey(s[i]) = <<>>
       /\ s # <<>> => \A x \in f :
            \/ x \in ToSet(s)
            \/ \E i \in DOMAIN s : DedupKey(s[i]) # <<>> /\ DedupKey(s[i]) = DedupKey(x)
            \/ /\ Len(s) = MAX_CANDIDATES
               /\ \E y \in f :
                    /\ y = x \/ (DedupKey(x) # <<>> /\ DedupKey(y) = DedupKey(x))
                    /\ ScoreOf(q, y) <= ScoreOf(q, s[Len(s)])
  BY <1>14 DEF IsRanked
<1>16. CandidatesRanked'
  BY <1>3, <1>5, <1>13, <1>15 DEF CandidatesRanked
<1>17. IdentKnown'
  BY <1>1, <1>2 DEF IdentKnown
<1> QED
  BY <1>1, <1>2, <1>13, <1>15, <1>16, <1>17 DEF ResolvingInv

LEMMA ResolvingInvNext == ResolvingInv /\ [ResolvingNext]_resolvingVars => ResolvingInv'
<1> SUFFICES ASSUME ResolvingInv, [ResolvingNext]_resolvingVars PROVE ResolvingInv'
  OBVIOUS
<1>1. CASE ReadHeader
  BY <1>1, ReadHeaderKeeps
<1>2. CASE LookUp
  BY <1>2, LookUpKeeps
<1>3. CASE SearchDblp
  BY <1>3, SearchDblpKeeps
<1>4. CASE SearchOpenReview
  BY <1>4, SearchOpenReviewKeeps
<1>5. CASE SearchCrossref
  BY <1>5, SearchCrossrefKeeps
<1>6. CASE StoreMeta
  BY <1>6, StoreMetaKeeps
<1>7. CASE SearchCandidates
  BY <1>7, SearchCandidatesKeeps
<1>8. CASE UNCHANGED resolvingVars
  <2>1. /\ page' = page /\ asked' = asked /\ at' = at /\ ident' = ident /\ header' = header
        /\ dblp' = dblp /\ resolution' = resolution /\ meta' = meta /\ picks' = picks
        /\ heard' = heard
    BY <1>8 DEF resolvingVars
  <2>2. /\ QueryTitle' = QueryTitle /\ Provisional' = Provisional /\ ResolveFields' = ResolveFields
        /\ (IdentKnown' <=> IdentKnown)
    BY <2>1 DEF QueryTitle, Provisional, ResolveFields, IdentKnown
  <2>3. (NoneHeard' <=> NoneHeard) /\ (DblpHeard' <=> DblpHeard) /\ (Resolved' <=> Resolved)
    BY <2>1, <2>2 DEF NoneHeard, DblpHeard, Resolved, Qualifying, NotLiker
  <2>4. CandidatesRanked' <=> CandidatesRanked
    BY <2>1, <2>2 DEF CandidatesRanked
  <2> QED
    BY <2>1, <2>2, <2>3, <2>4 DEF ResolvingInv
<1> QED
  BY <1>1, <1>2, <1>3, <1>4, <1>5, <1>6, <1>7, <1>8 DEF ResolvingNext

\* The stored fields are the record's, filled in from the page.
LEMMA FieldsAre ==
    ASSUME ResolvingInv, at = "done", ~asked
    PROVE  LET base == IF resolution # Nobody THEN resolution ELSE header IN
           /\ meta.title = Or(base.title, Provisional)
           /\ meta.authors = base.authors /\ meta.venue = base.venue
           /\ meta.key = base.key /\ meta.source = base.source
           /\ meta.doi = Or(base.doi, IF ident.kind = "doi" THEN ident.id ELSE NONE)
           /\ meta.arxiv = Or(base.arxiv, IF ident.kind = "arxiv" THEN ident.id ELSE NONE)
<1>1. meta = ResolveFields /\ IsRecord(header) /\ IsRecord(resolution)
  BY DEF ResolvingInv
<1>2. PICK base, m, t, b, d, x :
        /\ base = (IF resolution # Nobody THEN resolution ELSE header) /\ m = meta
        /\ t = Or(base.title, Provisional) /\ b = Or(base.abstract, header.abstract)
        /\ d = Or(base.doi, IF ident.kind = "doi" THEN ident.id ELSE NONE)
        /\ x = Or(base.arxiv, IF ident.kind = "arxiv" THEN ident.id ELSE NONE)
  OBVIOUS
<1>3. m = [base EXCEPT !.title = t, !.abstract = b, !.doi = d, !.arxiv = x]
  BY <1>1, <1>2 DEF ResolveFields
<1>4. IsRecord(base)
  BY <1>1, <1>2
<1>5. PICK a, v, k, s, b1, b2, b3, b4 :
        /\ a = base.authors /\ v = base.venue /\ k = base.key /\ s = base.source
        /\ base = [title |-> b1, authors |-> a, venue |-> v, abstract |-> b2, doi |-> b3,
                   arxiv |-> b4, key |-> k, source |-> s]
  BY <1>4 DEF IsRecord
<1>6. m = [title |-> t, authors |-> a, venue |-> v, abstract |-> b, doi |-> d, arxiv |-> x,
           key |-> k, source |-> s]
  BY <1>3, <1>5
<1>7. /\ m.title = t /\ m.authors = a /\ m.venue = v /\ m.doi = d /\ m.arxiv = x /\ m.key = k
      /\ m.source = s
  BY <1>6
<1> QED
  BY <1>2, <1>5, <1>7

LEMMA ResolvingInvHolds == ResolvingInv => ResolvingTypeOK /\ MetadataHolds
<1> SUFFICES ASSUME ResolvingInv PROVE ResolvingTypeOK /\ MetadataHolds
  OBVIOUS
<1>1. /\ page \in Pages /\ asked \in BOOLEAN /\ IsRecord(header) /\ IsRecord(dblp)
      /\ IsRecord(resolution) /\ IdentKnown
      /\ at # "done" => meta = Nobody /\ picks = <<>>
      /\ at = "done" => IF asked
                        THEN meta = Nobody /\ Len(picks) <= MAX_CANDIDATES /\ CandidatesRanked
                        ELSE meta = ResolveFields /\ picks = <<>>
      /\ at \in {"store", "done"} /\ ~asked /\ ident.kind = NONE => Resolved
  BY DEF ResolvingInv
<1>2. QueryTitle \in Titles \cup {NONE} /\ Provisional \in Titles \cup {NONE}
  BY <1>1, TitlesKnown
<1>3. CASE at = "done" /\ ~asked
  <2>1. PICK base : base = (IF resolution # Nobody THEN resolution ELSE header)
    OBVIOUS
  <2>2. /\ meta.title = Or(base.title, Provisional)
        /\ meta.authors = base.authors /\ meta.venue = base.venue
        /\ meta.key = base.key /\ meta.source = base.source
        /\ meta.doi = Or(base.doi, IF ident.kind = "doi" THEN ident.id ELSE NONE)
        /\ meta.arxiv = Or(base.arxiv, IF ident.kind = "arxiv" THEN ident.id ELSE NONE)
    BY <1>3, <2>1, FieldsAre
  <2>3. meta.title \in Titles \cup {NONE}
    BY <1>1, <1>2, <2>1, <2>2 DEF Or, IsRecord
  <2>4. ASSUME ident.kind = NONE, resolution # Nobody
        PROVE  /\ base = resolution /\ meta.title = resolution.title /\ meta.doi = resolution.doi
               /\ Qualified(QueryTitle, page, resolution)
               /\ resolution.title \in Titles /\ resolution.title # NONE
    <3>1. base = resolution /\ Qualified(QueryTitle, page, resolution)
      BY <1>1, <1>3, <2>1, <2>4 DEF Resolved, Qualifying
    <3>2. resolution.title # NONE
      BY <3>1, ResolvingNumbers DEF Qualified, Confident, ScoreOf
    <3>3. resolution.title \in Titles
      BY <1>1, <3>2 DEF IsRecord
    <3>4. meta.title = resolution.title
      BY <2>2, <3>1, <3>2 DEF Or
    <3>5. meta.doi = resolution.doi
      <4>1. ident.kind # "doi"
        BY <2>4 DEF NONE
      <4> QED
        BY <2>2, <3>1, <4>1 DEF Or
    <3> QED
      BY <3>1, <3>2, <3>3, <3>4, <3>5
  <2>5. \A c : ~Contradicted(c) <=> Corroborates(page, c.authors)
    BY DEF Contradicted, Corroborates
  <2>6. FiledAsItself
    <3> SUFFICES ASSUME ident.kind = NONE, resolution # Nobody
                 PROVE  /\ \E c \in heard : c.title = meta.title /\ c.venue = meta.venue
                        /\ meta.venue # "unaccepted"
                        /\ Confident(QueryTitle, meta) /\ ~Contradicted(meta)
                        /\ \A c \in heard :
                             (meta.key # NONE /\ c.key = meta.key /\ c.doi = meta.doi)
                                 => Confident(meta.title, c)
      BY DEF FiledAsItself, Searched
    <3>1. /\ base = resolution /\ meta.title = resolution.title /\ meta.doi = resolution.doi
          /\ Qualified(QueryTitle, page, resolution)
      BY <2>4
    <3>2. Resolved
      BY <1>1, <1>3
    <3>3. Confident(QueryTitle, meta) /\ ~Contradicted(meta)
      <4>1. Confident(QueryTitle, resolution) /\ Corroborates(page, resolution.authors)
        BY <3>1 DEF Qualified
      <4> QED
        BY <2>2, <2>5, <3>1, <4>1, ConfidentAlike
    <3>4. /\ resolution.venue # "unaccepted"
          /\ \E c \in heard : c.title = resolution.title /\ c.venue = resolution.venue
          /\ \A c \in heard :
               (resolution.key # NONE /\ c.key = resolution.key /\ c.doi = resolution.doi)
                     => Confident(resolution.title, c)
      BY <3>2 DEF Resolved
    <3> QED
      BY <2>2, <3>1, <3>3, <3>4
  <2>7. NothingBetterHeard
    <3> SUFFICES ASSUME ident.kind = NONE
                 PROVE  /\ meta.source \in {NONE, "grobid"} =>
                             {c \in heard : Confident(QueryTitle, c) /\ ~Contradicted(c)} = {}
                        /\ (meta.source = "dblp" /\ IsCorrPreprint(meta)) =>
                             \A c \in {c \in heard : Confident(QueryTitle, c) /\ ~Contradicted(c)} :
                                 /\ c.source = "dblp"
                                 /\ ScoreOf(QueryTitle, c) <= ScoreOf(QueryTitle, meta)
      BY DEF NothingBetterHeard, Searched
    <3>1. \A c : Confident(QueryTitle, c) /\ ~Contradicted(c) <=> Qualifying(c)
      BY <2>5 DEF Qualifying, Qualified
    <3>2. Resolved
      BY <1>1, <1>3
    <3>3. CASE resolution = Nobody
      <4>1. \A c \in heard : ~Qualifying(c)
        BY <3>2, <3>3 DEF Resolved, NoneHeard
      <4>2. meta.source # "dblp"
        BY <1>1, <2>1, <2>2, <3>3 DEF IdentKnown, NONE
      <4> QED
        BY <3>1, <4>1, <4>2
    <3>4. CASE resolution # Nobody
      <4>1. meta.source = resolution.source /\ meta.key = resolution.key
        BY <2>1, <2>2, <3>4
      <4>2. /\ resolution.source \in {"dblp", "openreview", "crossref"}
            /\ \A c \in heard : resolution.source = "dblp" /\ IsCorrPreprint(resolution)
                                /\ Qualifying(c) => c.source = "dblp" /\ NotLiker(c, resolution)
        BY <3>2, <3>4 DEF Resolved
      <4>5. ScoreOf(QueryTitle, meta) = ScoreOf(QueryTitle, resolution)
        BY <2>4, <3>4 DEF ScoreOf
      <4>3. meta.source \notin {NONE, "grobid"}
        BY <4>1, <4>2 DEF NONE
      <4>4. IsCorrPreprint(meta) <=> IsCorrPreprint(resolution)
        BY <4>1 DEF IsCorrPreprint
      <4> QED
        BY <3>1, <4>1, <4>2, <4>3, <4>4, <4>5 DEF NotLiker
    <3> QED
      BY <3>3, <3>4
  <2>8. PrintedStays
    <3>1. ident.kind = "doi" => meta.doi # NONE
      <4>1. ident.kind = "doi" => ident.id # NONE
        BY <1>1 DEF IdentKnown, NONE
      <4> QED
        BY <2>2, <4>1 DEF Or
    <3>2. ident.kind = "arxiv" => meta.arxiv = ident.id
      <4>1. ident.kind = "arxiv" => base.arxiv \in {NONE, ident.id}
        BY <1>1, <2>1 DEF IdentKnown
      <4> QED
        BY <2>2, <4>1 DEF Or
    <3> QED
      BY <3>1, <3>2 DEF PrintedStays
  <2>9. picks = <<>> /\ Len(picks) = 0 /\ DOMAIN picks = {}
    BY <1>1, <1>3
  <2>10. CandidatesRanked
    BY <2>9 DEF CandidatesRanked
  <2> QED
    BY <1>1, <2>3, <2>6, <2>7, <2>8, <2>9, <2>10, ResolvingNumbers
    DEF ResolvingTypeOK, MetadataHolds, IsRecord, IdentKnown, ResolvingInv
<1>4. CASE at = "done" /\ asked
  <2>1. meta = Nobody /\ Len(picks) <= MAX_CANDIDATES /\ CandidatesRanked
    BY <1>1, <1>4
  <2>2. FiledAsItself /\ NothingBetterHeard /\ PrintedStays
    BY <1>4 DEF FiledAsItself, NothingBetterHeard, PrintedStays, Searched
  <2> QED
    BY <1>1, <1>4, <2>1, <2>2, NobodyIs DEF ResolvingTypeOK, MetadataHolds, IsRecord, IdentKnown
<1>5. CASE at # "done"
  <2>1. meta = Nobody /\ picks = <<>> /\ Len(picks) = 0 /\ DOMAIN picks = {}
    BY <1>1, <1>5
  <2>2. FiledAsItself /\ NothingBetterHeard /\ PrintedStays
    BY <1>5 DEF FiledAsItself, NothingBetterHeard, PrintedStays, Searched
  <2>3. CandidatesRanked
    BY <2>1 DEF CandidatesRanked
  <2>4. at \in {"identify", "by_id", "dblp", "openreview", "crossref", "store", "done",
                "candidates"}
    BY DEF ResolvingInv
  <2> QED
    BY <1>1, <2>1, <2>2, <2>3, <2>4, NobodyIs, ResolvingNumbers
    DEF ResolvingTypeOK, MetadataHolds, IsRecord, IdentKnown
<1> QED
  BY <1>3, <1>4, <1>5

\* A paper that a title search files is filed under a record that was published or
\* posted, looks like the title and is not contradicted by the page; as a preprint
\* only if no other service that answered had it and DBLP none that is liker; what
\* its page says of itself is kept; and the user who searches by hand sees each work
\* once, the likest first, and misses only what a full list leaves no room for.
THEOREM MetadataHoldsAlways == ResolvingSpec => [](ResolvingTypeOK /\ MetadataHolds)
<1>1. ResolvingInv => ResolvingTypeOK /\ MetadataHolds
  BY ResolvingInvHolds
<1> QED
  BY <1>1, ResolvingInvInit, ResolvingInvNext, PTL DEF ResolvingSpec
=============================================================================
