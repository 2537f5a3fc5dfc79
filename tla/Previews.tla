------------------------------ MODULE Previews ------------------------------
(***************************************************************************)
(* Page images for the file picker (src/preview, and its two handlers in   *)
(* web/api.rs): requests for one page of one paper, or for its page count. *)
(* A page comes from the cache of its content hash, or is rendered by a    *)
(* blocking task under the semaphore and written there under a staging     *)
(* name.  Clients that scroll on drop their requests, wherever they are.   *)
(***************************************************************************)
EXTENDS Naturals, FiniteSets

CONSTANTS
    Looks,                    \* requests
    MAX_CONCURRENT_RENDERS,
    MaxSlips                  \* bound: refused renders, deaths of the server

ASSUME PreviewAssumption ==
    MAX_CONCURRENT_RENDERS \in Nat \ {0} /\ MaxSlips \in Nat /\ 0 \notin Looks

VARIABLES
    rowPath,    \* papers.rel_path: the first path, or the one a refile gave it
    atPath,     \* what lies at the two paths
    look,       \* a request: what it asks, how far it is, what it has read
    renders,    \* blocking tasks that are rendering
    inode,      \* the files of the cache directory: their bytes
    fd,         \* the file a request has open
    staging,    \* the file under the page's staging name, or 0
    cached,     \* the file under the page's own name, or 0
    known,      \* META: the page count in memory
    slips,
    mixed       \* history: two writers at once, or another paper's file read

previewVars == <<rowPath, atPath, look, renders, inode, fd, staging, cached, known, slips, mixed>>

library == <<rowPath, atPath>>
cache == <<inode, fd, staging, cached>>

Docs == {"own", "other", "none"}
Bytes == [whole : BOOLEAN, of : Docs]
Awaits == {"cache", "read", "permit", "render", "open", "fill", "rename"}
NoLook == [asks |-> "page", at |-> "new", path |-> 1, doc |-> "none"]

PreviewTypeOK ==
    /\ rowPath \in 1 .. 2 /\ atPath \in [1 .. 2 -> Docs]
    /\ look \in [Looks -> [asks : {"page", "meta"}, path : 1 .. 2, doc : Docs,
                           at : {"new", "answered", "dropped"} \cup Awaits]]
    /\ renders \subseteq Looks
    /\ inode \in [Looks -> Bytes] /\ fd \in [Looks -> Looks \cup {0}]
    /\ staging \in Looks \cup {0} /\ cached \in Looks \cup {0} /\ (cached # 0 => cached # staging)
    /\ known \in Docs /\ slips \in 0 .. MaxSlips /\ mixed \subseteq {"writers", "path"}

PreviewInit ==
    /\ rowPath = 1 /\ atPath = <<"own", "none">>
    /\ look = [r \in Looks |-> NoLook] /\ renders = {}
    /\ inode = [r \in Looks |-> [whole |-> FALSE, of |-> "none"]]
    /\ fd = [r \in Looks |-> 0] /\ staging = 0 /\ cached = 0 /\ known = "none"
    /\ slips = 0 /\ mixed = {}

\* The paper is refiled, and its old path given to another one.
RefileDoc ==
    /\ rowPath = 1 /\ rowPath' = 2 /\ atPath' = <<"none", "own">>
    /\ UNCHANGED <<look, renders, cache, known, slips, mixed>>

ReusePath ==
    /\ rowPath = 2 /\ atPath[1] = "none" /\ atPath' = [atPath EXCEPT ![1] = "other"]
    /\ UNCHANGED <<rowPath, look, renders, cache, known, slips, mixed>>

----------------------------------------------------------------------------

Await(r, at) == look' = [look EXCEPT ![r].at = at]

\* preview_page, preview_meta: the row is read.
Look(r) ==
    /\ look[r].at = "new"
    /\ \E asks \in {"page", "meta"} :
         look' = [look EXCEPT ![r] = [NoLook EXCEPT !.asks = asks, !.at = "cache",
                                                    !.path = rowPath]]
    /\ UNCHANGED <<library, renders, cache, known, slips, mixed>>

\* cache::read, meta_get
AskCache(r) ==
    /\ look[r].at = "cache"
    /\ Await(r, IF (look[r].asks = "page" /\ cached # 0)
                   \/ (look[r].asks = "meta" /\ known # "none") THEN "answered" ELSE "read")
    /\ UNCHANGED <<library, renders, cache, known, slips, mixed>>

\* read_pdf: whatever lies at the path now; nothing is a 422.
ReadPdf(r) ==
    /\ look[r].at = "read"
    /\ LET doc == atPath[look[r].path]
       IN  /\ look' = [look EXCEPT ![r].doc = doc,
                          ![r].at = IF doc = "none" THEN "answered" ELSE "permit"]
           /\ mixed' = IF doc = "other" THEN mixed \cup {"path"} ELSE mixed
    /\ UNCHANGED <<library, renders, cache, known, slips>>

Permits == {r \in Looks : look[r].at = "render"}

\* acquire, and the blocking task.
Acquire(r) ==
    /\ look[r].at = "permit" /\ Cardinality(Permits) < MAX_CONCURRENT_RENDERS
    /\ Await(r, "render") /\ renders' = renders \cup {r}
    /\ UNCHANGED <<library, cache, known, slips, mixed>>

\* The task ends; the request, if it is still there, goes on with the result.
Rendered(r) ==
    /\ r \in renders /\ renders' = renders \ {r}
    /\ IF look[r].at # "render" THEN UNCHANGED <<look, known>>
       ELSE IF look[r].asks = "meta"
            THEN known' = look[r].doc /\ Await(r, "answered")
            ELSE Await(r, "open") /\ UNCHANGED known
    /\ UNCHANGED <<library, cache, slips, mixed>>

\* Mutant of Refused: the permit of a panicked render is not given back.
Refused_Leaks(r) ==
    /\ r \in renders /\ slips < MaxSlips /\ slips' = slips + 1
    /\ renders' = renders \ {r}
    /\ UNCHANGED <<library, look, cache, known, mixed>>

\* The document cannot be rendered, or hayro panics: a 422, and the permit is back.
Refused(r) ==
    /\ r \in renders /\ slips < MaxSlips /\ slips' = slips + 1
    /\ renders' = renders \ {r}
    /\ IF look[r].at = "render" THEN Await(r, "answered") ELSE UNCHANGED look
    /\ UNCHANGED <<library, cache, known, mixed>>

----------------------------------------------------------------------------
(* cache::write.                                                           *)

Writers == {r \in Looks : look[r].at \in {"fill", "rename"}}

\* The staging name is the process's: an open truncates what is under it.
OpenStaging(r) ==
    /\ look[r].at = "open" /\ Await(r, "fill")
    /\ LET f == IF staging # 0 THEN staging ELSE r
       IN  /\ staging' = f /\ fd' = [fd EXCEPT ![r] = f]
           /\ inode' = [inode EXCEPT ![f] = [whole |-> FALSE, of |-> look[r].doc]]
    /\ mixed' = IF Writers # {} THEN mixed \cup {"writers"} ELSE mixed
    /\ UNCHANGED <<library, renders, cached, known, slips>>

\* Mutant of FillStaging: the page is written under its own name.
FillStaging_InPlace(r) ==
    /\ look[r].at = "fill" /\ cached # r
    /\ \/ cached' = fd[r] /\ staging' = 0 /\ UNCHANGED <<inode, look>>
       \/ /\ inode' = [inode EXCEPT ![fd[r]] = [whole |-> TRUE, of |-> look[r].doc]]
          /\ Await(r, "rename") /\ UNCHANGED <<cached, staging>>
    /\ UNCHANGED <<library, renders, fd, known, slips, mixed>>

FillStaging(r) ==
    /\ look[r].at = "fill" /\ Await(r, "rename")
    /\ inode' = [inode EXCEPT ![fd[r]] = [whole |-> TRUE, of |-> look[r].doc]]
    /\ UNCHANGED <<library, renders, fd, staging, cached, known, slips, mixed>>

\* What is under the staging name now becomes the page; a failure is a warning.
RenameStaging(r) ==
    /\ look[r].at = "rename" /\ Await(r, "answered")
    /\ cached' = IF staging # 0 THEN staging ELSE cached
    /\ staging' = 0
    /\ UNCHANGED <<library, renders, inode, fd, known, slips, mixed>>

----------------------------------------------------------------------------

\* The client goes away.  A file write under way is finished, a render too.
DropLook(r) ==
    /\ look[r].at \in Awaits \ {"fill"} /\ Await(r, "dropped")
    /\ UNCHANGED <<library, renders, cache, known, slips, mixed>>

\* The server dies.
ServerDies ==
    /\ slips < MaxSlips /\ slips' = slips + 1
    /\ look' = [r \in Looks |-> IF look[r].at \in Awaits
                                THEN [look[r] EXCEPT !.at = "dropped"] ELSE look[r]]
    /\ renders' = {} /\ known' = "none"
    /\ UNCHANGED <<library, cache, mixed>>

Answering(r) ==
    \/ AskCache(r) \/ ReadPdf(r) \/ Acquire(r) \/ Rendered(r)
    \/ OpenStaging(r) \/ FillStaging(r) \/ RenameStaging(r)

PreviewNext ==
    \/ \E r \in Looks : Look(r) \/ Answering(r) \/ Refused(r) \/ DropLook(r)
    \/ RefileDoc \/ ReusePath \/ ServerDies

PreviewSpec == PreviewInit /\ [][PreviewNext]_previewVars

----------------------------------------------------------------------------
(* Properties.                                                             *)

\* The cache holds whole pages of the paper whose hash they are under, through
\* dropped requests and deaths of the server; unless two requests wrote the page
\* at one time, or the path was given to another paper under the request.
PagesTrue ==
    mixed = {} => (cached # 0 => inode[cached] = [whole |-> TRUE, of |-> "own"])

\* Whoever waits for a permit waits for a render that is under way: none is held
\* by a render that ended, panicked or died.
PermitsReturn == Permits \subseteq renders

\* True pages, and permits for those who wait.
PreviewsHold == PagesTrue /\ PermitsReturn

=============================================================================
