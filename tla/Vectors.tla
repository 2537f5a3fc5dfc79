------------------------------ MODULE Vectors ------------------------------
(***************************************************************************)
(* The vector tier (search/vector.rs, index_vectors and deindex_paper of   *)
(* search/indexer.rs).  Qdrant keeps a point per chunk in a collection of  *)
(* one vector size; SQLite's stamp says that a paper's points are there.   *)
(* The process that sweeps remembers that the collection exists.  It can   *)
(* be lost behind its back, requests fail, the process dies, and another   *)
(* release of the configuration embeds with another model and size.        *)
(* Module SearchIndex has the sweep's other tier, and takes the points of  *)
(* a paper as one; here a paper's work is extraction, embedding, points.   *)
(***************************************************************************)
EXTENDS Naturals

CONSTANTS
    Embedded,       \* the papers
    Seqs,           \* what a paper's chunks are numbered, by edition of its metadata
    NoEdition,      \* of a paper that was not extracted
    MaxHappenings   \* bound: edits, rebuilds, requests that fail, deaths, losses

Editions == DOMAIN Seqs
ASSUME VectorsAssumption ==
    /\ MaxHappenings \in Nat /\ Editions \subseteq Nat /\ 0 \in Editions /\ NoEdition \notin Editions
    /\ \A v \in Editions : Seqs[v] \subseteq Nat

Models == {"m1", "m2"}     \* an embedding model and its dims

VARIABLES
    catalogue,   \* the papers: live, trashed or gone, and the edition of the metadata
    stamps,      \* search_index: the edition extracted, the model stamped, the backoff
    collection,  \* Qdrant's: the model it has the size of, and its points
    configured,  \* [ai.embedding] of the configuration file
    sweeper,     \* the process
    happened,
    unvouched    \* history: the papers whose points went without their stamps

vectorsVars ==
    <<catalogue, stamps, collection, configured, sweeper, happened, unvouched>>

NoStamp == [edition |-> NoEdition, model |-> "none", waits |-> FALSE]
NoCollection == [size |-> "none", points |-> {}]

PointsOf(p, v, m) == {[paper |-> p, seq |-> s, edition |-> v, model |-> m] : s \in Seqs[v]}

Boot(rebuild) ==
    [at |-> IF rebuild THEN "clear" ELSE "idle", rebuild |-> rebuild, model |-> configured,
     ensured |-> FALSE, todo |-> {}, dels |-> {}, extracted |-> {}, cur |-> "none",
     edition |-> NoEdition, left |-> {}]
Down == [Boot(FALSE) EXCEPT !.at = "down"]

LiveOnes == {p \in Embedded : catalogue[p].at = "live"}

VectorsInit ==
    /\ catalogue = [p \in Embedded |-> [at |-> "live", edition |-> 0]]
    /\ stamps = [p \in Embedded |-> NoStamp]
    /\ collection = NoCollection /\ configured = "m1"
    /\ sweeper = Boot(FALSE)
    /\ happened = 0 /\ unvouched = {}

Happens == happened < MaxHappenings /\ happened' = happened + 1

----------------------------------------------------------------------------
(* The sweep.                                                              *)

\* tier_staleness and plan, for the vectors.
StaleTier(p) == stamps[p].edition # catalogue[p].edition \/ stamps[p].model # sweeper.model
PlanVectors ==
    /\ sweeper.at = "idle"
    /\ sweeper' = [sweeper EXCEPT !.at = "sweep",
                       !.todo = {p \in LiveOnes : StaleTier(p) /\ ~stamps[p].waits},
                       !.extracted = {p \in LiveOnes : /\ StaleTier(p) /\ ~stamps[p].waits
                                                       /\ stamps[p].edition = catalogue[p].edition},
                       !.dels = {p \in Embedded : stamps[p] # NoStamp} \ LiveOnes]
    /\ UNCHANGED <<catalogue, stamps, collection, configured, happened, unvouched>>

NextPaper(p) ==
    /\ sweeper.at = "sweep"
    /\ \/ /\ p \in sweeper.dels
          /\ sweeper' = [sweeper EXCEPT !.at = "delete", !.cur = p, !.dels = @ \ {p}]
       \/ /\ sweeper.dels = {} /\ p \in sweeper.todo
          /\ sweeper' = [sweeper EXCEPT !.at = "extract", !.cur = p, !.todo = @ \ {p}]
    /\ UNCHANGED <<catalogue, stamps, collection, configured, happened, unvouched>>

EndSweep ==
    /\ sweeper.at = "sweep" /\ sweeper.dels = {} /\ sweeper.todo = {}
    /\ sweeper' = IF sweeper.rebuild THEN Down
                  ELSE [Boot(FALSE) EXCEPT !.model = sweeper.model, !.ensured = sweeper.ensured]
    /\ UNCHANGED <<catalogue, stamps, collection, configured, happened, unvouched>>

Back == [sweeper EXCEPT !.at = "sweep", !.cur = "none", !.extracted = @ \ {sweeper.cur},
                        !.edition = NoEdition, !.left = {}]
To(at) == sweeper' = [sweeper EXCEPT !.at = at]
Backoff(p) == stamps' = [stamps EXCEPT ![p].waits = TRUE]

\* Mutant of Extracted: the vectors' stamp is kept.
Extracted_KeepsModel(p, v) == [stamps EXCEPT ![p].edition = v]

\* replace_chunks: chunks of edition v, and no stamp.
Extracted(p, v) == [stamps EXCEPT ![p].edition = v, ![p].model = "none"]

\* derive_chunks, which extracts what the plan had found to be of another edition, and
\* else reads the chunks as they are.  The paper may be trashed by now, and is indexed
\* all the same; purged, it is left.
ExtractChunks ==
    LET p == sweeper.cur
        as_is == p \in sweeper.extracted
        v == IF as_is THEN stamps[p].edition ELSE catalogue[p].edition
    IN
    /\ sweeper.at = "extract"
    /\ IF catalogue[p].at = "gone" THEN sweeper' = Back /\ UNCHANGED stamps
       ELSE /\ sweeper' = [sweeper EXCEPT !.at = "embed", !.edition = v, !.left = Seqs[v]]
            /\ stamps' = IF as_is THEN stamps ELSE Extracted(p, v)
    /\ UNCHANGED <<catalogue, collection, configured, happened, unvouched>>

\* The texts are embedded (module Requests).  Without chunks there is nothing to
\* embed or to store.
EmbedChunks ==
    /\ sweeper.at = "embed"
    /\ \/ To(IF sweeper.left = {} THEN "mark" ELSE "ensure") /\ UNCHANGED <<stamps, happened>>
       \/ /\ sweeper.left # {} /\ Happens
          /\ Backoff(sweeper.cur) /\ sweeper' = Back
    /\ UNCHANGED <<catalogue, collection, configured, unvouched>>

\* ensure_collection_uncached: a missing collection is created.
Create == IF collection = NoCollection THEN [NoCollection EXCEPT !.size = sweeper.model]
          ELSE collection

\* Remembered, or asked for; one of another size is refused.
EnsureCollection ==
    /\ sweeper.at = "ensure"
    /\ \/ sweeper.ensured /\ To("upsert") /\ UNCHANGED <<stamps, collection, happened>>
       \/ /\ ~sweeper.ensured
          /\ collection' = Create /\ UNCHANGED happened
          /\ IF collection'.size = sweeper.model
             THEN sweeper' = [sweeper EXCEPT !.at = "upsert", !.ensured = TRUE] /\ UNCHANGED stamps
             ELSE Backoff(sweeper.cur) /\ sweeper' = Back
       \/ /\ ~sweeper.ensured /\ Happens
          /\ Backoff(sweeper.cur) /\ sweeper' = Back /\ UNCHANGED collection
    /\ UNCHANGED <<catalogue, configured, unvouched>>

\* Mutant of Forgotten: what is remembered is never doubted.
Forgotten_Never(s) == s

\* A 404 is the end of what was remembered.
Forgotten(s) == IF collection = NoCollection THEN [s EXCEPT !.ensured = FALSE] ELSE s

\* One batch of points, which Qdrant refuses without a collection.
UpsertBatch ==
    LET p == sweeper.cur IN
    /\ sweeper.at = "upsert"
    /\ \/ /\ collection # NoCollection
          /\ \E s \in sweeper.left :
               LET pt == [paper |-> p, seq |-> s, edition |-> sweeper.edition,
                          model |-> sweeper.model]
               IN  /\ collection' = [collection EXCEPT !.points =
                         {q \in @ : q.paper # p \/ q.seq # s} \cup {pt}]
                   /\ sweeper' = [sweeper EXCEPT !.left = @ \ {s},
                                     !.at = IF sweeper.left = {s} THEN "mark" ELSE "upsert"]
          /\ UNCHANGED <<stamps, happened>>
       \/ /\ collection = NoCollection
          /\ Backoff(p) /\ sweeper' = Forgotten(Back) /\ UNCHANGED <<collection, happened>>
       \/ Happens /\ Backoff(p) /\ sweeper' = Back /\ UNCHANGED collection
    /\ UNCHANGED <<catalogue, configured, unvouched>>

\* Mutant of Marked: the model of the file as it is now.
Marked_AnyModel(p) == [stamps EXCEPT ![p].model = configured, ![p].waits = FALSE]

\* mark_vectors_done.
Marked(p) == [stamps EXCEPT ![p].model = sweeper.model, ![p].waits = FALSE]

MarkDone ==
    LET p == sweeper.cur IN
    /\ sweeper.at = "mark"
    /\ stamps' = IF stamps[p] = NoStamp THEN stamps ELSE Marked(p)
    /\ unvouched' = IF collection = NoCollection /\ Seqs[sweeper.edition] # {} THEN unvouched
                    ELSE unvouched \ {p}
    /\ sweeper' = Back
    /\ UNCHANGED <<catalogue, collection, configured, happened>>

\* deindex_paper: the points, if Qdrant answers; and the row.
DeletePoints ==
    /\ sweeper.at = "delete"
    /\ \/ collection' = [collection EXCEPT !.points = {q \in @ : q.paper # sweeper.cur}]
          /\ sweeper' = Forgotten([sweeper EXCEPT !.at = "remove"]) /\ UNCHANGED happened
       \/ Happens /\ To("remove") /\ UNCHANGED collection
    /\ UNCHANGED <<catalogue, stamps, configured, unvouched>>

RemoveRow ==
    /\ sweeper.at = "remove"
    /\ stamps' = [stamps EXCEPT ![sweeper.cur] = NoStamp] /\ unvouched' = unvouched \ {sweeper.cur}
    /\ sweeper' = Back
    /\ UNCHANGED <<catalogue, collection, configured, happened>>

----------------------------------------------------------------------------
(* `index rebuild --vectors-only`, with no server beside it.               *)

Rebuilding ==
    /\ sweeper.at = "down" /\ Happens
    /\ sweeper' = Boot(TRUE)
    /\ UNCHANGED <<catalogue, stamps, collection, configured, unvouched>>

Unstamp ==
    /\ sweeper.at = "clear" /\ To("recreate")
    /\ stamps' = [p \in Embedded |-> [stamps[p] EXCEPT !.model = "none", !.waits = FALSE]]
    /\ UNCHANGED <<catalogue, collection, configured, happened, unvouched>>

\* recreate_collection: deleted, and created with the size configured.
Recreated ==
    /\ sweeper.at = "recreate"
    /\ \/ collection' = [NoCollection EXCEPT !.size = sweeper.model]
          /\ sweeper' = [sweeper EXCEPT !.at = "idle", !.ensured = TRUE] /\ UNCHANGED happened
       \/ Happens /\ sweeper' = Down /\ collection' \in {collection, NoCollection}
    /\ UNCHANGED <<catalogue, stamps, configured, unvouched>>

----------------------------------------------------------------------------

\* Edits, the trash, purges.
Revise(p) ==
    /\ Happens
    /\ \/ /\ catalogue[p].at = "live"
          /\ \E v \in Editions : /\ v > catalogue[p].edition
                                /\ catalogue' = [catalogue EXCEPT ![p].edition = v]
       \/ \E at \in {"live", "trashed", "gone"} :
            /\ <<catalogue[p].at, at>> \in {<<"live", "trashed">>, <<"trashed", "live">>, <<"trashed", "gone">>}
            /\ catalogue' = [catalogue EXCEPT ![p].at = at]
    /\ UNCHANGED <<stamps, collection, configured, sweeper, unvouched>>

Reconfigure ==
    /\ Happens /\ configured' = CHOOSE m \in Models : m # configured
    /\ UNCHANGED <<catalogue, stamps, collection, sweeper, unvouched>>

\* A death after the points were deleted and before the row is leaves a stamp that
\* vouches for nothing, should the paper be restored (SearchIndex counts it as Rare).
Halt ==
    /\ sweeper.at # "down" /\ Happens /\ sweeper' = Down
    /\ unvouched' = unvouched \cup IF sweeper.at = "remove" THEN {sweeper.cur} ELSE {}
    /\ UNCHANGED <<catalogue, stamps, collection, configured>>

Serve ==
    /\ sweeper.at = "down" /\ sweeper' = Boot(FALSE)
    /\ UNCHANGED <<catalogue, stamps, collection, configured, happened, unvouched>>

\* Qdrant starts again on a fresh volume, or the collection is dropped.
LoseCollection ==
    /\ collection # NoCollection /\ Happens /\ collection' = NoCollection
    /\ unvouched' = unvouched \cup {p \in Embedded : stamps[p] # NoStamp}
    /\ UNCHANGED <<catalogue, stamps, configured, sweeper>>

VecBackoffEnds(p) ==
    /\ stamps[p].waits /\ stamps' = [stamps EXCEPT ![p].waits = FALSE]
    /\ UNCHANGED <<catalogue, collection, configured, sweeper, happened, unvouched>>

Sweeping ==
    \/ PlanVectors \/ EndSweep \/ ExtractChunks \/ EmbedChunks \/ EnsureCollection
    \/ UpsertBatch \/ MarkDone \/ DeletePoints \/ RemoveRow \/ Unstamp \/ Recreated \/ Serve
    \/ \E p \in Embedded : NextPaper(p)

VectorsNext ==
    \/ Sweeping \/ Rebuilding \/ Reconfigure \/ Halt \/ LoseCollection
    \/ \E p \in Embedded : Revise(p) \/ VecBackoffEnds(p)

\* The sweeps go on, a server that died is started again, and time passes.
VectorsSpec ==
    /\ VectorsInit /\ [][VectorsNext]_vectorsVars
    /\ WF_vectorsVars(Sweeping) /\ \A p \in Embedded : WF_vectorsVars(VecBackoffEnds(p))

----------------------------------------------------------------------------
(* Properties.                                                             *)

VectorsTypeOK ==
    /\ catalogue \in [Embedded -> [at : {"live", "trashed", "gone"}, edition : Editions]]
    /\ stamps \in [Embedded -> [edition : Editions \cup {NoEdition}, model : Models \cup {"none"},
                                waits : BOOLEAN]]
    /\ collection.size \in Models \cup {"none"} /\ configured \in Models
    /\ sweeper.model \in Models /\ sweeper.ensured \in BOOLEAN
    /\ unvouched \subseteq Embedded /\ happened <= MaxHappenings

\* A stamp vouches for every point: a live paper stamped with the model in use has
\* the points of all its chunks, as that model embeds the edition stamped, unless
\* the collection was lost since; and all points are of the collection's size.
Vouched ==
    /\ \A q \in collection.points : q.model = collection.size
    /\ \A p \in LiveOnes \ unvouched :
         stamps[p].model = sweeper.model =>
           \/ PointsOf(p, stamps[p].edition, stamps[p].model) \subseteq collection.points
           \/ sweeper.cur = p /\ sweeper.at \in {"delete", "remove"}

\* The tier comes back: however often the collection is lost and requests fail,
\* every live paper ends up stamped and, if it was not stamped before the loss,
\* there; unless the collection has the size of another configuration, which
\* `index rebuild` is there for.
VectorsReturn ==
    <>[](\/ collection.size \in Models \ {sweeper.model}
         \/ \A p \in LiveOnes : ~StaleTier(p))
=============================================================================
