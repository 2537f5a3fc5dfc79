--------------------------- MODULE Answers_proofs ---------------------------
(***************************************************************************)
(* Proofs about all that the server answers and the browser shows, in the  *)
(* composition: the components share no state, so their invariants, of     *)
(* Screen_proofs and of Outside_proofs, hold of it side by side.           *)
(***************************************************************************)
EXTENDS MCAnswers, Screen_proofs, Outside_proofs

----------------------------------------------------------------------------
(* What the user does with the papers.                                     *)

LibraryInv == ShelfInv /\ CommandsInv

LEMMA LibraryInvNext == LibraryInv /\ [AnswersNext]_answersVars => LibraryInv'
<1> SUFFICES ASSUME LibraryInv, [AnswersNext]_answersVars
             PROVE  LibraryInv'
  OBVIOUS
<1>1. [ShelfNext]_shelfVars
  BY DEF AnswersNext, answersVars, serverVars
<1>2. [CommandsNext]_commandsVars
  BY DEF AnswersNext, answersVars, serverVars
<1> QED
  BY <1>1, <1>2, ShelfInvNext, CommandsInvNext DEF LibraryInv

\* The tags, names and stars somebody was told are on a paper are there; a tag is on
\* a paper or about to be, unless the second statement of the request that created or
\* unlinked it failed or was never reached; and the numbers beside projects and tags
\* are those of the papers listed (db.rs).  A command destroys what was agreed to, robs
\* no paper of its file, accounts for each paper it was to purge, and leaves no file
\* but one that could not be removed (main.rs).
THEOREM LibraryHoldsAlways == AnswersSpec => []LibraryHolds
<1>1. AnswersInit => LibraryInv
  BY ShelfInvInit, CommandsInvInit DEF AnswersInit, LibraryInv
<1>2. LibraryInv => LibraryHolds
  BY ShelfInvHolds, CommandsInvHolds DEF LibraryInv, LibraryHolds
<1> QED
  BY <1>1, <1>2, LibraryInvNext, PTL DEF AnswersSpec

----------------------------------------------------------------------------
(* All the screen.                                                         *)

ScreenInv == PreviewInv /\ ViewInv /\ QueueInv /\ PanelInv

LEMMA ScreenInvNext == ScreenInv /\ [AnswersNext]_answersVars => ScreenInv'
<1> SUFFICES ASSUME ScreenInv, [AnswersNext]_answersVars
             PROVE  ScreenInv'
  OBVIOUS
<1>1. [PreviewNext]_previewVars
  BY DEF AnswersNext, answersVars, serverVars
<1>2. [ViewNext]_viewVars
  BY DEF AnswersNext, answersVars, browserVars
<1>3. [ImportQueueNext]_queueVars
  BY DEF AnswersNext, answersVars, browserVars
<1>4. [ChatPanelNext]_panelVars
  BY DEF AnswersNext, answersVars, browserVars
<1> QED
  BY <1>1, <1>2, <1>3, <1>4, PreviewInvNext, ViewInvNext, QueueInvNext, PanelInvNext DEF ScreenInv

\* What the reader sees is what there is, but for the overlaps each history names:
\* page images, unless two renders wrote one page at a time or the path changed hands
\* (`mixed`, preview/cache.rs:49); rows and details of the library, once their writes
\* have settled and a read that met one was repeated (`doubt`, library.svelte.ts:142);
\* the rows of the import dialog, which no job is left to wait in, unless it was
\* queued as the drain reloaded the list (`missed`, importQueue.svelte.ts:109); the
\* conversation and the texts of the chat, unless a list met a reply, or a clearing or
\* a failed send came back to another paper or a text typed since (`apart`,
\* chat.svelte.ts:78, 153, 171).
THEOREM ScreenHoldsAlways == AnswersSpec => []ScreenHolds
<1>1. AnswersInit => ScreenInv
  BY PreviewInvInit, ViewInvInit, QueueInvInit, PanelInvInit DEF AnswersInit, ScreenInv
<1>2. ScreenInv /\ [AnswersNext]_answersVars => ScreenInv'
  BY ScreenInvNext
<1>3. ScreenInv => ScreenHolds
  BY ViewInvAgrees, QueueInvHolds, PanelInvHolds
     DEF ScreenInv, ScreenHolds, PreviewInv, PreviewsHold
<1> QED
  BY <1>1, <1>2, <1>3, PTL DEF AnswersSpec

----------------------------------------------------------------------------
(* The services outside.                                                   *)

OutsideInv == ImportInv /\ RefInv /\ RequestsInv

LEMMA OutsideInvNext == OutsideInv /\ [AnswersNext]_answersVars => OutsideInv'
<1> SUFFICES ASSUME OutsideInv, [AnswersNext]_answersVars
             PROVE  OutsideInv'
  OBVIOUS
<1>1. [ImportNext]_importVars
  BY DEF AnswersNext, answersVars, serverVars
<1>2. [RefNext]_refVars
  BY DEF AnswersNext, answersVars, serverVars
<1>3. [RequestsNext]_requestVars
  BY DEF AnswersNext, answersVars, serverVars
<1> QED
  BY <1>1, <1>2, <1>3, ImportInvNext, RefInvNext, RequestsInvNext DEF OutsideInv

LEMMA OutsideInvInit == AnswersInit => OutsideInv
  BY ImportInvInit, RefInvInit, RequestsInvInit DEF AnswersInit, OutsideInv

\* Dealings with the services outside hold (import.rs, citations/, http.rs, llm.rs,
\* translate/, chunker.rs, embedder.rs): a cookie goes nowhere but to the proxy, what
\* a failed import says is so, and a staged copy goes with its request, unless the
\* request was cut, the disk was full or the removal refused; a model is asked once for
\* a bibliography; whoever waits does so no longer than the policy lets him, every
\* chunk of a paper comes back with its own vector, if the embedder puts on each the
\* index of its text, and a translation from the provider asked for.
THEOREM OutsideHoldsAlways == AnswersSpec => []OutsideHolds
<1>1. AnswersInit => OutsideInv
  BY OutsideInvInit
<1>2. OutsideInv /\ [AnswersNext]_answersVars => OutsideInv'
  BY OutsideInvNext
<1>3. OutsideInv => OutsideHolds
  BY ImportInvHolds, RefInvHolds, RequestsInvHolds DEF OutsideInv, OutsideHolds
<1> QED
  BY <1>1, <1>2, <1>3, PTL DEF AnswersSpec

\* While a bibliography stays the same, no parse of the heuristics replaces an entry
\* that came from the model, or from nobody knows where (citations/mod.rs, db.rs).
THEOREM KeepsTheBetterHolds == AnswersSpec => KeepsTheBetter
<1> DEFINE Stays == \A i \in DOMAIN stored.parsed :
                      (stored'.bib.entries = stored.bib.entries
                       /\ stored.parsed[i].src \in {"llm", "unknown"})
                          => stored'.parsed[i] = stored.parsed[i]
<1>1. AnswersInit => OutsideInv
  BY OutsideInvInit
<1>2. OutsideInv /\ [AnswersNext]_answersVars => OutsideInv'
  BY OutsideInvNext
<1>3. OutsideInv /\ [AnswersNext]_answersVars => [Stays]_refVars
  <2>1. [AnswersNext]_answersVars => [RefNext]_refVars
    BY DEF AnswersNext, answersVars, serverVars
  <2>2. RefInv /\ [RefNext]_refVars => Stays
    BY RefStepKeepsTheBetter
  <2> QED
    BY <2>1, <2>2 DEF OutsideInv
<1> QED
  BY <1>1, <1>2, <1>3, PTL DEF AnswersSpec, KeepsTheBetter

----------------------------------------------------------------------------
(* Searches and metadata, among the rest.                                  *)

FoundInv == QueryInv /\ ResolvingInv

LEMMA FoundInvInit == AnswersInit => FoundInv
BY QueryInvInit, ResolvingInvInit DEF AnswersInit, FoundInv

LEMMA FoundInvNext == FoundInv /\ [AnswersNext]_answersVars => FoundInv'
<1> SUFFICES ASSUME FoundInv, [AnswersNext]_answersVars
             PROVE  FoundInv'
  OBVIOUS
<1>1. [QueryNext]_queryVars
  BY DEF AnswersNext, answersVars, serverVars
<1>2. [ResolvingNext]_resolvingVars
  BY DEF AnswersNext, answersVars, serverVars
<1> QED
  BY <1>1, <1>2, QueryInvNext, ResolvingInvNext DEF FoundInv

\* Of all that the server answers and the browser shows at once, too: what a search
\* answers is what was typed demands, was found by an engine and misses nothing within
\* the limits (search/); what is filed of a page is of a record as like it as the gates
\* ask, and nothing liker was passed over (identify.rs, resolve/).
THEOREM AnswersFoundHold == AnswersSpec => [](SearchHolds /\ MetadataHolds)
<1>1. FoundInv => SearchHolds /\ MetadataHolds
  BY QueryInvHolds, ResolvingInvHolds DEF FoundInv
<1> QED
  BY <1>1, FoundInvInit, FoundInvNext, PTL DEF AnswersSpec

\* Each component's state stays of its type.
THEOREM AnswersTypesHold == AnswersSpec => []AnswersTypeOK
<1> DEFINE I == /\ LibraryInv /\ ScreenInv /\ OutsideInv /\ FoundInv /\ ViewTyped
<1>1. AnswersInit => I
  BY ShelfInvInit, CommandsInvInit, PreviewInvInit, ViewInvInit, QueueInvInit, PanelInvInit,
     OutsideInvInit, FoundInvInit, ViewTypedInit DEF AnswersInit, LibraryInv, ScreenInv
<1>2. I /\ [AnswersNext]_answersVars => I'
  <2>1. [AnswersNext]_answersVars => [ViewNext]_viewVars
    BY DEF AnswersNext, answersVars, browserVars
  <2>2. ViewInv /\ ViewTyped /\ [ViewNext]_viewVars => ViewTyped'
    BY ViewTypedNext
  <2>3. I /\ [AnswersNext]_answersVars => ViewTyped'
    BY <2>1, <2>2 DEF ScreenInv
  <2> QED
    BY <2>3, LibraryInvNext, ScreenInvNext, OutsideInvNext, FoundInvNext
<1>3. I => AnswersTypeOK
  <2> SUFFICES ASSUME LibraryInv, ScreenInv, OutsideInv, FoundInv, ViewTyped
               PROVE  AnswersTypeOK
    OBVIOUS
  <2>1. ShelfTypeOK /\ CommandsTypeOK
    BY DEF LibraryInv, ShelfInv, CommandsInv, CommandTypeInv
  <2>2. PreviewTypeOK /\ ViewTypeOK /\ ImportQueueTypeOK /\ ChatPanelTypeOK
    BY ViewIsTyped, PanelIsTyped DEF ScreenInv, PreviewInv, QueueInv
  <2>3. ImportTypeOK /\ RefTypeOK /\ RequestsTypeOK
    BY ImportInvHolds, RefInvHolds, RequestsInvHolds DEF OutsideInv
  <2>4. QueryTypeOK /\ ResolvingTypeOK
    BY QueryInvHolds, ResolvingInvHolds DEF FoundInv
  <2> QED
    BY <2>1, <2>2, <2>3, <2>4 DEF AnswersTypeOK
<1> QED
  BY <1>1, <1>2, <1>3, PTL DEF AnswersSpec

=============================================================================
