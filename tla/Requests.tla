------------------------------ MODULE Requests ------------------------------
(***************************************************************************)
(* What is asked of language models and translators (http.rs, llm.rs,      *)
(* translate/, search/embedder.rs, search/chunker.rs): every request goes  *)
(* through one transport that tries again what may pass.  A paper's text   *)
(* is cut into chunks, and the chunks are embedded a batch at a time; a    *)
(* selection is translated by one of two providers.  Time is counted in    *)
(* half seconds.                                                           *)
(***************************************************************************)
EXTENDS Naturals, Sequences, SequencesExt, Listing

CONSTANTS
    Texts,          \* papers to embed: whether there is a title or abstract, and the pages
    TARGET_CHARS, OVERLAP_CHARS,
    BATCH,          \* texts in a request to the embedder
    RetryPolicy,    \* llm and interactive: attempts, base, max_delay, retry_after_cap
    Timeout,        \* of each client: embed, llm, deepl
    RetryAfters     \* the seconds a busy service may put in Retry-After

ASSUME RequestsAssumption ==
    /\ {TARGET_CHARS, OVERLAP_CHARS, BATCH} \subseteq Nat \ {0}
    /\ OVERLAP_CHARS < TARGET_CHARS /\ RetryAfters \subseteq Nat
    /\ Texts \subseteq [summary : BOOLEAN,
                         pages : Seq(Seq([text : Seq(Nat), stops : SUBSET Nat]))]
    /\ {RetryPolicy.llm, RetryPolicy.interactive} \subseteq
           [attempts : Nat \ {0}, base : Nat, max_delay : Nat, retry_after_cap : Nat]
    /\ Timeout \in [{"embed", "llm", "deepl"} -> Nat]

\* RetryPolicy::interactive, and the timeout of DeepL's client: what the reader
\* waits for is bounded by numbers the code has.
ASSUME InteractiveAssumption ==
    /\ RetryPolicy.interactive =
           [attempts |-> 2, base |-> 1, max_delay |-> 4, retry_after_cap |-> 4]
    /\ Timeout.deepl = 60

Providers == {"llm", "deepl"}

VARIABLES
    providers,   \* the translators configured
    preferred,   \* [translate] provider, or "none"
    call         \* what is being asked, and what came of it

requestVars == <<providers, preferred, call>>

----------------------------------------------------------------------------
(* Chunks.  A page is a sequence of paragraphs; a text is the sequence of  *)
(* the places its characters have on the page, and 0 is a line break.  A   *)
(* paragraph tells where its sentences end.                                *)

\* split_long: a piece ends with the last sentence that ends within the limit,
\* but for one that ends at its first character, or at the limit.  The pieces are those of the last `left` characters.
SplitLong(text, stops) ==
    LET pieces[left \in 0 .. Len(text)] ==
            LET from == Len(text) - left
                within == {n \in from + 2 .. from + TARGET_CHARS - 1 : text[n] \in stops}
                cut == IF within = {} THEN from + TARGET_CHARS ELSE Max(within)
            IN  IF left <= TARGET_CHARS THEN <<SubSeq(text, from + 1, Len(text))>>
                ELSE <<SubSeq(text, from + 1, cut)>> \o pieces[Len(text) - cut]
    IN  pieces[Len(text)]

Break == <<0, 0>>

TrimStart(text) ==
    LET kept == {n \in DOMAIN text : text[n] # 0}
    IN  IF kept = {} THEN <<>> ELSE SubSeq(text, Min(kept), Len(text))

OverlapTail(text) ==
    TrimStart(SubSeq(text, IF Len(text) > OVERLAP_CHARS THEN Len(text) - OVERLAP_CHARS + 1 ELSE 1,
                     Len(text)))

\* Mutants of Packed: the limit is looked at when the piece is in; what is in
\* hand is cut to its tail without being kept.
Packed_Late(acc, piece) ==
    IF Len(acc.cur) > TARGET_CHARS
    THEN [done |-> Append(acc.done, acc.cur), cur |-> OverlapTail(acc.cur) \o Break \o piece]
    ELSE [acc EXCEPT !.cur = IF @ = <<>> THEN piece ELSE @ \o Break \o piece]
Packed_Loses(acc, piece) ==
    [acc EXCEPT !.cur =
        IF @ = <<>> THEN piece
        ELSE (IF Len(@) + Len(piece) + 2 > TARGET_CHARS THEN OverlapTail(@) ELSE @)
             \o Break \o piece]

\* A piece that does not fit closes the chunk, whose tail starts the next.
Packed(acc, piece) ==
    LET full == acc.cur # <<>> /\ Len(acc.cur) + Len(piece) + 2 > TARGET_CHARS
        cur == IF full THEN OverlapTail(acc.cur) ELSE acc.cur
    IN  [done |-> IF full THEN Append(acc.done, acc.cur) ELSE acc.done,
         cur |-> IF cur = <<>> THEN piece ELSE cur \o Break \o piece]

PiecesOf(paras) ==
    LET upto[k \in 0 .. Len(paras)] ==
            IF k = 0 THEN <<>> ELSE upto[k - 1] \o SplitLong(paras[k].text, paras[k].stops)
    IN  upto[Len(paras)]

PackedOf(pieces) ==
    LET after[k \in 0 .. Len(pieces)] ==
            IF k = 0 THEN [done |-> <<>>, cur |-> <<>>] ELSE Packed(after[k - 1], pieces[k])
    IN  after[Len(pieces)]

ChunkPage(paras) ==
    LET packed == PackedOf(PiecesOf(paras))
    IN  packed.done \o (IF packed.cur = <<>> THEN <<>> ELSE <<packed.cur>>)

OnPage(k, texts) == [n \in 1 .. Len(texts) |-> [page |-> k, text |-> texts[n]]]

BodyOf(pages) ==
    LET upto[k \in 0 .. Len(pages)] ==
            IF k = 0 THEN <<>> ELSE upto[k - 1] \o OnPage(k, ChunkPage(pages[k]))
    IN  upto[Len(pages)]

\* chunk_paper: title and abstract first, then the chunks of page after page.
ChunkPaper(t) ==
    LET body == BodyOf(t.pages)
        numbered == [n \in 1 .. Len(body) |->
                        [seq |-> n, page |-> body[n].page, text |-> body[n].text]]
    IN  (IF t.summary THEN <<[seq |-> 0, page |-> 0, text |-> <<>>]>> ELSE <<>>) \o numbered

----------------------------------------------------------------------------
(* The transport.                                                          *)

Policy(kind) == IF kind = "deepl" THEN RetryPolicy.interactive ELSE RetryPolicy.llm

\* Mutant of IsRetryable: one of the passing conditions is forgotten.
IsRetryable_NotBusy(reply) == reply \in {"unreachable", "timeout", "limited"}

\* 429 and the transient 5xx; a connection or a timeout that fails the sending.
IsRetryable(reply) == reply \in {"unreachable", "timeout", "limited", "busy"}

\* Mutant of DelayFor: the server's wish is granted.
DelayFor_AsAsked(policy, attempt, after) ==
    IF after # <<>> THEN after[1] ELSE Min({policy.base * 2 ^ attempt, policy.max_delay})

Doubled[n \in 0 .. 16] == IF n = 0 THEN 1 ELSE 2 * Doubled[n - 1]

\* What Retry-After says, if it says anything, be it 0; up to a limit.  Else the
\* back-off doubles with every attempt, and has its own limit.
DelayFor(policy, attempt, after) ==
    IF after # <<>> THEN Min({after[1], policy.retry_after_cap})
    ELSE Min({policy.base * Doubled[Min({attempt, 16})], policy.max_delay})

\* Mutant of LastTry: one attempt more.
LastTry_OneMore(c) == c.attempt >= Policy(c.kind).attempts

LastTry(c) == c.attempt + 1 >= Policy(c.kind).attempts

NoCall == [at |-> "idle", kind |-> "none", chunks |-> <<>>, todo |-> <<>>, out |-> <<>>,
           attempt |-> 0, sent |-> 0, waited |-> 0, reply |-> "none", asked |-> "none",
           answer |-> "none",
           misled |-> FALSE]     \* misled, history: an index was not its text's

Result(answer) == [call EXCEPT !.at = "done", !.answer = answer]

\* One turn of send_text's loop, as the reply has it.  A body that breaks off is
\* not asked for again.
Send ==
    /\ call.at = "send"
    /\ \E reply \in {"ok", "torn", "refused", "limited", "busy", "unreachable", "timeout"},
          after \in {<<>>} \cup {<<a>> : a \in RetryAfters} :
         LET sent == [call EXCEPT !.sent = @ + 1, !.reply = reply,
                          !.waited = @ + IF reply = "timeout" THEN Timeout[call.kind] ELSE 0]
         IN
         /\ reply \notin {"limited", "busy"} => after = <<>>
         /\ call' =
              IF reply = "ok" THEN [sent EXCEPT !.at = "read"]
              ELSE IF ~IsRetryable(reply) \/ LastTry(call)
              THEN [sent EXCEPT !.at = "done", !.answer = "failed"]
              ELSE [sent EXCEPT !.attempt = @ + 1,
                        !.waited = @ + DelayFor(Policy(call.kind), call.attempt, after)]
    /\ UNCHANGED <<providers, preferred>>

----------------------------------------------------------------------------
(* Embedding.                                                              *)

Ask(kind, todo) == [NoCall EXCEPT !.at = "send", !.kind = kind, !.todo = todo]

\* index_vectors: the texts of the chunks; none, and nothing is asked.
EmbedPaper ==
    /\ call = NoCall
    /\ \E t \in Texts :
         LET chunks == ChunkPaper(t) IN
         call' = IF chunks = <<>> THEN [NoCall EXCEPT !.at = "done", !.answer = "vectors"]
                 ELSE [Ask("embed", chunks) EXCEPT !.chunks = chunks]
    /\ UNCHANGED <<providers, preferred>>

Batch == SubSeq(call.todo, 1, Min({BATCH, Len(call.todo)}))

\* Mutant of VectorsIn: in the order of the reply.
VectorsIn_AsSent(data) == [n \in 1 .. Len(data) |-> data[n].vector]

\* The items sorted by index, those of one index as they came.
VectorsIn(data) ==
    LET places == 1 .. Len(data)
        order == InOrder(places, {mn \in places \X places :
                     \/ data[mn[1]].index < data[mn[2]].index
                     \/ data[mn[1]].index = data[mn[2]].index /\ mn[1] < mn[2]})
    IN  [n \in places |-> data[order[n]].vector]

\* Mutant of WrongCount: not looked at.
WrongCount_Ignored(data) == FALSE

WrongCount(data) == Len(data) # Len(Batch)

\* What the embedder replies: the vectors of the batch's texts, or of all but one,
\* in any order, each with the text's index, or with any.
EmbedderSays ==
    LET Item == [index : 0 .. Len(Batch), vector : ToSet(Batch)]
    IN  {data \in UNION {[1 .. n -> Item] : n \in {Len(Batch) - 1, Len(Batch)}} :
            \A m, n \in DOMAIN data : m # n => data[m].vector # data[n].vector}

\* Every vector has an index of its own, its text's.
WellIndexed(data) ==
    /\ \A n \in DOMAIN data :
         data[n].index \in DOMAIN Batch /\ data[n].vector = Batch[data[n].index]
    /\ \A m, n \in DOMAIN data : data[m].index = data[n].index => m = n

\* embed_batch reads the reply, and embed goes on with the next batch.
ReadVectors ==
    /\ call.at = "read" /\ call.kind = "embed"
    /\ \/ call' = Result("failed")      \* not of this shape, or of another dimension
       \/ \E data \in EmbedderSays :
            LET rest == SubSeq(call.todo, Len(Batch) + 1, Len(call.todo))
                got == [call EXCEPT !.out = @ \o VectorsIn(data), !.todo = rest,
                            !.attempt = 0, !.sent = 0, !.waited = 0,
                            !.misled = @ \/ ~WellIndexed(data)]
            IN  call' = IF WrongCount(data) THEN Result("failed")
                        ELSE IF rest # <<>> THEN [got EXCEPT !.at = "send"]
                        ELSE [got EXCEPT !.at = "done", !.answer = "vectors"]
    /\ UNCHANGED <<providers, preferred>>

\* The points: each chunk with the vector in its place.
Points ==
    {[chunk |-> call.chunks[n], vector |-> call.out[n]] :
        n \in 1 .. Min({Len(call.chunks), Len(call.out)})}

----------------------------------------------------------------------------
(* Translation.                                                            *)

\* Mutant of DefaultProvider: the preference is followed whether or not it is
\* there to follow.
DefaultProvider_AsConfigured ==
    IF preferred # "none" THEN preferred ELSE IF "llm" \in providers THEN "llm" ELSE "deepl"

DefaultProvider ==
    IF preferred \in providers THEN preferred
    ELSE IF "llm" \in providers THEN "llm" ELSE "deepl"

\* POST /api/translate, by the provider asked for or by default.  The key of
\* DeepL is looked for when it is used.
Translate ==
    /\ call = NoCall
    /\ \E asked \in Providers \cup {"none", "other"} :
         LET p == IF asked = "none" THEN DefaultProvider ELSE asked
             c == [Ask(p, <<>>) EXCEPT !.asked = asked]
             ends(answer) == call' = [c EXCEPT !.at = "done", !.answer = answer]
         IN  IF providers = {} THEN ends("unavailable")
             ELSE IF asked = "other" THEN ends("bad_request")
             ELSE IF p \notin providers THEN ends("not_configured")
             ELSE \/ call' = c
                  \/ p = "deepl" /\ ends("failed")
    /\ UNCHANGED <<providers, preferred>>

\* The reply has the translation, or has not its shape.
ReadTranslation ==
    /\ call.at = "read" /\ call.kind \in Providers
    /\ \/ call' = Result("translated")
       \/ call' = Result("failed")
    /\ UNCHANGED <<providers, preferred>>

RequestsInit ==
    /\ providers \in SUBSET Providers /\ preferred \in Providers \cup {"none"}
    /\ call = NoCall

RequestsNext == EmbedPaper \/ Translate \/ Send \/ ReadVectors \/ ReadTranslation

RequestsSpec == RequestsInit /\ [][RequestsNext]_requestVars

----------------------------------------------------------------------------
(* Properties.                                                             *)

RequestsTypeOK ==
    /\ providers \subseteq Providers /\ preferred \in Providers \cup {"none"}
    /\ call.kind \in Providers \cup {"embed", "other", "none"}
    /\ call.at \in {"idle", "send", "read", "done"}
    /\ call.sent \in Nat /\ call.waited \in Nat /\ call.attempt \in Nat

\* Whoever waits for an answer waits no longer than the policy lets him, however
\* slow the service is and however long it asks to be left alone; and is told
\* of a failure only when trying again was of no use, or was done.
Patience ==
    LET p == Policy(call.kind) IN
    call.kind \in Providers \cup {"embed"} =>
      /\ call.sent <= p.attempts
      /\ call.waited <= call.sent * Timeout[call.kind]
                        + (p.attempts - 1) * Max({p.max_delay, p.retry_after_cap})
      /\ call.kind = "deepl" => call.waited <= 124       \* 62 seconds, with a reader waiting
      /\ call.at = "done" /\ call.answer = "failed" /\ call.reply \in {"limited", "busy",
           "timeout", "unreachable"} => call.sent = p.attempts

\* All of a paper is embedded, as itself: every character is in a chunk of its
\* page, no chunk is much over the target, and each chunk's point carries the
\* vector of that chunk, in whatever order the vectors came; unless the embedder
\* put another index than its text's on one, for only their number is checked.
AllEmbedded ==
    call.kind = "embed" /\ call.answer = "vectors" =>
      /\ ~call.misled => Points = {[chunk |-> c, vector |-> c] : c \in ToSet(call.chunks)}
      /\ \A c \in ToSet(call.chunks) : Len(c.text) <= TARGET_CHARS + OVERLAP_CHARS + 2
      /\ \E t \in Texts :
           /\ call.chunks = ChunkPaper(t)
           /\ \A k \in 1 .. Len(t.pages) : \A para \in ToSet(t.pages[k]) :
                ToSet(para.text) \subseteq
                  UNION {ToSet(c.text) : c \in {d \in ToSet(call.chunks) : d.page = k}}

\* A translation comes from the provider asked for; "not configured" is the
\* answer only of who asked for one that is not there.
ProviderAsAsked ==
    call.kind \in Providers \cup {"other"} =>
      /\ call.answer = "translated" => call.kind \in providers
      /\ call.answer = "translated" /\ call.asked # "none" => call.kind = call.asked
      /\ call.answer = "not_configured" => call.asked \in Providers \ providers

\* What is asked of the services is asked with patience, and comes back whole.
RequestsHold == Patience /\ AllEmbedded /\ ProviderAsAsked
=============================================================================
