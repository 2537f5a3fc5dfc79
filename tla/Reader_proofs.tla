--------------------------- MODULE Reader_proofs ----------------------------
(***************************************************************************)
(* Proofs about what a user does at an open paper, the annotations and the *)
(* turns with the agent: about AnnotationSync, for any marks, contents,    *)
(* sessions, number of actions and of lost requests, and about Turns, for  *)
(* any number of turns on the paper and of deaths of the server and failed *)
(* writes.                                                                 *)
(***************************************************************************)
EXTENDS AnnotationSync, Turns, SequenceTheorems, WellFoundedInduction, TLAPS

----------------------------------------------------------------------------
(* The annotations.                                                        *)

Own == Marks \ Baked
Last(q) == q[Len(q)]

\* The line of the present session, or of the last one.
Present(m) == line[tab.session][m]
Loading == tab.open /\ load[tab.session].at # "none"

\* A mark the sync accounts for: an earlier session has no part in it, and it
\* was not touched while the list that has replaced the cache was on its way.
Tracked(m) ==
    "overlap" \notin excuse[m] /\ ("touched" \in excuse[m] => Loading)

\* A session that is over has no request out but where the excuse says so, and
\* an answered request of the present one has made the row.
Lines(m) ==
    /\ \A s \in Sessions :
         /\ s > tab.session => line[s][m] = Quiescent
         /\ line[s][m].out = NoRequest => line[s][m].queue = <<>>
         /\ line[s][m].out # NoRequest /\ s # tab.session => "overlap" \in excuse[m]
    /\ tab.session # 0 =>
         LET r == Present(m).out IN
         r # NoRequest /\ r.at = "done" /\ "overlap" \notin excuse[m] => server[m] = r.body

\* An id the plugin has not minted is nowhere.
Unminted(m) ==
    m \notin minted =>
        /\ server[m] = None /\ cache.rows[m] = None /\ page[m] = None
        /\ \A s \in Sessions : /\ line[s][m] = Quiescent
                               /\ load[s].at = "read" => load[s].rows[m] = None

\* What the tab holds of a mark of the user's: it owns the marks on its page, and
\* has nothing of one it has not learned of.
InTab(m) ==
    tab.open =>
        /\ page[m] # None <=> m \in tab.owned
        /\ m \in tab.timers => m \in tab.owned
        /\ m \in tab.known => seen[m] = page[m]
        /\ m \notin tab.known => page[m] = None /\ tab.erased[m] = None /\ Present(m) = Quiescent

\* While the list is on its way, an untouched mark is unknown, and its row is as
\* the list has it.
Listed(m) ==
    Loading /\ "overlap" \notin excuse[m] /\ "touched" \notin excuse[m] =>
        /\ m \notin tab.known
        /\ load[tab.session].at = "read" => load[tab.session].rows[m] = server[m]

\* The last word of an open tab's line is what the page shows; when it has been
\* said, and nothing failed, the row, the cache and the page agree.
EndsAs(m) ==
    tab.open /\ m \in tab.known /\ Tracked(m) =>
        LET l == Present(m) IN
        /\ l.queue # <<>> => (Last(l.queue) = "delete" <=> page[m] = None)
        /\ l.out # NoRequest /\ l.queue = <<>> /\ m \notin tab.timers => l.out.body = page[m]
        /\ l.out = NoRequest /\ "failed" \notin excuse[m] =>
             /\ server[m] = cache.rows[m]
             /\ m \notin tab.timers => page[m] = cache.rows[m]

\* The same of a closed one, whose queue has but deletions left.
Left(m) ==
    ~tab.open /\ m \in tab.known /\ excuse[m] \cap {"overlap", "touched", "cut"} = {} =>
        LET l == Present(m) IN
        /\ \A i \in DOMAIN l.queue : l.queue[i] = "delete"
        /\ l.queue # <<>> => seen[m] = None
        /\ l.out # NoRequest /\ l.queue = <<>> => l.out.body = seen[m]
        /\ l.out = NoRequest /\ "failed" \notin excuse[m] => server[m] = seen[m]

MarkInv(m) ==
    Lines(m) /\ Unminted(m) /\ InTab(m) /\ Listed(m) /\ EndsAs(m) /\ Left(m)

\* A mark of the PDF's has no row, and nothing is on its way to make one.
Foreign(m) ==
    "undone" \notin excuse[m] =>
        /\ server[m] = None /\ cache.rows[m] = None
        /\ m \notin tab.owned /\ m \notin tab.timers
        /\ \A s \in Sessions : /\ line[s][m] = Quiescent
                               /\ load[s].at = "read" => load[s].rows[m] = None

TabInv ==
    /\ Baked \subseteq minted
    /\ tab.session = 0 => ~tab.open /\ tab.known = {}
    /\ ~tab.open => tab.timers = {} /\ page = Empty

AnnotInv ==
    /\ AnnotTypeOK /\ TabInv
    /\ \A m \in Own : MarkInv(m)
    /\ \A m \in Baked : Foreign(m)

----------------------------------------------------------------------------
(* Lines.                                                                  *)

LEMMA Least ==
    ASSUME NEW T \in SUBSET Nat, T # {}
    PROVE  \E x \in T : \A y \in T : x <= y
<1> DEFINE R == OpToRel(<, Nat)
<1>1. IsWellFoundedOn(R, Nat)
  BY NatLessThanWellFounded
<1> HIDE DEF R
<1>2. PICK x \in T : \A y \in T : ~(<<y, x>> \in R)
  BY <1>1, WFMin
<1>3. \A y \in T : y < x => <<y, x>> \in R
  BY DEF R, OpToRel
<1>4. ASSUME NEW y \in T PROVE x <= y
  <2>1. x \in Nat /\ y \in Nat /\ ~(y < x)
    BY <1>2, <1>3
  <2> QED
    BY <2>1
<1> QED
  BY <1>4

\* A line that runs its queue sends an entry of it that has something to send,
\* and keeps what follows: it falls silent only after a write that is not needed.
LEMMA RunLineIs ==
    ASSUME NEW q \in Seq({"write", "delete"}), NEW drawn \in Contents \cup {None}, NEW had
    PROVE  LET l == RunLine(q, drawn, had) IN
           /\ l \in Line
           /\ l.out = NoRequest => l = Quiescent
           /\ l.out # NoRequest => q # <<>> /\ l.out.at = "sent"
           /\ l.queue # <<>> => Last(l.queue) = Last(q) /\ Len(l.queue) < Len(q)
                                /\ Len(l.queue) \in Nat \ {0}
           /\ l.out # NoRequest /\ l.queue = <<>> =>
                  l.out.body = IF Last(q) = "delete" THEN None ELSE drawn
           /\ l.out = NoRequest /\ q # <<>> => Last(q) = "write" /\ ~Needed(drawn, had)
           /\ (\A i \in DOMAIN q : q[i] = "delete") =>
                  \A i \in DOMAIN l.queue : l.queue[i] = "delete"
<1> DEFINE sends == {i \in 1 .. Len(q) : q[i] = "delete" \/ Needed(drawn, had)}
           first == CHOOSE i \in sends : \A j \in sends : i <= j
           sent == IF q[first] = "delete"
                   THEN [op |-> "delete", body |-> None, at |-> "sent"]
                   ELSE [op |-> "put", body |-> drawn, at |-> "sent"]
           rest == SubSeq(q, first + 1, Len(q))
           l == RunLine(q, drawn, had)
<1>q. /\ Len(q) \in Nat /\ DOMAIN q = 1 .. Len(q) /\ (q = <<>> <=> Len(q) = 0)
      /\ \A i \in 1 .. Len(q) : q[i] \in {"write", "delete"}
  BY LenProperties, ElementOfSeq, EmptySeq
<1>i. Quiescent \in Line /\ Quiescent.out = NoRequest /\ Quiescent.queue = <<>>
  BY EmptySeq DEF Quiescent, Line
<1>1. CASE sends = {}
  <2>1. l = Quiescent
    BY <1>1 DEF RunLine
  <2>2. q # <<>> => Len(q) \in 1 .. Len(q)
    BY <1>q
  <2>3. q # <<>> => q[Len(q)] = "write" /\ ~Needed(drawn, had)
    BY <1>q, <1>1, <2>2
  <2> QED
    BY <1>i, <2>1, <2>3 DEF Last
<1>2. CASE sends # {}
  <2>1. first \in sends
    <3>0. sends \in SUBSET Nat
      BY <1>q
    <3> HIDE DEF sends
    <3>1. \E i \in sends : \A j \in sends : i <= j
      BY <1>2, <3>0, Least
    <3> QED
      BY <3>1
  <2>2. l = [out |-> sent, queue |-> rest]
    BY <1>2 DEF RunLine
  <2>3. first \in 1 .. Len(q) /\ (q[first] = "delete" \/ Needed(drawn, had))
    BY <2>1
  <2> HIDE DEF first
  <2>4. sent \in Request /\ sent.at = "sent"
        /\ sent.body = IF q[first] = "delete" THEN None ELSE drawn
    BY DEF Request
  <2>5. /\ rest \in Seq({"write", "delete"})
        /\ Len(rest) = IF first + 1 <= Len(q) THEN Len(q) - first ELSE 0
        /\ \A i \in 1 .. Len(q) - first : rest[i] = q[first + i]
    <3>1. \A i \in first + 1 .. Len(q) : q[i] \in {"write", "delete"}
      BY <1>q, <2>3
    <3>2. first + 1 \in Int /\ Len(q) \in Int
      BY <1>q, <2>3
    <3>3. /\ rest \in Seq({"write", "delete"})
          /\ Len(rest) = IF first + 1 <= Len(q) THEN Len(q) - (first + 1) + 1 ELSE 0
          /\ \A i \in 1 .. Len(q) - (first + 1) + 1 : rest[i] = q[first + 1 + i - 1]
      BY <3>1, <3>2, SubSeqProperties
    <3> QED
      BY <1>q, <2>3, <3>3
  <2>6. /\ rest # <<>> => /\ Len(rest) < Len(q) /\ Len(rest) \in Nat \ {0}
                          /\ rest[Len(rest)] = q[Len(q)]
        /\ rest = <<>> => first = Len(q)
        /\ \A i \in DOMAIN rest : \E j \in DOMAIN q : rest[i] = q[j]
    <3> HIDE DEF rest
    <3>1. Len(rest) \in Nat /\ DOMAIN rest = 1 .. Len(rest) /\ (rest = <<>> <=> Len(rest) = 0)
      BY <2>5, EmptySeq, LenProperties
    <3>a. first \in Nat /\ Len(q) \in Nat /\ first \in 1 .. Len(q)
      BY <1>q, <2>3
    <3>2. PICK n \in Nat, f \in Nat : n = Len(q) /\ f = first /\ f \in 1 .. n
      BY <3>a
    <3>3. CASE rest = <<>>
      <4>1. ~(f + 1 <= n)
        BY <2>5, <3>1, <3>2, <3>3
      <4> QED
        BY <3>1, <3>2, <3>3, <4>1
    <3>4. CASE rest # <<>>
      <4>1. f + 1 <= n /\ Len(rest) = n - f /\ n - f \in 1 .. n - f
        BY <2>5, <3>1, <3>2, <3>4
      <4>2. \A i \in 1 .. n - f : rest[i] = q[f + i] /\ f + i \in 1 .. n
        BY <2>5, <3>2, <4>1
      <4>3. rest[n - f] = q[f + (n - f)] /\ f + (n - f) = n
        BY <3>2, <4>1, <4>2
      <4>4. \A i \in DOMAIN rest : \E j \in DOMAIN q : rest[i] = q[j]
        BY <1>q, <3>1, <3>2, <4>1, <4>2
      <4>5. Len(rest) < Len(q) /\ Len(rest) \in Nat \ {0}
        BY <3>2, <4>1
      <4> QED
        BY <3>2, <3>4, <4>1, <4>3, <4>4, <4>5
    <3> QED
      BY <3>3, <3>4
  <2>7. (\A i \in DOMAIN q : q[i] = "delete") => \A i \in DOMAIN rest : rest[i] = "delete"
    BY <2>6
  <2> HIDE DEF sent, rest, l
  <2>8. l \in Line /\ l.out = sent /\ l.queue = rest /\ l.out # NoRequest
    BY <2>2, <2>4, <2>5, RequestAssumption DEF Line
  <2>9. q # <<>> /\ l.out.at = "sent"
    BY <1>q, <2>3, <2>4, <2>8
  <2>10. l.queue # <<>> => Last(l.queue) = Last(q) /\ Len(l.queue) < Len(q)
                           /\ Len(l.queue) \in Nat \ {0}
    BY <2>6, <2>8 DEF Last
  <2>11. l.queue = <<>> => l.out.body = IF Last(q) = "delete" THEN None ELSE drawn
    BY <2>4, <2>6, <2>8 DEF Last
  <2>12. (\A i \in DOMAIN q : q[i] = "delete") =>
             \A i \in DOMAIN l.queue : l.queue[i] = "delete"
    BY <2>7, <2>8
  <2> QED
    BY <2>8, <2>9, <2>10, <2>11, <2>12 DEF l
<1> QED
  BY <1>1, <1>2

LEMMA EnqueuedIs ==
    ASSUME NEW l \in Line, NEW entry \in {"write", "delete"}, NEW drawn \in Contents \cup {None}, NEW had
    PROVE  LET e == Enqueued(l, entry, drawn, had) IN
           /\ e \in Line
           /\ e.out = NoRequest => e = Quiescent
           /\ l.out = NoRequest =>
                /\ e.queue = <<>>
                /\ e.out # NoRequest => /\ e.out.at = "sent"
                                        /\ e.out.body = IF entry = "delete" THEN None ELSE drawn
                /\ e.out = NoRequest => entry = "write" /\ ~Needed(drawn, had)
           /\ l.out # NoRequest =>
                /\ e.out = l.out /\ e.queue # <<>> /\ Last(e.queue) = entry
                /\ entry = "write" => \E i \in DOMAIN e.queue : e.queue[i] = "write"
<1> DEFINE e == Enqueued(l, entry, drawn, had)
<1>1. CASE l.out = NoRequest
  <2> DEFINE q == <<entry>>
  <2>1. q \in Seq({"write", "delete"}) /\ q # <<>> /\ Last(q) = entry /\ Len(q) = 1
    BY DEF Last
  <2>2. e = RunLine(q, drawn, had)
    BY <1>1 DEF Enqueued
  <2> HIDE DEF q, e
  <2>3. e.queue = <<>>
    <3>1. e.queue # <<>> => Len(e.queue) < Len(q) /\ Len(e.queue) \in Nat \ {0}
      BY <2>1, <2>2, RunLineIs
    <3> QED
      BY <2>1, <3>1
  <2> QED
    BY <1>1, <2>1, <2>2, <2>3, RunLineIs DEF e
<1>2. CASE l.out # NoRequest
  <2> DEFINE q == Append(l.queue, entry)
  <2>1. l.queue \in Seq({"write", "delete"}) /\ l.out \in Request \cup {NoRequest}
    BY DEF Line
  <2>2. /\ q \in Seq({"write", "delete"}) /\ q # <<>> /\ Len(q) = Len(l.queue) + 1
        /\ q[Len(l.queue) + 1] = entry
    BY <2>1, AppendProperties
  <2>3. DOMAIN q = 1 .. Len(q) /\ Len(l.queue) \in Nat
    BY <2>1, <2>2, LenProperties
  <2>4. e = [l EXCEPT !.queue = q]
    BY <1>2 DEF Enqueued
  <2> HIDE DEF q, e
  <2>5. e \in Line /\ e.out = l.out /\ e.queue = q
    BY <2>1, <2>2, <2>4 DEF Line
  <2>6. Len(q) \in DOMAIN q /\ q[Len(q)] = entry
    BY <2>2, <2>3
  <2> QED
    BY <1>2, <2>2, <2>5, <2>6 DEF Last, e
<1> QED
  BY <1>1, <1>2


----------------------------------------------------------------------------
(* What each step does, mark by mark, and that it keeps the types.         *)

\* What a step that is not about a mark leaves of it.
Same(m) ==
    /\ server'[m] = server[m] /\ cache'.rows[m] = cache.rows[m]
    /\ page'[m] = page[m] /\ seen'[m] = seen[m] /\ excuse'[m] = excuse[m]
    /\ tab'.open = tab.open /\ tab'.session = tab.session
    /\ m \in tab'.owned <=> m \in tab.owned
    /\ m \in tab'.timers <=> m \in tab.timers
    /\ m \in tab'.known <=> m \in tab.known
    /\ tab'.erased[m] = tab.erased[m]
    /\ \A s \in Sessions : line'[s][m] = line[s][m] /\ load'[s] = load[s]
    /\ m \in minted' <=> m \in minted

\* Of a step about the mark k: the rest of the marks, and of the tab.
OnlyAbout(k) ==
    /\ \A m \in Marks \ {k} : Same(m)
    /\ tab'.open = tab.open /\ tab'.session = tab.session
    /\ UNCHANGED load

Inv == AnnotTypeOK /\ TabInv

LEMMA Typed ==
    ASSUME Inv, NEW m \in Marks
    PROVE  /\ server[m] \in Contents \cup {None} /\ cache.rows[m] \in Contents \cup {None}
           /\ page[m] \in Contents \cup {None} /\ seen[m] \in Contents \cup {None}
           /\ tab.erased[m] \in Contents \cup {None}
           /\ excuse[m] \subseteq Excuses
           /\ tab.open \/ tab.session # 0 \/ m \in tab.known => tab.session \in Sessions
           /\ \A s \in Sessions :
                /\ line[s][m] \in Line
                /\ load[s].rows[m] \in Contents \cup {None}
                /\ load[s].at \in {"none", "sent", "read"}
<1>1. tab.session \in Nat /\ tab.session <= MaxOpens /\ MaxOpens \in Nat
  BY AnnotationAssumption DEF Inv, AnnotTypeOK, Tab
<1>2. tab.open \/ tab.session # 0 \/ m \in tab.known => tab.session \in Sessions
  BY <1>1 DEF Inv, TabInv, Sessions
<1> QED
  BY <1>2 DEF Inv, AnnotTypeOK, Rows, Tab

LEMMA EnqueueMoves ==
    ASSUME Inv, tab.open, NEW k \in Marks, NEW entry \in {"write", "delete"},
           page'[k] \in Contents \cup {None}, Enqueue(k, entry)
    PROVE  /\ tab.session \in Sessions
           /\ line' \in [Sessions -> [Marks -> Line]]
           /\ line'[tab.session][k] = Enqueued(Present(k), entry, page'[k], cache.rows[k])
           /\ \A t \in Sessions, m \in Marks :
                t # tab.session \/ m # k => line'[t][m] = line[t][m]
<1>1. tab.session \in Sessions /\ Present(k) \in Line
  BY Typed DEF Present
<1>2. PICK l : l = Enqueued(Present(k), entry, page'[k], cache.rows[k])
  OBVIOUS
<1>3. l \in Line
  BY <1>1, <1>2, EnqueuedIs
<1>4. line' = [line EXCEPT ![tab.session][k] = l]
  BY <1>1, <1>2 DEF Enqueue, Present, Inv, AnnotTypeOK
<1>5. PICK s \in Sessions : s = tab.session
  BY <1>1
<1>6. /\ line' \in [Sessions -> [Marks -> Line]] /\ line'[s][k] = l
      /\ \A t \in Sessions, m \in Marks : t # s \/ m # k => line'[t][m] = line[t][m]
  BY <1>3, <1>4, <1>5 DEF Inv, AnnotTypeOK
<1> QED
  BY <1>2, <1>5, <1>6

LEMMA SettleMoves ==
    ASSUME Inv, NEW s \in Sessions, NEW k \in Marks, Settle(s, k)
    PROVE  /\ line' \in [Sessions -> [Marks -> Line]]
           /\ line'[s][k] = RunLine(line[s][k].queue, page[k], cache'.rows[k])
           /\ \A t \in Sessions, m \in Marks : t # s \/ m # k => line'[t][m] = line[t][m]
<1>1. line[s][k].queue \in Seq({"write", "delete"}) /\ page[k] \in Contents \cup {None}
  BY Typed DEF Line
<1>2. PICK l : l = RunLine(line[s][k].queue, page[k], cache'.rows[k])
  OBVIOUS
<1>3. l \in Line
  BY <1>1, <1>2, RunLineIs, SMTT(30)
<1>4. line' = [line EXCEPT ![s][k] = l]
  BY <1>2 DEF Settle, Inv, AnnotTypeOK
<1>5. /\ line' \in [Sessions -> [Marks -> Line]] /\ line'[s][k] = l
      /\ \A t \in Sessions, m \in Marks : t # s \/ m # k => line'[t][m] = line[t][m]
  BY <1>3, <1>4 DEF Inv, AnnotTypeOK
<1> QED
  BY <1>2, <1>5

LEMMA ShowsMoves ==
    ASSUME Inv, NEW k \in Marks, NEW c \in Contents \cup {None}, Shows(k, c)
    PROVE  /\ tab.open /\ UNCHANGED <<server, cache, load>>
           /\ page' \in Rows /\ seen' \in Rows /\ excuse' \in [Marks -> SUBSET Excuses]
           /\ used' \in [actions : 0 .. MaxActions, failures : 0 .. MaxLost]
           /\ page'[k] = c /\ seen'[k] = c
           /\ \A m \in Marks \ {k} :
                page'[m] = page[m] /\ seen'[m] = seen[m] /\ excuse'[m] = excuse[m]
           /\ \A e \in Excuses :
                \/ e \in excuse'[k] <=> e \in excuse[k]
                \/ e = "touched" /\ e \in excuse'[k] /\ load[tab.session].at # "none"
                \/ e = "undone" /\ e \in excuse'[k] /\ k \in Baked
           /\ load[tab.session].at # "none" => "touched" \in excuse'[k]
           /\ k \in Baked /\ tab.erased[k] # None => "undone" \in excuse'[k]
<1>1. /\ page \in Rows /\ seen \in Rows /\ excuse \in [Marks -> SUBSET Excuses]
      /\ used \in [actions : 0 .. MaxActions, failures : 0 .. MaxLost]
      /\ MaxActions \in Nat /\ MaxLost \in Nat
  BY AnnotationAssumption DEF Inv, AnnotTypeOK
<1> DEFINE ex == excuse[k]
               \cup (IF load[tab.session].at # "none" THEN {"touched"} ELSE {})
               \cup (IF k \in Baked /\ tab.erased[k] # None THEN {"undone"} ELSE {})
<1>2. ex \in SUBSET Excuses
  BY <1>1 DEF Excuses
<1>3. excuse' = [excuse EXCEPT ![k] = ex]
  BY <1>1 DEF Shows
<1>4. \A e \in Excuses :
          \/ e \in ex <=> e \in excuse[k]
          \/ e = "touched" /\ e \in ex /\ load[tab.session].at # "none"
          \/ e = "undone" /\ e \in ex /\ k \in Baked
  OBVIOUS
<1>5. /\ load[tab.session].at # "none" => "touched" \in ex
      /\ k \in Baked /\ tab.erased[k] # None => "undone" \in ex
  OBVIOUS
<1> HIDE DEF ex
<1>6. used' \in [actions : 0 .. MaxActions, failures : 0 .. MaxLost]
  BY <1>1 DEF Shows, Use
<1>7. /\ excuse' \in [Marks -> SUBSET Excuses] /\ excuse'[k] = ex
      /\ \A m \in Marks \ {k} : excuse'[m] = excuse[m]
  BY <1>1, <1>2, <1>3
<1>8. /\ page' \in Rows /\ seen' \in Rows /\ page'[k] = c /\ seen'[k] = c
      /\ \A m \in Marks \ {k} : page'[m] = page[m] /\ seen'[m] = seen[m]
  BY <1>1 DEF Shows, Rows
<1> QED
  BY <1>4, <1>5, <1>6, <1>7, <1>8 DEF Shows


----------------------------------------------------------------------------
(* The steps about one mark.                                               *)

LEMMA SameKeeps ==
    ASSUME Inv, NEW m \in Marks, Same(m)
    PROVE  /\ MarkInv(m) => MarkInv(m)'
           /\ Foreign(m) => Foreign(m)'
<1>0. /\ tab'.open = tab.open /\ tab'.session = tab.session
      /\ server'[m] = server[m] /\ excuse'[m] = excuse[m]
      /\ \A s \in Sessions : line'[s][m] = line[s][m] /\ load'[s] = load[s]
  BY DEF Same
<1>1. tab.open \/ tab.session # 0 \/ m \in tab.known => tab.session \in Sessions
  BY Typed
<1>2. tab.session \in Sessions => Present(m)' = Present(m)
  BY <1>0 DEF Present
<1>3. Loading' <=> Loading
  BY <1>0, <1>1 DEF Loading
<1>4. Lines(m) => Lines(m)'
  BY <1>0, <1>1, <1>2 DEF Lines
<1>5. Unminted(m) => Unminted(m)'
  BY DEF Same, Unminted
<1>6. InTab(m) => InTab(m)'
  BY <1>1, <1>2 DEF Same, InTab
<1>7. Listed(m) => Listed(m)'
  BY <1>0, <1>1, <1>3 DEF Same, Listed, Loading
<1>8. EndsAs(m) => EndsAs(m)'
  BY <1>1, <1>2, <1>3 DEF Same, EndsAs, Tracked
<1>9. Left(m) => Left(m)'
  BY <1>1, <1>2 DEF Same, Left
<1>10. Foreign(m) => Foreign(m)'
  BY DEF Same, Foreign
<1> QED
  BY <1>4, <1>5, <1>6, <1>7, <1>8, <1>9, <1>10 DEF MarkInv

LEMMA AboutOne ==
    ASSUME AnnotInv, NEW k \in Marks, OnlyAbout(k), Inv',
           k \in Own => MarkInv(k)', k \in Baked => Foreign(k)'
    PROVE  AnnotInv'
<1>1. Inv
  BY DEF AnnotInv, Inv
<1>2. \A m \in Marks \ {k} : (MarkInv(m) => MarkInv(m)') /\ (Foreign(m) => Foreign(m)')
  BY <1>1, SameKeeps DEF OnlyAbout
<1>3. \A m \in Own : MarkInv(m)'
  BY <1>2 DEF AnnotInv, Own
<1>4. \A m \in Baked : Foreign(m)'
  BY <1>2, AnnotationAssumption DEF AnnotInv
<1> QED
  BY <1>3, <1>4 DEF AnnotInv, Inv

\* The present line changes, but for the request that is out.
LEMMA LinesKept ==
    ASSUME Inv, NEW k \in Marks, Lines(k), tab'.session = tab.session,
           tab.session \in Sessions, server'[k] = server[k],
           "overlap" \in excuse'[k] <=> "overlap" \in excuse[k],
           \A t \in Sessions : t # tab.session => line'[t][k] = line[t][k],
           line'[tab.session][k].out = NoRequest => line'[tab.session][k].queue = <<>>,
           \/ line'[tab.session][k].out \in {Present(k).out, NoRequest}
           \/ line'[tab.session][k].out.at # "done"
    PROVE  Lines(k)'
<1>1. PICK s \in Sessions : s = tab.session
  OBVIOUS
<1>2. Present(k)' = line'[s][k] /\ Present(k) = line[s][k]
  BY <1>1 DEF Present
<1>3. s \in Nat /\ s # 0
  BY AnnotationAssumption DEF Sessions
<1>4. ASSUME NEW t \in Sessions
      PROVE  /\ t > s => line'[t][k] = Quiescent
             /\ line'[t][k].out = NoRequest => line'[t][k].queue = <<>>
             /\ line'[t][k].out # NoRequest /\ t # s => "overlap" \in excuse'[k]
  <2>1. CASE t = s
    BY <1>1, <1>3, <2>1
  <2>2. CASE t # s
    BY <1>1, <2>2 DEF Lines
  <2> QED
    BY <2>1, <2>2
<1>5. Present(k)'.out # NoRequest /\ Present(k)'.out.at = "done" /\ "overlap" \notin excuse'[k]
          => server'[k] = Present(k)'.out.body
  BY <1>1, <1>2, <1>3 DEF Lines
<1> QED
  BY <1>1, <1>4, <1>5 DEF Lines


LEMMA DrawKeeps ==
    ASSUME AnnotInv, NEW k \in Marks, Draw(k)
    PROVE  AnnotInv'
<1>i. Inv
  BY DEF AnnotInv, Inv
<1>1. PICK c \in Contents : (k \notin minted \/ tab.erased[k] = c) /\ Shows(k, c)
  BY DEF Draw
<1>2. c # None /\ c \in Contents \cup {None}
  BY AnnotationAssumption
<1>s. /\ tab.open /\ UNCHANGED <<server, cache, load>>
      /\ page' \in Rows /\ seen' \in Rows /\ excuse' \in [Marks -> SUBSET Excuses]
      /\ used' \in [actions : 0 .. MaxActions, failures : 0 .. MaxLost]
      /\ page'[k] = c /\ seen'[k] = c
      /\ \A m \in Marks \ {k} :
           page'[m] = page[m] /\ seen'[m] = seen[m] /\ excuse'[m] = excuse[m]
  BY <1>i, <1>1, <1>2, ShowsMoves
<1>e. /\ "overlap" \in excuse'[k] <=> "overlap" \in excuse[k]
      /\ "failed" \in excuse'[k] <=> "failed" \in excuse[k]
      /\ "touched" \in excuse[k] => "touched" \in excuse'[k]
      /\ load[tab.session].at # "none" => "touched" \in excuse'[k]
      /\ "undone" \in excuse[k] => "undone" \in excuse'[k]
      /\ k \in Baked /\ tab.erased[k] # None => "undone" \in excuse'[k]
  BY <1>i, <1>1, <1>2, ShowsMoves DEF Excuses
<1>l. /\ tab.session \in Sessions
      /\ line' \in [Sessions -> [Marks -> Line]]
      /\ line'[tab.session][k] = Enqueued(Present(k), "write", c, cache.rows[k])
      /\ \A t \in Sessions, m \in Marks : t # tab.session \/ m # k => line'[t][m] = line[t][m]
  BY <1>i, <1>2, <1>s, EnqueueMoves DEF Draw
<1>t. /\ tab' \in Tab /\ tab'.open = tab.open /\ tab'.session = tab.session
      /\ tab'.owned = tab.owned \cup {k} /\ tab'.known = tab.known \cup {k}
      /\ tab'.timers = tab.timers
      /\ \A m \in Marks \ {k} : tab'.erased[m] = tab.erased[m]
  BY <1>i DEF Draw, Inv, AnnotTypeOK, Tab, Rows
<1>m. minted' = minted \cup {k} /\ minted' \subseteq Marks /\ page[k] = None
  BY <1>i DEF Draw, Inv, AnnotTypeOK
<1>3. OnlyAbout(k)
  BY <1>s, <1>l, <1>t, <1>m DEF OnlyAbout, Same
<1>4. Inv'
  BY <1>i, <1>s, <1>l, <1>t, <1>m DEF Inv, AnnotTypeOK, TabInv
<1>5. ASSUME k \in Own PROVE MarkInv(k)'
  <2>h. Lines(k) /\ Unminted(k) /\ InTab(k) /\ EndsAs(k)
    BY <1>5 DEF AnnotInv, MarkInv
  <2>1. PICK e : e = line'[tab.session][k] /\ e = Present(k)'
    BY <1>t DEF Present
  <2>2. PICK l \in Line : l = Present(k) /\ (l.out = NoRequest => l.queue = <<>>)
    BY <1>i, <1>l, <2>h, Typed DEF Present, Lines
  <2>3. /\ e.out = NoRequest => e.queue = <<>> /\ l.out = NoRequest /\ c = cache.rows[k]
        /\ e.out # NoRequest => e.out = l.out \/ e.out.at # "done"
        /\ e.out # NoRequest /\ e.queue = <<>> => e.out.body = c
        /\ e.queue # <<>> => Last(e.queue) = "write"
    BY <1>2, <1>l, <2>1, <2>2, EnqueuedIs DEF Needed, Quiescent
  <2>4. Lines(k)'
    <3>1. e.out = l.out \/ e.out.at # "done"
      BY <1>l, <1>2, <2>1, <2>2, <2>3, EnqueuedIs
    <3> QED
      BY <1>i, <1>s, <1>e, <1>t, <1>l, <2>h, <2>1, <2>2, <2>3, <3>1, LinesKept
  <2>5. Unminted(k)'
    BY <1>m DEF Unminted
  <2>6. InTab(k)'
    BY <1>2, <1>s, <1>t DEF InTab
  <2>7. Listed(k)' /\ Left(k)'
    BY <1>s, <1>e, <1>t DEF Listed, Loading, Left
  <2>8. EndsAs(k)'
    <3>1. SUFFICES ASSUME Tracked(k)', e.out = NoRequest, "failed" \notin excuse[k]
                   PROVE  server[k] = cache.rows[k]
      BY <1>2, <1>s, <1>e, <2>1, <2>3 DEF EndsAs
    <3>2. Tracked(k)
      BY <1>s, <1>e, <1>t, <3>1 DEF Tracked, Loading
    <3>3. CASE k \in tab.known
      BY <1>s, <2>h, <2>2, <2>3, <3>1, <3>2, <3>3 DEF EndsAs
    <3>4. CASE k \notin tab.known
      BY <1>1, <1>2, <1>s, <2>h, <3>4 DEF InTab, Unminted
    <3> QED
      BY <3>3, <3>4
  <2> QED
    BY <2>4, <2>5, <2>6, <2>7, <2>8 DEF MarkInv
<1>6. ASSUME k \in Baked PROVE Foreign(k)'
  <2>1. tab.erased[k] # None
    BY <1>1, <1>2, <1>i, <1>6 DEF Inv, TabInv
  <2> QED
    BY <1>e, <1>6, <2>1 DEF Foreign
<1> QED
  BY <1>3, <1>4, <1>5, <1>6, AboutOne

LEMMA EditKeeps ==
    ASSUME AnnotInv, NEW k \in Marks, Edit(k)
    PROVE  AnnotInv'
<1>i. Inv
  BY DEF AnnotInv, Inv
<1>1. PICK c \in Contents : Shows(k, c)
  BY DEF Edit
<1>2. c # None /\ c \in Contents \cup {None}
  BY AnnotationAssumption
<1>s. /\ tab.open /\ UNCHANGED <<server, cache, load>>
      /\ page' \in Rows /\ seen' \in Rows /\ excuse' \in [Marks -> SUBSET Excuses]
      /\ used' \in [actions : 0 .. MaxActions, failures : 0 .. MaxLost]
      /\ page'[k] = c /\ seen'[k] = c
      /\ \A m \in Marks \ {k} :
           page'[m] = page[m] /\ seen'[m] = seen[m] /\ excuse'[m] = excuse[m]
  BY <1>i, <1>1, <1>2, ShowsMoves
<1>e. /\ "overlap" \in excuse'[k] <=> "overlap" \in excuse[k]
      /\ "failed" \in excuse'[k] <=> "failed" \in excuse[k]
      /\ "touched" \in excuse[k] => "touched" \in excuse'[k]
      /\ load[tab.session].at # "none" => "touched" \in excuse'[k]
      /\ "undone" \in excuse[k] => "undone" \in excuse'[k]
  BY <1>i, <1>1, <1>2, ShowsMoves DEF Excuses
<1>t. /\ tab' \in Tab /\ tab'.open = tab.open /\ tab'.session = tab.session
      /\ tab'.owned = tab.owned /\ tab'.known = tab.known /\ tab'.erased = tab.erased
      /\ tab'.timers = IF k \in tab.owned THEN tab.timers \cup {k} ELSE tab.timers
  BY <1>i DEF Edit, Inv, AnnotTypeOK, Tab, Rows
<1>l. UNCHANGED <<line, minted>> /\ page[k] # None
  BY DEF Edit
<1>3. OnlyAbout(k)
  BY <1>s, <1>l, <1>t DEF OnlyAbout, Same
<1>4. Inv'
  BY <1>i, <1>s, <1>l, <1>t DEF Inv, AnnotTypeOK, TabInv
<1>n. tab.session \in Sessions
  BY <1>i, <1>s, Typed
<1>5. ASSUME k \in Own PROVE MarkInv(k)'
  <2>h. Lines(k) /\ Unminted(k) /\ InTab(k) /\ EndsAs(k)
    BY <1>5 DEF AnnotInv, MarkInv
  <2>1. Present(k)' = Present(k)
    BY <1>l, <1>t DEF Present
  <2>2. k \in tab.owned /\ k \in tab.known /\ k \in tab'.timers
    BY <1>s, <1>l, <1>t, <2>h DEF InTab
  <2>4. Lines(k)'
    BY <1>s, <1>e, <1>t, <1>l, <2>h, <2>1 DEF Lines
  <2>5. Unminted(k)'
    BY <1>s, <1>l, <1>t, <2>h DEF Unminted
  <2>6. InTab(k)'
    BY <1>2, <1>s, <1>t, <2>2 DEF InTab
  <2>7. Listed(k)' /\ Left(k)'
    BY <1>s, <1>e, <1>t DEF Listed, Loading, Left
  <2>8. EndsAs(k)'
    <3>1. Tracked(k)' => Tracked(k)
      BY <1>s, <1>e, <1>t DEF Tracked, Loading
    <3> QED
      BY <1>2, <1>s, <1>e, <1>l, <1>t, <2>h, <2>1, <2>2, <3>1 DEF EndsAs
  <2> QED
    BY <2>4, <2>5, <2>6, <2>7, <2>8 DEF MarkInv
<1>6. ASSUME k \in Baked PROVE Foreign(k)'
  <2>1. Foreign(k)
    BY <1>6 DEF AnnotInv
  <2> QED
    BY <1>s, <1>e, <1>l, <1>t, <2>1 DEF Foreign
<1> QED
  BY <1>3, <1>4, <1>5, <1>6, AboutOne


LEMMA EraseKeeps ==
    ASSUME AnnotInv, NEW k \in Marks, Erase(k)
    PROVE  AnnotInv'
<1>i. Inv
  BY DEF AnnotInv, Inv
<1>1. Shows(k, None) /\ page[k] # None /\ UNCHANGED minted
  BY DEF Erase
<1>s. /\ tab.open /\ UNCHANGED <<server, cache, load>>
      /\ page' \in Rows /\ seen' \in Rows /\ excuse' \in [Marks -> SUBSET Excuses]
      /\ used' \in [actions : 0 .. MaxActions, failures : 0 .. MaxLost]
      /\ page'[k] = None /\ seen'[k] = None
      /\ \A m \in Marks \ {k} :
           page'[m] = page[m] /\ seen'[m] = seen[m] /\ excuse'[m] = excuse[m]
  BY <1>i, <1>1, ShowsMoves
<1>e. /\ "overlap" \in excuse'[k] <=> "overlap" \in excuse[k]
      /\ "failed" \in excuse'[k] <=> "failed" \in excuse[k]
      /\ "touched" \in excuse[k] => "touched" \in excuse'[k]
      /\ load[tab.session].at # "none" => "touched" \in excuse'[k]
      /\ "undone" \in excuse[k] => "undone" \in excuse'[k]
  BY <1>i, <1>1, ShowsMoves DEF Excuses
<1>t. /\ tab' \in Tab /\ tab'.open = tab.open /\ tab'.session = tab.session
      /\ tab'.owned = tab.owned \ {k} /\ tab'.known = tab.known
      /\ tab'.timers = tab.timers \ {k}
      /\ \A m \in Marks \ {k} : tab'.erased[m] = tab.erased[m]
  BY <1>i DEF Erase, Inv, AnnotTypeOK, Tab, Rows
<1>n. tab.session \in Sessions /\ Present(k) \in Line
  BY <1>i, <1>s, Typed DEF Present
<1>q. ASSUME k \in tab.owned
      PROVE  line'[tab.session][k] = Enqueued(Present(k), "delete", None, cache.rows[k])
  BY <1>i, <1>s, <1>q, EnqueueMoves DEF Erase
<1>l. /\ line' \in [Sessions -> [Marks -> Line]]
      /\ \A t \in Sessions, m \in Marks : t # tab.session \/ m # k => line'[t][m] = line[t][m]
      /\ k \notin tab.owned => UNCHANGED line
  <2>1. CASE k \in tab.owned
    BY <1>i, <1>s, <2>1, EnqueueMoves DEF Erase
  <2>2. CASE k \notin tab.owned
    BY <1>i, <2>2 DEF Erase, Inv, AnnotTypeOK
  <2> QED
    BY <2>1, <2>2
<1>3. OnlyAbout(k)
  BY <1>1, <1>s, <1>l, <1>t DEF OnlyAbout, Same
<1>4. Inv'
  BY <1>i, <1>1, <1>s, <1>l, <1>t DEF Inv, AnnotTypeOK, TabInv
<1>5. ASSUME k \in Own PROVE MarkInv(k)'
  <2>h. Lines(k) /\ Unminted(k) /\ InTab(k) /\ EndsAs(k)
    BY <1>5 DEF AnnotInv, MarkInv
  <2>0. k \in tab.owned /\ k \in tab.known
    BY <1>1, <1>s, <2>h DEF InTab
  <2>1. PICK e : e = line'[tab.session][k] /\ e = Present(k)'
    BY <1>t DEF Present
  <2>2. PICK l \in Line : l = Present(k)
    BY <1>n
  <2>3. e = Enqueued(l, "delete", None, cache.rows[k])
    BY <1>q, <2>0, <2>1, <2>2
  <2>4. /\ e.out # NoRequest
        /\ e.out = l.out \/ e.out.at # "done"
        /\ e.queue = <<>> => e.out.body = None
        /\ e.queue # <<>> => Last(e.queue) = "delete"
    BY <2>3, EnqueuedIs
  <2>5. Lines(k)'
    BY <1>i, <1>n, <1>s, <1>e, <1>t, <1>l, <2>h, <2>1, <2>2, <2>4, LinesKept
  <2>6. Unminted(k)'
    BY <1>1, <2>h DEF Unminted
  <2>7. InTab(k)'
    BY <1>s, <1>t, <2>0 DEF InTab
  <2>8. Listed(k)' /\ Left(k)'
    BY <1>s, <1>e, <1>t DEF Listed, Loading, Left
  <2>9. EndsAs(k)'
    BY <1>s, <2>1, <2>4 DEF EndsAs
  <2> QED
    BY <2>5, <2>6, <2>7, <2>8, <2>9 DEF MarkInv
<1>6. ASSUME k \in Baked PROVE Foreign(k)'
  <2>1. Foreign(k)
    BY <1>6 DEF AnnotInv
  <2> QED
    BY <1>s, <1>e, <1>l, <1>t, <2>1 DEF Foreign
<1> QED
  BY <1>3, <1>4, <1>5, <1>6, AboutOne

LEMMA TimerKeeps ==
    ASSUME AnnotInv, NEW k \in Marks, TimerFires(k)
    PROVE  AnnotInv'
<1>i. Inv
  BY DEF AnnotInv, Inv
<1>s. /\ tab.open /\ k \in tab.timers
      /\ UNCHANGED <<server, cache, page, load, minted, seen, excuse, used>>
      /\ page'[k] \in Contents \cup {None}
  BY <1>i, Typed DEF TimerFires
<1>t. /\ tab' \in Tab /\ tab'.open = tab.open /\ tab'.session = tab.session
      /\ tab'.owned = tab.owned /\ tab'.known = tab.known /\ tab'.erased = tab.erased
      /\ tab'.timers = tab.timers \ {k}
  BY <1>i DEF TimerFires, Inv, AnnotTypeOK, Tab
<1>l. /\ tab.session \in Sessions
      /\ line' \in [Sessions -> [Marks -> Line]]
      /\ line'[tab.session][k] = Enqueued(Present(k), "write", page[k], cache.rows[k])
      /\ \A t \in Sessions, m \in Marks : t # tab.session \/ m # k => line'[t][m] = line[t][m]
  BY <1>i, <1>s, EnqueueMoves DEF TimerFires
<1>3. OnlyAbout(k)
  BY <1>s, <1>l, <1>t DEF OnlyAbout, Same
<1>4. Inv'
  BY <1>i, <1>s, <1>l, <1>t DEF Inv, AnnotTypeOK, TabInv
<1>5. ASSUME k \in Own PROVE MarkInv(k)'
  <2>h. Lines(k) /\ Unminted(k) /\ InTab(k) /\ Listed(k) /\ EndsAs(k)
    BY <1>5 DEF AnnotInv, MarkInv
  <2>0. k \in tab.owned /\ k \in tab.known /\ page[k] # None /\ page[k] \in Contents \cup {None}
    BY <1>s, <2>h DEF InTab
  <2>1. PICK e : e = line'[tab.session][k] /\ e = Present(k)'
    BY <1>t DEF Present
  <2>2. PICK l \in Line : l = Present(k)
    BY <1>i, <1>l, Typed DEF Present
  <2>3. e = Enqueued(l, "write", page[k], cache.rows[k])
    BY <1>l, <2>1, <2>2
  <2>4. /\ e.out = NoRequest => /\ e.queue = <<>> /\ l.out = NoRequest
                                /\ page[k] = cache.rows[k]
        /\ e.out = l.out \/ e.out.at # "done"
        /\ e.out # NoRequest /\ e.queue = <<>> => e.out.body = page[k]
        /\ e.queue # <<>> => Last(e.queue) = "write"
    <3>1. /\ e.out = NoRequest => e.queue = <<>> /\ l.out = NoRequest
          /\ e.out = NoRequest => ~Needed(page[k], cache.rows[k])
          /\ e.out # NoRequest => e.out = l.out \/ e.out.at # "done"
          /\ e.out # NoRequest /\ e.queue = <<>> => e.out.body = page[k]
          /\ e.queue # <<>> => Last(e.queue) = "write"
      BY <2>0, <2>3, EnqueuedIs DEF Quiescent
    <3> QED
      BY <2>0, <3>1 DEF Needed
  <2>5. Lines(k)'
    BY <1>i, <1>s, <1>t, <1>l, <2>h, <2>1, <2>2, <2>4, LinesKept
  <2>6. Unminted(k)'
    BY <1>s, <2>0, <2>h DEF Unminted
  <2>7. InTab(k)'
    BY <1>s, <1>t, <2>0, <2>h DEF InTab
  <2>8. Listed(k)' /\ Left(k)'
    BY <1>s, <1>t, <2>h DEF Listed, Loading, Left
  <2>9. EndsAs(k)'
    <3>1. Tracked(k)' => Tracked(k)
      BY <1>s, <1>t DEF Tracked, Loading
    <3> QED
      BY <1>s, <1>t, <2>h, <2>0, <2>1, <2>2, <2>4, <3>1 DEF EndsAs
  <2> QED
    BY <2>5, <2>6, <2>7, <2>8, <2>9 DEF MarkInv
<1>6. ASSUME k \in Baked PROVE Foreign(k)'
  <2>1. Foreign(k)
    BY <1>6 DEF AnnotInv
  <2> QED
    BY <1>s, <2>1 DEF Foreign
<1> QED
  BY <1>3, <1>4, <1>5, <1>6, AboutOne


LEMMA HandleKeeps ==
    ASSUME AnnotInv, NEW s \in Sessions, NEW k \in Marks, Handle(s, k)
    PROVE  AnnotInv'
<1>i. Inv
  BY DEF AnnotInv, Inv
<1> DEFINE r == line[s][k].out
<1>1. /\ r # NoRequest /\ r.at = "sent"
      /\ UNCHANGED <<cache, page, tab, load, minted, seen, excuse, used>>
  BY DEF Handle
<1>2. r \in Request /\ line[s][k] \in Line
  BY <1>i, <1>1, Typed DEF Line
<1>3. /\ server' \in Rows /\ server'[k] = r.body
      /\ \A m \in Marks \ {k} : server'[m] = server[m]
  BY <1>i, <1>2 DEF Handle, Inv, AnnotTypeOK, Rows, Request
<1>4. PICK a \in {"done", "refused"} : line' = [line EXCEPT ![s][k].out.at = a]
  BY DEF Handle
<1>5. PICK l : l = [line[s][k] EXCEPT !.out.at = a]
  OBVIOUS
<1>6. /\ l \in Line /\ l.queue = line[s][k].queue
      /\ l.out # NoRequest /\ l.out.body = r.body /\ l.out.at = a
  <2>1. [r EXCEPT !.at = a] \in Request
    BY <1>2 DEF Request
  <2>2. [r EXCEPT !.at = a].body = r.body /\ [r EXCEPT !.at = a].at = a
    BY <1>2 DEF Request
  <2>3. l.out = [r EXCEPT !.at = a] /\ l.queue = line[s][k].queue /\ l \in Line
    BY <1>2, <1>5, <2>1 DEF Line
  <2> QED
    BY <2>1, <2>2, <2>3, RequestAssumption
<1>7. line' = [line EXCEPT ![s][k] = l]
  BY <1>i, <1>4, <1>5 DEF Inv, AnnotTypeOK
<1>l. /\ line' \in [Sessions -> [Marks -> Line]] /\ line'[s][k] = l
      /\ \A t \in Sessions, m \in Marks : t # s \/ m # k => line'[t][m] = line[t][m]
  BY <1>i, <1>6, <1>7 DEF Inv, AnnotTypeOK
<1>8. OnlyAbout(k)
  BY <1>1, <1>3, <1>l DEF OnlyAbout, Same
<1>9. Inv'
  BY <1>i, <1>1, <1>3, <1>l DEF Inv, AnnotTypeOK, TabInv
<1>n. line[s][k] # Quiescent
  BY <1>1 DEF Quiescent
<1> HIDE DEF r
<1>10. ASSUME k \in Own PROVE MarkInv(k)'
  <2>h. MarkInv(k)
    BY <1>10 DEF AnnotInv
  <2>1. k \in minted /\ k \in minted'
    BY <1>1, <1>n, <2>h DEF MarkInv, Unminted
  <2>2. /\ ~(s > tab.session)
        /\ s # tab.session => "overlap" \in excuse[k]
    BY <1>1, <1>n, <2>h DEF MarkInv, Lines, r
  <2>3. s = tab.session => k \in tab.known \/ ~tab.open
    BY <1>n, <2>h DEF MarkInv, InTab, Present
  <2>4. \A t \in Sessions :
          /\ line'[t][k].out = NoRequest <=> line[t][k].out = NoRequest
          /\ line'[t][k].queue = line[t][k].queue
          /\ line[t][k].out # NoRequest => line'[t][k].out.body = line[t][k].out.body
          /\ t # s => line'[t][k] = line[t][k]
    <3>1. \A t \in Sessions : t # s => line'[t][k] = line[t][k]
      BY <1>l
    <3> QED
      BY <1>1, <1>6, <1>l, <3>1 DEF r
  <2>n. tab.open \/ tab.session # 0 \/ k \in tab.known => tab.session \in Sessions
    BY <1>i, Typed
  <2>5. Lines(k)'
    <3>1. ASSUME NEW t \in Sessions
          PROVE  /\ t > tab.session => line'[t][k] = Quiescent
                 /\ line'[t][k].out = NoRequest => line'[t][k].queue = <<>>
                 /\ line'[t][k].out # NoRequest /\ t # tab.session => "overlap" \in excuse[k]
      BY <2>h, <2>2, <2>4 DEF MarkInv, Lines
    <3>2. ASSUME tab.session # 0, Present(k)'.out # NoRequest, Present(k)'.out.at = "done",
                 "overlap" \notin excuse[k]
          PROVE  server'[k] = Present(k)'.out.body
      <4>1. s = tab.session
        <5>1. tab.session # s => line'[tab.session][k] = line[tab.session][k]
          BY <2>4, <2>n, <3>2
        <5> QED
          BY <2>2, <3>2
      <4> QED
        BY <1>1, <1>3, <1>6, <1>l, <4>1 DEF Present
    <3> QED
      BY <1>1, <3>1, <3>2 DEF Lines
  <2>6. Unminted(k)'
    BY <2>1 DEF Unminted
  <2>7. InTab(k)'
    <3>1. k \notin tab.known /\ tab.open => Present(k)' = Present(k)
      BY <1>1, <2>3, <2>4, <2>n DEF Present
    <3> QED
      BY <1>1, <2>h, <3>1 DEF MarkInv, InTab
  <2>8. Listed(k)'
    <3>1. s = tab.session /\ Loading =>
              "overlap" \in excuse[k] \/ "touched" \in excuse[k]
      BY <2>h, <2>3 DEF MarkInv, Listed, Loading
    <3> QED
      BY <1>1, <2>2, <3>1 DEF Listed, Loading
  <2>9. ASSUME k \in tab.known, "overlap" \notin excuse[k] \/ tab.session = s
        PROVE  /\ Present(k)'.queue = Present(k).queue
               /\ Present(k)'.out = NoRequest <=> Present(k).out = NoRequest
               /\ Present(k).out # NoRequest => Present(k)'.out.body = Present(k).out.body
               /\ s = tab.session /\ Present(k).out # NoRequest
    BY <1>1, <2>2, <2>4, <2>9 DEF Present, r
  <2>10. EndsAs(k)' /\ Left(k)'
    <3>1. Tracked(k)' <=> Tracked(k)
      BY <1>1 DEF Tracked, Loading
    <3>2. Tracked(k) => "overlap" \notin excuse[k]
      BY DEF Tracked
    <3>3. EndsAs(k)'
      BY <1>1, <2>h, <2>9, <3>1, <3>2 DEF MarkInv, EndsAs
    <3>4. Left(k)'
      BY <1>1, <2>h, <2>9 DEF MarkInv, Left
    <3> QED
      BY <3>3, <3>4
  <2> QED
    BY <2>5, <2>6, <2>7, <2>8, <2>10 DEF MarkInv
<1>11. ASSUME k \in Baked PROVE Foreign(k)'
  BY <1>1, <1>n, <1>11 DEF AnnotInv, Foreign
<1> QED
  BY <1>8, <1>9, <1>10, <1>11, AboutOne


\* The line of a request that has settled, by what was queued behind it.
LEMMA SettledIs ==
    ASSUME Inv, NEW s \in Sessions, NEW k \in Marks, Settle(s, k)
    PROVE  LET l == line[s][k]
               e == line'[s][k]
           IN
           /\ e.out = NoRequest => e.queue = <<>>
           /\ e.out # NoRequest => l.queue # <<>> /\ e.out.at # "done"
           /\ e.queue # <<>> => l.queue # <<>> /\ Last(e.queue) = Last(l.queue)
           /\ e.out # NoRequest /\ e.queue = <<>> =>
                  e.out.body = IF Last(l.queue) = "delete" THEN None ELSE page[k]
           /\ e.out = NoRequest /\ l.queue # <<>> =>
                  Last(l.queue) = "write" /\ ~Needed(page[k], cache'.rows[k])
           /\ (\A i \in DOMAIN l.queue : l.queue[i] = "delete") =>
                  \A i \in DOMAIN e.queue : e.queue[i] = "delete"
<1>1. line[s][k].queue \in Seq({"write", "delete"}) /\ page[k] \in Contents \cup {None}
  BY Typed DEF Line
<1>2. PICK q, drawn, had, e :
          /\ q = line[s][k].queue /\ drawn = page[k] /\ had = cache'.rows[k] /\ e = line'[s][k]
          /\ q \in Seq({"write", "delete"}) /\ drawn \in Contents \cup {None}
  BY <1>1
<1>3. e = RunLine(q, drawn, had)
  BY <1>2, SettleMoves
<1>4. /\ e.out = NoRequest => e = Quiescent
      /\ e.out # NoRequest => q # <<>> /\ e.out.at = "sent"
      /\ e.queue # <<>> => Last(e.queue) = Last(q)
      /\ e.out # NoRequest /\ e.queue = <<>> =>
           e.out.body = IF Last(q) = "delete" THEN None ELSE drawn
      /\ e.out = NoRequest /\ q # <<>> => Last(q) = "write" /\ ~Needed(drawn, had)
      /\ (\A i \in DOMAIN q : q[i] = "delete") =>
           \A i \in DOMAIN e.queue : e.queue[i] = "delete"
  <2>1. q \in Seq({"write", "delete"}) /\ drawn \in Contents \cup {None}
    BY <1>2
  <2> DEFINE l == RunLine(q, drawn, had)
  <2>2. /\ l.out = NoRequest => l = Quiescent
        /\ l.out # NoRequest => q # <<>> /\ l.out.at = "sent"
    BY ONLY <2>1, RunLineIs
  <2>3. l.queue # <<>> => Last(l.queue) = Last(q)
    BY ONLY <2>1, RunLineIs
  <2>4. l.out # NoRequest /\ l.queue = <<>> =>
             l.out.body = IF Last(q) = "delete" THEN None ELSE drawn
    BY ONLY <2>1, RunLineIs
  <2>5. l.out = NoRequest /\ q # <<>> => Last(q) = "write" /\ ~Needed(drawn, had)
    BY ONLY <2>1, RunLineIs
  <2>6. (\A i \in DOMAIN q : q[i] = "delete") =>
             \A i \in DOMAIN l.queue : l.queue[i] = "delete"
    BY ONLY <2>1, RunLineIs, Z3T(60)
  <2>7. e = l
    BY <1>3
  <2> QED
    BY ONLY <2>2, <2>3, <2>4, <2>5, <2>6, <2>7
<1> QED
  BY <1>2, <1>4 DEF Quiescent

\* A request that settles, for good or ill: the next entry runs.
LEMMA SettleKeeps ==
    ASSUME AnnotInv, NEW s \in Sessions, NEW k \in Marks, Settle(s, k),
           line[s][k].out # NoRequest,
           UNCHANGED <<server, page, tab, load, minted, seen>>,
           cache' \in [rows : Rows, loaded : BOOLEAN],
           \A m \in Marks \ {k} : cache'.rows[m] = cache.rows[m],
           excuse' \in [Marks -> SUBSET Excuses],
           \A m \in Marks \ {k} : excuse'[m] = excuse[m],
           \A e \in Excuses \ {"failed"} : e \in excuse'[k] <=> e \in excuse[k],
           used' \in [actions : 0 .. MaxActions, failures : 0 .. MaxLost],
           s = tab.session /\ "failed" \notin excuse'[k] =>
               line[s][k].out.at = "done" /\ cache'.rows[k] = line[s][k].out.body
    PROVE  AnnotInv'
<1>i. Inv
  BY DEF AnnotInv, Inv
<1>1. PICK l \in Line : l = line[s][k]
  BY <1>i, Typed
<1>2. PICK e : e = line'[s][k]
  OBVIOUS
<1>l. /\ line' \in [Sessions -> [Marks -> Line]]
      /\ \A t \in Sessions, m \in Marks : t # s \/ m # k => line'[t][m] = line[t][m]
  BY <1>i, SettleMoves
<1>4. /\ e.out = NoRequest => e.queue = <<>>
      /\ e.out # NoRequest => l.queue # <<>> /\ e.out.at # "done"
      /\ e.queue # <<>> => l.queue # <<>> /\ Last(e.queue) = Last(l.queue)
      /\ e.out # NoRequest /\ e.queue = <<>> =>
             e.out.body = IF Last(l.queue) = "delete" THEN None ELSE page[k]
      /\ e.out = NoRequest /\ l.queue # <<>> =>
             Last(l.queue) = "write" /\ ~Needed(page[k], cache'.rows[k])
      /\ (\A i \in DOMAIN l.queue : l.queue[i] = "delete") =>
             \A i \in DOMAIN e.queue : e.queue[i] = "delete"
  BY <1>i, <1>1, <1>2, SettledIs
<1>x. /\ "overlap" \in excuse'[k] <=> "overlap" \in excuse[k]
      /\ "touched" \in excuse'[k] <=> "touched" \in excuse[k]
      /\ "cut" \in excuse'[k] <=> "cut" \in excuse[k]
      /\ "undone" \in excuse'[k] <=> "undone" \in excuse[k]
  BY DEF Excuses
<1>5. OnlyAbout(k)
  BY <1>l DEF OnlyAbout, Same
<1>6. Inv'
  BY <1>i, <1>l DEF Inv, AnnotTypeOK, TabInv
<1>n. line[s][k] # Quiescent
  BY DEF Quiescent
<1>7. ASSUME k \in Own PROVE MarkInv(k)'
  <2>h. MarkInv(k)
    BY <1>7 DEF AnnotInv
  <2>1. k \in minted /\ k \in minted'
    BY <1>n, <2>h DEF MarkInv, Unminted
  <2>2. ~(s > tab.session) /\ (s # tab.session => "overlap" \in excuse[k])
    BY <1>n, <2>h DEF MarkInv, Lines
  <2>u. Unminted(k)'
    BY <2>1 DEF Unminted
  <2>n. tab.open \/ tab.session # 0 \/ k \in tab.known => tab.session \in Sessions
    BY <1>i, Typed
  <2>3. CASE s # tab.session
    <3>0. "overlap" \in excuse[k] /\ "overlap" \in excuse'[k]
      BY <1>x, <2>2, <2>3
    <3>1. tab.session \in Sessions => Present(k)' = Present(k)
      BY <1>l, <2>3 DEF Present
    <3>2. \A t \in Sessions :
            /\ t # s => line'[t][k] = line[t][k]
            /\ t = s => line'[t][k] = e
      BY <1>2, <1>l
    <3>3. Lines(k)'
      BY <1>4, <2>2, <2>h, <3>0, <3>2 DEF MarkInv, Lines
    <3>4. InTab(k)'
      BY <2>h, <2>n, <3>1 DEF MarkInv, InTab
    <3>5. Listed(k)' /\ EndsAs(k)' /\ Left(k)'
      BY <3>0 DEF Listed, EndsAs, Tracked, Left
    <3> QED
      BY <2>u, <3>3, <3>4, <3>5 DEF MarkInv
  <2>4. CASE s = tab.session
    <3>1. Present(k)' = e /\ Present(k) = l /\ l.out # NoRequest
      BY <1>1, <1>2, <2>4 DEF Present
    <3>k. tab.open => k \in tab.known
      BY <1>1, <1>n, <2>h, <3>1 DEF MarkInv, InTab
    <3>d. l.out.at = "done" /\ "overlap" \notin excuse[k] => server[k] = l.out.body
      <4>1. s # 0
        BY DEF Sessions
      <4> QED
        BY <2>4, <2>h, <3>1, <4>1 DEF MarkInv, Lines
    <3>c. "failed" \notin excuse'[k] => l.out.at = "done" /\ cache'.rows[k] = l.out.body
      BY <1>1, <2>4
    <3>2. Lines(k)'
      <4>1. /\ tab.session \in Sessions /\ Lines(k) /\ tab'.session = tab.session
            /\ \A t \in Sessions : t # tab.session => line'[t][k] = line[t][k]
        BY <1>l, <2>4, <2>h DEF MarkInv
      <4>2. line'[tab.session][k].out.at # "done" \/ line'[tab.session][k].out = NoRequest
        BY <1>2, <1>4, <2>4
      <4>3. line'[tab.session][k].out = NoRequest => line'[tab.session][k].queue = <<>>
        BY <1>2, <1>4, <2>4
      <4> QED
        BY <1>i, <1>x, <4>1, <4>2, <4>3, LinesKept
    <3>3. InTab(k)'
      BY <2>h, <3>k DEF MarkInv, InTab
    <3>4. Listed(k)'
      BY <1>x, <2>h, <3>k DEF MarkInv, Listed, Loading
    <3>5. EndsAs(k)'
      <4>1. SUFFICES ASSUME tab.open, k \in tab.known, Tracked(k)
                     PROVE  EndsAs(k)'
        BY <1>x DEF EndsAs, Tracked, Loading
      <4>2. /\ l.queue # <<>> => (Last(l.queue) = "delete" <=> page[k] = None)
            /\ l.queue = <<>> /\ k \notin tab.timers => l.out.body = page[k]
            /\ "overlap" \notin excuse[k]
        BY <2>h, <3>1, <4>1 DEF MarkInv, EndsAs, Tracked
      <4>3. e.queue # <<>> => (Last(e.queue) = "delete" <=> page[k] = None)
        BY <1>4, <4>2
      <4>4. e.out # NoRequest /\ e.queue = <<>> => e.out.body = page[k]
        BY <1>4, <4>2
      <4>5. ASSUME e.out = NoRequest, "failed" \notin excuse'[k]
            PROVE  /\ server[k] = cache'.rows[k]
                   /\ k \notin tab.timers => page[k] = cache'.rows[k]
        <5>1. server[k] = cache'.rows[k] /\ l.out.body = cache'.rows[k]
          BY <3>c, <3>d, <4>2, <4>5
        <5>2. CASE l.queue = <<>>
          BY <4>2, <5>1, <5>2
        <5>3. CASE l.queue # <<>>
          BY <1>4, <4>2, <4>5, <5>1, <5>3 DEF Needed
        <5> QED
          BY <5>2, <5>3
      <4> QED
        BY <3>1, <4>3, <4>4, <4>5 DEF EndsAs
    <3>6. Left(k)'
      <4>1. SUFFICES ASSUME ~tab.open, k \in tab.known,
                            excuse[k] \cap {"overlap", "touched", "cut"} = {}
                     PROVE  Left(k)'
        BY <1>x DEF Left
      <4>2. /\ \A i \in DOMAIN l.queue : l.queue[i] = "delete"
            /\ l.queue # <<>> => seen[k] = None
            /\ l.queue = <<>> => l.out.body = seen[k]
            /\ "overlap" \notin excuse[k]
        BY <2>h, <3>1, <4>1 DEF MarkInv, Left
      <4>3. l.queue # <<>> => Last(l.queue) = "delete"
        <5>1. l.queue # <<>> => Len(l.queue) \in DOMAIN l.queue
          <6>1. l.queue \in Seq({"write", "delete"})
            BY DEF Line
          <6> QED
            BY <6>1, LenProperties, EmptySeq
        <5> QED
          BY <4>2, <5>1 DEF Last
      <4>4. e.out = NoRequest => l.queue = <<>>
        BY <1>4, <4>3
      <4> QED
        BY <1>4, <3>1, <3>c, <3>d, <4>2, <4>3, <4>4 DEF Left
    <3> QED
      BY <2>u, <3>2, <3>3, <3>4, <3>5, <3>6 DEF MarkInv
  <2> QED
    BY <2>3, <2>4
<1>8. ASSUME k \in Baked PROVE Foreign(k)'
  BY <1>x, <1>n, <1>8 DEF AnnotInv, Foreign
<1> QED
  BY <1>5, <1>6, <1>7, <1>8, AboutOne

LEMMA SucceedsKeeps ==
    ASSUME AnnotInv, NEW s \in Sessions, NEW k \in Marks, Succeeds(s, k)
    PROVE  AnnotInv'
<1>i. Inv
  BY DEF AnnotInv, Inv
<1> DEFINE ex == IF s = tab.session THEN excuse[k] \ {"failed"} ELSE excuse[k]
<1>1. /\ line[s][k].out # NoRequest /\ line[s][k].out.at = "done" /\ Settle(s, k)
      /\ UNCHANGED <<server, page, tab, load, minted, seen, used>>
      /\ cache' = [cache EXCEPT !.rows[k] = line[s][k].out.body]
      /\ excuse' = [excuse EXCEPT ![k] = ex]
  BY <1>i DEF Succeeds, Inv, AnnotTypeOK
<1>2. line[s][k].out.body \in Contents \cup {None}
  <2>1. line[s][k].out \in Request
    BY <1>i, <1>1, Typed DEF Line
  <2> QED
    BY <2>1 DEF Request
<1>3. /\ cache' \in [rows : Rows, loaded : BOOLEAN]
      /\ cache'.rows[k] = line[s][k].out.body
      /\ \A m \in Marks \ {k} : cache'.rows[m] = cache.rows[m]
  BY <1>i, <1>1, <1>2 DEF Inv, AnnotTypeOK, Rows
<1>4. /\ excuse' \in [Marks -> SUBSET Excuses]
      /\ \A m \in Marks \ {k} : excuse'[m] = excuse[m]
      /\ \A e \in Excuses \ {"failed"} : e \in excuse'[k] <=> e \in excuse[k]
  BY <1>i, <1>1 DEF Inv, AnnotTypeOK
<1>5. used' \in [actions : 0 .. MaxActions, failures : 0 .. MaxLost]
  BY <1>i, <1>1 DEF Inv, AnnotTypeOK
<1> QED
  BY <1>1, <1>3, <1>4, <1>5, SettleKeeps

LEMMA FailsKeeps ==
    ASSUME AnnotInv, NEW s \in Sessions, NEW k \in Marks, Fails(s, k)
    PROVE  AnnotInv'
<1>i. Inv
  BY DEF AnnotInv, Inv
<1>1. /\ line[s][k].out # NoRequest /\ Settle(s, k)
      /\ UNCHANGED <<server, cache, page, tab, load, minted, seen>>
      /\ excuse' = [excuse EXCEPT ![k] = @ \cup {"failed"}]
      /\ UNCHANGED used \/ Use("failures", MaxLost)
  BY DEF Fails
<1>2. /\ excuse' \in [Marks -> SUBSET Excuses]
      /\ \A m \in Marks \ {k} : excuse'[m] = excuse[m]
      /\ \A e \in Excuses \ {"failed"} : e \in excuse'[k] <=> e \in excuse[k]
      /\ "failed" \in excuse'[k]
  BY <1>i, <1>1 DEF Inv, AnnotTypeOK, Excuses
<1>3. cache' \in [rows : Rows, loaded : BOOLEAN]
  BY <1>i, <1>1 DEF Inv, AnnotTypeOK
<1>4. used' \in [actions : 0 .. MaxActions, failures : 0 .. MaxLost]
  BY <1>i, <1>1, AnnotationAssumption DEF Inv, AnnotTypeOK, Use
<1> QED
  BY <1>1, <1>2, <1>3, <1>4, SettleKeeps


----------------------------------------------------------------------------
(* The steps about the list and the tab.                                   *)

LEMMA HandleListKeeps ==
    ASSUME AnnotInv, NEW s \in Sessions, HandleList(s)
    PROVE  AnnotInv'
<1>i. Inv
  BY DEF AnnotInv, Inv
<1>1. /\ load[s].at = "sent"
      /\ UNCHANGED <<server, cache, page, tab, line, minted, seen, excuse, used>>
  BY DEF HandleList
<1>2. /\ load' \in [Sessions -> [at : {"none", "sent", "read"}, rows : Rows]]
      /\ load'[s].at = "read" /\ load'[s].rows = server
      /\ \A t \in Sessions : t # s => load'[t] = load[t]
  BY <1>i DEF HandleList, Inv, AnnotTypeOK
<1>3. Inv'
  BY <1>i, <1>1, <1>2 DEF Inv, AnnotTypeOK, TabInv
<1>4. Loading' <=> Loading
  <2>1. tab.open => tab.session \in Sessions
    BY <1>i, <1>1, Typed DEF Inv, TabInv, AnnotTypeOK, Tab, Sessions
  <2> QED
    BY <1>1, <1>2, <2>1 DEF Loading
<1>5. ASSUME NEW m \in Own PROVE MarkInv(m)'
  <2>h. MarkInv(m)
    BY DEF AnnotInv
  <2>n. tab.open => tab.session \in Sessions
    BY <1>i, Typed DEF Own
  <2>1. Present(m)' = Present(m)
    BY <1>1 DEF Present
  <2>2. Lines(m)' /\ InTab(m)' /\ Left(m)'
    BY <1>1, <2>h, <2>1 DEF MarkInv, Lines, InTab, Left
  <2>3. Unminted(m)'
    BY <1>1, <1>2, <2>h DEF MarkInv, Unminted
  <2>4. EndsAs(m)'
    BY <1>1, <1>4, <2>h, <2>1 DEF MarkInv, EndsAs, Tracked
  <2>5. Listed(m)'
    BY <1>1, <1>2, <1>4, <2>h, <2>n DEF MarkInv, Listed, Loading
  <2> QED
    BY <2>2, <2>3, <2>4, <2>5 DEF MarkInv
<1>6. ASSUME NEW m \in Baked PROVE Foreign(m)'
  BY <1>1, <1>2 DEF AnnotInv, Foreign
<1> QED
  BY <1>3, <1>5, <1>6 DEF AnnotInv, Inv

LEMMA OpenTabKeeps ==
    ASSUME AnnotInv, OpenTab
    PROVE  AnnotInv'
<1>i. Inv
  BY DEF AnnotInv, Inv
<1>1. PICK s : s = tab.session + 1
  OBVIOUS
<1>2. s \in Sessions /\ s > tab.session /\ tab.session \in Nat /\ s \in Nat
  BY <1>i, <1>1, AnnotationAssumption DEF OpenTab, Sessions, Inv, AnnotTypeOK, Tab
<1>e. None \in Contents \cup {None} /\ Empty \in Rows /\ \A m \in Marks : Empty[m] = None
  BY DEF Empty, Rows
<1>t. /\ ~tab.open /\ tab'.open /\ tab'.session = s
      /\ tab'.owned = {} /\ tab'.timers = {} /\ tab'.known = {} /\ tab'.erased = Empty
      /\ tab' \in Tab
  BY <1>1, <1>2, <1>e DEF OpenTab, Tab, Sessions
<1>3. /\ load' \in [Sessions -> [at : {"none", "sent", "read"}, rows : Rows]]
      /\ load'[s].at = "sent"
      /\ \A t \in Sessions : t # s => load'[t] = load[t]
  BY <1>i, <1>1, <1>2 DEF OpenTab, Inv, AnnotTypeOK
<1>4. UNCHANGED <<server, cache, line, minted, seen, used>>
  BY DEF OpenTab
<1>5. /\ page' \in Rows /\ \A m \in Own : page'[m] = None
  <2>1. Printed \in Contents
    BY AnnotationAssumption DEF Printed
  <2> QED
    BY <2>1 DEF OpenTab, Rows, Own
<1>6. /\ excuse' \in [Marks -> SUBSET Excuses]
      /\ \A m \in Marks : /\ Busy(m) => "overlap" \in excuse'[m]
                          /\ "undone" \in excuse'[m] <=> "undone" \in excuse[m]
  <2>1. excuse' = [m \in Marks |-> (excuse[m] \ {"touched", "overlap"})
                                   \cup (IF Busy(m) THEN {"overlap"} ELSE {})]
    BY DEF OpenTab
  <2>2. excuse \in [Marks -> SUBSET Excuses]
    BY <1>i DEF Inv, AnnotTypeOK
  <2> QED
    BY <2>1, <2>2 DEF Excuses
<1>7. Inv'
  BY <1>i, <1>2, <1>t, <1>3, <1>4, <1>5, <1>6 DEF Inv, AnnotTypeOK, TabInv
<1>8. ASSUME NEW m \in Own PROVE MarkInv(m)'
  <2>h. Lines(m) /\ Unminted(m) /\ m \in Marks
    BY DEF AnnotInv, MarkInv, Own
  <2>1. Present(m)' = Quiescent
    BY <1>2, <1>t, <1>4, <2>h DEF Present, Lines
  <2>2. Lines(m)'
    <3>1. ASSUME NEW t \in Sessions
          PROVE  /\ t > s => line[t][m] = Quiescent
                 /\ line[t][m].out = NoRequest => line[t][m].queue = <<>>
                 /\ line[t][m].out # NoRequest => "overlap" \in excuse'[m]
      <4>1. t \in Nat
        BY AnnotationAssumption DEF Sessions
      <4>2. t > s => t > tab.session
        BY <1>2, <4>1
      <4>3. line[t][m].out # NoRequest => Busy(m)
        BY DEF Busy
      <4> QED
        BY <1>6, <2>h, <4>2, <4>3 DEF Lines
    <3>2. Quiescent.out = NoRequest
      BY DEF Quiescent
    <3> QED
      BY <1>t, <1>4, <2>1, <3>1, <3>2 DEF Lines
  <2>3. Unminted(m)'
    BY <1>2, <1>3, <1>4, <1>5, <2>h DEF Unminted
  <2>4. InTab(m)' /\ Listed(m)' /\ EndsAs(m)' /\ Left(m)'
    BY <1>e, <1>t, <1>3, <1>5, <2>h, <2>1 DEF InTab, Listed, EndsAs, Left
  <2> QED
    BY <2>2, <2>3, <2>4 DEF MarkInv
<1>9. ASSUME NEW m \in Baked PROVE Foreign(m)'
  <2>1. Foreign(m) /\ m \in Marks
    BY AnnotationAssumption DEF AnnotInv
  <2> QED
    BY <1>2, <1>t, <1>3, <1>4, <1>6, <2>1 DEF Foreign
<1> QED
  BY <1>7, <1>8, <1>9 DEF AnnotInv, Inv


\* A mark's unsaved edit, flushed when the tab closes.
LEMMA FlushedIs ==
    ASSUME NEW l \in Line, NEW e, NEW drawn \in Contents,
           e = Enqueued(l, "write", drawn, None)
    PROVE  /\ e.out # NoRequest
           /\ l.out = NoRequest => e.queue = <<>> /\ e.out.at = "sent" /\ e.out.body = drawn
           /\ l.out # NoRequest => /\ e.out = l.out
                                  /\ \E i \in DOMAIN e.queue : e.queue[i] = "write"
<1>1. drawn \in Contents \cup {None} /\ drawn # None
  BY AnnotationAssumption
<1>2. CASE l.out = NoRequest
  <2>1. /\ e.queue = <<>>
        /\ e.out # NoRequest => e.out.at = "sent" /\ e.out.body = drawn
        /\ e.out = NoRequest => ~Needed(drawn, None)
    BY <1>1, <1>2, EnqueuedIs
  <2> QED
    BY <1>1, <1>2, <2>1 DEF Needed
<1>3. CASE l.out # NoRequest
  BY <1>1, <1>3, EnqueuedIs
<1> QED
  BY <1>2, <1>3

LEMMA CloseTabKeeps ==
    ASSUME AnnotInv, CloseTab
    PROVE  AnnotInv'
<1>i. Inv
  BY DEF AnnotInv, Inv
<1>1. PICK s \in Sessions : s = tab.session
  BY <1>i, Typed DEF CloseTab, Inv, TabInv, AnnotTypeOK, Tab, Sessions
<1> DEFINE flushed == [m \in Marks |-> IF m \in tab.timers
                           THEN Enqueued(line[s][m], "write", page[m], None)
                           ELSE line[s][m]]
<1>2. /\ tab.open /\ line' = [line EXCEPT ![s] = flushed]
      /\ cache' = [rows |-> Empty, loaded |-> FALSE] /\ page' = Empty
      /\ tab' = [tab EXCEPT !.open = FALSE, !.timers = {}]
      /\ excuse' = [m \in Marks |-> excuse[m] \cup
                      IF \E i \in DOMAIN flushed[m].queue : flushed[m].queue[i] = "write"
                      THEN {"cut"} ELSE {}]
      /\ UNCHANGED <<server, load, minted, seen, used>>
  BY <1>1 DEF CloseTab
<1>3. ASSUME NEW m \in Marks
      PROVE  /\ line[s][m] \in Line /\ page[m] \in Contents \cup {None}
             /\ m \in tab.timers => flushed[m] = Enqueued(line[s][m], "write", page[m], None)
             /\ m \notin tab.timers => flushed[m] = line[s][m]
  BY <1>i, Typed
<1>4. ASSUME NEW m \in Marks PROVE flushed[m] \in Line
  BY <1>3, EnqueuedIs
<1> HIDE DEF flushed
<1>l. /\ line' \in [Sessions -> [Marks -> Line]]
      /\ \A m \in Marks : line'[s][m] = flushed[m]
      /\ \A t \in Sessions, m \in Marks : t # s => line'[t][m] = line[t][m]
  <2>1. flushed \in [Marks -> Line]
    BY <1>4 DEF flushed
  <2> QED
    BY <1>i, <1>2, <2>1 DEF Inv, AnnotTypeOK
<1>e. Empty \in Rows /\ \A m \in Marks : Empty[m] = None
  BY DEF Empty, Rows
<1>t. /\ tab' \in Tab /\ ~tab'.open /\ tab'.session = s /\ tab'.timers = {}
      /\ tab'.owned = tab.owned /\ tab'.known = tab.known
  BY <1>i, <1>1, <1>2 DEF Inv, AnnotTypeOK, Tab
<1>x. /\ excuse' \in [Marks -> SUBSET Excuses]
      /\ \A m \in Marks :
           /\ (\E i \in DOMAIN flushed[m].queue : flushed[m].queue[i] = "write") =>
                  "cut" \in excuse'[m]
           /\ \A e \in Excuses \ {"cut"} : e \in excuse'[m] <=> e \in excuse[m]
  <2>1. excuse \in [Marks -> SUBSET Excuses]
    BY <1>i DEF Inv, AnnotTypeOK
  <2> QED
    BY <1>2, <2>1 DEF Excuses
<1>n. s # 0 /\ tab.session = s
  BY <1>1, AnnotationAssumption DEF Sessions
<1>5. Inv'
  BY <1>i, <1>2, <1>l, <1>e, <1>t, <1>x, <1>n DEF Inv, AnnotTypeOK, TabInv
<1>6. ASSUME NEW m \in Own PROVE MarkInv(m)'
  <2>h. Lines(m) /\ Unminted(m) /\ InTab(m) /\ EndsAs(m) /\ m \in Marks
    BY DEF AnnotInv, MarkInv, Own
  <2>x. /\ "overlap" \in excuse'[m] <=> "overlap" \in excuse[m]
        /\ "touched" \in excuse'[m] <=> "touched" \in excuse[m]
        /\ "failed" \in excuse'[m] <=> "failed" \in excuse[m]
    BY <1>x, <2>h DEF Excuses
  <2>1. PICK l \in Line : l = line[s][m] /\ l = Present(m) /\ (l.out = NoRequest => l.queue = <<>>)
    BY <1>n, <1>3, <2>h DEF Present, Lines
  <2>2. PICK e \in Line : e = flushed[m] /\ e = line'[s][m] /\ e = Present(m)'
    BY <1>4, <1>l, <1>t, <2>h DEF Present
  <2>3. CASE m \in tab.timers
    <3>0. page[m] # None /\ page[m] \in Contents \cup {None} /\ m \in tab.known /\ seen[m] = page[m]
      BY <1>2, <1>3, <2>3, <2>h DEF InTab
    <3>1. /\ e.out # NoRequest
          /\ l.out = NoRequest => /\ e.queue = <<>> /\ e.out.at = "sent"
                                 /\ e.out.body = page[m]
          /\ l.out # NoRequest => /\ e.out = l.out
                                 /\ \E i \in DOMAIN e.queue : e.queue[i] = "write"
      <4>1. PICK c \in Contents : c = page[m]
        BY <3>0
      <4>2. e = Enqueued(l, "write", c, None)
        BY <1>3, <2>3, <2>h, <2>1, <2>2, <4>1
      <4> QED
        BY <4>1, <4>2, FlushedIs
    <3>2. e.out # NoRequest
      BY <3>1
    <3>3. Lines(m)'
      <4>1. e.out = l.out \/ e.out.at # "done"
        BY <3>1, <3>2
      <4> QED
        BY <1>i, <1>n, <1>2, <1>l, <1>t, <2>h, <2>x, <2>1, <2>2, <3>2, <4>1, LinesKept
    <3>4. m \in minted
      BY <2>h, <3>0 DEF Unminted
    <3>5. Left(m)'
      <4>1. SUFFICES ASSUME "cut" \notin excuse'[m] PROVE Left(m)'
        BY DEF Left
      <4>2. l.out = NoRequest
        BY <1>x, <2>h, <2>2, <3>1, <4>1
      <4> QED
        BY <1>2, <2>2, <3>0, <3>1, <3>2, <4>2 DEF Left
    <3> QED
      BY <1>2, <1>t, <2>h, <3>3, <3>4, <3>5 DEF MarkInv, Unminted, InTab, Listed, Loading, EndsAs
  <2>4. CASE m \notin tab.timers
    <3>1. e = l /\ \A t \in Sessions : line'[t][m] = line[t][m]
      BY <1>3, <1>l, <2>4, <2>h, <2>1, <2>2
    <3>2. Lines(m)'
      BY <1>n, <1>2, <1>t, <2>h, <2>x, <2>1, <2>2, <3>1 DEF Lines
    <3>3. Unminted(m)'
      BY <1>2, <1>e, <2>h, <3>1 DEF Unminted
    <3>4. Left(m)'
      <4>1. SUFFICES ASSUME m \in tab.known,
                            excuse'[m] \cap {"overlap", "touched", "cut"} = {}
                     PROVE  Left(m)'
        BY <1>t DEF Left
      <4>2. Tracked(m) /\ seen[m] = page[m]
        BY <1>2, <2>h, <2>x, <4>1 DEF Tracked, InTab
      <4>3. \A i \in DOMAIN l.queue : l.queue[i] = "delete"
        <5>1. l.queue \in Seq({"write", "delete"})
          BY DEF Line
        <5>2. \A i \in DOMAIN l.queue : l.queue[i] \in {"write", "delete"}
          BY <5>1, LenProperties, ElementOfSeq
        <5>3. \A i \in DOMAIN l.queue : l.queue[i] # "write"
          BY <1>x, <2>h, <2>2, <3>1, <4>1
        <5> QED
          BY <5>2, <5>3
      <4>4. l.queue # <<>> => Last(l.queue) = "delete"
        <5>1. l.queue \in Seq({"write", "delete"})
          BY DEF Line
        <5>2. l.queue # <<>> => Len(l.queue) \in DOMAIN l.queue
          BY <5>1, LenProperties, EmptySeq
        <5> QED
          BY <4>3, <5>2 DEF Last
      <4>5. /\ l.queue # <<>> => page[m] = None
            /\ l.out # NoRequest /\ l.queue = <<>> => l.out.body = page[m]
            /\ l.out = NoRequest /\ "failed" \notin excuse[m] => server[m] = page[m]
        BY <1>2, <2>4, <2>h, <2>1, <4>1, <4>2, <4>4 DEF EndsAs
      <4> QED
        BY <1>2, <2>x, <2>1, <2>2, <3>1, <4>2, <4>3, <4>5 DEF Left
    <3> QED
      BY <1>t, <3>2, <3>3, <3>4 DEF MarkInv, InTab, Listed, Loading, EndsAs
  <2> QED
    BY <2>3, <2>4
<1>7. ASSUME NEW m \in Baked PROVE Foreign(m)'
  <2>1. Foreign(m) /\ m \in Marks
    BY AnnotationAssumption DEF AnnotInv
  <2>2. "undone" \in excuse'[m] <=> "undone" \in excuse[m]
    BY <1>x, <2>1 DEF Excuses
  <2>3. m \notin tab.timers => \A t \in Sessions : line'[t][m] = line[t][m]
    BY <1>3, <1>l, <2>1
  <2> QED
    BY <1>2, <1>e, <1>t, <2>1, <2>2, <2>3 DEF Foreign
<1> QED
  BY <1>5, <1>6, <1>7 DEF AnnotInv, Inv


\* start() has put the rows of the cache on the page.
LEMMA ImportMoves ==
    ASSUME Inv, NEW rows \in Rows, Import(rows)
    PROVE  /\ page' \in Rows /\ seen' = page' /\ tab' \in Tab
           /\ tab'.open = tab.open /\ tab'.session = tab.session
           /\ tab'.timers = tab.timers /\ tab'.known = Marks /\ tab'.erased = tab.erased
           /\ \A m \in Marks :
                /\ rows[m] # None => page'[m] = rows[m] /\ m \in tab'.owned
                /\ rows[m] = None => /\ page'[m] = page[m]
                                     /\ m \in tab'.owned <=> m \in tab.owned
<1> DEFINE stored == {m \in Marks : rows[m] # None}
<1>1. /\ page' = [m \in Marks |-> IF m \in stored THEN rows[m] ELSE page[m]]
      /\ seen' = page'
      /\ tab' = [tab EXCEPT !.owned = @ \cup stored, !.known = Marks]
  BY DEF Import
<1>2. \A m \in Marks : m \in stored <=> rows[m] # None
  OBVIOUS
<1>3. stored \in SUBSET Marks
  OBVIOUS
<1> HIDE DEF stored
<1>4. /\ tab' \in Tab /\ tab'.owned = tab.owned \cup stored /\ tab'.known = Marks
      /\ tab'.open = tab.open /\ tab'.session = tab.session
      /\ tab'.timers = tab.timers /\ tab'.erased = tab.erased
  BY <1>1, <1>3 DEF Inv, AnnotTypeOK, Tab
<1>5. page' \in Rows /\ \A m \in Marks : page'[m] = IF m \in stored THEN rows[m] ELSE page[m]
  BY <1>1 DEF Inv, AnnotTypeOK, Rows
<1> QED
  BY <1>1, <1>2, <1>4, <1>5

LEMMA ListArrivesKeeps ==
    ASSUME AnnotInv, NEW s \in Sessions, ListArrives(s)
    PROVE  AnnotInv'
<1>i. Inv
  BY DEF AnnotInv, Inv
<1> DEFINE rows == load[s].rows
<1>1. /\ load[s].at = "read" /\ rows \in Rows
      /\ cache' = [rows |-> rows, loaded |-> TRUE] /\ cache' \in [rows : Rows, loaded : BOOLEAN]
      /\ UNCHANGED <<server, line, minted, used>>
  BY <1>i DEF ListArrives, Inv, AnnotTypeOK
<1>2. /\ load' \in [Sessions -> [at : {"none", "sent", "read"}, rows : Rows]]
      /\ load'[s].at = "none"
      /\ \A t \in Sessions : t # s => load'[t] = load[t]
  BY <1>i DEF ListArrives, Inv, AnnotTypeOK
<1>r. \A m \in Marks :
        /\ m \in Own /\ m \notin minted => rows[m] = None
        /\ m \in Baked /\ "undone" \notin excuse[m] => rows[m] = None
  BY <1>1 DEF AnnotInv, MarkInv, Unminted, Foreign
<1>3. CASE Current(s)
  <2>1. Import(rows) /\ tab.open /\ tab.session = s
    BY <1>3 DEF ListArrives, Current
  <2>x. /\ excuse' \in [Marks -> SUBSET Excuses]
        /\ \A m \in Marks, e \in Excuses \ {"failed", "cut"} : e \in excuse'[m] <=> e \in excuse[m]
    <3>1. excuse' = [m \in Marks |-> excuse[m] \ {"failed", "cut"}]
      BY <1>3 DEF ListArrives
    <3> QED
      BY <1>i, <3>1 DEF Inv, AnnotTypeOK
  <2>2. /\ page' \in Rows /\ seen' = page' /\ tab' \in Tab
        /\ tab'.open /\ tab'.session = s
        /\ tab'.timers = tab.timers /\ tab'.known = Marks /\ tab'.erased = tab.erased
        /\ \A m \in Marks :
             /\ rows[m] # None => page'[m] = rows[m] /\ m \in tab'.owned
             /\ rows[m] = None => /\ page'[m] = page[m]
                                  /\ m \in tab'.owned <=> m \in tab.owned
    BY <1>i, <1>1, <2>1, ImportMoves
  <2> HIDE DEF rows
  <2>3. Inv'
    BY <1>i, <1>1, <1>2, <2>x, <2>1, <2>2 DEF Inv, AnnotTypeOK, TabInv
  <2>4. ASSUME NEW m \in Own PROVE MarkInv(m)'
    <3>h. MarkInv(m) /\ m \in Marks
      BY DEF AnnotInv, Own
    <3>x. /\ "overlap" \in excuse'[m] <=> "overlap" \in excuse[m]
          /\ "touched" \in excuse'[m] <=> "touched" \in excuse[m]
      BY <2>x, <3>h DEF Excuses
    <3>1. Present(m)' = Present(m) /\ ~Loading'
      BY <1>1, <1>2, <2>1, <2>2 DEF Present, Loading
    <3>2. Lines(m)'
      BY <1>1, <2>1, <2>2, <3>h, <3>x, <3>1 DEF MarkInv, Lines
    <3>3. Unminted(m)'
      BY <1>1, <1>2, <1>r, <2>2, <3>h DEF MarkInv, Unminted
    <3>4. InTab(m)'
      BY <2>1, <2>2, <3>h DEF MarkInv, InTab
    <3>5. Listed(m)' /\ Left(m)'
      BY <2>2, <3>1 DEF Listed, Left
    <3>6. EndsAs(m)'
      <4>1. SUFFICES ASSUME Tracked(m)' PROVE EndsAs(m)'
        BY DEF EndsAs
      <4>2. Loading /\ "overlap" \notin excuse[m] /\ "touched" \notin excuse[m]
        BY <1>1, <2>1, <3>x, <3>1, <4>1 DEF Tracked, Loading
      <4>3. m \notin tab.known /\ rows[m] = server[m]
        BY <1>1, <2>1, <3>h, <4>2 DEF MarkInv, Listed, rows
      <4>4. page[m] = None /\ Present(m) = Quiescent
        BY <2>1, <3>h, <4>3 DEF MarkInv, InTab
      <4>5. Quiescent.out = NoRequest /\ Quiescent.queue = <<>>
        BY DEF Quiescent
      <4>6. server'[m] = cache'.rows[m] /\ page'[m] = cache'.rows[m]
        BY <1>1, <2>2, <3>h, <4>3, <4>4
      <4> QED
        BY <3>1, <4>4, <4>5, <4>6 DEF EndsAs
    <3> QED
      BY <3>2, <3>3, <3>4, <3>5, <3>6 DEF MarkInv
  <2>5. ASSUME NEW m \in Baked PROVE Foreign(m)'
    <3>1. Foreign(m) /\ m \in Marks
      BY AnnotationAssumption DEF AnnotInv
    <3>2. "undone" \in excuse'[m] <=> "undone" \in excuse[m]
      BY <2>x, <3>1 DEF Excuses
    <3> QED
      BY <1>1, <1>2, <1>r, <2>2, <3>1, <3>2 DEF Foreign
  <2> QED
    BY <2>3, <2>4, <2>5 DEF AnnotInv, Inv
<1>4. CASE ~Current(s)
  <2>1. UNCHANGED <<page, seen, tab>>
    BY <1>4 DEF ListArrives
  <2>x. /\ excuse' \in [Marks -> SUBSET Excuses]
        /\ \A m \in Marks : /\ "overlap" \in excuse'[m]
                            /\ "undone" \in excuse'[m] <=> "undone" \in excuse[m]
    <3>1. excuse' = [m \in Marks |-> excuse[m] \cup {"overlap"}]
      BY <1>4 DEF ListArrives
    <3> QED
      BY <1>i, <3>1 DEF Inv, AnnotTypeOK, Excuses
  <2> HIDE DEF rows
  <2>3. Inv'
    BY <1>i, <1>1, <1>2, <2>x, <2>1 DEF Inv, AnnotTypeOK, TabInv
  <2>4. ASSUME NEW m \in Own PROVE MarkInv(m)'
    <3>h. MarkInv(m) /\ m \in Marks
      BY DEF AnnotInv, Own
    <3>x. "overlap" \in excuse'[m]
      BY <2>x, <3>h
    <3>1. Present(m)' = Present(m)
      BY <1>1, <2>1 DEF Present
    <3>2. Lines(m)'
      BY <1>1, <2>1, <3>h, <3>x DEF MarkInv, Lines
    <3>3. Unminted(m)'
      BY <1>1, <1>2, <1>r, <2>1, <3>h DEF MarkInv, Unminted
    <3>4. InTab(m)'
      BY <2>1, <3>h, <3>1 DEF MarkInv, InTab
    <3>5. Listed(m)' /\ EndsAs(m)' /\ Left(m)'
      BY <3>x DEF Listed, EndsAs, Tracked, Left
    <3> QED
      BY <3>2, <3>3, <3>4, <3>5 DEF MarkInv
  <2>5. ASSUME NEW m \in Baked PROVE Foreign(m)'
    <3>1. Foreign(m) /\ m \in Marks
      BY AnnotationAssumption DEF AnnotInv
    <3> QED
      BY <1>1, <1>2, <1>r, <2>1, <2>x, <3>1 DEF Foreign
  <2> QED
    BY <2>3, <2>4, <2>5 DEF AnnotInv, Inv
<1> QED
  BY <1>3, <1>4

LEMMA ListFailsKeeps ==
    ASSUME AnnotInv, NEW s \in Sessions, ListFails(s)
    PROVE  AnnotInv'
<1>i. Inv
  BY DEF AnnotInv, Inv
<1>1. load[s].at # "none" /\ UNCHANGED <<server, cache, line, minted>>
  BY DEF ListFails
<1>2. /\ load' \in [Sessions -> [at : {"none", "sent", "read"}, rows : Rows]]
      /\ load'[s].at = "none"
      /\ \A t \in Sessions : t # s => load'[t] = load[t]
  BY <1>i DEF ListFails, Inv, AnnotTypeOK
<1>s. used' \in [actions : 0 .. MaxActions, failures : 0 .. MaxLost]
  BY <1>i, AnnotationAssumption DEF ListFails, Inv, AnnotTypeOK, Use
<1>3. CASE Current(s) /\ cache.loaded
  <2>1. Import(cache.rows) /\ tab.open /\ tab.session = s /\ cache.rows \in Rows
    BY <1>i, <1>3 DEF ListFails, Current, Inv, AnnotTypeOK
  <2>x. /\ excuse' \in [Marks -> SUBSET Excuses]
        /\ \A m \in Marks : /\ "overlap" \in excuse'[m]
                            /\ "undone" \in excuse'[m] <=> "undone" \in excuse[m]
    <3>1. excuse' = [m \in Marks |-> excuse[m] \cup {"overlap"}]
      BY <1>3 DEF ListFails
    <3> QED
      BY <1>i, <3>1 DEF Inv, AnnotTypeOK, Excuses
  <2>2. /\ page' \in Rows /\ seen' = page' /\ tab' \in Tab
        /\ tab'.open /\ tab'.session = s
        /\ tab'.timers = tab.timers /\ tab'.known = Marks /\ tab'.erased = tab.erased
        /\ \A m \in Marks :
             /\ cache.rows[m] # None => page'[m] = cache.rows[m] /\ m \in tab'.owned
             /\ cache.rows[m] = None => /\ page'[m] = page[m]
                                        /\ m \in tab'.owned <=> m \in tab.owned
    BY <1>i, <2>1, ImportMoves
  <2>3. Inv'
    BY <1>i, <1>1, <1>2, <1>s, <2>x, <2>1, <2>2 DEF Inv, AnnotTypeOK, TabInv
  <2>4. ASSUME NEW m \in Own PROVE MarkInv(m)'
    <3>h. MarkInv(m) /\ m \in Marks
      BY DEF AnnotInv, Own
    <3>x. "overlap" \in excuse'[m]
      BY <2>x, <3>h
    <3>2. Lines(m)'
      BY <1>1, <2>1, <2>2, <3>h, <3>x DEF MarkInv, Lines
    <3>3. Unminted(m)'
      BY <1>1, <1>2, <2>2, <3>h DEF MarkInv, Unminted
    <3>4. InTab(m)'
      BY <2>1, <2>2, <3>h DEF MarkInv, InTab
    <3>5. Listed(m)' /\ EndsAs(m)' /\ Left(m)'
      BY <3>x DEF Listed, EndsAs, Tracked, Left
    <3> QED
      BY <3>2, <3>3, <3>4, <3>5 DEF MarkInv
  <2>5. ASSUME NEW m \in Baked PROVE Foreign(m)'
    <3>1. Foreign(m) /\ m \in Marks
      BY AnnotationAssumption DEF AnnotInv
    <3> QED
      BY <1>1, <1>2, <2>2, <2>x, <3>1 DEF Foreign
  <2> QED
    BY <2>3, <2>4, <2>5 DEF AnnotInv, Inv
<1>4. CASE ~(Current(s) /\ cache.loaded)
  <2>1. UNCHANGED <<page, seen, tab>>
    BY <1>4 DEF ListFails
  <2>x. /\ excuse' \in [Marks -> SUBSET Excuses]
        /\ \A m \in Marks : /\ \A e \in Excuses \ {"touched"} : e \in excuse'[m] <=> e \in excuse[m]
                            /\ ~Current(s) => excuse'[m] = excuse[m]
    <3>1. excuse' = [m \in Marks |-> excuse[m] \ (IF Current(s) THEN {"touched"} ELSE {})]
      BY <1>4 DEF ListFails
    <3> QED
      BY <1>i, <3>1 DEF Inv, AnnotTypeOK, Excuses
  <2>3. Inv'
    BY <1>i, <1>1, <1>2, <1>s, <2>x, <2>1 DEF Inv, AnnotTypeOK, TabInv
  <2>4. ASSUME NEW m \in Own PROVE MarkInv(m)'
    <3>h. MarkInv(m) /\ m \in Marks
      BY DEF AnnotInv, Own
    <3>x. /\ "overlap" \in excuse'[m] <=> "overlap" \in excuse[m]
          /\ "failed" \in excuse'[m] <=> "failed" \in excuse[m]
          /\ "cut" \in excuse'[m] <=> "cut" \in excuse[m]
      BY <2>x, <3>h DEF Excuses
    <3>n. tab.open => tab.session \in Sessions
      BY <1>i, <3>h, Typed
    <3>1. Present(m)' = Present(m)
      BY <1>1, <2>1 DEF Present
    <3>2. Lines(m)' /\ InTab(m)'
      BY <1>1, <2>1, <3>h, <3>x, <3>1 DEF MarkInv, Lines, InTab
    <3>3. Unminted(m)'
      BY <1>1, <1>2, <2>1, <3>h DEF MarkInv, Unminted
    <3>4. CASE Current(s)
      <4>1. tab.open /\ tab.session = s /\ Loading /\ ~Loading'
        BY <1>1, <1>2, <2>1, <3>4 DEF Current, Loading
      <4>2. Tracked(m)' => Tracked(m)
        BY <3>x, <4>1 DEF Tracked
      <4>3. EndsAs(m)'
        BY <1>1, <2>1, <3>h, <3>x, <3>1, <4>2 DEF MarkInv, EndsAs
      <4> QED
        BY <2>1, <3>2, <3>3, <4>1, <4>3 DEF MarkInv, Listed, Left
    <3>5. CASE ~Current(s)
      <4>0. excuse'[m] = excuse[m]
        BY <2>x, <3>h, <3>5
      <4>1. tab.open => tab.session # s /\ load'[tab.session] = load[tab.session]
        BY <1>2, <3>n, <3>5 DEF Current
      <4>2. Loading' <=> Loading
        BY <2>1, <4>1 DEF Loading
      <4>3. EndsAs(m)' /\ Left(m)'
        BY <1>1, <2>1, <3>h, <3>1, <4>0, <4>2 DEF MarkInv, EndsAs, Left, Tracked
      <4>4. Listed(m)'
        BY <1>1, <2>1, <3>h, <4>0, <4>1, <4>2 DEF MarkInv, Listed, Loading
      <4> QED
        BY <3>2, <3>3, <4>3, <4>4 DEF MarkInv
    <3> QED
      BY <3>4, <3>5
  <2>5. ASSUME NEW m \in Baked PROVE Foreign(m)'
    <3>1. Foreign(m) /\ m \in Marks
      BY AnnotationAssumption DEF AnnotInv
    <3>2. "undone" \in excuse'[m] <=> "undone" \in excuse[m]
      BY <2>x, <3>1 DEF Excuses
    <3> QED
      BY <1>1, <1>2, <2>1, <3>1, <3>2 DEF Foreign
  <2> QED
    BY <2>3, <2>4, <2>5 DEF AnnotInv, Inv
<1> QED
  BY <1>3, <1>4

----------------------------------------------------------------------------
(* The theorems.                                                           *)

LEMMA AnnotInvNext == AnnotInv /\ [AnnotNext]_annotVars => AnnotInv'
<1> SUFFICES ASSUME AnnotInv, [AnnotNext]_annotVars PROVE AnnotInv'
  OBVIOUS
<1>1. CASE OpenTab \/ CloseTab
  BY <1>1, OpenTabKeeps, CloseTabKeeps
<1>2. ASSUME NEW m \in Marks, Draw(m) \/ Edit(m) \/ Erase(m) \/ TimerFires(m)
      PROVE  AnnotInv'
  BY <1>2, DrawKeeps, EditKeeps, EraseKeeps, TimerKeeps
<1>3. ASSUME NEW s \in Sessions, NetList(s) PROVE AnnotInv'
  BY <1>3, HandleListKeeps, ListArrivesKeeps, ListFailsKeeps DEF NetList
<1>4. ASSUME NEW s \in Sessions, NEW m \in Marks, Net(s, m) PROVE AnnotInv'
  BY <1>4, HandleKeeps, SucceedsKeeps, FailsKeeps DEF Net
<1>5. CASE UNCHANGED annotVars
  <2>1. /\ UNCHANGED <<server, cache, page, tab, load, line, minted, seen, excuse, used>>
    BY <1>5 DEF annotVars
  <2>2. Inv /\ \A m \in Marks : Same(m)
    BY <2>1 DEF AnnotInv, Inv, Same
  <2>3. \A m \in Marks : (MarkInv(m) => MarkInv(m)') /\ (Foreign(m) => Foreign(m)')
    BY <2>2, SameKeeps
  <2>4. Inv'
    BY <2>1, <2>2 DEF Inv, AnnotTypeOK, TabInv
  <2> QED
    BY <2>3, <2>4, AnnotationAssumption DEF AnnotInv, Inv, Own
<1> QED
  BY <1>1, <1>2, <1>3, <1>4, <1>5 DEF AnnotNext, User

LEMMA AnnotInvInit == AnnotInit => AnnotInv
<1> SUFFICES ASSUME AnnotInit PROVE AnnotInv
  OBVIOUS
<1>e. Empty \in Rows /\ \A m \in Marks : Empty[m] = None
  BY DEF Empty, Rows
<1>i. Quiescent \in Line /\ Quiescent.out = NoRequest /\ Quiescent.queue = <<>>
  BY EmptySeq DEF Quiescent, Line
<1>1. /\ server \in Rows /\ \A m \in Baked : server[m] = None
      /\ cache = [rows |-> Empty, loaded |-> FALSE] /\ page = Empty /\ seen = Empty
      /\ load = [s \in Sessions |-> [at |-> "none", rows |-> Empty]]
      /\ line = [s \in Sessions |-> [m \in Marks |-> Quiescent]]
      /\ minted = Baked \cup {m \in Marks : server[m] # None}
      /\ excuse = [m \in Marks |-> {}]
  BY DEF AnnotInit
<1>2. /\ ~tab.open /\ tab.session = 0 /\ tab.owned = {} /\ tab.timers = {} /\ tab.known = {}
      /\ tab \in Tab
  BY <1>e, AnnotationAssumption DEF AnnotInit, Tab
<1>3. used \in [actions : 0 .. MaxActions, failures : 0 .. MaxLost]
  BY AnnotationAssumption DEF AnnotInit
<1>4. Inv
  BY <1>e, <1>i, <1>1, <1>2, <1>3, AnnotationAssumption DEF Inv, AnnotTypeOK, TabInv
<1>5. ASSUME NEW m \in Own PROVE MarkInv(m)
  <2>1. m \in Marks /\ \A s \in Sessions : line[s][m] = Quiescent /\ load[s].at = "none"
    BY <1>1 DEF Own
  <2>2. Lines(m)
    BY <1>i, <1>2, <2>1 DEF Lines
  <2>3. Unminted(m)
    BY <1>e, <1>1, <2>1 DEF Unminted
  <2> QED
    BY <1>2, <2>2, <2>3 DEF MarkInv, InTab, Listed, Loading, EndsAs, Left
<1>6. ASSUME NEW m \in Baked PROVE Foreign(m)
  <2>1. m \in Marks /\ \A s \in Sessions : line[s][m] = Quiescent /\ load[s].at = "none"
    BY <1>1, AnnotationAssumption
  <2> QED
    BY <1>e, <1>1, <1>2, <2>1 DEF Foreign
<1> QED
  BY <1>4, <1>5, <1>6 DEF AnnotInv, Inv

\* The rows, the page, the tab, the requests and the histories keep their types
\* in every session: whatever is queued, sent or answered (annotationSync).
THEOREM AnnotTypeHolds == AnnotSpec => []AnnotTypeOK
<1>1. AnnotInv => AnnotTypeOK
  BY DEF AnnotInv
<1> QED
  BY <1>1, AnnotInvInit, AnnotInvNext, PTL DEF AnnotSpec

\* When nothing of a mark of the user's waits any more, its row is what the
\* reader shows, or showed last, but for the named excuses: however edits,
\* erasures, answers, failures and sessions interleave (enqueue, destroy).
THEOREM ConvergedHolds == AnnotSpec => []Converged
<1>1. ASSUME AnnotInv, NEW m \in Own, Quiet(m), excuse[m] = {}, m \in tab.known
      PROVE  server[m] = seen[m]
  <2>h. MarkInv(m) /\ Inv /\ m \in Marks
    BY <1>1 DEF AnnotInv, Inv, Own
  <2>1. tab.session \in Sessions
    BY <1>1, <2>h, Typed
  <2>2. Present(m).out = NoRequest /\ m \notin tab.timers
    BY <1>1, <2>1 DEF Quiet, Busy, Present
  <2>3. CASE tab.open
    <3>1. Tracked(m)
      BY <1>1 DEF Tracked
    <3>2. server[m] = cache.rows[m] /\ page[m] = cache.rows[m] /\ seen[m] = page[m]
      BY <1>1, <2>h, <2>2, <2>3, <3>1 DEF MarkInv, EndsAs, InTab
    <3> QED
      BY <3>2
  <2>4. CASE ~tab.open
    BY <1>1, <2>h, <2>2, <2>4 DEF MarkInv, Left
  <2> QED
    BY <2>3, <2>4
<1>2. AnnotInv => Converged
  BY <1>1 DEF Converged, Agrees, Own
<1> QED
  BY <1>2, AnnotInvInit, AnnotInvNext, PTL DEF AnnotSpec

\* A mark that came with the PDF has no row, whatever is done to it, unless its
\* erasure was undone (the sync owns what it has created or imported, only).
THEOREM NeverAdoptedHolds == AnnotSpec => []NeverAdopted
<1>1. AnnotInv => NeverAdopted
  BY DEF AnnotInv, Foreign, NeverAdopted
<1> QED
  BY <1>1, AnnotInvInit, AnnotInvNext, PTL DEF AnnotSpec

----------------------------------------------------------------------------
(* The turns with the agent.                                               *)

Stages == {"new"} \cup Open \cup Ends
Stored == {"stored", "late"}

TurnsTypeInv ==
    /\ TurnsTypeOK
    /\ turn \in [Turns -> [at : Stages, told : Seq(Turns)]]

\* Which processes a turn has at which of its stages; the runner has said
\* "done" before the exchange is to be stored.
AgentAt ==
    \A t \in Turns :
        /\ turn[t].at \in {"new"} \cup Handling =>
               runner[t] = "none" /\ ~cli[t] /\ said[t] = "nothing"
        /\ turn[t].at \in {"request", "stream", "save"} => runner[t] = "up"
        /\ Is(t, "wait") => runner[t] \in {"mute", "gone"}
        /\ turn[t].at \in {"save"} \cup Stored => said[t] = "done"
        /\ turn[t].at \in Ends \ {"died"} => runner[t] \in {"none", "gone"}
        /\ turn[t].at \in {"left", "timeout"} => ~cli[t]

\* Nobody has ever heard of a turn that has not stored its exchange.
ToldOfStored ==
    \A t \in Turns : \A k \in DOMAIN turn[t].told : turn[turn[t].told[k]].at \in Stored

\* While nothing raced or failed, one turn extracts at a time, and the stages of
\* its two branches say what is on the disk.
Extracting ==
    /\ \A t, u \in Turns : turn[t].at \in Extraction /\ turn[u].at \in Extraction => t = u
    /\ \A t \in Turns : Is(t, "unmark") => text \in {"whole", "none"}
    /\ \A t \in Turns : dir /\ Is(t, "placeholder") => mark \/ purge = "emptying"
    /\ text = "placeholder" => mark \/ purge = "emptying"
    /\ text = "torn" => \E t \in Turns : Is(t, "fill")

Trustworthy == raced \cap {"extract", "purge"} # {} \/ faults > 0 \/ Extracting

\* From the removal of the workspace on, it stays removed, unless something met it.
Excused == raced \cap {"purge", "refused"} # {}
PurgedClean ==
    /\ row = "purged" => thread = <<>>
    /\ purge = "removed" \/ row = "purged" => Excused \/ ~dir

TurnsInv == TurnsTypeInv /\ AgentAt /\ ToldOfStored /\ OnlyFinished /\ Trustworthy /\ PurgedClean

----------------------------------------------------------------------------
(* How the turns move.                                                     *)

LEMMA StagesApart ==
    /\ {"new"} \cap (Open \cup Ends) = {} /\ Open \cap Ends = {}
    /\ Stored \subseteq Ends /\ Extraction \subseteq Handling /\ Handling \subseteq Open
BY DEF Open, Handling, Extraction, Ends, Stored

LEMMA Turned ==
    ASSUME TurnsTypeInv, NEW t \in Turns, NEW at \in Stages, Turn(t, at)
    PROVE  /\ turn' \in [Turns -> [at : Stages, told : Seq(Turns)]]
           /\ turn'[t].at = at /\ turn'[t].told = turn[t].told
           /\ \A u \in Turns \ {t} : turn'[u] = turn[u]
BY DEF TurnsTypeInv, Turn

\* The steps that move a turn on, apart from the request itself.
Step(t) == Serve(t) \/ CloseOutput(t) \/ Leave(t) \/ WriteFails(t)

LEMMA StepTurns ==
    ASSUME NEW t \in Turns, Step(t)
    PROVE  /\ turn[t].at \in Open
           /\ \E at \in (Open \cup Ends) \ {"look"} : Turn(t, at)
<1>1. CASE Serve(t)
  <2>1. turn[t].at \in Open
    BY <1>1 DEF Serve, LookAt, Extract, WriteText, FillText, Unmark, Mark, Placeholder, Written,
       Spawn, TakeRequest, RequestBreaks, Finish, Refuse, Timeout, Reap, Store, Is, Open, Handling, Extraction
  <2>2. \E at \in (Open \cup Ends) \ {"look"} : Turn(t, at)
    BY <1>1, Zenon DEF Serve, LookAt, Extract, WriteText, FillText, Unmark, Mark, Placeholder, Written,
       Spawn, TakeRequest, RequestBreaks, Finish, Refuse, Timeout, Abort, Reap, Store, Open, Handling, Extraction, Ends
  <2> QED
    BY <2>1, <2>2
<1>2. CASE CloseOutput(t) \/ Leave(t) \/ WriteFails(t)
  BY <1>2 DEF CloseOutput, Leave, WriteFails, Abort, Is, Open, Handling, Extraction, Ends
<1> QED
  BY <1>1, <1>2 DEF Step

\* Every step but a request leaves what the turns were told, and the turns that
\* are over.
TurnsKept ==
    \A t \in Turns :
        /\ turn'[t].told = turn[t].told
        /\ turn[t].at \in Ends => turn'[t] = turn[t]
        /\ Is(t, "new") <=> Is(t, "new")'
        /\ Is(t, "look")' => Is(t, "look")

LEMMA StepKeepsTurns ==
    ASSUME TurnsTypeInv, NEW t \in Turns, Step(t)
    PROVE  /\ turn' \in [Turns -> [at : Stages, told : Seq(Turns)]]
           /\ \A u \in Turns \ {t} : turn'[u] = turn[u]
           /\ TurnsKept
<1>1. PICK at \in (Open \cup Ends) \ {"look"} : Turn(t, at)
  BY StepTurns
<1>2. turn[t].at \in Open /\ at \in Stages
  BY StepTurns DEF Stages
<1> QED
  BY <1>1, <1>2, Turned, StagesApart DEF TurnsKept, Is

LEMMA CrashKeepsTurns ==
    ASSUME TurnsTypeInv, Crash
    PROVE  /\ turn' \in [Turns -> [at : Stages, told : Seq(Turns)]]
           /\ \A u \in Turns : turn'[u] = turn[u] \/ turn'[u].at = "died"
           /\ TurnsKept
<1>1. ASSUME NEW u \in Turns
      PROVE  /\ turn'[u] \in [at : Stages, told : Seq(Turns)]
             /\ turn'[u].told = turn[u].told
             /\ \/ turn[u].at \in Open /\ turn'[u].at = "died"
                \/ turn[u].at \notin Open /\ turn'[u] = turn[u]
  <2>1. turn[u] \in [at : Stages, told : Seq(Turns)] /\ "died" \in Stages
    BY DEF TurnsTypeInv, Stages, Ends
  <2>2. turn'[u] = IF turn[u].at \in Open THEN [turn[u] EXCEPT !.at = "died"] ELSE turn[u]
    BY DEF Crash
  <2> QED
    BY <2>1, <2>2
<1>2. turn' = [u \in Turns |-> turn'[u]]
  BY DEF Crash
<1> QED
  BY <1>1, <1>2, StagesApart DEF TurnsKept, Is, Open, Handling, Stages

LEMMA AskTurns ==
    ASSUME TurnsTypeInv, NEW t \in Turns, Ask(t)
    PROVE  /\ turn' \in [Turns -> [at : Stages, told : Seq(Turns)]]
           /\ \A u \in Turns \ {t} : turn'[u] = turn[u]
           /\ turn[t].at = "new" /\ turn'[t].at = "look" /\ turn'[t].told = thread
BY DEF TurnsTypeInv, TurnsTypeOK, Ask, Is, Stages, Open, Handling

\* The steps of the turns that move no turn, and those of the thread and the paper.
Others(t) == LastWord(t) \/ MuteExits(t) \/ StartCli(t) \/ EndCli(t)

\* What no step of a purge does.
LEMMA PurgeMoves ==
    ASSUME PurgePaper
    PROVE  /\ UNCHANGED <<turn, processes>> /\ raced \subseteq raced'
           /\ \/ faults' = faults
              \/ faults' = faults + 1 /\ faults < MaxFaults
           /\ thread' \in {thread, <<>>} /\ (row' = row \/ row' = "purged")
BY DEF PurgePaper, PurgeThread, EmptyWorkspace, Unlink, RemoveWorkspace, WorkspaceStays, PurgeRow,
   PurgeStops, paper, files

Elsewhere == ClearThread \/ TrashPaper \/ UntrashPaper \/ PurgePaper

LEMMA StillTurns ==
    ASSUME \/ \E t \in Turns : Others(t)
           \/ Elsewhere
           \/ UNCHANGED turnsVars
    PROVE  turn' = turn
BY PurgeMoves DEF Others, LastWord, MuteExits, StartCli, EndCli, Elsewhere, ClearThread, TrashPaper,
   UntrashPaper, turnsVars

LEMMA NextSteps ==
    [TurnsNext]_turnsVars <=>
        \/ \E t \in Turns : Ask(t) \/ Step(t) \/ Others(t)
        \/ Elsewhere \/ Crash \/ UNCHANGED turnsVars
BY DEF TurnsNext, Step, Others, Elsewhere

----------------------------------------------------------------------------
(* Types.                                                                  *)

LEMMA TurnsTypeInit == TurnsInit => TurnsTypeInv
<1> SUFFICES ASSUME TurnsInit PROVE TurnsTypeInv
  OBVIOUS
<1>1. turn \in [Turns -> [at : Stages, told : Seq(Turns)]]
  BY DEF TurnsInit, Stages
<1>2. thread \in Seq(Turns)
  BY DEF TurnsInit
<1>3. \A t \in Turns : turn[t].at \in {"new"} \cup Open \cup Ends /\ turn[t].told \in Seq(Turns)
  BY <1>1 DEF Stages
<1>4. /\ runner \in [Turns -> {"none", "up", "mute", "gone"}]
      /\ said \in [Turns -> {"nothing", "done", "error"}] /\ cli \in [Turns -> BOOLEAN]
      /\ raced \subseteq {"extract", "purge", "refused"} /\ faults \in 0 .. MaxFaults
  BY TurnsAssumption DEF TurnsInit
<1> QED
  BY <1>1, <1>2, <1>3, <1>4 DEF TurnsInit, TurnsTypeInv, TurnsTypeOK

\* Everything typed but the turns themselves.
Surroundings ==
    /\ row \in {"live", "trashed", "purged"}
    /\ purge \in {"no", "cleared", "emptying", "removed"}
    /\ thread \in Seq(Turns)
    /\ text \in {"none", "torn", "whole", "placeholder"}
    /\ dir \in BOOLEAN /\ mark \in BOOLEAN /\ (text # "none" \/ mark => dir)
    /\ runner \in [Turns -> {"none", "up", "mute", "gone"}]
    /\ said \in [Turns -> {"nothing", "done", "error"}] /\ cli \in [Turns -> BOOLEAN]
    /\ raced \subseteq {"extract", "purge", "refused"} /\ faults \in 0 .. MaxFaults

LEMMA TurnsTyped ==
    TurnsTypeInv <=> Surroundings /\ turn \in [Turns -> [at : Stages, told : Seq(Turns)]]
BY DEF TurnsTypeInv, TurnsTypeOK, Surroundings, Stages

LEMMA AgentTyped ==
    ASSUME TurnsTypeInv, NEW t \in Turns,
           \/ Spawn(t) \/ RequestBreaks(t) \/ Refuse(t) \/ Timeout(t) \/ Store(t) \/ Leave(t)
           \/ CloseOutput(t) \/ Others(t)
    PROVE  /\ runner' \in [Turns -> {"none", "up", "mute", "gone"}]
           /\ said' \in [Turns -> {"nothing", "done", "error"}] /\ cli' \in [Turns -> BOOLEAN]
<1> USE DEF TurnsTypeInv, TurnsTypeOK
<1>1. CASE Spawn(t) \/ CloseOutput(t)
  BY <1>1 DEF Spawn, CloseOutput
<1>2. CASE Others(t)
  BY <1>2 DEF Others, LastWord, MuteExits, StartCli, EndCli
<1>3. ASSUME NEW armed \in BOOLEAN, Dropped(t, armed)
      PROVE  /\ runner' \in [Turns -> {"none", "up", "mute", "gone"}]
             /\ said' = said /\ cli' \in [Turns -> BOOLEAN]
  BY <1>3 DEF Dropped
<1>4. CASE RequestBreaks(t) \/ Refuse(t) \/ Timeout(t) \/ Store(t) \/ Leave(t)
  <2>1. Dropped(t, TRUE) \/ Dropped(t, FALSE)
    BY <1>4 DEF RequestBreaks, Refuse, Timeout, Store, Leave, Abort
  <2> QED
    BY <1>3, <2>1
<1> QED
  BY <1>1, <1>2, <1>4

LEMMA TurnsTypeNext ==
    ASSUME TurnsTypeInv, [TurnsNext]_turnsVars
    PROVE  TurnsTypeInv'
<1>h. TurnsTypeOK /\ Surroundings
  BY TurnsTyped DEF TurnsTypeInv
<1>s. SUFFICES Surroundings' /\ turn' \in [Turns -> [at : Stages, told : Seq(Turns)]]
  BY TurnsTyped DEF TurnsTypeInv, TurnsTypeOK, Surroundings, Stages
<1>1. ASSUME NEW t \in Turns, Step(t) PROVE Surroundings'
  <2>1. CASE \/ LookAt(t) \/ Extract(t) \/ WriteText(t) \/ FillText(t) \/ Unmark(t) \/ Mark(t)
             \/ Placeholder(t)
    BY <1>h, <2>1 DEF Surroundings, LookAt, Extract, WriteText, FillText, Unmark, Mark,
       Placeholder, Written, processes, files, paper
  <2>2. CASE TakeRequest(t) \/ Finish(t) \/ Reap(t) \/ WriteFails(t)
    BY <1>h, <2>2, TurnsAssumption DEF Surroundings, TakeRequest, Finish, Reap, WriteFails,
       processes, files, paper
  <2>3. CASE Spawn(t) \/ RequestBreaks(t) \/ Refuse(t) \/ Timeout(t) \/ CloseOutput(t)
    <3>1. UNCHANGED <<paper, thread, files, raced, faults>>
      BY <2>3 DEF Spawn, RequestBreaks, Refuse, Timeout, Abort, CloseOutput
    <3> QED
      BY <1>h, <2>3, <3>1, AgentTyped DEF Surroundings, files, paper
  <2>4. CASE Store(t) \/ Leave(t)
    <3>1. UNCHANGED <<paper, files, raced, faults>> /\ thread' \in {thread, Append(thread, t)}
      BY <2>4 DEF Store, Leave, Abort
    <3>2. thread' \in Seq(Turns)
      BY <1>h, <3>1 DEF Surroundings
    <3> QED
      BY <1>h, <2>4, <3>1, <3>2, AgentTyped DEF Surroundings, files, paper
  <2> QED
    BY <1>1, <2>1, <2>2, <2>3, <2>4 DEF Step, Serve
<1>2. ASSUME NEW t \in Turns, Others(t) PROVE Surroundings'
  <2>1. UNCHANGED <<paper, thread, files, raced, faults>>
    BY <1>2 DEF Others, LastWord, MuteExits, StartCli, EndCli
  <2> QED
    BY <1>h, <1>2, <2>1, AgentTyped DEF Surroundings, files, paper
<1>3. ASSUME NEW t \in Turns, Ask(t) PROVE Surroundings'
  BY <1>h, <1>3 DEF Ask, Surroundings, files, processes, paper
<1>4. ASSUME Elsewhere \/ Crash \/ UNCHANGED turnsVars PROVE Surroundings'
  <2>1. thread' \in Seq(Turns)
    <3>1. thread' \in {thread, <<>>}
      BY <1>4, PurgeMoves DEF Elsewhere, ClearThread, TrashPaper, UntrashPaper, Crash, turnsVars
    <3>2. thread \in Seq(Turns) /\ <<>> \in Seq(Turns)
      BY <1>h DEF Surroundings
    <3> QED
      BY <3>1, <3>2
  <2>2. CASE PurgePaper
    <3>1. UNCHANGED processes /\ row' \in {"live", "trashed", "purged"} /\ faults' \in 0 .. MaxFaults
      BY <1>h, <2>2, PurgeMoves, TurnsAssumption DEF Surroundings
    <3>2. purge' \in {"no", "cleared", "emptying", "removed"}
      BY <1>h, <2>2 DEF Surroundings, PurgePaper, PurgeThread, EmptyWorkspace, Unlink, RemoveWorkspace,
         WorkspaceStays, PurgeRow, PurgeStops, paper
    <3>3. raced' \subseteq {"extract", "purge", "refused"}
      BY <1>h, <2>2 DEF Surroundings, PurgePaper, PurgeThread, EmptyWorkspace, Unlink, RemoveWorkspace,
         WorkspaceStays, PurgeRow, PurgeStops
    <3>4. /\ text' \in {"none", "torn", "whole", "placeholder"}
          /\ dir' \in BOOLEAN /\ mark' \in BOOLEAN
          /\ text' # "none" \/ mark' => dir'
      <4>1. /\ text \in {"none", "torn", "whole", "placeholder"}
            /\ dir \in BOOLEAN /\ mark \in BOOLEAN
            /\ text # "none" \/ mark => dir
        BY <1>h DEF Surroundings
      <4>2. CASE UNCHANGED files
        BY <4>1, <4>2 DEF files
      <4>3. CASE Unlink \/ RemoveWorkspace
        <5>1. text' \in {text, "none"} /\ dir' \in BOOLEAN /\ mark' \in BOOLEAN /\ (mark' => mark)
          <6>1. CASE Unlink
            <7>1. text' = text \/ text' = "none"
              BY <6>1 DEF Unlink
            <7>2. (mark' = mark \/ mark' = FALSE) /\ dir' = dir
              BY <6>1 DEF Unlink
            <7>3. mark' \in BOOLEAN /\ (mark' => mark)
              <8>1. CASE mark' = mark
                BY <4>1, <8>1, Zenon
              <8>2. CASE mark' = FALSE
                BY <8>2
              <8> QED
                BY <7>2, <8>1, <8>2
            <7>4. dir' \in BOOLEAN
              BY <4>1, <7>2, Zenon
            <7> QED
              BY <7>1, <7>3, <7>4
          <6>2. CASE RemoveWorkspace
            <7>1. text' = text /\ mark' = mark /\ (dir' = dir \/ dir' = FALSE)
              BY <6>2 DEF RemoveWorkspace
            <7> QED
              BY <4>1, <7>1, Zenon
          <6> QED
            BY <4>3, <6>1, <6>2
        <5>2. text' # "none" \/ mark' => dir'
          BY <4>1, <4>3 DEF Unlink, RemoveWorkspace, paper
        <5> QED
          BY <4>1, <5>1, <5>2
      <4> QED
        BY <2>2, <4>2, <4>3 DEF PurgePaper, PurgeThread, EmptyWorkspace, WorkspaceStays, PurgeRow,
           PurgeStops
    <3> QED
      BY <1>h, <2>1, <3>1, <3>2, <3>3, <3>4 DEF Surroundings, processes
  <2>3. CASE Crash
    BY <1>h, <2>3, TurnsAssumption DEF Crash, Surroundings, files, processes, paper
  <2>4. CASE ClearThread \/ TrashPaper \/ UntrashPaper \/ UNCHANGED turnsVars
    <3>1. /\ row' \in {row, "trashed", "live"}
          /\ UNCHANGED <<purge, files, processes, raced, faults>>
      BY <2>4 DEF turnsVars, ClearThread, TrashPaper, UntrashPaper, files, processes, paper
    <3> QED
      BY <1>h, <2>1, <3>1 DEF Surroundings, files, processes
  <2> QED
    BY <1>4, <2>2, <2>3, <2>4 DEF Elsewhere
<1>5. turn' \in [Turns -> [at : Stages, told : Seq(Turns)]]
  BY NextSteps, StepKeepsTurns, CrashKeepsTurns, AskTurns, StillTurns DEF TurnsTypeInv
<1> QED
  BY <1>1, <1>2, <1>3, <1>4, <1>5, NextSteps

\* Every reachable state is well typed, and a workspace without its directory
\* holds nothing.
THEOREM TurnsTypeHolds == TurnsSpec => []TurnsTypeOK
<1>1. TurnsTypeInv => TurnsTypeOK
  BY DEF TurnsTypeInv
<1> QED
  BY <1>1, TurnsTypeInit, TurnsTypeNext, PTL DEF TurnsSpec

----------------------------------------------------------------------------
(* The turns' processes.                                                   *)

\* What the end of a turn, or the drop of its stream, does to its processes.
LEMMA DroppedEnds ==
    ASSUME TurnsTypeInv, NEW t \in Turns, NEW armed \in BOOLEAN, Dropped(t, armed)
    PROVE  /\ runner'[t] \in {"none", "gone"} /\ (armed => ~cli'[t])
           /\ said' = said
           /\ \A u \in Turns \ {t} : runner'[u] = runner[u] /\ cli'[u] = cli[u]
BY DEF TurnsTypeInv, TurnsTypeOK, Dropped

LEMMA AgentAtNext ==
    ASSUME TurnsTypeInv, AgentAt, [TurnsNext]_turnsVars
    PROVE  AgentAt'
<1> DEFINE Fits(t) ==
        /\ turn[t].at \in {"new"} \cup Handling =>
               runner[t] = "none" /\ ~cli[t] /\ said[t] = "nothing"
        /\ turn[t].at \in {"request", "stream", "save"} => runner[t] = "up"
        /\ Is(t, "wait") => runner[t] \in {"mute", "gone"}
        /\ turn[t].at \in {"save"} \cup Stored => said[t] = "done"
        /\ turn[t].at \in Ends \ {"died"} => runner[t] \in {"none", "gone"}
        /\ turn[t].at \in {"left", "timeout"} => ~cli[t]
<1>h. /\ \A t \in Turns : Fits(t)
      /\ runner \in [Turns -> {"none", "up", "mute", "gone"}]
      /\ said \in [Turns -> {"nothing", "done", "error"}] /\ cli \in [Turns -> BOOLEAN]
      /\ turn \in [Turns -> [at : Stages, told : Seq(Turns)]]
  BY DEF AgentAt, TurnsTypeInv, TurnsTypeOK
<1>s. SUFFICES \A t \in Turns : Fits(t)'
  BY DEF AgentAt
<1>1. ASSUME NEW t \in Turns, Step(t) PROVE \A u \in Turns : Fits(u)'
  <2>1. \A u \in Turns \ {t} :
            turn'[u] = turn[u] /\ runner'[u] = runner[u] /\ cli'[u] = cli[u] /\ said'[u] = said[u]
    <3>1. \A u \in Turns \ {t} : turn'[u] = turn[u]
      BY <1>1, StepKeepsTurns
    <3>2. \/ UNCHANGED processes
          \/ Spawn(t) \/ CloseOutput(t)
          \/ Dropped(t, TRUE) \/ Dropped(t, FALSE)
      BY <1>1 DEF Step, Serve, LookAt, Extract, WriteText, FillText, Unmark, Mark, Placeholder,
         Written, TakeRequest, RequestBreaks, Finish, Refuse, Timeout, Abort, Reap, Store, Leave,
         WriteFails
    <3> QED
      BY <1>h, <3>1, <3>2, DroppedEnds, ZenonT(30) DEF processes, Spawn, CloseOutput
  <2>2. ASSUME NEW u \in Turns \ {t} PROVE Fits(u)'
    BY <1>h, <2>1 DEF Is
  <2>3. Fits(t)'
    <3>1. ASSUME UNCHANGED processes, NEW at \in Handling \cup {"failed"}, Turn(t, at),
                 turn[t].at \in Handling
          PROVE  Fits(t)'
      <4>1. turn'[t].at = at
        BY <3>1, Turned DEF Stages, Open, Ends
      <4> QED
        BY <1>h, <3>1, <4>1 DEF processes, Is, Handling, Extraction, Ends, Stored
    <3>2. CASE \/ LookAt(t) \/ Extract(t) \/ WriteText(t) \/ FillText(t) \/ Unmark(t) \/ Mark(t)
               \/ Placeholder(t) \/ WriteFails(t)
      BY <3>1, <3>2 DEF LookAt, Extract, WriteText, FillText, Unmark, Mark, Placeholder, Written,
         WriteFails, Handling, Extraction, Is
    <3>3. CASE Spawn(t)
      <4>1. CASE UNCHANGED processes /\ Turn(t, "failed")
        BY <3>1, <3>3, <4>1 DEF Spawn, Is, Handling
      <4>2. CASE runner' = [runner EXCEPT ![t] = "up"] /\ Turn(t, "request")
        <5>1. turn'[t].at = "request" /\ runner'[t] = "up"
          BY <1>h, <4>2, Turned DEF Stages, Open
        <5> QED
          BY <5>1 DEF Is, Handling, Extraction, Ends, Stored
      <4> QED
        BY <3>3, <4>1, <4>2 DEF Spawn, processes
    <3>4. CASE TakeRequest(t) \/ Finish(t) \/ Reap(t)
      <4>1. \/ /\ turn[t].at = "request" /\ turn'[t].at = "stream"
            \/ /\ turn[t].at = "stream" /\ turn'[t].at = "save" /\ said[t] = "done"
            \/ /\ turn[t].at = "wait" /\ turn'[t].at = "exited" /\ runner[t] = "gone"
        BY <3>4, Turned DEF TakeRequest, Finish, Reap, Is, Stages, Open, Ends
      <4>2. UNCHANGED processes
        BY <3>4 DEF TakeRequest, Finish, Reap
      <4> QED
        BY <1>h, <4>1, <4>2 DEF processes, Is, Handling, Extraction, Ends, Stored
    <3>5. CASE CloseOutput(t)
      <4>1. turn'[t].at = "wait" /\ runner'[t] \in {"mute", "gone"}
        BY <1>h, <3>5, Turned DEF CloseOutput, Stages, Open
      <4> QED
        BY <4>1 DEF Is, Handling, Extraction, Ends, Stored
    <3>6. CASE RequestBreaks(t) \/ Refuse(t) \/ Timeout(t) \/ Store(t) \/ Leave(t)
      <4>1. \/ Dropped(t, TRUE) /\ turn'[t].at \in {"left", "timeout", "failed"}
            \/ Dropped(t, FALSE) /\ turn'[t].at = "failed"
            \/ Dropped(t, FALSE) /\ turn'[t].at \in Stored /\ turn[t].at = "save"
        <5>1. {"left", "timeout", "failed", "stored", "late"} \subseteq Stages
          BY DEF Stages, Ends
        <5>2. \A at \in Stages : Turn(t, at) => turn'[t].at = at
          BY Turned
        <5> QED
          BY <3>6, <5>1, <5>2 DEF RequestBreaks, Refuse, Timeout, Abort, Store, Leave, Is, Stored
      <4>2. runner'[t] \in {"none", "gone"} /\ said'[t] = said[t]
        BY <4>1, DroppedEnds
      <4>3. turn'[t].at \in {"left", "timeout"} => ~cli'[t]
        BY <4>1, DroppedEnds DEF Stored
      <4> QED
        BY <1>h, <4>1, <4>2, <4>3 DEF Is, Handling, Extraction, Ends, Stored
    <3> QED
      BY <1>1, <3>2, <3>3, <3>4, <3>5, <3>6 DEF Step, Serve
  <2> QED
    BY <2>2, <2>3
<1>2. ASSUME NEW t \in Turns, Ask(t) PROVE \A u \in Turns : Fits(u)'
  BY <1>h, <1>2, AskTurns DEF Ask, processes, Is, Handling, Extraction, Ends, Stored
<1>3. ASSUME NEW t \in Turns, Others(t) PROVE \A u \in Turns : Fits(u)'
  <2>1. turn' = turn
    BY <1>3, StillTurns
  <2>2. ASSUME NEW u \in Turns \ {t} PROVE Fits(u)'
    BY <1>h, <1>3, <2>1 DEF Others, LastWord, MuteExits, StartCli, EndCli, Is
  <2>3. Fits(t)'
    <3>1. CASE LastWord(t)
      BY <1>h, <2>1, <3>1 DEF LastWord, Is, Ends, Stored
    <3>2. CASE StartCli(t) \/ EndCli(t)
      BY <1>h, <2>1, <3>2 DEF StartCli, EndCli, Is, Ends, Stored
    <3>3. CASE MuteExits(t)
      BY <1>h, <2>1, <3>3 DEF MuteExits, Is, Ends, Stored
    <3> QED
      BY <1>3, <3>1, <3>2, <3>3 DEF Others
  <2> QED
    BY <2>2, <2>3
<1>4. ASSUME Crash PROVE \A u \in Turns : Fits(u)'
  <2>1. \A u \in Turns : turn'[u] = turn[u] \/ turn'[u].at = "died"
    BY <1>4, CrashKeepsTurns
  <2>2. UNCHANGED processes
    BY <1>4 DEF Crash
  <2>3. "died" \notin {"new", "request", "stream", "save", "wait", "left", "timeout"} \cup Handling \cup Stored
    BY DEF Handling, Extraction, Stored
  <2> QED
    BY <1>h, <2>1, <2>2, <2>3 DEF processes, Is
<1>5. ASSUME Elsewhere \/ UNCHANGED turnsVars PROVE \A u \in Turns : Fits(u)'
  <2>1. UNCHANGED turn /\ UNCHANGED processes
    BY <1>5, PurgeMoves DEF Elsewhere, ClearThread, TrashPaper, UntrashPaper, turnsVars, processes
  <2> QED
    BY <1>h, <2>1 DEF processes, Is
<1> QED
  BY <1>1, <1>2, <1>3, <1>4, <1>5, NextSteps

----------------------------------------------------------------------------
(* The thread.                                                             *)

\* What a step does to the thread: the exchange of a turn that was about to
\* store it is appended, or the whole is emptied.
ThreadSteps ==
    \/ UNCHANGED thread
    \/ thread' = <<>>
    \/ \E t \in Turns : /\ Is(t, "save") /\ turn'[t].at \in Stored
                        /\ row # "purged" /\ UNCHANGED row
                        /\ thread' = Append(thread, t)

LEMMA ThreadMoves ==
    ASSUME TurnsTypeInv, [TurnsNext]_turnsVars
    PROVE  ThreadSteps
<1>1. ASSUME NEW t \in Turns, Step(t) PROVE ThreadSteps
  <2>1. CASE Store(t) \/ Leave(t)
    <3>1. \A at \in Stored : Turn(t, at) => turn'[t].at = at
      BY Turned, StagesApart DEF Stages
    <3> QED
      BY <2>1, <3>1 DEF Store, Leave, Abort, ThreadSteps, Stored, paper
  <2>2. CASE ~(Store(t) \/ Leave(t))
    <3>1. UNCHANGED thread
      BY <1>1, <2>2 DEF Step, Serve, LookAt, Extract, WriteText, FillText, Unmark, Mark,
         Placeholder, Written, Spawn, TakeRequest, RequestBreaks, Finish, Refuse, Timeout, Abort, Reap,
         CloseOutput, WriteFails
    <3> QED
      BY <3>1 DEF ThreadSteps
  <2> QED
    BY <2>1, <2>2
<1>2. ASSUME \/ \E t \in Turns : Ask(t) \/ Others(t)
             \/ Elsewhere \/ Crash \/ UNCHANGED turnsVars
      PROVE  UNCHANGED thread \/ thread' = <<>>
  BY <1>2, PurgeMoves DEF Ask, Others, LastWord, MuteExits, StartCli, EndCli, Elsewhere, ClearThread,
     TrashPaper, UntrashPaper, Crash, turnsVars
<1> QED
  BY <1>1, <1>2, NextSteps DEF ThreadSteps

\* A turn that stored its exchange stays as it is; what any turn was told is what
\* the thread was when it asked.
LEMMA StoredStays ==
    ASSUME TurnsTypeInv, [TurnsNext]_turnsVars, NEW t \in Turns
    PROVE  /\ turn[t].at \in Stored => turn'[t] = turn[t]
           /\ turn'[t].told = turn[t].told \/ (~(turn'[t].at \in Stored) /\ turn'[t].told = thread)
<1>1. ASSUME TurnsKept
      PROVE  /\ turn[t].at \in Stored => turn'[t] = turn[t]
             /\ turn'[t].told = turn[t].told
  BY <1>1, StagesApart DEF TurnsKept
<1>2. ASSUME NEW u \in Turns, Ask(u)
      PROVE  /\ turn[t].at \in Stored => turn'[t] = turn[t]
             /\ \/ turn'[t].told = turn[t].told
                \/ (~(turn'[t].at \in Stored) /\ turn'[t].told = thread)
  BY <1>2, AskTurns DEF Stored
<1>3. CASE turn' = turn
  BY <1>3
<1> QED
  BY <1>1, <1>2, <1>3, NextSteps, StepKeepsTurns, CrashKeepsTurns, StillTurns

LEMMA ThreadNext ==
    ASSUME TurnsTypeInv, AgentAt, ToldOfStored, OnlyFinished, [TurnsNext]_turnsVars
    PROVE  ToldOfStored' /\ OnlyFinished'
<1>h. /\ thread \in Seq(Turns)
      /\ \A t \in Turns : turn[t].told \in Seq(Turns)
      /\ \A t \in Turns : turn'[t].at \in Stored => turn'[t].told = turn[t].told
      /\ \A t \in Turns : turn[t].at \in Stored => turn'[t] = turn[t]
  BY StoredStays DEF TurnsTypeInv, TurnsTypeOK
<1>f. \A i \in DOMAIN thread : turn[thread[i]].at \in Stored
  BY DEF OnlyFinished, Stored
<1>1. ToldOfStored'
  <2> SUFFICES ASSUME NEW t \in Turns, NEW k \in DOMAIN turn'[t].told
               PROVE  turn'[turn'[t].told[k]].at \in Stored
    BY DEF ToldOfStored
  <2>1. CASE turn'[t].told = turn[t].told
    <3>1. turn[t].told[k] \in Turns /\ turn[turn[t].told[k]].at \in Stored
      BY <1>h, <2>1 DEF ToldOfStored
    <3> QED
      BY <1>h, <2>1, <3>1
  <2>2. CASE turn'[t].told = thread
    <3>1. thread[k] \in Turns /\ turn[thread[k]].at \in Stored
      BY <1>h, <1>f, <2>2
    <3> QED
      BY <1>h, <2>2, <3>1
  <2> QED
    BY <2>1, <2>2, StoredStays
<1>2. \A t \in Turns : turn'[t].at \in Stored => said'[t] = "done"
  BY AgentAtNext DEF AgentAt
<1>3. CASE UNCHANGED thread
  <2>1. \A i \in DOMAIN thread : thread[i] \in Turns /\ turn'[thread[i]] = turn[thread[i]]
    BY <1>h, <1>f
  <2> QED
    BY <1>1, <1>2, <1>f, <1>3, <2>1 DEF OnlyFinished, Stored
<1>4. CASE thread' = <<>>
  BY <1>1, <1>4 DEF OnlyFinished
<1>5. ASSUME NEW t \in Turns, Is(t, "save"), turn'[t].at \in Stored,
             thread' = Append(thread, t)
      PROVE  OnlyFinished'
  <2>1. /\ DOMAIN thread' = 1 .. Len(thread) + 1 /\ DOMAIN thread = 1 .. Len(thread)
        /\ Len(thread) \in Nat /\ thread'[Len(thread) + 1] = t
        /\ \A i \in 1 .. Len(thread) : thread'[i] = thread[i] /\ thread[i] \in Turns
    BY <1>h, <1>5
  <2>2. turn[t].at \notin Stored
    BY <1>5 DEF Is, Stored
  <2>3. \A i \in 1 .. Len(thread) : thread[i] # t /\ turn'[thread[i]] = turn[thread[i]]
    BY <1>h, <1>f, <2>1, <2>2
  <2>4. \A i, j \in DOMAIN thread' : thread'[i] = thread'[j] => i = j
    <3>1. \A i, j \in 1 .. Len(thread) : thread[i] = thread[j] => i = j
      BY <2>1 DEF OnlyFinished
    <3> QED
      BY <2>1, <2>3, <3>1
  <2>5. \A i \in DOMAIN thread' : turn'[thread'[i]].at \in Stored /\ said'[thread'[i]] = "done"
    BY <1>2, <1>5, <1>f, <2>1, <2>3
  <2>6. ASSUME NEW i \in DOMAIN thread', NEW k \in DOMAIN turn'[thread'[i]].told,
               NEW j \in DOMAIN thread', thread'[j] = turn'[thread'[i]].told[k]
        PROVE  j < i
    <3>1. thread'[i] \in Turns /\ turn'[thread'[i]].told = turn[thread'[i]].told
      BY <1>5, <1>h, <2>1, <2>5
    <3>2. turn[thread'[j]].at \in Stored
      BY <2>6, <3>1 DEF ToldOfStored
    <3>3. j \in 1 .. Len(thread)
      BY <2>1, <2>2, <3>2
    <3>4. CASE i = Len(thread) + 1
      BY <2>1, <3>3, <3>4
    <3>5. CASE i \in 1 .. Len(thread)
      BY <2>1, <2>6, <3>1, <3>3, <3>5 DEF OnlyFinished
    <3> QED
      BY <2>1, <3>4, <3>5
  <2> QED
    BY <2>4, <2>5, <2>6 DEF OnlyFinished, Stored
<1> QED
  BY <1>1, <1>3, <1>4, <1>5, ThreadMoves DEF ThreadSteps

----------------------------------------------------------------------------
(* The text.                                                               *)

\* The stages of an extraction that write.
Writing(t) == WriteText(t) \/ FillText(t) \/ Unmark(t) \/ Mark(t) \/ Placeholder(t)

\* Who enters an extraction or leaves one, and what it does to the disk.
LEMMA TextMoves ==
    ASSUME TurnsTypeInv, NEW t \in Turns, Step(t)
    PROVE  \/ UNCHANGED <<purge, files, raced>> /\ turn'[t].at \notin Extraction
              /\ (turn[t].at = "fill" => faults' > 0)
           \/ LookAt(t) \/ Extract(t) \/ Writing(t)
<1>1. CASE LookAt(t) \/ Extract(t) \/ Writing(t)
  BY <1>1
<1>2. CASE WriteFails(t)
  <2>1. turn'[t].at = "failed" /\ "failed" \notin Extraction
    BY <1>2, Turned DEF WriteFails, Stages, Ends, Extraction
  <2> QED
    BY <1>2, <2>1 DEF WriteFails, TurnsTypeInv, TurnsTypeOK, paper
<1>3. CASE Spawn(t) \/ TakeRequest(t) \/ RequestBreaks(t) \/ Finish(t) \/ Refuse(t) \/ Timeout(t)
           \/ Reap(t) \/ Store(t) \/ Leave(t) \/ CloseOutput(t)
  <2>1. UNCHANGED <<purge, files, raced>> /\ turn[t].at # "fill"
    BY <1>3 DEF Spawn, TakeRequest, RequestBreaks, Finish, Refuse, Timeout, Reap, Store, Leave,
       CloseOutput, Abort, Is, paper
  <2>2. PICK at \in Ends \cup {"request", "stream", "wait", "save"} : Turn(t, at)
    BY <1>3, Zenon DEF Spawn, TakeRequest, RequestBreaks, Finish, Refuse, Timeout, Reap, Store, Leave, CloseOutput, Abort, Ends
  <2>3. turn'[t].at = at
    BY <2>2, Turned DEF Stages, Open
  <2> QED
    BY <2>1, <2>2, <2>3 DEF Extraction, Ends
<1> QED
  BY <1>1, <1>2, <1>3 DEF Step, Serve, Writing

\* A turn's write while a purge is emptying the workspace does not go unnoticed.
LEMMA NotLate ==
    ASSUME NEW t \in Turns, LookAt(t) \/ WriteText(t) \/ Mark(t) \/ Placeholder(t), Late
    PROVE  "purge" \in raced' \/ (~LookAt(t) /\ ~dir)
BY DEF LookAt, WriteText, Mark, Placeholder, Written

LEMMA TrustworthyNext ==
    ASSUME TurnsTypeInv, Trustworthy, [TurnsNext]_turnsVars
    PROVE  Trustworthy'
<1>1. raced \subseteq raced' /\ (faults > 0 => faults' > 0)
  <2>1. ASSUME NEW t \in Turns, Ask(t) \/ Others(t)
        PROVE  UNCHANGED <<raced, faults>>
    BY <2>1 DEF Ask, Others, LastWord, MuteExits, StartCli, EndCli
  <2>2. ASSUME Elsewhere \/ Crash \/ UNCHANGED turnsVars
        PROVE  raced \subseteq raced' /\ (faults > 0 => faults' > 0)
    BY <2>2, PurgeMoves DEF Elsewhere, ClearThread, TrashPaper, UntrashPaper, Crash, turnsVars,
       TurnsTypeInv, TurnsTypeOK
  <2>3. ASSUME NEW t \in Turns, Step(t)
        PROVE  raced \subseteq raced' /\ faults' \in {faults, faults + 1}
    BY <2>3 DEF Step, Serve, LookAt, Extract, WriteText, FillText, Unmark, Mark, Placeholder,
       Written, Spawn, TakeRequest, RequestBreaks, Finish, Refuse, Timeout, Abort, Reap, Store,
       Leave, CloseOutput, WriteFails
  <2> QED
    BY <2>1, <2>2, <2>3, NextSteps DEF TurnsTypeInv, TurnsTypeOK
<1> SUFFICES ASSUME raced' \cap {"extract", "purge"} = {}, ~(faults' > 0) PROVE Extracting'
  BY DEF Trustworthy
<1>e. Extracting
  BY <1>1 DEF Trustworthy
<1>h. /\ turn \in [Turns -> [at : Stages, told : Seq(Turns)]]
      /\ text \in {"none", "torn", "whole", "placeholder"} /\ dir \in BOOLEAN /\ mark \in BOOLEAN
      /\ text # "none" \/ mark => dir
  BY DEF TurnsTypeInv, TurnsTypeOK
<1> DEFINE Extracts(t) == turn[t].at \in Extraction
<1>2. ASSUME NEW t \in Turns, Step(t) PROVE Extracting'
  <2>k. \A u \in Turns \ {t} : turn'[u] = turn[u]
    BY <1>2, StepKeepsTurns
  <2>1. ASSUME UNCHANGED <<purge, files>>, turn'[t].at \notin Extraction, ~Is(t, "fill")
        PROVE  Extracting'
    BY <1>e, <2>k, <2>1 DEF Extracting, files, Is, Extraction
  <2>2. CASE LookAt(t)
    <3>p. UNCHANGED purge
      BY <2>2 DEF LookAt, paper
    <3>1. CASE Trusted
      <4>1. turn'[t].at = "spawn" /\ ~Is(t, "fill")
        BY <2>2, <3>1, Turned DEF LookAt, Stages, Open, Handling, Is
      <4>2. dir /\ UNCHANGED files
        BY <1>h, <2>2, <3>1 DEF LookAt, Trusted, files
      <4> QED
        BY <2>1, <3>p, <4>1, <4>2 DEF Extraction
    <3>2. CASE ~Trusted
      <4>1. turn'[t].at = "extract"
        BY <2>2, <3>2, Turned DEF LookAt, Stages, Open, Handling, Extraction
      <4>2. UNCHANGED <<text, mark>> /\ \A u \in Turns \ {t} : ~Extracts(u)
        BY <2>2, <3>2 DEF LookAt
      <4>3. turn[t].at = "look"
        BY <2>2 DEF LookAt, Is
      <4> QED
        BY <1>e, <2>k, <3>p, <4>1, <4>2, <4>3 DEF Extracting, Is, Extraction
    <3> QED
      BY <3>1, <3>2
  <2>3. CASE Extract(t)
    <3>1. turn[t].at = "extract" /\ turn'[t].at \in {"write", "mark"} /\ UNCHANGED <<purge, files>>
      BY <2>3, Turned DEF Extract, Is, Stages, Open, Handling, Extraction, paper
    <3> QED
      BY <1>e, <2>k, <3>1 DEF Extracting, Is, Extraction, files
  <2>4. CASE Writing(t)
    <3>1. Extracts(t) /\ \A u \in Turns \ {t} : ~Extracts(u)
      <4>1. Extracts(t)
        BY <2>4 DEF Writing, WriteText, FillText, Unmark, Mark, Placeholder, Written, Is, Extraction
      <4> QED
        BY <1>e, <4>1 DEF Extracting
    <3>2. \A u \in Turns \ {t} : turn'[u].at \notin Extraction
      BY <2>k, <3>1
    <3>3. ASSUME /\ Is(t, "unmark")' => text' \in {"whole", "none"}
                 /\ dir' /\ Is(t, "placeholder")' => mark' \/ purge' = "emptying"
                 /\ text' = "placeholder" => mark' \/ purge' = "emptying"
                 /\ text' = "torn" => Is(t, "fill")'
          PROVE  Extracting'
      BY <3>2, <3>3 DEF Extracting, Is, Extraction
    <3>4. \A at \in Stages : Turn(t, at) => turn'[t].at = at
      BY Turned
    <3>5. {"fill", "unmark", "spawn", "placeholder", "failed"} \subseteq Stages
      BY DEF Stages, Open, Handling, Extraction, Ends
    <3>6. text = "torn" => Is(t, "fill")
      BY <1>e, <3>1 DEF Extracting, Is, Extraction
    <3>7. UNCHANGED <<purge, dir>>
      BY <2>4 DEF Writing, WriteText, FillText, Unmark, Mark, Placeholder, Written, paper
    <3>8. CASE FillText(t)
      <4>1. turn'[t].at = "unmark" /\ text' \in {"whole", "none"}
        BY <3>4, <3>5, <3>8 DEF FillText
      <4> QED
        BY <3>3, <4>1 DEF Is
    <3>9. CASE Unmark(t)
      <4>1. turn'[t].at = "spawn" /\ text' \in {"whole", "none"}
        BY <1>e, <3>4, <3>5, <3>9 DEF Unmark, Extracting
      <4> QED
        BY <3>3, <4>1 DEF Is
    <3>10. CASE ~dir /\ (WriteText(t) \/ Mark(t) \/ Placeholder(t))
      <4>1. text' = "none" /\ turn'[t].at = "failed"
        BY <1>h, <3>4, <3>5, <3>10 DEF WriteText, Mark, Placeholder, Written
      <4> QED
        BY <3>3, <4>1 DEF Is
    <3>11. CASE dir /\ WriteText(t)
      <4>1. turn'[t].at = "fill" /\ text' = "torn"
        BY <3>4, <3>5, <3>11 DEF WriteText, Written
      <4> QED
        BY <3>3, <4>1 DEF Is
    <3>12. CASE dir /\ Mark(t)
      <4>1. turn'[t].at = "placeholder" /\ mark' /\ text' = text /\ ~Is(t, "fill")
        BY <3>4, <3>5, <3>12 DEF Mark, Written, Is
      <4> QED
        BY <3>3, <3>6, <4>1 DEF Is
    <3>13. CASE dir /\ Placeholder(t)
      <4>1. turn'[t].at = "spawn" /\ text' = "placeholder" /\ mark' = mark /\ Is(t, "placeholder")
        BY <3>4, <3>5, <3>13 DEF Placeholder, Written
      <4>2. mark \/ purge = "emptying"
        BY <1>e, <3>13, <4>1 DEF Extracting
      <4> QED
        BY <3>3, <3>7, <4>1, <4>2 DEF Is
    <3> QED
      BY <2>4, <3>8, <3>9, <3>10, <3>11, <3>12, <3>13 DEF Writing
  <2> QED
    BY <1>2, <2>1, <2>2, <2>3, <2>4, TextMoves DEF Is
<1>3. ASSUME NEW t \in Turns, Ask(t) PROVE Extracting'
  <2>1. /\ \A u \in Turns \ {t} : turn'[u] = turn[u]
        /\ turn[t].at = "new" /\ turn'[t].at = "look" /\ UNCHANGED <<purge, files>>
    BY <1>3, AskTurns DEF Ask, paper
  <2> QED
    BY <1>e, <2>1 DEF Extracting, files, Is, Extraction
<1>4. ASSUME \/ \E t \in Turns : Others(t)
             \/ ClearThread \/ TrashPaper \/ UntrashPaper \/ UNCHANGED turnsVars
      PROVE  Extracting'
  <2>1. UNCHANGED <<turn, purge, files>>
    BY <1>4 DEF Others, LastWord, MuteExits, StartCli, EndCli, ClearThread, TrashPaper, UntrashPaper,
       turnsVars, paper, files
  <2> QED
    BY <1>e, <2>1 DEF Extracting, files, Is
<1>5. ASSUME PurgePaper PROVE Extracting'
  <2>k. turn' = turn
    BY <1>5, PurgeMoves
  <2>1. CASE PurgeThread \/ EmptyWorkspace \/ PurgeRow
    <3>1. UNCHANGED files /\ purge # "emptying"
      BY <2>1 DEF PurgeThread, EmptyWorkspace, PurgeRow
    <3> QED
      BY <1>e, <2>k, <3>1 DEF Extracting, files, Is
  <2>2. CASE Unlink
    <3>1. /\ purge' = "emptying" /\ UNCHANGED dir
          /\ text' \in {text, "none"}
      BY <2>2 DEF Unlink, paper
    <3> QED
      BY <1>e, <2>k, <3>1 DEF Extracting, Is
  <2>3. CASE RemoveWorkspace
    <3>1. text' = "none" /\ ~dir'
      BY <1>1, <2>3 DEF RemoveWorkspace
    <3> QED
      BY <1>e, <2>k, <3>1 DEF Extracting, Is
  <2>4. ~WorkspaceStays /\ ~PurgeStops
    BY DEF WorkspaceStays, PurgeStops, TurnsTypeInv, TurnsTypeOK
  <2> QED
    BY <1>5, <2>1, <2>2, <2>3, <2>4 DEF PurgePaper
<1>6. ~Crash
  BY DEF Crash, TurnsTypeInv, TurnsTypeOK
<1> QED
  BY <1>2, <1>3, <1>4, <1>5, <1>6, NextSteps DEF Elsewhere

----------------------------------------------------------------------------
(* The purge.                                                              *)

LEMMA PurgedCleanNext ==
    ASSUME TurnsTypeInv, PurgedClean, [TurnsNext]_turnsVars
    PROVE  PurgedClean'
<1>1. row' = "purged" => thread' = <<>>
  <2>1. CASE UNCHANGED row
    <3>1. UNCHANGED thread \/ thread' = <<>> \/ row # "purged"
      BY ThreadMoves DEF ThreadSteps
    <3> QED
      BY <2>1, <3>1 DEF PurgedClean
  <2>2. CASE row' # row
    <3>1. PurgePaper \/ TrashPaper \/ UntrashPaper
      BY <2>2 DEF TurnsNext, Ask, Serve, LookAt, Extract, WriteText, FillText, Unmark, Mark,
         Placeholder, Written, Spawn, TakeRequest, RequestBreaks, Finish, Refuse, Timeout, Abort,
         Reap, Store, LastWord, CloseOutput, MuteExits, StartCli, EndCli, Leave, WriteFails,
         ClearThread, Crash, turnsVars, paper
    <3> QED
      BY <2>2, <3>1 DEF PurgePaper, PurgeThread, EmptyWorkspace, Unlink, RemoveWorkspace,
         WorkspaceStays, PurgeRow, PurgeStops, paper, TrashPaper, UntrashPaper
  <2> QED
    BY <2>1, <2>2
<1>2. ASSUME purge' = "removed" \/ row' = "purged" PROVE Excused' \/ ~dir'
  <2>1. ASSUME NEW t \in Turns, Ask(t) \/ Step(t) \/ Others(t) PROVE Excused' \/ ~dir'
    <3>1. /\ UNCHANGED paper /\ raced \subseteq raced'
          /\ UNCHANGED dir \/ LookAt(t)
      BY <2>1 DEF Step, Serve, Ask, Others, LastWord, MuteExits, StartCli, EndCli, LookAt, Extract,
         WriteText, FillText, Unmark, Mark, Placeholder, Written, Spawn, TakeRequest, RequestBreaks,
         Finish, Refuse, Timeout, Abort, Reap, Store, Leave, CloseOutput, WriteFails, files
    <3>2. LookAt(t) => Excused'
      BY <1>2, <3>1, NotLate DEF Late, Excused, paper
    <3> QED
      BY <1>2, <3>1, <3>2 DEF PurgedClean, Excused, paper
  <2>2. CASE PurgePaper
    <3>1. CASE PurgeThread \/ Unlink \/ PurgeRow \/ PurgeStops
      <4>1. UNCHANGED <<dir, raced>> /\ (row = "purged" \/ purge = "removed")
        BY <1>2, <3>1 DEF PurgeThread, Unlink, PurgeRow, PurgeStops, paper, files
      <4> QED
        BY <4>1 DEF PurgedClean, Excused
    <3>2. CASE EmptyWorkspace
      <4>1. UNCHANGED <<dir, raced, row>> /\ (purge' = "removed" => ~dir)
        BY <3>2 DEF EmptyWorkspace, files
      <4> QED
        BY <1>2, <4>1 DEF PurgedClean, Excused
    <3>3. CASE RemoveWorkspace \/ WorkspaceStays
      BY <3>3 DEF RemoveWorkspace, WorkspaceStays, Excused
    <3> QED
      BY <2>2, <3>1, <3>2, <3>3 DEF PurgePaper
  <2>3. CASE ClearThread \/ TrashPaper \/ UntrashPaper \/ Crash \/ UNCHANGED turnsVars
    <3>1. UNCHANGED <<purge, dir, raced>> /\ row' \in {row, "trashed", "live"}
      BY <2>3 DEF ClearThread, TrashPaper, UntrashPaper, Crash, turnsVars, files, paper
    <3> QED
      BY <1>2, <3>1 DEF PurgedClean, Excused
  <2> QED
    BY <2>1, <2>2, <2>3, NextSteps DEF Elsewhere
<1> QED
  BY <1>1, <1>2 DEF PurgedClean

----------------------------------------------------------------------------
(* The whole invariant, and the theorems.                                  *)

LEMMA TurnsInvInit == TurnsInit => TurnsInv
<1> SUFFICES ASSUME TurnsInit PROVE TurnsInv
  OBVIOUS
<1>1. \A t \in Turns : /\ turn[t].at = "new" /\ turn[t].told = <<>> /\ runner[t] = "none"
                       /\ ~cli[t] /\ said[t] = "nothing"
  BY DEF TurnsInit
<1>2. AgentAt
  BY <1>1 DEF AgentAt, Is, Ends, Stored
<1>3. ToldOfStored
  BY <1>1 DEF ToldOfStored
<1>4. OnlyFinished
  <2>1. DOMAIN thread = {}
    BY DEF TurnsInit
  <2> QED
    BY <2>1 DEF OnlyFinished
<1>5. Trustworthy
  BY <1>1 DEF TurnsInit, Trustworthy, Extracting, Is, Extraction
<1>6. PurgedClean
  BY DEF TurnsInit, PurgedClean
<1> QED
  BY <1>2, <1>3, <1>4, <1>5, <1>6, TurnsTypeInit DEF TurnsInv

LEMMA TurnsInvNext == TurnsInv /\ [TurnsNext]_turnsVars => TurnsInv'
BY TurnsTypeNext, AgentAtNext, ThreadNext, TrustworthyNext, PurgedCleanNext DEF TurnsInv

\* A text that is not the paper's is marked, or being written, whatever turns,
\* disconnects and purges interleave (ensure_workspace's order of the sentinel
\* and the text), but for two extractions at one time, a purge that takes the
\* files away and writes cut short.
THEOREM TextTrustedHolds == TurnsSpec => []TextTrusted
<1>1. TurnsInv => TextTrusted
  BY DEF TurnsInv, TurnsTypeInv, TurnsTypeOK, Trustworthy, Extracting, TextTrusted
<1> QED
  BY <1>1, TurnsInvInit, TurnsInvNext, PTL DEF TurnsSpec

\* When a turn is over so is its agent (run_turn's kill_on_drop and group guard).
THEOREM NothingRunsOnHolds == TurnsSpec => []NothingRunsOn
<1>1. TurnsInv => NothingRunsOn
  BY DEF TurnsInv, AgentAt, NothingRunsOn
<1> QED
  BY <1>1, TurnsInvInit, TurnsInvNext, PTL DEF TurnsSpec

\* The thread holds finished exchanges only, each once and after what its turn
\* was told of; a purge leaves none of it, and no workspace but where a turn
\* wrote into it meanwhile or the file system refused (insert_exchange,
\* purge_paper).
THEOREM ThreadHoldsAlways == TurnsSpec => []ThreadHolds
<1>1. TurnsInv => ThreadHolds
  BY DEF TurnsInv, PurgedClean, Excused, PurgeIsFinal, ThreadHolds
<1> QED
  BY <1>1, TurnsInvInit, TurnsInvNext, PTL DEF TurnsSpec

=============================================================================
