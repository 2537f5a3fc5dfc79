----------------------------- MODULE ChatPanel -----------------------------
(***************************************************************************)
(* The chat panel in the browser (chat.svelte.ts): it follows the open     *)
(* paper, loads its thread, sends a message and shows the reply as it      *)
(* comes.  Requests settle in any order; the session tells those of the    *)
(* thread on show from those of one left behind.  Module Turns has the     *)
(* server's side, of which a turn here is only run, stored or failed.      *)
(***************************************************************************)
EXTENDS Naturals, Sequences

CONSTANTS
    ChatPapers,
    MaxTexts,       \* bound: messages typed
    MaxSends,       \* bound: messages sent, again included
    MaxMoves        \* bound: papers opened, clearings, failed loads

VARIABLES
    thread,      \* chat_messages: the exchanges, by paper
    chat,        \* the panel
    loads,       \* list requests on their way
    sends,       \* what was sent: the text, and the two ends of its stream
    clears,      \* DELETEs on their way: the papers of them
    typings,     \* the texts typed so far
    apart,       \* history: why the panel may differ from the thread, or a text be gone
    moves

panelVars == <<thread, chat, loads, sends, clears, typings, apart, moves>>

Sends == 1 .. MaxSends
NoPaper == "none"

ASSUME ChatPanelAssumption ==
    {MaxTexts, MaxSends, MaxMoves} \subseteq Nat /\ NoPaper \notin ChatPapers

Unsent == [text |-> 0, paper |-> NoPaper, session |-> 0, turn |-> "none", reader |-> "none"]
Unread == <<0>>

ChatPanelTypeOK ==
    /\ thread \in [ChatPapers -> Seq(Sends)]
    /\ chat.paper \in ChatPapers \cup {NoPaper} /\ chat.session \in 0 .. MaxMoves
    /\ chat.messages \in Seq(Sends) /\ chat.busy \in BOOLEAN
    /\ chat.pending \in 0 .. MaxSends /\ chat.draft \in 0 .. MaxTexts
    /\ \A s \in Sends :
         /\ sends[s].text \in 0 .. MaxTexts /\ sends[s].turn \in {"none", "runs", "stored", "failed"}
         /\ sends[s].reader \in {"none", "reads", "folded", "over"}
    /\ typings \in 0 .. MaxTexts /\ moves \in 0 .. MaxMoves
    /\ apart \subseteq {"late", "load", "clear", "left", "overtyped"}

ChatPanelInit ==
    /\ thread = [p \in ChatPapers |-> <<>>]
    /\ chat = [paper |-> NoPaper, session |-> 0, messages |-> <<>>,
               pending |-> 0, busy |-> FALSE, draft |-> 0]
    /\ loads = {} /\ sends = [s \in Sends |-> Unsent] /\ clears = {}
    /\ typings = 0 /\ apart = {} /\ moves = 0

Move == moves < MaxMoves /\ moves' = moves + 1

Apart(why, cause) == apart' = IF cause THEN apart \cup {why} ELSE apart

----------------------------------------------------------------------------

\* loadThread: another session, with nothing of the last one but the draft.
OpenThread(p) ==
    /\ p # chat.paper /\ Move
    /\ chat' = [paper |-> p, session |-> chat.session + 1, messages |-> <<>>,
                pending |-> 0, busy |-> FALSE, draft |-> chat.draft]
    /\ sends' = [s \in Sends |-> IF sends[s].reader = "reads"
                                 THEN [sends[s] EXCEPT !.reader = "over"] ELSE sends[s]]
    /\ loads' = loads \cup {[session |-> chat'.session, paper |-> p, rows |-> Unread]}
    /\ apart' = (apart \ {"load", "clear"}) \cup (IF chat.pending # 0 THEN {"left"} ELSE {})
    /\ UNCHANGED <<thread, clears, typings>>

\* GET /chat is served.
ServeThread(l) ==
    /\ l.rows = Unread
    /\ loads' = (loads \ {l}) \cup {[l EXCEPT !.rows = thread[l.paper]]}
    /\ UNCHANGED <<thread, chat, sends, clears, typings, apart, moves>>

\* Mutant of Current: no session guard.
Current_Always(session) == TRUE

Current(session) == session = chat.session

\* A list is out of step with the replies: older than one the panel has, or
\* with one the panel has still to fold, which will be there twice.
Unfolded == \E s \in Sends : s = chat.pending /\ sends[s].turn = "stored"
OutOfStep(l) == l.rows # thread[l.paper] \/ Unfolded

\* The thread arrives, in the place of what the panel shows.
ThreadArrives(l) ==
    /\ l.rows # Unread /\ loads' = loads \ {l}
    /\ chat' = IF Current(l.session) THEN [chat EXCEPT !.messages = l.rows] ELSE chat
    /\ Apart("load", Current(l.session) /\ OutOfStep(l))
    /\ UNCHANGED <<thread, sends, clears, typings, moves>>

\* "un-latch so reopening the panel retries the load"
ThreadFails(l) ==
    /\ Move /\ loads' = loads \ {l}
    /\ chat' = IF Current(l.session) THEN [chat EXCEPT !.paper = NoPaper] ELSE chat
    /\ UNCHANGED <<thread, sends, clears, typings, apart>>

----------------------------------------------------------------------------

\* The user writes into the empty box, also while a reply is pending.
Type ==
    /\ typings < MaxTexts /\ typings' = typings + 1
    /\ chat.draft = 0
    /\ chat' = [chat EXCEPT !.draft = typings']
    /\ UNCHANGED <<thread, loads, sends, clears, apart, moves>>

\* sendChatMessage, up to its first await.
SendMessage ==
    /\ chat.draft # 0 /\ ~chat.busy /\ chat.paper # NoPaper
    /\ \E s \in Sends :
         /\ sends[s] = Unsent /\ \A r \in 1 .. s - 1 : sends[r] # Unsent
         /\ sends' = [sends EXCEPT ![s] = [text |-> chat.draft, paper |-> chat.paper,
                            session |-> chat.session, turn |-> "runs", reader |-> "reads"]]
         /\ chat' = [chat EXCEPT !.pending = s, !.draft = 0, !.busy = TRUE]
    /\ UNCHANGED <<thread, loads, clears, typings, apart, moves>>

\* The turn's end in the server.  Of one whose reader has gone it may come too.
TurnSettles(s) ==
    /\ sends[s].turn = "runs"
    /\ \/ /\ sends' = [sends EXCEPT ![s].turn = "stored"]
          /\ thread' = [thread EXCEPT ![sends[s].paper] = Append(@, s)]
          /\ Apart("late", sends[s].reader = "over")
       \/ sends' = [sends EXCEPT ![s].turn = "failed"] /\ UNCHANGED <<thread, apart>>
    /\ UNCHANGED <<chat, loads, clears, typings, moves>>

\* The event "done": the exchange is folded into the messages.  (The session
\* is the reader's, or OpenThread had aborted it.)
Fold(s) ==
    /\ sends[s].reader = "reads" /\ sends[s].turn = "stored"
    /\ sends' = [sends EXCEPT ![s].reader = "folded"]
    /\ chat' = [chat EXCEPT !.messages = Append(@, s), !.pending = 0]
    /\ UNCHANGED <<thread, loads, clears, typings, apart, moves>>

\* Mutant of GivenBack: also after "done".
GivenBack_AfterDone(s) == TRUE

\* Once the exchange is folded the message is not given back.
GivenBack(s) == sends[s].reader # "folded"

\* The reading ends: the server closes the stream, says error, or breaks off;
\* or the user stops it.  Whatever the box holds by now is typings over.
StreamEnds(s) ==
    /\ \/ sends[s].reader = "folded" /\ UNCHANGED moves
       \/ sends[s].reader = "reads" /\ sends[s].turn = "failed" /\ UNCHANGED moves
       \/ sends[s].reader = "reads" /\ sends[s].turn # "failed" /\ Move
    /\ sends' = [sends EXCEPT ![s].reader = "over"]
    /\ IF ~Current(sends[s].session) THEN UNCHANGED <<chat, apart>>
       ELSE IF GivenBack(s)
       THEN /\ chat' = [chat EXCEPT !.busy = FALSE, !.pending = 0, !.draft = sends[s].text]
            /\ apart' = apart \cup (IF chat.draft # 0 THEN {"overtyped"} ELSE {})
                              \cup (IF Unfolded THEN {"late"} ELSE {})
       ELSE chat' = [chat EXCEPT !.busy = FALSE] /\ UNCHANGED apart
    /\ UNCHANGED <<thread, loads, clears, typings>>

----------------------------------------------------------------------------

\* clearChatThread: the DELETE goes out for the paper on show, ...
Clear ==
    /\ chat.paper # NoPaper /\ (chat.messages # <<>> \/ chat.pending # 0) /\ Move
    /\ clears' = clears \cup {[paper |-> chat.paper, session |-> chat.session, served |-> FALSE]}
    /\ UNCHANGED <<thread, chat, loads, sends, typings, apart>>

ServeClear(c) ==
    /\ ~c.served /\ clears' = (clears \ {c}) \cup {[c EXCEPT !.served = TRUE]}
    /\ thread' = [thread EXCEPT ![c.paper] = <<>>]
    /\ UNCHANGED <<chat, loads, sends, typings, apart, moves>>

\* ... and when it has been served, the panel is emptied, whatever it shows.
ClearSettles(c) ==
    /\ clears' = clears \ {c}
    /\ \/ c.served /\ chat' = [chat EXCEPT !.messages = <<>>]
          /\ Apart("clear", chat.paper = NoPaper \/ thread[chat.paper] # <<>> \/ Unfolded)
       \/ UNCHANGED chat /\ Apart("clear", c.served)
    /\ UNCHANGED <<thread, loads, sends, typings, moves>>

ChatPanelNext ==
    \/ \E p \in ChatPapers : OpenThread(p)
    \/ \E l \in loads : ServeThread(l) \/ ThreadArrives(l) \/ ThreadFails(l)
    \/ Type \/ SendMessage \/ Clear
    \/ \E s \in Sends : TurnSettles(s) \/ Fold(s) \/ StreamEnds(s)
    \/ \E c \in clears : ServeClear(c) \/ ClearSettles(c)

----------------------------------------------------------------------------
(* Properties.                                                             *)

\* The panel shows exchanges of its own paper only, and only such as the server
\* has stored, whatever is still on its way for a paper left behind.
OwnThread ==
    /\ \A i \in DOMAIN chat.messages :
         LET s == sends[chat.messages[i]]
         IN  s.paper \in {chat.paper} \cup {p \in ChatPapers : chat.paper = NoPaper}
             /\ s.turn = "stored"
    /\ chat.pending # 0 => sends[chat.pending].session = chat.session

\* With nothing on its way the panel shows the thread.  It may not: after a
\* turn stored behind a reader that had gone; and, until another paper is opened,
\* after a list out of step with a reply, or a clearing that settles on another
\* paper's panel or upon a reply, or whose answer was lost.
ShowsThread ==
    (/\ loads = {} /\ clears = {} /\ chat.paper # NoPaper /\ ~chat.busy
     /\ apart \cap {"late", "load", "clear"} = {}) => chat.messages = thread[chat.paper]

\* What the user typed is in the box, on its way, or in a thread; unless he left
\* the paper with the reply pending, or typed while a message was given back,
\* or cleared the thread.  And nothing is in the box that the panel shows sent.
TextKept ==
    /\ \A t \in 1 .. typings :
         \/ t = chat.draft
         \/ \E s \in Sends : sends[s].text = t /\ (s = chat.pending \/ sends[s].turn = "stored")
         \/ apart \cap {"left", "overtyped"} # {}
    /\ \A i \in DOMAIN chat.messages :
         sends[chat.messages[i]].text = chat.draft => "late" \in apart

PanelHolds == OwnThread /\ ShowsThread /\ TextKept

=============================================================================
