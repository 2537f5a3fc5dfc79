------------------------------ MODULE Catalog ------------------------------
(***************************************************************************)
(* What filing promises, with no files, no steps and no interleavings: a   *)
(* submission is answered in one step, against the catalog of that moment. *)
(* Either it is admitted, and then no paper of the catalog had its bytes   *)
(* or one of its identifiers; or the answer names a paper that has; or it  *)
(* is given up, and the catalog is as if it had never come.                *)
(***************************************************************************)
CONSTANTS Papers, Subs, Contents, Idents, NoEntry, NoContent

VARIABLES
    entries,   \* the catalog: the entry of a paper, or NoEntry
    offer,     \* the bytes a submission offers
    answer     \* what it was answered

catalogVars == <<entries, offer, answer>>

Entry == [content : Contents, idents : SUBSET Idents, trashed : BOOLEAN]

Listed == {i \in Papers : entries[i] # NoEntry}

Init ==
    /\ entries \in [Papers -> Entry \cup {NoEntry}]
    /\ \A i, j \in Listed : i # j =>
         /\ entries[i].content # entries[j].content
         /\ entries[i].idents \cap entries[j].idents = {}
    /\ offer = [s \in Subs |-> NoContent]
    /\ answer = [s \in Subs |-> "none"]

Offer(s) ==
    /\ offer[s] = NoContent
    /\ \E c \in Contents : offer' = [offer EXCEPT ![s] = c]
    /\ UNCHANGED <<entries, answer>>

Pending(s) == offer[s] # NoContent /\ answer[s] = "none"

Answer(s, verdict) == Pending(s) /\ answer' = [answer EXCEPT ![s] = verdict]

Admit(s, ids) ==
    /\ Answer(s, "ingested")
    /\ \A i \in Listed :
         entries[i].content # offer[s] /\ entries[i].idents \cap ids = {}
    /\ entries' = [entries EXCEPT ![s] =
           [content |-> offer[s], idents |-> ids, trashed |-> FALSE]]
    /\ UNCHANGED offer

\* Paper i has the bytes, or one of the identifiers, of the submission.
Decline(s, i, ids) ==
    LET sameBytes == entries[i].content = offer[s]
        sameWork == entries[i].idents \cap ids # {}
    IN  /\ \/ Answer(s, "in_trash") /\ entries[i].trashed /\ (sameBytes \/ sameWork)
           \/ Answer(s, "duplicate") /\ ~entries[i].trashed /\ sameBytes
           \/ Answer(s, "same_work") /\ ~entries[i].trashed /\ sameWork
        /\ UNCHANGED <<entries, offer>>

GiveUp(s) ==
    /\ Answer(s, "error")
    /\ UNCHANGED <<entries, offer>>

SetTrashed(i) ==
    /\ \E t \in BOOLEAN : entries' = [entries EXCEPT ![i].trashed = t]
    /\ UNCHANGED <<offer, answer>>

Next ==
    \/ \E s \in Subs : Offer(s) \/ GiveUp(s)
    \/ \E s \in Subs, ids \in SUBSET Idents :
         Admit(s, ids) \/ \E i \in Listed : Decline(s, i, ids)
    \/ \E i \in Listed : SetTrashed(i)

Spec == Init /\ [][Next]_catalogVars

=============================================================================
