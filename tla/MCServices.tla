----------------------------- MODULE MCServices -----------------------------
(***************************************************************************)
(* The workers that run for ever on their own: inbox watcher, summarizer,  *)
(* daily feed and the vectors of the search index.  They share no state in *)
(* these models, so a behaviour is of one of them, the one `part` names;   *)
(* the others keep their initial state.                                    *)
(***************************************************************************)
EXTENDS Watcher, Summaries, Daily, Vectors

VARIABLE part

servicesVars == <<part, watchVars, summariesVars, dailyVars, vectorsVars>>

MCFeeds ==
    {{}, {[id |-> "x", announce |-> "new"], [id |-> "y", announce |-> "cross"]}}

\* The second edition has lost its title and abstract, the chunk numbered 0.
MCSeqs == [v \in 0 .. 1 |-> IF v = 0 THEN {0, 1} ELSE {1, 2}]

ServicesInit ==
    /\ part \in {"watch", "summaries", "daily", "vectors"}
    /\ WatchInit /\ SummariesInit /\ DailyInit /\ VectorsInit

ServicesNext ==
    /\ UNCHANGED part
    /\ \/ part = "watch" /\ WatchNext /\ UNCHANGED <<summariesVars, dailyVars, vectorsVars>>
       \/ part = "summaries" /\ SummariesNext /\ UNCHANGED <<watchVars, dailyVars, vectorsVars>>
       \/ part = "daily" /\ DailyNext /\ UNCHANGED <<watchVars, summariesVars, vectorsVars>>
       \/ part = "vectors" /\ VectorsNext /\ UNCHANGED <<watchVars, summariesVars, dailyVars>>

\* The fairness of each, as its module states it.
ServicesFair ==
    /\ WF_watchVars(part = "watch" /\ Work)
    /\ WF_summariesVars(part = "summaries" /\ Running)
    /\ \A p \in Shelf : WF_summariesVars(part = "summaries" /\ BackoffEnds(p))
    /\ \A c \in Callers : WF_dailyVars(part = "daily" /\ Going(c))
    /\ WF_dailyVars(part = "daily" /\ (Check \/ Scheduled))
    /\ WF_vectorsVars(part = "vectors" /\ Sweeping)
    /\ \A p \in Embedded : WF_vectorsVars(part = "vectors" /\ VecBackoffEnds(p))

ServicesSpec == ServicesInit /\ [][ServicesNext]_servicesVars /\ ServicesFair

----------------------------------------------------------------------------

\* Each component's state is of its type.
ServicesTypeOK == WatchTypeOK /\ SummariesTypeOK /\ DailyTypeOK /\ VectorsTypeOK

\* What is written down of the work is so: failures are counted, and the stamps
\* of the vectors vouch for them.
WorkRecorded == AttemptsBounded /\ Vouched

\* Whatever was put before them is served: a file in the inbox, a paper without
\* a summary, a day of the feed, a paper without vectors.
EveryoneServed == WatchTaken /\ EveryPaperServed /\ DailySettles
                  /\ (part = "vectors" => VectorsReturn)

=============================================================================
