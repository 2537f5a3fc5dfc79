--------------------------- MODULE Services_proofs ---------------------------
(***************************************************************************)
(* Proofs about the workers that run for ever: Watcher, Daily, Summaries   *)
(* and Vectors, each for every value of its constants and bounds, and      *)
(* their composition in MCServices.                                        *)
(***************************************************************************)
EXTENDS MCServices, FiniteSetTheorems, TLAPS

----------------------------------------------------------------------------
(* The inbox watcher.                                                      *)

\* Bytes are numbered in the order in which they came, and are under one name.
InboxInv ==
    /\ \A n \in Names : /\ inbox[n].bytes <= drops
                        /\ inbox[n].bytes = 0 => inbox[n] = Nothing
    /\ \A n, m \in Names : inbox[n].bytes = inbox[m].bytes /\ inbox[n].bytes # 0 => n = m

\* Bytes that were hashed, and were not what was copied, are nowhere any more.
FiledInv ==
    \A r \in filed :
        /\ r.hash <= drops
        /\ r.bytes # r.hash => \A n \in Names : inbox[n].bytes # r.hash

InHandBytes == inbox[job.name].bytes
Excused == {0} \cup swapped

\* What is in hand from step to step: nothing, or bytes put there meanwhile, or
\* those the job has hashed, filed, failed on, as often as there were mishaps.
JobInv ==
    /\ job.at = "stabilize" => job.attempt = 1
    /\ job.at = "store" =>
         /\ job.bytes \in 1 .. drops
         /\ \A n \in Names : inbox[n].bytes = job.bytes => n = job.name
         /\ InHandBytes \in Excused \cup {job.bytes}
    /\ job.at = "dispose" => InHandBytes \in Excused \cup {r.bytes : r \in filed}
    /\ job.at \in {"hash", "store", "dispose"} =>
         InHandBytes \in Excused \/ mishaps >= job.attempt - 1
    /\ job.at = "retry" =>
         /\ job.attempt < MaxAttempts
         /\ InHandBytes \in Excused \/ mishaps >= job.attempt
    /\ job.at = "quarantine" =>
         InHandBytes \in Excused \cup Unreadable \/ mishaps >= MaxAttempts

WatchInv == WatchTypeOK /\ InboxInv /\ FiledInv /\ JobInv /\ WatchAccounts

JobRecord ==
    [at : JobSteps, name : Names, bytes : 0 .. MaxDrops, attempt : 1 .. MaxAttempts]

LEMMA WatchInvInit == WatchInit => WatchInv
<1> SUFFICES ASSUME WatchInit PROVE WatchInv
  OBVIOUS
<1>0. MaxDrops \in Nat /\ MaxMishaps \in Nat /\ MaxStops \in Nat
  BY WatchAssumption
<1>1. WatchTypeOK
  BY <1>0 DEF WatchInit, WatchTypeOK, Nothing
<1>2. InboxInv /\ FiledInv /\ JobInv
  BY DEF WatchInit, InboxInv, FiledInv, JobInv, Nothing, Idle
<1>3. WatchAccounts
  BY DEF WatchInit, WatchAccounts, WatchNothingLost, WatchSorted, Kept
<1> QED
  BY <1>1, <1>2, <1>3 DEF WatchInv

\* The file in hand is one of the inbox's.
LEMMA InHandTyped ==
    ASSUME WatchTypeOK, job.at # "idle"
    PROVE  /\ job \in JobRecord
           /\ job.name \in Names /\ job.at \in JobSteps
           /\ job.attempt \in 1 .. MaxAttempts /\ job.bytes \in 0 .. MaxDrops
           /\ InHandBytes \in 0 .. MaxDrops
<1>1. job \in JobRecord
  BY DEF WatchTypeOK, Idle, JobRecord
<1>2. job.name \in Names /\ job.at \in JobSteps
      /\ job.attempt \in 1 .. MaxAttempts /\ job.bytes \in 0 .. MaxDrops
  BY <1>1 DEF JobRecord
<1>3. inbox[job.name].bytes \in 0 .. MaxDrops
  BY <1>2 DEF WatchTypeOK
<1> QED
  BY <1>1, <1>2, <1>3 DEF InHandBytes

LEMMA WatchTypeNext == WatchInv /\ [WatchNext]_watchVars => WatchTypeOK'
<1> SUFFICES ASSUME WatchInv, WatchNext PROVE WatchTypeOK'
  BY DEF watchVars, dirs, WatchTypeOK, WatchInv
<1> USE WatchAssumption DEF dirs
<1>t. WatchTypeOK
  BY DEF WatchInv
<1>g. ASSUME NEW x \in JobSteps, GoTo(x), job.at # "idle" PROVE job' \in JobRecord
  BY <1>t, <1>g, InHandTyped DEF GoTo, JobRecord
<1>v. ASSUME GiveUpAttempt, job.at # "idle" PROVE job' \in JobRecord
  BY <1>v, <1>g DEF GiveUpAttempt, JobSteps
<1>1. ASSUME NEW n \in Names, Drop(n) \/ FinishDrop(n) \/ TakeOut(n) PROVE WatchTypeOK'
  <2>1. drops' \in 0 .. MaxDrops /\ (drops' # drops => drops' \in Drops)
    BY <1>t, <1>1 DEF Drop, FinishDrop, TakeOut, WatchTypeOK, Drops
  <2>2. \E x \in [bytes : 0 .. MaxDrops, whole : BOOLEAN] : inbox' = [inbox EXCEPT ![n] = x]
    <3>1. inbox[n] \in [bytes : 0 .. MaxDrops, whole : BOOLEAN]
      BY <1>t DEF WatchTypeOK
    <3>2. CASE Drop(n)
      BY <3>2, <2>1 DEF Drop
    <3>3. CASE FinishDrop(n)
      <4>1. [inbox[n] EXCEPT !.whole = TRUE] \in [bytes : 0 .. MaxDrops, whole : BOOLEAN]
        BY <3>1
      <4>2. inbox' = [inbox EXCEPT ![n] = [inbox[n] EXCEPT !.whole = TRUE]]
        BY <3>3 DEF FinishDrop
      <4> QED
        BY <4>1, <4>2
    <3>4. CASE TakeOut(n)
      <4>1. Nothing \in [bytes : 0 .. MaxDrops, whole : BOOLEAN]
        BY WatchAssumption DEF Nothing
      <4> QED
        BY <3>4, <4>1 DEF TakeOut
    <3> QED
      BY <1>1, <3>2, <3>3, <3>4
  <2>3. inbox' \in [Names -> [bytes : 0 .. MaxDrops, whole : BOOLEAN]]
    BY <1>t, <2>2 DEF WatchTypeOK
  <2>4. lost' \subseteq Drops
    BY <1>t, <1>1 DEF Drop, FinishDrop, TakeOut, Overwritten, WatchTypeOK, Drops
  <2>5. swapped' \subseteq Drops
    <3>1. \/ swapped' = swapped
          \/ swapped' = swapped \cup {drops'} /\ drops' = drops + 1
      BY <1>1 DEF Drop, FinishDrop, TakeOut
    <3>2. drops \in Nat /\ swapped \subseteq Drops
      BY <1>t DEF WatchTypeOK
    <3> QED
      BY <2>1, <3>1, <3>2
  <2>6. events' \in Seq(Names)
    <3>1. events \in Seq(Names)
      BY <1>t DEF WatchTypeOK
    <3>2. events' = events \/ events' = Append(events, n)
      BY <1>1 DEF Drop, FinishDrop, TakeOut, Raised
    <3> QED
      BY <3>1, <3>2
  <2>7. UNCHANGED <<filed, archived, rejected, worker, todo, job, mishaps, stops>>
    BY <1>1 DEF Drop, FinishDrop, TakeOut
  <2> QED
    BY <1>t, <2>1, <2>3, <2>4, <2>5, <2>6, <2>7 DEF WatchTypeOK
<1>2. CASE Start \/ GoLive
  BY <1>t, <1>2 DEF Start, GoLive, Present, WatchTypeOK
<1>3. CASE Take
  <2>1. PICK n \in Names : Begin(n) /\ todo' \subseteq Names /\ events' \in Seq(Names)
    <3>1. todo \subseteq Names /\ events \in Seq(Names)
      BY <1>t DEF WatchTypeOK
    <3>2. CASE \E n \in todo : Begin(n) /\ todo' = todo \ {n} /\ UNCHANGED events
      BY <3>1, <3>2
    <3>3. CASE events # <<>> /\ Begin(Head(events)) /\ events' = Tail(events) /\ UNCHANGED todo
      <4>1. Head(events) \in Names /\ Tail(events) \in Seq(Names)
        BY <3>1, <3>3
      <4> QED
        BY <3>1, <3>3, <4>1
    <3> QED
      BY <1>3, <3>2, <3>3 DEF Take
  <2>2. job' \in JobRecord
    BY <2>1 DEF Begin, JobSteps, JobRecord
  <2> QED
    BY <1>t, <1>3, <2>1, <2>2 DEF Take, WatchTypeOK, JobRecord
<1>4. CASE Stabilize
  <2>1. job' = Idle \/ job' \in JobRecord
    BY <1>4, <1>g DEF Stabilize, At, JobSteps
  <2> QED
    BY <1>t, <1>4, <2>1 DEF Stabilize, world, WatchTypeOK, JobRecord
<1>5. CASE Retry
  <2>1. job.attempt < MaxAttempts
    BY <1>5 DEF Retry, At, WatchInv, JobInv
  <2>2. job' \in JobRecord
    <3>1. /\ job \in JobRecord /\ job.attempt \in Nat
          /\ job' = [job EXCEPT !.at = "hash", !.attempt = job.attempt + 1]
      BY <1>t, <1>5, InHandTyped DEF Retry, At
    <3>2. job.attempt + 1 \in 1 .. MaxAttempts
      BY <2>1, <3>1, WatchAssumption
    <3> QED
      BY <3>1, <3>2 DEF JobSteps, JobRecord
  <2> QED
    BY <1>t, <1>5, <2>2 DEF Retry, world, WatchTypeOK, JobRecord
<1>6. CASE Hash
  <2>1. job' \in JobRecord
    <3>1. job.at # "idle" /\ job.name \in Names
      BY <1>6, <1>t, InHandTyped DEF Hash, At
    <3>2. CASE GiveUpAttempt
      BY <1>v, <3>1, <3>2
    <3>3. CASE ~GiveUpAttempt
      <4>1. PICK x \in JobSteps : job' = [job EXCEPT !.at = x, !.bytes = inbox[job.name].bytes]
        BY <1>6, <3>3 DEF Hash, JobSteps
      <4> QED
        BY <1>t, <3>1, <4>1, InHandTyped DEF InHandBytes, JobRecord
    <3> QED
      BY <3>2, <3>3
  <2> QED
    BY <1>t, <1>6, <2>1 DEF Hash, world, WatchTypeOK, JobRecord
<1>7. CASE StoreJob
  <2>1. job.at # "idle" /\ job.bytes \in Drops
    BY <1>7, <1>t DEF StoreJob, At, WatchInv, JobInv, WatchTypeOK, Drops
  <2>2. job' \in JobRecord
    BY <1>7, <1>v, <1>g, <2>1 DEF StoreJob, JobSteps
  <2>3. filed' \subseteq [hash : Drops, bytes : Drops, as : {"ingested", "same_work"}]
    <3>1. inbox[job.name] # Nothing => InHandBytes \in Drops
      BY <1>t, <2>1, InHandTyped DEF WatchInv, InboxInv, Drops, InHandBytes
    <3> QED
      BY <1>t, <1>7, <2>1, <3>1 DEF StoreJob, WatchTypeOK, InHandBytes
  <2> QED
    BY <1>t, <1>7, <2>2, <2>3 DEF StoreJob, world, WatchTypeOK, JobRecord
<1>8. CASE Dispose \/ Quarantine
  <2>1. job' = Idle \/ job' \in JobRecord
    BY <1>8, <1>v DEF Dispose, Quarantine, At
  <2>2. /\ job.name \in Names
        /\ inbox[job.name] # Nothing => <<job.name, inbox[job.name].bytes>> \in Names \X Drops
    <3>1. job.name \in Names /\ InHandBytes \in 0 .. MaxDrops
      BY <1>t, <1>8, InHandTyped DEF Dispose, Quarantine, At
    <3>2. inbox[job.name].bytes = 0 => inbox[job.name] = Nothing
      BY <3>1 DEF WatchInv, InboxInv
    <3> QED
      BY <3>1, <3>2 DEF Drops, InHandBytes
  <2>3. archived' \subseteq Names \X Drops /\ rejected' \subseteq Names \X Drops
    BY <1>t, <1>8, <2>2 DEF Dispose, Quarantine, MovedTo, WatchTypeOK
  <2>4. inbox' \in [Names -> [bytes : 0 .. MaxDrops, whole : BOOLEAN]]
    <3>1. Nothing \in [bytes : 0 .. MaxDrops, whole : BOOLEAN]
      BY WatchAssumption DEF Nothing
    <3> QED
      BY <1>t, <1>8, <3>1 DEF Dispose, Quarantine, Gone, WatchTypeOK
  <2> QED
    BY <1>t, <1>8, <2>1, <2>3, <2>4 DEF Dispose, Quarantine, world, WatchTypeOK, JobRecord
<1>9. CASE Fault
  <2>1. job' = Idle \/ job' \in JobRecord
    BY <1>9, <1>v DEF Fault
  <2> QED
    BY <1>t, <1>9, <2>1 DEF Fault, world, WatchTypeOK, JobRecord
<1>10. CASE Stop
  BY <1>t, <1>10 DEF Stop, WatchTypeOK
<1> QED
  BY <1>1, <1>2, <1>3, <1>4, <1>5, <1>6, <1>7, <1>8, <1>9, <1>10 DEF WatchNext, Work

\* A step puts one new file into the inbox, takes one out, or leaves the bytes.
InboxMoves ==
    \/ drops' = drops /\ \A m \in Names : inbox'[m].bytes = inbox[m].bytes
    \/ \E n \in Names : /\ \A m \in Names \ {n} : inbox'[m] = inbox[m]
                        /\ \/ inbox'[n].bytes = drops' /\ drops' = drops + 1
                           \/ inbox'[n].bytes = 0 /\ drops' = drops

LEMMA WatchMoves ==
    ASSUME WatchInv, WatchNext
    PROVE  InboxMoves /\ (\A n \in Names : inbox'[n].bytes = 0 => inbox'[n] = Nothing)
<1>t. inbox \in [Names -> [bytes : 0 .. MaxDrops, whole : BOOLEAN]] /\ drops \in Nat
  BY DEF WatchInv, WatchTypeOK
<1>z. \A n \in Names : inbox[n].bytes = 0 => inbox[n] = Nothing
  BY DEF WatchInv, InboxInv
<1>u. ASSUME UNCHANGED <<inbox, drops>>
      PROVE  InboxMoves /\ (\A n \in Names : inbox'[n].bytes = 0 => inbox'[n] = Nothing)
  BY <1>u, <1>z DEF InboxMoves
<1>e. ASSUME NEW n \in Names, Gone(n), UNCHANGED drops
      PROVE  InboxMoves /\ (\A m \in Names : inbox'[m].bytes = 0 => inbox'[m] = Nothing)
  <2>1. inbox'[n] = Nothing /\ \A m \in Names \ {n} : inbox'[m] = inbox[m]
    BY <1>e, <1>t DEF Gone
  <2> QED
    BY <2>1, <1>z, <1>e DEF InboxMoves, Nothing
<1>1. ASSUME NEW n \in Names, Drop(n)
      PROVE  InboxMoves /\ (\A m \in Names : inbox'[m].bytes = 0 => inbox'[m] = Nothing)
  <2>1. /\ inbox'[n] = [bytes |-> drops', whole |-> FALSE] /\ drops' = drops + 1
        /\ \A m \in Names \ {n} : inbox'[m] = inbox[m]
    BY <1>1, <1>t DEF Drop
  <2>2. inbox'[n].bytes = drops' /\ drops' # 0
    BY <2>1, <1>t
  <2> QED
    BY <2>1, <2>2, <1>z DEF InboxMoves
<1>2. ASSUME NEW n \in Names, FinishDrop(n)
      PROVE  InboxMoves /\ (\A m \in Names : inbox'[m].bytes = 0 => inbox'[m] = Nothing)
  <2>1. /\ inbox'[n] = [inbox[n] EXCEPT !.whole = TRUE] /\ ~inbox[n].whole /\ drops' = drops
        /\ \A m \in Names \ {n} : inbox'[m] = inbox[m]
    BY <1>2, <1>t DEF FinishDrop
  <2>2. inbox'[n].bytes = inbox[n].bytes
    BY <2>1, <1>t
  <2>3. inbox[n].bytes # 0
    BY <2>1, <1>z DEF Nothing
  <2> QED
    BY <2>1, <2>2, <2>3, <1>z DEF InboxMoves
<1>3. ASSUME NEW n \in Names, TakeOut(n)
      PROVE  InboxMoves /\ (\A m \in Names : inbox'[m].bytes = 0 => inbox'[m] = Nothing)
  BY <1>3, <1>e DEF TakeOut, Gone
<1>4. CASE Dispose \/ Quarantine
  <2>1. job.name \in Names
    BY <1>4, InHandTyped DEF WatchInv, Dispose, Quarantine, At
  <2> QED
    BY <1>4, <1>u, <1>e, <2>1 DEF Dispose, Quarantine, world
<1>5. CASE Start \/ GoLive \/ Take \/ Stabilize \/ Hash \/ StoreJob \/ Retry \/ Fault \/ Stop
  BY <1>5, <1>u DEF Start, GoLive, Take, Stabilize, Hash, StoreJob, Retry, Fault, Stop, world, dirs
<1> QED
  BY <1>1, <1>2, <1>3, <1>4, <1>5 DEF WatchNext, Work

\* Bytes that left the inbox do not come back.
LEMMA StaysNowhere ==
    ASSUME InboxMoves, drops \in Nat, NEW d \in 1 .. drops,
           NEW S \in SUBSET Names, \A n \in S : inbox[n].bytes # d
    PROVE  \A n \in S : inbox'[n].bytes # d
BY DEF InboxMoves

LEMMA InboxInvNext == WatchInv /\ WatchNext => InboxInv'
<1> SUFFICES ASSUME WatchInv, WatchNext PROVE InboxInv'
  OBVIOUS
<1>1. InboxMoves /\ \A n \in Names : inbox'[n].bytes = 0 => inbox'[n] = Nothing
  BY WatchMoves
<1>2. /\ drops \in Nat
      /\ \A n \in Names : inbox[n].bytes \in Nat /\ inbox[n].bytes <= drops
      /\ \A n, m \in Names : inbox[n].bytes = inbox[m].bytes /\ inbox[n].bytes # 0 => n = m
  BY DEF WatchInv, WatchTypeOK, InboxInv
<1>3. \A n \in Names : inbox'[n].bytes <= drops'
  BY <1>1, <1>2 DEF InboxMoves
<1>4. \A n, m \in Names : inbox'[n].bytes = inbox'[m].bytes /\ inbox'[n].bytes # 0 => n = m
  BY <1>1, <1>2 DEF InboxMoves
<1> QED
  BY <1>1, <1>3, <1>4 DEF InboxInv, Nothing

\* What a StoreJob adds to the library.
LEMMA FiledMoves ==
    ASSUME WatchInv, WatchNext
    PROVE  /\ filed \subseteq filed'
           /\ \/ filed' = filed
              \/ /\ StoreJob /\ inbox[job.name] # Nothing
                 /\ \A r \in filed' \ filed : r.hash = job.bytes /\ r.bytes = InHandBytes
                 /\ \E r \in filed' : r.bytes = InHandBytes
                 /\ UNCHANGED inbox /\ job'.at = "dispose" /\ job'.name = job.name
<1>1. CASE StoreJob
  <2>1. job \in JobRecord
    BY <1>1, InHandTyped DEF WatchInv, StoreJob, At
  <2>2. ASSUME filed' # filed
        PROVE  /\ inbox[job.name] # Nothing /\ GoTo("dispose") /\ UNCHANGED inbox
               /\ \E as \in {"ingested", "same_work"} :
                    filed' = filed \cup {[hash |-> job.bytes, bytes |-> InHandBytes, as |-> as]}
    BY <1>1, <2>2 DEF StoreJob, InHandBytes
  <2>3. GoTo("dispose") => job'.at = "dispose" /\ job'.name = job.name
    BY <2>1 DEF GoTo, JobRecord
  <2> QED
    BY <1>1, <2>2, <2>3
<1>2. CASE ~StoreJob
  BY <1>2 DEF WatchNext, Work, Start, GoLive, Take, Stabilize, Hash, Retry, Fault, Stop, Dispose,
              Quarantine, Drop, FinishDrop, TakeOut, world, dirs
<1> QED
  BY <1>1, <1>2

LEMMA FiledInvNext == WatchInv /\ WatchNext => FiledInv'
<1> SUFFICES ASSUME WatchInv, WatchNext, NEW r \in filed'
             PROVE  r.hash <= drops' /\ (r.bytes # r.hash => \A n \in Names : inbox'[n].bytes # r.hash)
  BY DEF FiledInv
<1>1. InboxMoves /\ drops \in Nat /\ drops' \in Nat /\ drops' >= drops
  <2>1. InboxMoves /\ drops \in Nat
    BY WatchMoves DEF WatchInv, WatchTypeOK
  <2> QED
    BY <2>1 DEF InboxMoves
<1>2. CASE r \in filed
  <2>1. /\ r.hash \in 1 .. drops
        /\ r.bytes # r.hash => \A n \in Names : inbox[n].bytes # r.hash
    BY <1>1, <1>2 DEF WatchInv, WatchTypeOK, FiledInv, Drops
  <2> QED
    BY <1>1, <2>1, StaysNowhere
<1>3. CASE r \notin filed
  <2>1. /\ StoreJob /\ inbox[job.name] # Nothing /\ UNCHANGED inbox
        /\ r.hash = job.bytes /\ r.bytes = InHandBytes
    BY <1>3, FiledMoves
  <2>2. /\ job.bytes \in 1 .. drops
        /\ \A n \in Names : inbox[n].bytes = job.bytes => n = job.name
    BY <2>1 DEF StoreJob, At, WatchInv, JobInv
  <2> QED
    BY <1>1, <2>1, <2>2 DEF InHandBytes
<1> QED
  BY <1>2, <1>3

\* While a file is in hand, other bytes come under its name as swapped ones only.
LEMMA InHandKept ==
    ASSUME WatchInv, NEW n \in Names, Drop(n) \/ FinishDrop(n) \/ TakeOut(n)
    PROVE  /\ job' = job /\ mishaps' = mishaps /\ filed' = filed /\ swapped \subseteq swapped'
           /\ job.at \notin {"idle", "stabilize"} =>
                InHandBytes' \in {0, InHandBytes} \cup swapped'
<1>t. inbox \in [Names -> [bytes : 0 .. MaxDrops, whole : BOOLEAN]]
  BY DEF WatchInv, WatchTypeOK
<1>1. job' = job /\ mishaps' = mishaps /\ filed' = filed /\ swapped \subseteq swapped'
  BY DEF Drop, FinishDrop, TakeOut, dirs
<1>2. ASSUME job.at \notin {"idle", "stabilize"}
      PROVE  inbox'[job.name].bytes \in {0, inbox[job.name].bytes} \cup swapped'
  <2>1. job.name \in Names
    BY <1>2, InHandTyped DEF WatchInv
  <2>2. CASE job.name # n
    BY <1>t, <2>1, <2>2 DEF Drop, FinishDrop, TakeOut
  <2>3. CASE job.name = n /\ Drop(n)
    <3>1. inbox'[n].bytes = drops'
      BY <1>t, <2>3 DEF Drop
    <3> QED
      BY <1>2, <2>3, <3>1 DEF Drop, InHand
  <2>4. CASE job.name = n /\ FinishDrop(n)
    <3>1. inbox'[n] = [inbox[n] EXCEPT !.whole = TRUE]
      BY <1>t, <2>4 DEF FinishDrop
    <3>2. inbox'[n].bytes = inbox[n].bytes
      BY <1>t, <3>1
    <3> QED
      BY <2>4, <3>2
  <2>5. CASE job.name = n /\ TakeOut(n)
    BY <1>t, <2>5 DEF TakeOut, Nothing
  <2> QED
    BY <2>2, <2>3, <2>4, <2>5
<1> QED
  BY <1>1, <1>2 DEF InHandBytes

LEMMA JobInvNext == WatchInv /\ [WatchNext]_watchVars => JobInv'
<1> SUFFICES ASSUME WatchInv, WatchNext PROVE JobInv'
  <2>1. WatchInv /\ UNCHANGED watchVars => JobInv'
    BY DEF WatchInv, JobInv, InHandBytes, Excused, watchVars, dirs
  <2> QED
    BY <2>1
<1>t. /\ WatchTypeOK /\ JobInv /\ mishaps \in Nat /\ MaxAttempts \in Nat
  BY WatchAssumption DEF WatchInv, WatchTypeOK
<1>j. ASSUME job.at # "idle" PROVE job \in JobRecord /\ job.name \in Names /\ job.attempt \in Nat
  BY <1>t, <1>j, InHandTyped
<1>i. ASSUME job' = Idle PROVE JobInv'
  BY <1>i DEF Idle, JobInv
<1>same. ASSUME UNCHANGED <<job, inbox, swapped, drops, filed, mishaps>> PROVE JobInv'
  BY <1>t, <1>same DEF JobInv, InHandBytes, Excused
<1>v. ASSUME GiveUpAttempt, job.at # "idle", UNCHANGED <<inbox, swapped>>,
             InHandBytes \in Excused \/ mishaps' >= job.attempt
      PROVE  JobInv'
  <2>1. PICK x \in {"retry", "quarantine"} :
          /\ job' = [job EXCEPT !.at = x]
          /\ x = "retry" => job.attempt < MaxAttempts
          /\ x = "quarantine" => ~(job.attempt < MaxAttempts)
    BY <1>v DEF GiveUpAttempt, GoTo
  <2>2. job'.at = x /\ job'.name = job.name /\ job'.attempt = job.attempt
    BY <1>j, <1>v, <2>1 DEF JobRecord
  <2>3. InHandBytes' = InHandBytes /\ Excused' = Excused
    BY <1>v, <2>2 DEF InHandBytes, Excused
  <2>4. mishaps' \in Nat
    BY WatchTypeNext DEF WatchTypeOK
  <2> QED
    BY <1>t, <1>j, <1>v, <2>1, <2>2, <2>3, <2>4 DEF JobInv
<1>1. ASSUME NEW n \in Names, Drop(n) \/ FinishDrop(n) \/ TakeOut(n) PROVE JobInv'
  <2>1. /\ job' = job /\ mishaps' = mishaps /\ filed' = filed /\ swapped \subseteq swapped'
        /\ job.at \notin {"idle", "stabilize"} => InHandBytes' \in {0, InHandBytes} \cup swapped'
    BY <1>1, InHandKept
  <2>2. InboxMoves /\ drops \in Nat /\ drops' \in Nat /\ drops' >= drops
    <3>1. InboxMoves /\ drops \in Nat
      BY WatchMoves DEF WatchInv, WatchTypeOK
    <3> QED
      BY <3>1 DEF InboxMoves
  <2>3. ASSUME job.at = "store", NEW m \in Names, inbox'[m].bytes = job.bytes PROVE m = job.name
    <3>1. /\ job.bytes \in 1 .. drops
          /\ \A k \in Names \ {job.name} : inbox[k].bytes # job.bytes
      BY <1>t, <2>3 DEF JobInv
    <3>2. \A k \in Names \ {job.name} : inbox'[k].bytes # job.bytes
      BY <2>2, <3>1, StaysNowhere
    <3> QED
      BY <2>3, <3>2
  <2>4. \A y : InHandBytes \in Excused \cup y /\ job.at \notin {"idle", "stabilize"}
                 => InHandBytes' \in (Excused') \cup y
    BY <2>1 DEF Excused
  <2>5. /\ job.at \notin {"idle", "stabilize"} /\ InHandBytes \in Excused => InHandBytes' \in Excused'
        /\ job.at = "store" => InHandBytes' \in (Excused') \cup {job.bytes}
        /\ job.at = "dispose" => InHandBytes' \in (Excused') \cup {r.bytes : r \in filed}
        /\ job.at = "quarantine" /\ InHandBytes \in Excused \cup Unreadable
             => InHandBytes' \in (Excused') \cup Unreadable
    BY <1>t, <2>1, <2>4 DEF JobInv, Excused
  <2> QED
    BY <1>t, <2>1, <2>2, <2>3, <2>5 DEF JobInv
<1>2. CASE Start \/ GoLive
  BY <1>2, <1>same DEF Start, GoLive, dirs
<1>3. CASE Take
  <2>1. PICK n : job' = [at |-> "stabilize", name |-> n, bytes |-> 0, attempt |-> 1]
    BY <1>3 DEF Take, Begin
  <2>2. job'.at = "stabilize" /\ job'.attempt = 1
    BY <2>1
  <2> QED
    BY <2>2 DEF JobInv
<1>4. CASE Stabilize
  <2>1. CASE GoTo("hash")
    <3>1. job'.at = "hash" /\ job'.attempt = 1 /\ mishaps' = mishaps
      BY <1>t, <1>j, <1>4, <2>1 DEF Stabilize, At, GoTo, JobInv, JobRecord
    <3> QED
      BY <1>t, <3>1 DEF JobInv
  <2> QED
    BY <1>4, <1>i, <2>1 DEF Stabilize
<1>5. CASE Retry
  <2>1. /\ job.at = "retry" /\ job' = [job EXCEPT !.at = "hash", !.attempt = job.attempt + 1]
        /\ UNCHANGED <<inbox, swapped, mishaps>>
    BY <1>5 DEF Retry, At, world
  <2>2. job'.at = "hash" /\ job'.name = job.name /\ job'.attempt = job.attempt + 1
    BY <1>j, <2>1 DEF JobRecord
  <2>3. InHandBytes' = InHandBytes /\ Excused' = Excused
    BY <2>1, <2>2 DEF InHandBytes, Excused
  <2> QED
    BY <1>t, <1>j, <2>1, <2>2, <2>3 DEF JobInv
<1>6. CASE Hash
  <2>0. job.at = "hash" /\ UNCHANGED <<inbox, swapped, mishaps, drops, filed>>
    BY <1>6 DEF Hash, At, world, dirs
  <2>1. CASE inbox[job.name] = Nothing /\ GiveUpAttempt
    BY <1>v, <2>0, <2>1 DEF InHandBytes, Excused, Nothing
  <2>2. CASE inbox[job.name] # Nothing
    <3>1. PICK x \in {"dispose", "store"} :
            /\ job' = [job EXCEPT !.at = x, !.bytes = InHandBytes]
            /\ x = "dispose" => \E r \in filed : r.hash = InHandBytes
      BY <1>6, <2>2 DEF Hash, InHandBytes
    <3>2. /\ job'.at = x /\ job'.name = job.name /\ job'.attempt = job.attempt
          /\ job'.bytes = InHandBytes
      BY <1>j, <2>0, <3>1 DEF JobRecord
    <3>3. InHandBytes' = InHandBytes /\ Excused' = Excused
      BY <2>0, <3>2 DEF InHandBytes, Excused
    <3>4. /\ InHandBytes \in 1 .. drops
          /\ \A n \in Names : inbox[n].bytes = InHandBytes => n = job.name
      <4>1. job.name \in Names /\ InHandBytes \in Nat /\ drops \in Nat
        BY <1>t, <1>j, <2>0, InHandTyped DEF WatchTypeOK
      <4> QED
        BY <2>2, <4>1 DEF WatchInv, InboxInv, InHandBytes
    <3>5. x = "dispose" => InHandBytes \in {r.bytes : r \in filed}
      <4>1. job.name \in Names
        BY <1>j, <2>0
      <4> QED
        BY <3>1, <4>1 DEF WatchInv, FiledInv, InHandBytes
    <3>6. InHandBytes \in Excused \/ mishaps >= job.attempt - 1
      BY <1>t, <2>0 DEF JobInv
    <3> QED
      BY <1>j, <2>0, <3>1, <3>2, <3>3, <3>4, <3>5, <3>6 DEF JobInv
  <2> QED
    BY <1>6, <1>v, <2>0, <2>1, <2>2 DEF Hash
<1>7. CASE StoreJob
  <2>0. job.at = "store" /\ UNCHANGED <<inbox, swapped, mishaps, drops>>
    BY <1>7 DEF StoreJob, At, world
  <2>1. CASE inbox[job.name] = Nothing /\ GiveUpAttempt
    BY <1>v, <2>0, <2>1 DEF InHandBytes, Excused, Nothing
  <2>2. CASE InHandBytes \in Unreadable /\ GoTo("quarantine")
    <3>1. job'.at = "quarantine" /\ job'.name = job.name
      BY <1>j, <2>0, <2>2 DEF GoTo, JobRecord
    <3> QED
      BY <2>0, <2>2, <3>1 DEF JobInv, InHandBytes
  <2>3. CASE GoTo("dispose") /\ filed' # filed
    <3>1. job'.at = "dispose" /\ job'.name = job.name /\ job'.attempt = job.attempt
      BY <1>j, <2>0, <2>3 DEF GoTo, JobRecord
    <3>2. \E r \in filed' : r.bytes = InHandBytes
      BY <2>3, FiledMoves
    <3>3. InHandBytes' = InHandBytes /\ Excused' = Excused
      BY <2>0, <3>1 DEF InHandBytes, Excused
    <3>4. InHandBytes \in Excused \/ mishaps >= job.attempt - 1
      BY <1>t, <2>0 DEF JobInv
    <3> QED
      BY <2>0, <3>1, <3>2, <3>3, <3>4 DEF JobInv
  <2>4. CASE GoTo("dispose") /\ filed' = filed
    <3>1. job'.at = "dispose" /\ job'.name = job.name /\ job'.attempt = job.attempt
      BY <1>j, <2>0, <2>4 DEF GoTo, JobRecord
    <3>2. \E r \in filed : r.bytes = InHandBytes
      <4>1. ~GoTo("quarantine")
        BY <3>1, <1>j, <2>0 DEF GoTo, JobRecord
      <4>2. ~GiveUpAttempt
        BY <3>1, <1>j, <2>0, <4>1 DEF GoTo, GiveUpAttempt, JobRecord
      <4>3. PICK as : filed' = filed \cup {[hash |-> job.bytes, bytes |-> InHandBytes, as |-> as]}
        BY <1>7, <4>1, <4>2 DEF StoreJob, InHandBytes
      <4>4. [hash |-> job.bytes, bytes |-> InHandBytes, as |-> as] \in filed
        BY <2>4, <4>3
      <4> QED
        BY <4>4
    <3>3. InHandBytes' = InHandBytes /\ Excused' = Excused
      BY <2>0, <3>1 DEF InHandBytes, Excused
    <3>4. InHandBytes \in Excused \/ mishaps >= job.attempt - 1
      BY <1>t, <2>0 DEF JobInv
    <3> QED
      BY <2>0, <2>4, <3>1, <3>2, <3>3, <3>4 DEF JobInv
  <2> QED
    BY <1>7, <2>1, <2>2, <2>3, <2>4 DEF StoreJob, InHandBytes
<1>8. CASE Dispose
  <2>0. job.at = "dispose" /\ UNCHANGED <<swapped, mishaps>>
    BY <1>8 DEF Dispose, At, world
  <2>1. CASE inbox[job.name] = Nothing /\ GiveUpAttempt /\ UNCHANGED inbox
    BY <1>v, <2>0, <2>1 DEF InHandBytes, Excused, Nothing
  <2> QED
    BY <1>8, <1>i, <2>1 DEF Dispose
<1>9. CASE Quarantine
  BY <1>9, <1>i DEF Quarantine
<1>10. CASE Fault
  <2>1. CASE job.at \in {"hash", "store", "dispose"} /\ GiveUpAttempt
    <3>1. mishaps' = mishaps + 1 /\ UNCHANGED <<inbox, swapped>>
      BY <1>10 DEF Fault, world
    <3>2. InHandBytes \in Excused \/ mishaps >= job.attempt - 1
      BY <1>t, <2>1 DEF JobInv
    <3>3. InHandBytes \in Excused \/ mishaps' >= job.attempt
      BY <1>t, <1>j, <2>1, <3>1, <3>2
    <3> QED
      BY <1>v, <2>1, <3>1, <3>3
  <2> QED
    BY <1>10, <1>i, <2>1 DEF Fault
<1>11. CASE Stop
  BY <1>11, <1>i DEF Stop
<1> QED
  BY <1>1, <1>2, <1>3, <1>4, <1>5, <1>6, <1>7, <1>8, <1>9, <1>10, <1>11 DEF WatchNext, Work

\* A file that leaves the inbox by a step of the worker goes to _processed or to
\* _failed.
LEMMA LostNext == WatchInv /\ [WatchNext]_watchVars => WatchNothingLost'
<1> SUFFICES ASSUME WatchInv, WatchNext PROVE WatchNothingLost'
  <2>1. WatchInv /\ UNCHANGED watchVars => WatchNothingLost'
    BY DEF WatchInv, WatchAccounts, WatchNothingLost, Copied, Kept, watchVars, dirs
  <2> QED
    BY <2>1
<1>t. /\ inbox \in [Names -> [bytes : 0 .. MaxDrops, whole : BOOLEAN]] /\ drops \in Nat
      /\ WatchNothingLost /\ InboxMoves
  BY WatchMoves DEF WatchInv, WatchAccounts, WatchTypeOK
<1>s. ASSUME drops' = drops, lost \subseteq lost', archived \subseteq archived', rejected \subseteq rejected',
             \A n \in Names : \/ inbox'[n].bytes = inbox[n].bytes
                              \/ inbox[n].bytes \in lost' \cup {0}
                              \/ <<n, inbox[n].bytes>> \in archived' \cup rejected'
      PROVE  WatchNothingLost'
  <2> SUFFICES ASSUME NEW d \in 1 .. drops
               PROVE  \/ d \in lost' \/ (\E r \in filed' : r.as = "ingested" /\ r.bytes = d)
                      \/ \E n \in Names : <<n, d>> \in archived' \cup rejected'
                      \/ \E n \in Names : inbox'[n].bytes = d
    BY <1>s DEF WatchNothingLost, Copied, Kept
  <2>1. filed \subseteq filed'
    BY FiledMoves
  <2> QED
    BY <1>t, <1>s, <2>1, SMTT(30) DEF WatchNothingLost, Copied, Kept
<1>1. ASSUME NEW n \in Names, Drop(n) PROVE WatchNothingLost'
  <2>1. /\ inbox'[n].bytes = drops' /\ drops' = drops + 1
        /\ \A m \in Names \ {n} : inbox'[m] = inbox[m]
        /\ lost' = lost \cup ({inbox[n].bytes} \ {0})
        /\ UNCHANGED <<filed, archived, rejected>>
    BY <1>1, <1>t DEF Drop, Overwritten, dirs
  <2> SUFFICES ASSUME NEW d \in 1 .. drops'
               PROVE  \/ d \in lost' \/ Copied(d)
                      \/ Kept(d, archived) \/ Kept(d, rejected)
                      \/ \E m \in Names : inbox'[m].bytes = d
    BY <2>1 DEF WatchNothingLost, Copied, Kept
  <2> QED
    BY <1>t, <2>1 DEF WatchNothingLost
<1>2. ASSUME NEW n \in Names, FinishDrop(n) PROVE WatchNothingLost'
  <2>1. inbox'[n] = [inbox[n] EXCEPT !.whole = TRUE] /\ \A m \in Names \ {n} : inbox'[m] = inbox[m]
    BY <1>2, <1>t DEF FinishDrop
  <2>2. inbox'[n].bytes = inbox[n].bytes
    BY <1>t, <2>1
  <2> QED
    BY <1>2, <1>s, <2>1, <2>2 DEF FinishDrop, dirs
<1>3. ASSUME NEW n \in Names, TakeOut(n) PROVE WatchNothingLost'
  BY <1>3, <1>s, <1>t DEF TakeOut, Overwritten, dirs
<1>4. CASE Dispose \/ Quarantine
  <2>1. job.name \in Names
    BY <1>4, InHandTyped DEF WatchInv, Dispose, Quarantine, At
  <2>2. drops' = drops /\ lost' = lost
    BY <1>4 DEF Dispose, Quarantine, world
  <2>3. /\ archived \subseteq archived' /\ rejected \subseteq rejected'
        /\ \/ UNCHANGED inbox
           \/ /\ inbox' = [inbox EXCEPT ![job.name] = Nothing]
              /\ <<job.name, inbox[job.name].bytes>> \in archived' \cup rejected'
    BY <1>4 DEF Dispose, Quarantine, MovedTo, Gone
  <2> QED
    BY <1>s, <1>t, <2>1, <2>2, <2>3
<1>5. CASE Start \/ GoLive \/ Take \/ Stabilize \/ Hash \/ StoreJob \/ Retry \/ Fault \/ Stop
  <2>1. UNCHANGED <<inbox, drops, lost, archived, rejected>>
    BY <1>5 DEF Start, GoLive, Take, Stabilize, Hash, StoreJob, Retry, Fault, Stop, world, dirs
  <2> QED
    BY <1>s, <2>1
<1> QED
  BY <1>1, <1>2, <1>3, <1>4, <1>5 DEF WatchNext, Work

LEMMA SortedNext == WatchInv /\ [WatchNext]_watchVars => WatchSorted'
<1> SUFFICES ASSUME WatchInv, WatchNext PROVE WatchSorted'
  <2>1. WatchInv /\ UNCHANGED watchVars => WatchSorted'
    BY DEF WatchInv, WatchAccounts, WatchSorted, Kept, watchVars, dirs
  <2> QED
    BY <2>1
<1>t. /\ WatchTypeOK /\ JobInv /\ WatchSorted /\ mishaps \in Nat
  BY DEF WatchInv, WatchAccounts, WatchTypeOK
<1>m. swapped \subseteq swapped' /\ mishaps' \in Nat /\ mishaps' >= mishaps /\ filed \subseteq filed'
  <2>1. mishaps' = mishaps \/ mishaps' = mishaps + 1
    BY DEF WatchNext, Work, Start, GoLive, Take, Stabilize, Hash, StoreJob, Retry, Fault, Stop, Dispose,
           Quarantine, Drop, FinishDrop, TakeOut, world
  <2>2. swapped \subseteq swapped'
    BY DEF WatchNext, Work, Start, GoLive, Take, Stabilize, Hash, StoreJob, Retry, Fault, Stop, Dispose,
           Quarantine, Drop, FinishDrop, TakeOut, world
  <2> QED
    BY <1>t, <2>1, <2>2, FiledMoves
<1>1. \A e \in archived' \ archived : e[2] \in (swapped') \cup {r.bytes : r \in filed'}
  <2>1. CASE Dispose /\ inbox[job.name] # Nothing
    <3>1. job.at = "dispose" /\ archived' = archived \cup {<<job.name, InHandBytes>>}
      BY <2>1 DEF Dispose, At, MovedTo, InHandBytes
    <3>2. InHandBytes # 0
      BY <2>1, <3>1, InHandTyped DEF WatchInv, InboxInv, InHandBytes
    <3>3. InHandBytes \in swapped \cup {r.bytes : r \in filed}
      BY <1>t, <3>1, <3>2 DEF JobInv, Excused
    <3>4. InHandBytes \in (swapped') \cup {r.bytes : r \in filed'}
      BY <1>m, <3>3
    <3> QED
      BY <3>1, <3>4
  <2>2. CASE ~(Dispose /\ inbox[job.name] # Nothing)
    <3>1. archived' = archived
      BY <2>2 DEF WatchNext, Work, Start, GoLive, Take, Stabilize, Hash, StoreJob, Retry, Fault, Stop,
                  Dispose, Quarantine, Drop, FinishDrop, TakeOut, world, dirs
    <3> QED
      BY <3>1
  <2> QED
    BY <2>1, <2>2
<1>2. \A e \in rejected' \ rejected : e[2] \in (swapped') \cup Unreadable \/ mishaps' >= MaxAttempts
  <2>1. CASE Quarantine /\ inbox[job.name] # Nothing
    <3>1. /\ job.at = "quarantine" /\ rejected' = rejected \cup {<<job.name, InHandBytes>>}
          /\ UNCHANGED <<swapped, mishaps>>
      BY <2>1 DEF Quarantine, At, MovedTo, InHandBytes, world
    <3>2. InHandBytes # 0
      BY <2>1, <3>1, InHandTyped DEF WatchInv, InboxInv, InHandBytes
    <3> QED
      BY <1>t, <3>1, <3>2 DEF JobInv, Excused
  <2>2. CASE ~(Quarantine /\ inbox[job.name] # Nothing)
    <3>1. rejected' = rejected
      BY <2>2 DEF WatchNext, Work, Start, GoLive, Take, Stabilize, Hash, StoreJob, Retry, Fault, Stop,
                  Dispose, Quarantine, Drop, FinishDrop, TakeOut, world, dirs
    <3> QED
      BY <3>1
  <2> QED
    BY <2>1, <2>2
<1>3. ASSUME NEW d \in Drops \ swapped', Kept(d, archived') PROVE \E r \in filed' : r.bytes = d
  <2>1. PICK n \in Names : <<n, d>> \in archived'
    BY <1>3 DEF Kept
  <2>2. CASE <<n, d>> \in archived
    BY <1>m, <1>t, <2>2 DEF WatchSorted, Kept
  <2>3. CASE <<n, d>> \notin archived
    BY <1>1, <2>1, <2>3
  <2> QED
    BY <2>2, <2>3
<1>4. ASSUME NEW d \in Drops \ swapped', Kept(d, rejected') PROVE d \in Unreadable \/ mishaps' >= MaxAttempts
  <2>0. MaxAttempts \in Nat
    BY WatchAssumption
  <2>1. PICK n \in Names : <<n, d>> \in rejected'
    BY <1>4 DEF Kept
  <2>2. CASE <<n, d>> \in rejected
    BY <1>m, <1>t, <2>0, <2>2 DEF WatchSorted, Kept
  <2>3. CASE <<n, d>> \notin rejected
    BY <1>2, <2>1, <2>3
  <2> QED
    BY <2>2, <2>3
<1> QED
  BY <1>3, <1>4 DEF WatchSorted, Kept

LEMMA WatchInvNext == WatchInv /\ [WatchNext]_watchVars => WatchInv'
<1>1. WatchInv /\ UNCHANGED watchVars => InboxInv' /\ FiledInv'
  BY DEF WatchInv, InboxInv, FiledInv, watchVars, dirs
<1> QED
  BY <1>1, WatchTypeNext, InboxInvNext, FiledInvNext, JobInvNext, LostNext, SortedNext
     DEF WatchInv, WatchAccounts

\* A file that came into the inbox is not lost, whatever fails, stops, or comes
\* under its name, and _processed and _failed hold what was filed and what could
\* not be (process_inbox_file, handle_one, move_to).
THEOREM WatchAccountsHolds == WatchSpec => []WatchAccounts
<1>1. WatchInv => WatchAccounts
  BY DEF WatchInv
<1> QED
  BY <1>1, WatchInvInit, WatchInvNext, PTL DEF WatchSpec

----------------------------------------------------------------------------
(* The daily feed.                                                         *)

Stages == {"idle", "due", "record", "prune", "prune_runs"} \cup Pipeline
Status == {"none", "ok", "empty", "failed"}
Task == [at : Stages, date : Days, run : 0 .. MaxRuns, papers : SUBSET Arxiv, status : Status]

\* A task that holds the flag is the last run; what it has stored is still there
\* when it records that it has.
TaskInv(c) ==
    /\ task[c].at \in {"idle", "due"} <=> task[c].run = 0
    /\ task[c].run # 0 => flag /\ task[c].run = runs
    /\ task[c].date <= day
    /\ IsFiniteSet(task[c].papers)
    /\ task[c].at \in {"score", "replace"} => task[c].papers # {}
    /\ task[c].at = "record" /\ task[c].status = "ok" =>
         /\ batch[task[c].date].run = task[c].run
         /\ batch[task[c].date].papers # {}

NoOther == \A c, e \in Callers : task[c].run # 0 /\ task[e].run # 0 => c = e

\* No batch and no record is of a run to come.
PastRuns == \A d \in Days : batch[d].run <= runs /\ record[d].run <= runs

DailyInv ==
    /\ DailyTypeOK /\ NoOther /\ PastRuns /\ DailyTruthful
    /\ \A c \in Callers : TaskInv(c)

LEMMA DailyNumbers ==
    /\ {LastDay, MaxPapers} \subseteq Nat \ {0} /\ LastDay \in Nat /\ MaxPapers \in Nat \ {0}
    /\ RetentionDays \in Nat /\ MaxRuns \in Nat /\ MaxBreaks \in Nat
    /\ Days \subseteq Nat /\ 1 \in Days
BY DailyAssumption DEF Days

LEMMA NoTaskIs ==
    /\ NoTask \in Task /\ NoTask.at = "idle" /\ NoTask.run = 0 /\ NoTask.date = 1
    /\ NoTask.papers = {} /\ NoTask.status = "none" /\ IsFiniteSet(NoTask.papers)
<1>1. 0 \in 0 .. MaxRuns /\ 1 \in Days
  BY DailyNumbers
<1>2. /\ NoTask.at = "idle" /\ NoTask.run = 0 /\ NoTask.date = 1
      /\ NoTask.papers = {} /\ NoTask.status = "none"
  BY DEF NoTask
<1>3. NoTask \in Task
  BY <1>1 DEF NoTask, Task, Stages, Status
<1> QED
  BY <1>2, <1>3, FS_EmptySet

LEMMA DailyTyped ==
    ASSUME DailyTypeOK
    PROVE  /\ task \in [Callers -> Task]
           /\ batch \in [Days -> [run : 0 .. MaxRuns, papers : SUBSET Arxiv]]
           /\ record \in [Days -> [run : 0 .. MaxRuns, status : Status]]
           /\ day \in Days /\ day \in Nat /\ runs \in 0 .. MaxRuns /\ runs \in Nat
           /\ breaks \in 0 .. MaxBreaks /\ flag \in BOOLEAN
BY DailyNumbers DEF DailyTypeOK, Task, Stages, Status

LEMMA DailyInvInit == DailyInit => DailyInv
<1> SUFFICES ASSUME DailyInit PROVE DailyInv
  OBVIOUS
<1>1. \A c \in Callers : task[c] = NoTask
  BY DEF DailyInit
<1>2. \A d \in Days : batch[d] = NoBatch /\ record[d] = NoRecord
  BY DEF DailyInit
<1>3. DailyTypeOK
  <2>1. task \in [Callers -> Task]
    BY NoTaskIs DEF DailyInit
  <2>2. /\ batch \in [Days -> [run : 0 .. MaxRuns, papers : SUBSET Arxiv]]
        /\ record \in [Days -> [run : 0 .. MaxRuns, status : Status]]
    <3>1. NoBatch \in [run : 0 .. MaxRuns, papers : SUBSET Arxiv]
      BY DailyNumbers DEF NoBatch
    <3>2. NoRecord \in [run : 0 .. MaxRuns, status : Status]
      BY DailyNumbers DEF NoRecord, Status
    <3> QED
      BY <3>1, <3>2 DEF DailyInit
  <2>3. /\ day \in Days /\ past \in BOOLEAN /\ owned \subseteq Arxiv /\ flag \in BOOLEAN
        /\ runs \in 0 .. MaxRuns /\ breaks \in 0 .. MaxBreaks
    <3>1. 0 \in 0 .. MaxRuns /\ 0 \in 0 .. MaxBreaks /\ 1 \in Days
      BY DailyNumbers
    <3> QED
      BY <3>1 DEF DailyInit
  <2> QED
    BY <2>1, <2>2, <2>3 DEF DailyTypeOK, Task, Stages, Status
<1>4. NoOther /\ \A c \in Callers : TaskInv(c)
  BY <1>1, NoTaskIs, DailyNumbers DEF NoOther, TaskInv, DailyInit
<1>5. PastRuns /\ DailyTruthful
  BY <1>2 DEF PastRuns, DailyTruthful, NoBatch, NoRecord, DailyInit
<1> QED
  BY <1>3, <1>4, <1>5 DEF DailyInv

\* A step of run c: its run and date stay, and so do the other task, the flag and
\* the library.
RunStep(c) ==
    /\ task' \in [Callers -> Task]
    /\ \A e \in Callers \ {c} : task'[e] = task[e]
    /\ task[c].run # 0 /\ task'[c].run = task[c].run /\ task'[c].date = task[c].date
    /\ task'[c].at \notin {"idle", "due"}
    /\ UNCHANGED <<day, past, owned, runs, flag>>

\* The other task of a run has none.
LEMMA OtherRests ==
    ASSUME DailyInv, NEW c \in Callers, task[c].run # 0, NEW e \in Callers \ {c}
    PROVE  task[e].run = 0 /\ task[e].at \in {"idle", "due"}
BY DEF DailyInv, NoOther, TaskInv

\* A step of a run that leaves what is stored.
LEMMA RunStepKeeps ==
    ASSUME DailyInv, NEW c \in Callers, RunStep(c), UNCHANGED <<batch, record>>,
           breaks' \in 0 .. MaxBreaks,
           IsFiniteSet(task'[c].papers),
           task'[c].at \in {"score", "replace"} => task'[c].papers # {},
           task'[c].at = "record" => task'[c].status # "ok"
    PROVE  DailyInv'
<1>1. DailyTypeOK'
  BY DEF DailyInv, DailyTypeOK, RunStep, Task, Stages, Status
<1>2. NoOther'
  BY DEF DailyInv, NoOther, RunStep
<1>3. PastRuns' /\ DailyTruthful'
  BY DEF DailyInv, PastRuns, DailyTruthful, RunStep
<1>4. TaskInv(c)'
  BY DEF DailyInv, TaskInv, RunStep
<1>5. \A e \in Callers \ {c} : TaskInv(e)'
  BY DEF DailyInv, TaskInv, RunStep
<1> QED
  BY <1>1, <1>2, <1>3, <1>4, <1>5 DEF DailyInv

\* The papers of a feed, and a choice of them.
LEMMA FiniteCandidates ==
    ASSUME NEW feed \in Feeds
    PROVE  Candidates(feed) \subseteq Arxiv /\ IsFiniteSet(Candidates(feed))
<1> DEFINE S == {x \in feed : x.announce = "new" \/ (IncludeCross /\ x.announce = "cross")}
           f == [x \in S |-> x.id]
<1>1. feed \subseteq Entries /\ IsFiniteSet(feed)
  BY DailyAssumption
<1>2. IsFiniteSet(S)
  BY <1>1, FS_Subset
<1>3. Candidates(feed) = {x.id : x \in S}
  BY DEF Candidates
<1>4. f \in Surjection(S, Candidates(feed))
  BY <1>3 DEF Surjection
<1>5. IsFiniteSet(Candidates(feed))
  BY <1>2, <1>4, FS_Surjection
<1>6. Candidates(feed) \subseteq Arxiv
  BY <1>1, <1>3 DEF Entries
<1> QED
  BY <1>5, <1>6

\* No task runs while the flag is down, so one can be launched.
LEMMA LaunchKeeps ==
    ASSUME DailyInv, NEW c \in Callers, NEW d \in Days, d <= day, ~flag, flag' = TRUE,
           Launch(c, d), UNCHANGED <<day, past, owned, batch, record, breaks>>
    PROVE  DailyInv'
<1> DEFINE x == [NoTask EXCEPT !.at = "fetch", !.date = d, !.run = runs + 1]
<1>t. /\ task \in [Callers -> Task] /\ runs \in Nat /\ runs < MaxRuns /\ runs' = runs + 1
      /\ task' = [task EXCEPT ![c] = x]
  BY DailyTyped DEF DailyInv, Launch
<1>0. runs + 1 \in 0 .. MaxRuns /\ runs + 1 # 0
  BY <1>t, DailyNumbers
<1>1. x.at = "fetch" /\ x.date = d /\ x.run = runs + 1 /\ x.papers = {} /\ x.status = "none"
  BY DEF NoTask
<1>2. x \in Task
  BY <1>0, NoTaskIs DEF Task, Stages, Pipeline
<1> HIDE DEF x
<1>3. task' \in [Callers -> Task] /\ task'[c] = x /\ \A e \in Callers \ {c} : task'[e] = task[e]
  BY <1>t, <1>2
<1>4. \A e \in Callers : task[e].run = 0
  BY DEF DailyInv, TaskInv
<1>5. DailyTypeOK'
  BY <1>t, <1>0, <1>3 DEF DailyInv, DailyTypeOK, Task, Stages, Status
<1>6. NoOther'
  BY <1>3, <1>4 DEF NoOther
<1>7. PastRuns' /\ DailyTruthful'
  <2>1. \A e \in Days : batch[e].run \in Nat /\ record[e].run \in Nat
    BY DailyTyped, DailyNumbers DEF DailyInv
  <2> QED
    BY <1>t, <2>1 DEF DailyInv, PastRuns, DailyTruthful
<1>8. TaskInv(c)'
  BY <1>t, <1>0, <1>1, <1>3, FS_EmptySet DEF TaskInv
<1>9. \A e \in Callers \ {c} : TaskInv(e)'
  BY <1>3, <1>4 DEF DailyInv, TaskInv
<1> QED
  BY <1>5, <1>6, <1>7, <1>8, <1>9 DEF DailyInv

\* One task, or both, come to rest, with the flag down, or up for the other.
LEMMA RestKeeps ==
    ASSUME DailyInv, task' \in [Callers -> Task],
           \A e \in Callers : \/ task'[e] = task[e] /\ (task[e].run = 0 \/ flag' = flag)
                              \/ task'[e].at \in {"idle", "due"} /\ task'[e].run = 0
                                 /\ task'[e].papers = {} /\ task'[e].date <= day
                                 /\ task'[e].status = "none",
           flag' \in BOOLEAN, breaks' \in 0 .. MaxBreaks,
           UNCHANGED <<day, past, owned, batch, record, runs>>
    PROVE  DailyInv'
<1>1. DailyTypeOK'
  BY DEF DailyInv, DailyTypeOK, Task, Stages, Status
<1>2. NoOther'
  BY DEF DailyInv, NoOther
<1>3. PastRuns' /\ DailyTruthful'
  BY DEF DailyInv, PastRuns, DailyTruthful
<1>4. ASSUME NEW e \in Callers PROVE TaskInv(e)'
  <2>1. TaskInv(e)
    BY DEF DailyInv
  <2>2. CASE task'[e] = task[e] /\ (task[e].run = 0 \/ flag' = flag)
    BY <2>1, <2>2 DEF TaskInv
  <2>3. CASE task'[e].at \in {"idle", "due"} /\ task'[e].run = 0 /\ task'[e].papers = {}
             /\ task'[e].date <= day /\ task'[e].status = "none"
    BY <2>3, FS_EmptySet DEF TaskInv
  <2> QED
    BY <2>2, <2>3
<1> QED
  BY <1>1, <1>2, <1>3, <1>4 DEF DailyInv

LEMMA StartersKeep ==
    ASSUME DailyInv, Check \/ Scheduled \/ Requested \/ Restart
    PROVE  DailyInv'
<1>t. /\ task \in [Callers -> Task] /\ day \in Days /\ day \in Nat /\ breaks \in 0 .. MaxBreaks
      /\ 1 <= day /\ flag \in BOOLEAN
  BY DailyTyped DEF DailyInv, Days
<1>b. breaks' \in 0 .. MaxBreaks
  BY <1>t, DailyNumbers DEF Check, Scheduled, Requested, Restart
<1>1. CASE Check
  <2> DEFINE x == [NoTask EXCEPT !.at = "due", !.date = day]
  <2>1. x.at = "due" /\ x.date = day /\ x.run = 0 /\ x.papers = {} /\ x.status = "none"
    BY DEF NoTask
  <2>2. x \in Task
    BY <1>t, NoTaskIs DEF Task, Stages
  <2>3. task' = [task EXCEPT !["scheduler"] = x]
    BY <1>1 DEF Check
  <2> HIDE DEF x
  <2>4. /\ task' \in [Callers -> Task] /\ task'["scheduler"] = x
        /\ \A e \in Callers \ {"scheduler"} : task'[e] = task[e]
    BY <1>t, <2>2, <2>3 DEF Callers
  <2>5. UNCHANGED <<day, past, owned, flag, batch, record, runs>>
    BY <1>1 DEF Check
  <2>6. \A e \in Callers : \/ task'[e] = task[e] /\ flag' = flag
                           \/ task'[e].at \in {"idle", "due"} /\ task'[e].run = 0
                              /\ task'[e].papers = {} /\ task'[e].date <= day
                              /\ task'[e].status = "none"
    BY <1>t, <2>1, <2>4, <2>5
  <2> QED
    BY <1>t, <1>b, <2>4, <2>5, <2>6, RestKeeps
<1>2. CASE Scheduled
  <2>0. "scheduler" \in Callers
    BY DEF Callers
  <2>1. CASE ~flag
    <3>1. task["scheduler"].date \in Days /\ task["scheduler"].date <= day
      BY <1>t, <2>0 DEF Task, DailyInv, TaskInv
    <3> QED
      BY <1>2, <2>0, <2>1, <3>1, LaunchKeeps DEF Scheduled
  <2>2. CASE flag
    <3>1. task' \in [Callers -> Task] /\ \A e \in Callers : task'[e] = task[e] \/ task'[e] = NoTask
      BY <1>t, <1>2, <2>2, NoTaskIs DEF Scheduled
    <3> QED
      BY <1>2, <1>t, <1>b, <2>2, <3>1, NoTaskIs, RestKeeps DEF Scheduled
  <2> QED
    BY <2>1, <2>2
<1>3. CASE Requested
  <2>0. "handler" \in Callers
    BY DEF Callers
  <2>1. /\ ~flag /\ flag' = TRUE /\ Launch("handler", day)
        /\ UNCHANGED <<day, past, owned, batch, record, breaks>>
    BY <1>3 DEF Requested
  <2>2. PICK d \in Days : d = day /\ Launch("handler", d)
    BY <1>t, <2>1
  <2>3. d <= day
    BY <1>t, <2>2
  <2> QED
    BY <2>0, <2>1, <2>2, <2>3, LaunchKeeps
<1>4. CASE Restart
  <2>1. task' \in [Callers -> Task] /\ \A e \in Callers : task'[e] = NoTask
    BY <1>4, NoTaskIs DEF Restart
  <2> QED
    BY <1>4, <1>t, <1>b, <2>1, NoTaskIs, RestKeeps DEF Restart, context
<1> QED
  BY <1>1, <1>2, <1>3, <1>4

\* The steps of a run that write the batch or the record.
LEMMA StoreKeeps ==
    ASSUME DailyInv, NEW c \in Callers, RunStep(c), task[c].at = "replace", Stored(c),
           UNCHANGED record, breaks' \in 0 .. MaxBreaks,
           task'[c].at = "record", task'[c].papers = task[c].papers
    PROVE  DailyInv'
<1>t. /\ task \in [Callers -> Task] /\ batch \in [Days -> [run : 0 .. MaxRuns, papers : SUBSET Arxiv]]
      /\ record \in [Days -> [run : 0 .. MaxRuns, status : Status]] /\ runs \in Nat
  BY DailyTyped DEF DailyInv
<1>0. /\ task[c].date \in Days /\ task[c].run \in 0 .. MaxRuns /\ task[c].papers \in SUBSET Arxiv
      /\ task[c].run = runs /\ task[c].papers # {} /\ flag
  BY <1>t DEF Task, RunStep, DailyInv, TaskInv
<1>1. PICK d \in Days : d = task[c].date
  BY <1>0
<1>2. PICK b \in [run : 0 .. MaxRuns, papers : SUBSET Arxiv] :
        b.run = runs /\ b.papers # {} /\ batch' = [batch EXCEPT ![d] = b]
  BY <1>0, <1>1 DEF Stored
<1>3. batch'[d] = b /\ \A e \in Days \ {d} : batch'[e] = batch[e]
  BY <1>t, <1>2
<1>4. DailyTypeOK'
  BY <1>t, <1>2 DEF DailyInv, DailyTypeOK, RunStep, Task, Stages, Status
<1>5. NoOther'
  BY DEF DailyInv, NoOther, RunStep
<1>6. PastRuns'
  BY <1>t, <1>2, <1>3 DEF DailyInv, PastRuns, RunStep
<1>7. DailyTruthful'
  <2> SUFFICES ASSUME NEW e \in Days, record[e].status = "ok"
               PROVE  \/ batch'[e].papers # {} /\ batch'[e].run >= record[e].run
                      \/ \E later \in Days : later > e + RetentionDays /\ day >= later
    BY DEF DailyTruthful, RunStep
  <2>1. CASE e = d
    BY <1>2, <1>3, <1>t, <2>1 DEF DailyInv, PastRuns
  <2>2. CASE e # d
    BY <1>3, <2>2 DEF DailyInv, DailyTruthful
  <2> QED
    BY <2>1, <2>2
<1>8. TaskInv(c)'
  BY <1>0, <1>1, <1>2, <1>3 DEF DailyInv, TaskInv, RunStep
<1>9. ASSUME NEW e \in Callers \ {c} PROVE TaskInv(e)'
  <2>1. task'[e] = task[e] /\ task[e].run = 0 /\ task[e].at \in {"idle", "due"}
    BY OtherRests DEF RunStep
  <2> QED
    BY <2>1 DEF DailyInv, TaskInv, RunStep
<1> QED
  BY <1>4, <1>5, <1>6, <1>7, <1>8, <1>9 DEF DailyInv

LEMMA RecordKeeps ==
    ASSUME DailyInv, NEW c \in Callers, Record(c), RunStep(c),
           task'[c].at = "prune", task'[c].papers = task[c].papers
    PROVE  DailyInv'
<1>t. /\ task \in [Callers -> Task] /\ batch \in [Days -> [run : 0 .. MaxRuns, papers : SUBSET Arxiv]]
      /\ record \in [Days -> [run : 0 .. MaxRuns, status : Status]] /\ runs \in Nat
  BY DailyTyped DEF DailyInv
<1>0. /\ task[c].date \in Days /\ task[c].run \in 0 .. MaxRuns /\ task[c].status \in Status
      /\ task[c].run = runs /\ flag /\ UNCHANGED <<batch, breaks>> /\ task[c].at = "record"
  BY <1>t DEF Task, RunStep, DailyInv, TaskInv, Record
<1>1. PICK d \in Days : d = task[c].date
  BY <1>0
<1>2. PICK r \in [run : 0 .. MaxRuns, status : Status] :
        r.run = runs /\ r.status = task[c].status /\ record' = [record EXCEPT ![d] = r]
  BY <1>0, <1>1 DEF Record
<1>3. record'[d] = r /\ \A e \in Days \ {d} : record'[e] = record[e]
  BY <1>t, <1>2
<1>4. DailyTypeOK'
  BY <1>0, <1>t, <1>2 DEF DailyInv, DailyTypeOK, RunStep, Task, Stages, Status
<1>5. NoOther'
  BY DEF DailyInv, NoOther, RunStep
<1>6. PastRuns'
  BY <1>0, <1>t, <1>2, <1>3 DEF DailyInv, PastRuns, RunStep
<1>7. DailyTruthful'
  <2> SUFFICES ASSUME NEW e \in Days, record'[e].status = "ok"
               PROVE  \/ batch[e].papers # {} /\ batch[e].run >= record'[e].run
                      \/ \E later \in Days : later > e + RetentionDays /\ day >= later
    BY <1>0 DEF DailyTruthful, RunStep
  <2>1. CASE e = d
    BY <1>0, <1>1, <1>2, <1>3, <1>t, <2>1 DEF DailyInv, TaskInv
  <2>2. CASE e # d
    BY <1>3, <2>2 DEF DailyInv, DailyTruthful
  <2> QED
    BY <2>1, <2>2
<1>8. TaskInv(c)'
  BY <1>0 DEF DailyInv, TaskInv, RunStep
<1>9. ASSUME NEW e \in Callers \ {c} PROVE TaskInv(e)'
  <2>1. task'[e] = task[e] /\ task[e].run = 0 /\ task[e].at \in {"idle", "due"}
    BY <1>0, OtherRests DEF RunStep
  <2> QED
    BY <2>1 DEF DailyInv, TaskInv, RunStep
<1> QED
  BY <1>4, <1>5, <1>6, <1>7, <1>8, <1>9 DEF DailyInv

\* What is pruned is out of its retention by the date of the run.
LEMMA PruneKeeps ==
    ASSUME DailyInv, NEW c \in Callers, Prune(c), RunStep(c),
           task'[c].at = "prune_runs", task'[c].papers = task[c].papers
    PROVE  DailyInv'
<1>t. /\ task \in [Callers -> Task] /\ batch \in [Days -> [run : 0 .. MaxRuns, papers : SUBSET Arxiv]]
      /\ record \in [Days -> [run : 0 .. MaxRuns, status : Status]] /\ runs \in Nat
  BY DailyTyped DEF DailyInv
<1>0. /\ task[c].date \in Days /\ task[c].date <= day
      /\ UNCHANGED <<record, breaks>> /\ task[c].at = "prune" /\ task[c].run # 0
  BY <1>t DEF Task, RunStep, DailyInv, TaskInv, Prune
<1>1. NoBatch \in [run : 0 .. MaxRuns, papers : SUBSET Arxiv] /\ NoBatch.run = 0
  BY DailyNumbers DEF NoBatch
<1>2. /\ \A d \in Days : batch'[d] = IF Expired(c, d) THEN NoBatch ELSE batch[d]
      /\ batch' \in [Days -> [run : 0 .. MaxRuns, papers : SUBSET Arxiv]]
  BY <1>t, <1>1 DEF Prune
<1>4. DailyTypeOK'
  BY <1>0, <1>t, <1>2 DEF DailyInv, DailyTypeOK, RunStep, Task, Stages, Status
<1>5. NoOther'
  BY DEF DailyInv, NoOther, RunStep
<1>6. PastRuns'
  BY <1>0, <1>t, <1>1, <1>2 DEF DailyInv, PastRuns, RunStep
<1>7. DailyTruthful'
  <2> SUFFICES ASSUME NEW e \in Days, record[e].status = "ok"
               PROVE  \/ batch'[e].papers # {} /\ batch'[e].run >= record[e].run
                      \/ \E later \in Days : later > e + RetentionDays /\ day >= later
    BY <1>0 DEF DailyTruthful, RunStep
  <2>1. CASE Expired(c, e)
    BY <1>0, <2>1 DEF Expired
  <2>2. CASE ~Expired(c, e)
    BY <1>2, <2>2 DEF DailyInv, DailyTruthful
  <2> QED
    BY <2>1, <2>2
<1>8. TaskInv(c)'
  BY <1>0 DEF DailyInv, TaskInv, RunStep
<1>9. ASSUME NEW e \in Callers \ {c} PROVE TaskInv(e)'
  <2>1. task'[e] = task[e] /\ task[e].run = 0 /\ task[e].at \in {"idle", "due"}
    BY <1>0, OtherRests DEF RunStep
  <2> QED
    BY <2>1 DEF DailyInv, TaskInv, RunStep
<1> QED
  BY <1>4, <1>5, <1>6, <1>7, <1>8, <1>9 DEF DailyInv

\* A run ends: its flag goes down, and records out of their retention go.
LEMMA EndKeeps ==
    ASSUME DailyInv, NEW c \in Callers, PruneRuns(c)
    PROVE  DailyInv'
<1>t. /\ task \in [Callers -> Task] /\ batch \in [Days -> [run : 0 .. MaxRuns, papers : SUBSET Arxiv]]
      /\ record \in [Days -> [run : 0 .. MaxRuns, status : Status]] /\ runs \in Nat
  BY DailyTyped DEF DailyInv
<1>0. /\ UNCHANGED <<day, past, owned, runs, batch, breaks>> /\ flag' = FALSE
      /\ task[c].at = "prune_runs"
  BY DEF PruneRuns, Released, context
<1>1. NoRecord \in [run : 0 .. MaxRuns, status : Status] /\ NoRecord.run = 0 /\ NoRecord.status = "none"
  BY DailyNumbers DEF NoRecord, Status
<1>2. /\ \A d \in Days : record'[d] = IF Expired(c, d) THEN NoRecord ELSE record[d]
      /\ record' \in [Days -> [run : 0 .. MaxRuns, status : Status]]
  BY <1>t, <1>1 DEF PruneRuns
<1>3. task'[c] = NoTask /\ (\A e \in Callers \ {c} : task'[e] = task[e]) /\ task' \in [Callers -> Task]
  BY <1>t, NoTaskIs DEF PruneRuns
<1>r. task[c].run # 0
  BY <1>0 DEF DailyInv, TaskInv
<1>4. DailyTypeOK'
  BY <1>0, <1>t, <1>2, <1>3 DEF DailyInv, DailyTypeOK, Task, Stages, Status
<1>5. NoOther'
  BY <1>3, NoTaskIs DEF DailyInv, NoOther
<1>6. PastRuns'
  BY <1>0, <1>t, <1>1, <1>2 DEF DailyInv, PastRuns
<1>7. DailyTruthful'
  BY <1>0, <1>1, <1>2 DEF DailyInv, DailyTruthful
<1>8. TaskInv(c)'
  <2>1. 1 <= day /\ day' = day
    BY <1>0, DailyTyped DEF Days, DailyInv
  <2> QED
    BY <1>3, <2>1, NoTaskIs DEF TaskInv
<1>9. ASSUME NEW e \in Callers \ {c} PROVE TaskInv(e)'
  <2>1. task'[e] = task[e] /\ task[e].run = 0 /\ task[e].at \in {"idle", "due"}
    BY <1>3, <1>r, OtherRests
  <2> QED
    BY <1>0, <2>1 DEF DailyInv, TaskInv
<1> QED
  BY <1>4, <1>5, <1>6, <1>7, <1>8, <1>9 DEF DailyInv

\* A run goes on to another stage, with other papers or another status.
Moves(c, at, ps, st) ==
    /\ RunStep(c)
    /\ task'[c].at = at /\ task'[c].papers = ps /\ task'[c].status = st

LEMMA RunMoves ==
    ASSUME DailyInv, NEW c \in Callers
    PROVE  /\ Fetch(c) => \E feed \in Feeds : Moves(c, "known", Candidates(feed), task[c].status)
           /\ DropKnown(c) => \/ Moves(c, "record", {}, "empty")
                              \/ \E ps \in (SUBSET task[c].papers) \ {{}} : Moves(c, "score", ps, "none")
           /\ Score(c) => \E ps \in (SUBSET task[c].papers) \ {{}} :
                              Moves(c, "replace", ps, task[c].status)
           /\ Replace(c) => Moves(c, "record", task[c].papers, "ok")
           /\ Break(c) => Moves(c, "record", task[c].papers, "failed")
           /\ Record(c) => Moves(c, "prune", task[c].papers, task[c].status)
           /\ Prune(c) => Moves(c, "prune_runs", task[c].papers, task[c].status)
<1>t. task \in [Callers -> Task]
  BY DailyTyped DEF DailyInv
<1>r. task[c].at \notin {"idle", "due"} => task[c].run # 0
  BY DEF DailyInv, TaskInv
<1>1. ASSUME Fetch(c)
      PROVE  \E feed \in Feeds : Moves(c, "known", Candidates(feed), task[c].status)
  <2>1. PICK feed \in Feeds : task' = [task EXCEPT ![c].at = "known", ![c].papers = Candidates(feed)]
    BY <1>1 DEF Fetch
  <2>2. Candidates(feed) \subseteq Arxiv
    BY FiniteCandidates
  <2>3. /\ task' \in [Callers -> Task] /\ task'[c].at = "known" /\ task'[c].run = task[c].run
        /\ task'[c].date = task[c].date /\ task'[c].papers = Candidates(feed)
        /\ task'[c].status = task[c].status /\ \A e \in Callers \ {c} : task'[e] = task[e]
    BY <1>t, <2>1, <2>2 DEF Task, Stages, Pipeline
  <2> QED
    BY <1>r, <1>1, <2>3 DEF Fetch, Moves, RunStep, context
<1>2. ASSUME DropKnown(c)
      PROVE  \/ Moves(c, "record", {}, "empty")
             \/ \E ps \in (SUBSET task[c].papers) \ {{}} : Moves(c, "score", ps, "none")
  <2> DEFINE left == task[c].papers \ owned
             at == IF left = {} THEN "record" ELSE "score"
             st == IF left = {} THEN "empty" ELSE "none"
  <2>1. task' = [task EXCEPT ![c].papers = left, ![c].at = at, ![c].status = st]
    BY <1>2 DEF DropKnown
  <2>2. left \in SUBSET Arxiv /\ at \in Stages /\ st \in Status
    BY <1>t DEF Task, Stages, Pipeline, Status
  <2>4. \/ left = {} /\ at = "record" /\ st = "empty"
        \/ left \in (SUBSET task[c].papers) \ {{}} /\ at = "score" /\ st = "none"
    OBVIOUS
  <2> HIDE DEF left, at, st
  <2>3. /\ task' \in [Callers -> Task] /\ task'[c].at = at /\ task'[c].run = task[c].run
        /\ task'[c].date = task[c].date /\ task'[c].papers = left
        /\ task'[c].status = st /\ \A e \in Callers \ {c} : task'[e] = task[e]
    BY <1>t, <2>1, <2>2 DEF Task
  <2>5. Moves(c, at, left, st)
    BY <1>r, <1>2, <2>3, <2>4 DEF DropKnown, Moves, RunStep, context
  <2> QED
    BY <2>4, <2>5
<1>3. ASSUME Score(c)
      PROVE  \E ps \in (SUBSET task[c].papers) \ {{}} : Moves(c, "replace", ps, task[c].status)
  <2>1. PICK best \in SUBSET task[c].papers :
          /\ Cardinality(best) = IF Cardinality(task[c].papers) < MaxPapers
                                 THEN Cardinality(task[c].papers) ELSE MaxPapers
          /\ task' = [task EXCEPT ![c].papers = best, ![c].at = "replace"]
    BY <1>3 DEF Score
  <2>2. best \in SUBSET Arxiv
    BY <1>t DEF Task
  <2>3. best # {}
    <3>1. IsFiniteSet(task[c].papers) /\ task[c].papers # {}
      BY <1>3 DEF DailyInv, TaskInv, Score
    <3>2. PICK k \in Nat : k = Cardinality(task[c].papers)
      BY <3>1, FS_CardinalityType
    <3>3. k # 0
      BY <3>1, <3>2, FS_EmptySet
    <3>4. Cardinality(best) # 0
      BY <2>1, <3>2, <3>3, DailyNumbers
    <3> QED
      BY <3>4, FS_EmptySet
  <2>4. /\ task' \in [Callers -> Task] /\ task'[c].at = "replace" /\ task'[c].run = task[c].run
        /\ task'[c].date = task[c].date /\ task'[c].papers = best
        /\ task'[c].status = task[c].status /\ \A e \in Callers \ {c} : task'[e] = task[e]
    BY <1>t, <2>1, <2>2 DEF Task, Stages, Pipeline
  <2>5. Moves(c, "replace", best, task[c].status)
    BY <1>r, <1>3, <2>4 DEF Score, Moves, RunStep, context
  <2> QED
    BY <2>3, <2>5
<1>4. ASSUME NEW st \in Status, task[c].at \notin {"idle", "due"},
             UNCHANGED <<day, past, owned, runs, flag>>,
             task' = [task EXCEPT ![c].at = "record", ![c].status = st]
      PROVE  Moves(c, "record", task[c].papers, st)
  <2>1. /\ task' \in [Callers -> Task] /\ task'[c].at = "record" /\ task'[c].run = task[c].run
        /\ task'[c].date = task[c].date /\ task'[c].papers = task[c].papers
        /\ task'[c].status = st /\ \A e \in Callers \ {c} : task'[e] = task[e]
    BY <1>t, <1>4 DEF Task, Stages
  <2> QED
    BY <1>r, <1>4, <2>1 DEF Moves, RunStep
<1>5. ASSUME NEW at \in {"prune", "prune_runs"}, task[c].at \notin {"idle", "due"},
             UNCHANGED <<day, past, owned, runs, flag>>, task' = [task EXCEPT ![c].at = at]
      PROVE  Moves(c, at, task[c].papers, task[c].status)
  <2>1. /\ task' \in [Callers -> Task] /\ task'[c].at = at /\ task'[c].run = task[c].run
        /\ task'[c].date = task[c].date /\ task'[c].papers = task[c].papers
        /\ task'[c].status = task[c].status /\ \A e \in Callers \ {c} : task'[e] = task[e]
    BY <1>t, <1>5 DEF Task, Stages
  <2> QED
    BY <1>r, <1>5, <2>1 DEF Moves, RunStep
<1>6. Replace(c) => Moves(c, "record", task[c].papers, "ok")
  BY <1>4 DEF Replace, context, Status
<1>7. Break(c) => Moves(c, "record", task[c].papers, "failed")
  BY <1>4 DEF Break, context, Status, Pipeline
<1>8. Record(c) => Moves(c, "prune", task[c].papers, task[c].status)
  BY <1>5 DEF Record, context
<1>9. Prune(c) => Moves(c, "prune_runs", task[c].papers, task[c].status)
  BY <1>5 DEF Prune, context
<1> QED
  BY <1>1, <1>2, <1>3, <1>6, <1>7, <1>8, <1>9

LEMMA RunKeeps ==
    ASSUME DailyInv, NEW c \in Callers, Going(c) \/ Break(c) \/ Unrecorded(c)
    PROVE  DailyInv'
<1>t. /\ task \in [Callers -> Task] /\ breaks \in 0 .. MaxBreaks /\ TaskInv(c)
      /\ IsFiniteSet(task[c].papers)
  BY DailyTyped DEF DailyInv, TaskInv
<1>f. \A ps \in SUBSET task[c].papers : IsFiniteSet(ps)
  BY <1>t, FS_Subset
<1>b. breaks < MaxBreaks => breaks + 1 \in 0 .. MaxBreaks
  BY <1>t, DailyNumbers
<1>1. CASE Fetch(c)
  <2>1. PICK feed \in Feeds : Moves(c, "known", Candidates(feed), task[c].status)
    BY <1>1, RunMoves
  <2> QED
    BY <1>1, <1>t, <2>1, FiniteCandidates, RunStepKeeps DEF Moves, Fetch
<1>2. CASE DropKnown(c)
  <2>1. \/ Moves(c, "record", {}, "empty")
        \/ \E ps \in (SUBSET task[c].papers) \ {{}} : Moves(c, "score", ps, "none")
    BY <1>2, RunMoves
  <2> QED
    BY <1>2, <1>t, <1>f, <2>1, RunStepKeeps, FS_EmptySet DEF Moves, DropKnown
<1>3. CASE Score(c)
  <2>1. PICK ps \in (SUBSET task[c].papers) \ {{}} : Moves(c, "replace", ps, task[c].status)
    BY <1>3, RunMoves
  <2> QED
    BY <1>3, <1>t, <1>f, <2>1, RunStepKeeps DEF Moves, Score
<1>4. CASE Replace(c)
  BY <1>4, <1>t, RunMoves, StoreKeeps DEF Moves, Replace
<1>5. CASE Break(c)
  <2>1. /\ Moves(c, "record", task[c].papers, "failed") /\ breaks' \in 0 .. MaxBreaks
        /\ UNCHANGED record
    BY <1>5, <1>b, RunMoves DEF Break
  <2>2. CASE UNCHANGED batch
    BY <1>t, <2>1, <2>2, RunStepKeeps DEF Moves
  <2>3. CASE task[c].at = "replace" /\ Stored(c)
    BY <2>1, <2>3, StoreKeeps DEF Moves
  <2> QED
    BY <1>5, <2>2, <2>3 DEF Break
<1>6. CASE Record(c)
  BY <1>6, RunMoves, RecordKeeps DEF Moves
<1>7. CASE Prune(c)
  BY <1>7, RunMoves, PruneKeeps DEF Moves
<1>8. CASE PruneRuns(c)
  BY <1>8, EndKeeps
<1>9. CASE Unrecorded(c)
  <2>0. /\ breaks' \in 0 .. MaxBreaks /\ UNCHANGED <<day, past, owned, runs, batch, record>>
    BY <1>9, <1>b DEF Unrecorded, context
  <2>r. task[c].at \notin {"idle", "due"} => task[c].run # 0
    BY <1>t DEF TaskInv
  <2>1. CASE task[c].at = "record" /\ task' = [task EXCEPT ![c].at = "prune"] /\ UNCHANGED flag
    <3>1. /\ task' \in [Callers -> Task] /\ task'[c].at = "prune" /\ task'[c].run = task[c].run
          /\ task'[c].date = task[c].date /\ task'[c].papers = task[c].papers
          /\ \A e \in Callers \ {c} : task'[e] = task[e]
      BY <1>t, <2>1 DEF Task, Stages
    <3>2. RunStep(c)
      BY <2>0, <2>1, <2>r, <3>1 DEF RunStep
    <3> QED
      BY <1>t, <2>0, <3>1, <3>2, RunStepKeeps
  <2>2. CASE /\ task[c].at \in {"prune", "prune_runs"}
             /\ task' = [task EXCEPT ![c] = NoTask] /\ Released(c)
    <3>1. /\ task'[c] = NoTask /\ (\A e \in Callers \ {c} : task'[e] = task[e])
          /\ task' \in [Callers -> Task] /\ flag' = FALSE
      BY <1>t, <2>2, NoTaskIs DEF Released
    <3>2. \A e \in Callers \ {c} : task[e].run = 0
      BY <2>2, <2>r, OtherRests
    <3>3. 1 <= day
      BY DailyTyped DEF Days, DailyInv
    <3>4. \A e \in Callers : \/ task'[e] = task[e] /\ task[e].run = 0
                             \/ task'[e].at \in {"idle", "due"} /\ task'[e].run = 0
                                /\ task'[e].papers = {} /\ task'[e].date <= day
                                /\ task'[e].status = "none"
      BY <3>1, <3>2, <3>3, NoTaskIs
    <3> QED
      BY <2>0, <3>1, <3>4, RestKeeps
  <2> QED
    BY <1>9, <2>1, <2>2 DEF Unrecorded
<1> QED
  BY <1>1, <1>2, <1>3, <1>4, <1>5, <1>6, <1>7, <1>8, <1>9 DEF Going

LEMMA DailyInvNext == DailyInv /\ [DailyNext]_dailyVars => DailyInv'
<1> SUFFICES ASSUME DailyInv, [DailyNext]_dailyVars PROVE DailyInv'
  OBVIOUS
<1>1. ASSUME UNCHANGED <<flag, task, batch, record, runs, breaks>>, day' \in Days, day' >= day,
             past' \in BOOLEAN, owned' \subseteq Arxiv
      PROVE  DailyInv'
  <2>t. day \in Nat /\ day' \in Nat /\ task \in [Callers -> Task] /\ \A d \in Days : d \in Nat
    BY <1>1, DailyTyped, DailyNumbers DEF DailyInv
  <2>1. DailyTypeOK'
    BY <1>1 DEF DailyInv, DailyTypeOK
  <2>2. NoOther' /\ PastRuns'
    BY <1>1 DEF DailyInv, NoOther, PastRuns
  <2>3. \A c \in Callers : TaskInv(c)'
    <3>1. \A c \in Callers : task[c].date \in Nat
      BY <2>t DEF Task
    <3> QED
      BY <1>1, <2>t, <3>1 DEF DailyInv, TaskInv
  <2>4. DailyTruthful'
    <3>1. \A later \in Days : day >= later => day' >= later
      BY <1>1, <2>t
    <3> QED
      BY <1>1, <3>1 DEF DailyInv, DailyTruthful
  <2> QED
    BY <2>1, <2>2, <2>3, <2>4 DEF DailyInv
<1>t. day \in Days /\ day \in Nat /\ past \in BOOLEAN /\ owned \subseteq Arxiv
  BY DailyTyped DEF DailyInv, DailyTypeOK
<1>2. CASE UNCHANGED dailyVars
  BY <1>1, <1>2, <1>t DEF dailyVars
<1>3. CASE PassRunAt
  BY <1>1, <1>3, <1>t DEF PassRunAt
<1>4. CASE Midnight
  <2>1. day' \in Days /\ day' >= day
    BY <1>4, <1>t, DailyNumbers DEF Midnight, Days
  <2> QED
    BY <1>1, <1>4, <1>t, <2>1 DEF Midnight
<1>5. ASSUME NEW a \in Arxiv, Own(a) PROVE DailyInv'
  BY <1>1, <1>5, <1>t DEF Own
<1> QED
  BY <1>2, <1>3, <1>4, <1>5, StartersKeep, RunKeeps DEF DailyNext

LEMMA DailyInvAccounts == DailyInv => DailyAccounts
<1> SUFFICES ASSUME DailyInv PROVE DailyOneRun
  BY DEF DailyAccounts, DailyInv
<1> DEFINE R == {c \in Callers : task[c].run # 0}
<1>1. CASE R = {}
  BY <1>1, FS_EmptySet DEF DailyOneRun
<1>2. ASSUME NEW c \in R PROVE DailyOneRun
  <2>1. R = {c} /\ flag
    BY <1>2 DEF DailyInv, NoOther, TaskInv
  <2>2. Cardinality(R) = 1
    BY <2>1, FS_Singleton
  <2> QED
    BY <2>1, <2>2 DEF DailyOneRun
<1> QED
  BY <1>1, <1>2

\* A day recorded "ok" shows its papers, and no two runs are under way at once,
\* whatever fails, is cut short or restarted, and however the scheduler's and the
\* handler's runs follow one another (run_once, try_begin, prune).
THEOREM DailyAccountsHolds == DailySpec => []DailyAccounts
BY DailyInvInit, DailyInvNext, DailyInvAccounts, PTL DEF DailySpec

----------------------------------------------------------------------------
(* The vectors.                                                            *)

Busy == {"delete", "remove", "extract", "embed", "ensure", "upsert", "mark"}
\* The steps that have a paper's chunks in hand.
Chunked == {"embed", "ensure", "upsert", "mark"}

Sweeper ==
    [at : Busy \cup {"down", "idle", "clear", "recreate", "sweep"}, rebuild : BOOLEAN,
     model : Models, ensured : BOOLEAN, todo : SUBSET Embedded, dels : SUBSET Embedded,
     extracted : SUBSET Embedded, cur : Embedded \cup {"none"},
     edition : Editions \cup {NoEdition}, left : SUBSET Nat]

Stamp == [edition : Editions \cup {NoEdition}, model : Models \cup {"none"}, waits : BOOLEAN]
Collection ==
    [size : Models \cup {"none"},
     points : SUBSET [paper : Embedded, seq : Nat, edition : Editions, model : Models]]

VecTypeInv ==
    /\ VectorsTypeOK
    /\ collection \in Collection /\ sweeper \in Sweeper /\ happened \in Nat
    /\ sweeper.at \in Busy => sweeper.cur \in Embedded
    /\ sweeper.at \in Chunked =>
         sweeper.edition \in Editions /\ sweeper.left \subseteq Seqs[sweeper.edition]
    /\ \A p \in sweeper.extracted : stamps[p].edition \in Editions

LEMMA VecTyped ==
    ASSUME VecTypeInv
    PROVE  /\ catalogue \in [Embedded -> [at : {"live", "trashed", "gone"}, edition : Editions]]
           /\ stamps \in [Embedded -> Stamp]
           /\ collection \in Collection /\ configured \in Models
           /\ sweeper \in Sweeper /\ unvouched \subseteq Embedded
           /\ happened \in Nat /\ happened <= MaxHappenings
           /\ NoCollection \in Collection /\ NoStamp \in Stamp
BY DEF VecTypeInv, VectorsTypeOK, Stamp, NoCollection, Collection, NoStamp

\* The records the sweeper is set to.
LEMMA BootIs ==
    ASSUME configured \in Models
    PROVE  /\ \A r \in BOOLEAN : /\ Boot(r) \in Sweeper
                                 /\ Boot(r).at = (IF r THEN "clear" ELSE "idle")
                                 /\ Boot(r).model = configured /\ Boot(r).ensured = FALSE
                                 /\ Boot(r).extracted = {} /\ Boot(r).cur = "none"
           /\ Down \in Sweeper /\ Down.at = "down" /\ Down.ensured = FALSE /\ Down.extracted = {}
           /\ Down.model = configured /\ Down.cur = "none"
<1>1. \A r \in BOOLEAN : /\ Boot(r) \in Sweeper
                         /\ Boot(r).at = (IF r THEN "clear" ELSE "idle")
                         /\ Boot(r).model = configured /\ Boot(r).ensured = FALSE
                         /\ Boot(r).extracted = {} /\ Boot(r).cur = "none"
  BY DEF Boot, Sweeper, Busy
<1>2. PICK b : b = Boot(FALSE) /\ Down = [b EXCEPT !.at = "down"]
  BY DEF Down
<1>3. b \in Sweeper /\ b.ensured = FALSE /\ b.extracted = {} /\ b.model = configured /\ b.cur = "none"
  BY <1>1, <1>2
<1>4. /\ [b EXCEPT !.at = "down"] \in Sweeper /\ [b EXCEPT !.at = "down"].at = "down"
      /\ [b EXCEPT !.at = "down"].ensured = b.ensured
      /\ [b EXCEPT !.at = "down"].extracted = b.extracted
      /\ [b EXCEPT !.at = "down"].model = b.model
      /\ [b EXCEPT !.at = "down"].cur = b.cur
  BY <1>3 DEF Sweeper
<1> QED
  BY <1>1, <1>2, <1>3, <1>4

LEMMA BackIs ==
    ASSUME sweeper \in Sweeper
    PROVE  /\ Back \in Sweeper /\ Back.at = "sweep" /\ Back.model = sweeper.model
           /\ Back.ensured = sweeper.ensured /\ Back.cur = "none"
           /\ Back.extracted = sweeper.extracted \ {sweeper.cur}
BY DEF Back, Sweeper

LEMMA ToIs ==
    ASSUME sweeper \in Sweeper, NEW at \in Busy \cup {"down", "idle", "clear", "recreate", "sweep"},
           To(at)
    PROVE  /\ sweeper' \in Sweeper /\ sweeper'.at = at /\ sweeper'.model = sweeper.model
           /\ sweeper'.ensured = sweeper.ensured /\ sweeper'.cur = sweeper.cur
           /\ sweeper'.extracted = sweeper.extracted /\ sweeper'.edition = sweeper.edition
           /\ sweeper'.left = sweeper.left
BY DEF To, Sweeper

LEMMA BackoffIs ==
    ASSUME stamps \in [Embedded -> Stamp], NEW p \in Embedded, NEW w \in BOOLEAN,
           stamps' = [stamps EXCEPT ![p].waits = w]
    PROVE  /\ stamps' \in [Embedded -> Stamp]
           /\ \A q \in Embedded : /\ stamps'[q].model = stamps[q].model
                                  /\ stamps'[q].edition = stamps[q].edition
BY DEF Stamp

LEMMA ForgottenIs ==
    ASSUME NEW s \in Sweeper
    PROVE  /\ Forgotten(s) \in Sweeper /\ Forgotten(s).at = s.at /\ Forgotten(s).model = s.model
           /\ Forgotten(s).cur = s.cur /\ Forgotten(s).extracted = s.extracted
           /\ Forgotten(s).edition = s.edition /\ Forgotten(s).left = s.left
           /\ Forgotten(s).ensured => s.ensured
BY DEF Forgotten, Sweeper

LEMMA HappensIs ==
    ASSUME VecTypeInv, Happens \/ UNCHANGED happened
    PROVE  happened' \in Nat /\ happened' <= MaxHappenings
<1>1. happened \in Nat /\ happened <= MaxHappenings /\ MaxHappenings \in Nat
  BY VecTyped, VectorsAssumption
<1> QED
  BY <1>1 DEF Happens

\* The conjuncts of the types, one by one.
LEMMA VecTypeBy ==
    ASSUME catalogue' \in [Embedded -> [at : {"live", "trashed", "gone"}, edition : Editions]],
           stamps' \in [Embedded -> Stamp], collection' \in Collection, configured' \in Models,
           sweeper' \in Sweeper, unvouched' \subseteq Embedded,
           happened' \in Nat, happened' <= MaxHappenings,
           sweeper'.at \in Busy => sweeper'.cur \in Embedded,
           sweeper'.at \in Chunked =>
               sweeper'.edition \in Editions /\ sweeper'.left \subseteq Seqs[sweeper'.edition],
           \A p \in sweeper'.extracted : stamps'[p].edition \in Editions
    PROVE  VecTypeInv'
<1>1. VectorsTypeOK'
  <2>1. collection'.size \in Models \cup {"none"}
    BY DEF Collection
  <2>2. sweeper'.model \in Models /\ sweeper'.ensured \in BOOLEAN
    BY DEF Sweeper
  <2> QED
    BY <2>1, <2>2 DEF VectorsTypeOK, Stamp
<1> QED
  BY <1>1 DEF VecTypeInv

LEMMA VecTypeInit == VectorsInit => VecTypeInv
<1> SUFFICES ASSUME VectorsInit PROVE VecTypeInv
  OBVIOUS
<1>0. configured \in Models /\ sweeper = Boot(FALSE) /\ unvouched = {} /\ happened = 0
  BY DEF VectorsInit, Models
<1>1. /\ sweeper \in Sweeper /\ sweeper.at = "idle" /\ sweeper.extracted = {}
      /\ sweeper.model \in Models /\ sweeper.ensured \in BOOLEAN
  BY <1>0, BootIs
<1>2. NoStamp \in Stamp /\ NoCollection \in Collection
  BY DEF NoStamp, Stamp, NoCollection, Collection
<1>3. /\ catalogue \in [Embedded -> [at : {"live", "trashed", "gone"}, edition : Editions]]
      /\ stamps \in [Embedded -> Stamp] /\ collection \in Collection
  BY <1>2, VectorsAssumption DEF VectorsInit
<1>4. 0 <= MaxHappenings
  BY VectorsAssumption
<1>5. collection.size \in Models \cup {"none"}
  BY <1>3 DEF Collection
<1>6. stamps \in [Embedded -> [edition : Editions \cup {NoEdition}, model : Models \cup {"none"},
                              waits : BOOLEAN]]
  BY <1>3 DEF Stamp
<1>7. unvouched \subseteq Embedded /\ happened <= MaxHappenings
  BY <1>0, <1>4
<1>8. VectorsTypeOK
  BY <1>0, <1>1, <1>3, <1>5, <1>6, <1>7 DEF VectorsTypeOK
<1> QED
  BY <1>0, <1>1, <1>3, <1>8 DEF VecTypeInv, Busy, Chunked

\* What the planner sets.
LEMMA PlanIs ==
    ASSUME VecTypeInv, PlanVectors
    PROVE  /\ sweeper' \in Sweeper /\ sweeper'.at = "sweep" /\ sweeper'.model = sweeper.model
           /\ sweeper'.ensured = sweeper.ensured
           /\ \A p \in sweeper'.extracted : /\ p \in Embedded /\ StaleTier(p)
                                            /\ stamps[p].edition = catalogue[p].edition
           /\ UNCHANGED <<catalogue, stamps, collection, configured, happened, unvouched>>
<1>t. sweeper \in Sweeper
  BY VecTyped
<1> DEFINE td == {p \in LiveOnes : StaleTier(p) /\ ~stamps[p].waits}
           ex == {p \in LiveOnes : /\ StaleTier(p) /\ ~stamps[p].waits
                                   /\ stamps[p].edition = catalogue[p].edition}
           de == {p \in Embedded : stamps[p] # NoStamp} \ LiveOnes
<1>0. sweeper' = [sweeper EXCEPT !.at = "sweep", !.todo = td, !.extracted = ex, !.dels = de]
  BY DEF PlanVectors
<1>1. /\ td \in SUBSET Embedded /\ ex \in SUBSET Embedded /\ de \in SUBSET Embedded
      /\ \A p \in ex : StaleTier(p) /\ stamps[p].edition = catalogue[p].edition
  BY DEF LiveOnes
<1> HIDE DEF td, ex, de
<1>2. /\ sweeper' \in Sweeper /\ sweeper'.at = "sweep" /\ sweeper'.model = sweeper.model
      /\ sweeper'.ensured = sweeper.ensured /\ sweeper'.extracted = ex
  BY <1>t, <1>0, <1>1 DEF Sweeper
<1> QED
  BY <1>1, <1>2 DEF PlanVectors

LEMMA NextIs ==
    ASSUME VecTypeInv, NEW p \in Embedded, NextPaper(p)
    PROVE  /\ sweeper' \in Sweeper /\ sweeper'.at \in {"delete", "extract"}
           /\ sweeper'.model = sweeper.model /\ sweeper'.ensured = sweeper.ensured
           /\ sweeper'.cur = p /\ sweeper'.extracted = sweeper.extracted
           /\ sweeper.at = "sweep"
           /\ UNCHANGED <<catalogue, stamps, collection, configured, happened, unvouched>>
<1>t. sweeper \in Sweeper
  BY VecTyped
<1>1. CASE sweeper' = [sweeper EXCEPT !.at = "delete", !.cur = p, !.dels = sweeper.dels \ {p}]
  <2>1. /\ sweeper' \in Sweeper /\ sweeper'.at = "delete" /\ sweeper'.model = sweeper.model
        /\ sweeper'.ensured = sweeper.ensured /\ sweeper'.cur = p
        /\ sweeper'.extracted = sweeper.extracted
    BY <1>t, <1>1 DEF Sweeper, Busy
  <2> QED
    BY <2>1 DEF NextPaper
<1>2. CASE sweeper' = [sweeper EXCEPT !.at = "extract", !.cur = p, !.todo = sweeper.todo \ {p}]
  <2>1. /\ sweeper' \in Sweeper /\ sweeper'.at = "extract" /\ sweeper'.model = sweeper.model
        /\ sweeper'.ensured = sweeper.ensured /\ sweeper'.cur = p
        /\ sweeper'.extracted = sweeper.extracted
    BY <1>t, <1>2 DEF Sweeper, Busy
  <2> QED
    BY <2>1 DEF NextPaper
<1> QED
  BY <1>1, <1>2 DEF NextPaper

LEMMA EndSweepIs ==
    ASSUME VecTypeInv, EndSweep
    PROVE  /\ sweeper' \in Sweeper /\ sweeper'.at \in {"down", "idle"} /\ sweeper'.extracted = {}
           /\ \/ sweeper'.ensured = FALSE
              \/ sweeper'.model = sweeper.model /\ sweeper'.ensured = sweeper.ensured
           /\ UNCHANGED <<catalogue, stamps, collection, configured, happened, unvouched>>
<1>t. sweeper \in Sweeper /\ configured \in Models
  BY VecTyped
<1>1. PICK b : b = Boot(FALSE)
  OBVIOUS
<1>2. b \in Sweeper /\ b.at = "idle" /\ b.extracted = {}
  BY <1>1, <1>t, BootIs
<1>3. CASE sweeper' = Down
  BY <1>3, <1>t, BootIs DEF EndSweep
<1>4. CASE sweeper' = [b EXCEPT !.model = sweeper.model, !.ensured = sweeper.ensured]
  <2>1. sweeper.model \in Models /\ sweeper.ensured \in BOOLEAN
    BY <1>t DEF Sweeper
  <2>2. /\ sweeper' \in Sweeper /\ sweeper'.at = "idle" /\ sweeper'.extracted = {}
        /\ sweeper'.model = sweeper.model /\ sweeper'.ensured = sweeper.ensured
    BY <1>2, <1>4, <2>1 DEF Sweeper
  <2> QED
    BY <2>2 DEF EndSweep
<1> QED
  BY <1>1, <1>3, <1>4 DEF EndSweep

\* A paper's chunks are as they were, or new with a row that is not stamped.
LEMMA ExtractIs ==
    ASSUME VecTypeInv, ExtractChunks, NEW c \in Embedded, c = sweeper.cur
    PROVE  /\ sweeper' \in Sweeper /\ stamps' \in [Embedded -> Stamp]
           /\ sweeper'.model = sweeper.model /\ sweeper'.ensured = sweeper.ensured
           /\ UNCHANGED <<catalogue, collection, configured, happened, unvouched>>
           /\ \/ sweeper' = Back /\ stamps' = stamps
              \/ /\ sweeper'.at = "embed" /\ sweeper'.cur = c
                 /\ sweeper'.extracted = sweeper.extracted
                 /\ sweeper'.edition \in Editions /\ sweeper'.left = Seqs[sweeper'.edition]
                 /\ stamps'[c].edition = sweeper'.edition
                 /\ IF c \in sweeper.extracted THEN stamps' = stamps
                    ELSE /\ stamps'[c].model = "none"
                         /\ \A q \in Embedded \ {c} : stamps'[q] = stamps[q]
<1>t. /\ sweeper \in Sweeper /\ stamps \in [Embedded -> Stamp]
      /\ catalogue[c].edition \in Editions
      /\ c \in sweeper.extracted => stamps[c].edition \in Editions
  BY VecTyped DEF VecTypeInv
<1>1. CASE catalogue[c].at = "gone"
  BY <1>1, <1>t, BackIs DEF ExtractChunks
<1>2. CASE catalogue[c].at # "gone"
  <2> DEFINE v == IF c \in sweeper.extracted THEN stamps[c].edition ELSE catalogue[c].edition
  <2>1. /\ sweeper' = [sweeper EXCEPT !.at = "embed", !.edition = v, !.left = Seqs[v]]
        /\ stamps' = IF c \in sweeper.extracted THEN stamps ELSE Extracted(c, v)
    BY <1>2 DEF ExtractChunks
  <2>2. v \in Editions
    BY <1>t
  <2>3. c \in sweeper.extracted => v = stamps[c].edition
    OBVIOUS
  <2> HIDE DEF v
  <2>4. Seqs[v] \in SUBSET Nat
    BY <2>2, VectorsAssumption
  <2>5. /\ sweeper' \in Sweeper /\ sweeper'.at = "embed" /\ sweeper'.model = sweeper.model
        /\ sweeper'.ensured = sweeper.ensured /\ sweeper'.cur = c
        /\ sweeper'.extracted = sweeper.extracted
        /\ sweeper'.edition = v /\ sweeper'.left = Seqs[v]
    BY <1>t, <2>1, <2>2, <2>4 DEF Sweeper, Busy
  <2>6. CASE c \in sweeper.extracted
    BY <1>t, <2>1, <2>2, <2>3, <2>5, <2>6 DEF ExtractChunks
  <2>7. CASE c \notin sweeper.extracted
    <3>1. stamps' = [stamps EXCEPT ![c].edition = v, ![c].model = "none"]
      BY <2>1, <2>7 DEF Extracted
    <3>2. /\ stamps' \in [Embedded -> Stamp] /\ stamps'[c].edition = v /\ stamps'[c].model = "none"
          /\ \A q \in Embedded \ {c} : stamps'[q] = stamps[q]
      BY <1>t, <2>2, <3>1 DEF Stamp
    <3> QED
      BY <2>2, <2>5, <2>7, <3>2 DEF ExtractChunks
  <2> QED
    BY <2>6, <2>7
<1> QED
  BY <1>1, <1>2

----------------------------------------------------------------------------
(* The points and the stamps.                                              *)

Pt(p, s, v, m) == [paper |-> p, seq |-> s, edition |-> v, model |-> m]

\* The points a stamp speaks of.
Vouches(p) ==
    \A s \in Seqs[stamps[p].edition] :
        Pt(p, s, stamps[p].edition, stamps[p].model) \in collection.points

Sized == \A q \in collection.points : q.model = collection.size

\* Any model's stamp vouches, the file's or another's, until deindex_paper is
\* between the points and the row.
Vouching ==
    \A p \in Embedded \ unvouched :
        stamps[p].model \in Models => Vouches(p) \/ (sweeper.cur = p /\ sweeper.at = "remove")

\* What is remembered of the collection holds, while it exists.
Fits == collection = NoCollection \/ collection.size = sweeper.model
SizeKnown == sweeper.ensured \/ sweeper.at = "upsert" => Fits

\* What the plan found extracted is not stamped with the model in use.
AsPlanned == \A p \in sweeper.extracted : stamps[p].model # sweeper.model

InWork ==
    sweeper.at \in Chunked =>
        /\ stamps[sweeper.cur].edition = sweeper.edition
        /\ stamps[sweeper.cur].model # sweeper.model

\* The chunks in hand: none is stored yet; all but those left are; all are.
Storing ==
    /\ sweeper.at \in {"embed", "ensure"} => sweeper.left = Seqs[sweeper.edition]
    /\ sweeper.at \in {"upsert", "mark"} /\ collection # NoCollection =>
         \A s \in Seqs[sweeper.edition] \ sweeper.left :
             Pt(sweeper.cur, s, sweeper.edition, sweeper.model) \in collection.points
    /\ sweeper.at = "mark" =>
         /\ sweeper.left = {}
         /\ collection = NoCollection /\ Seqs[sweeper.edition] # {} => sweeper.cur \in unvouched

Unstamped == sweeper.at = "recreate" => \A p \in Embedded : stamps[p].model = "none"

VecInv ==
    /\ VecTypeInv /\ Sized /\ Vouching /\ SizeKnown /\ AsPlanned /\ InWork /\ Storing /\ Unstamped

LEMMA VecInvInit == VectorsInit => VecInv
<1> SUFFICES ASSUME VectorsInit PROVE VecInv
  OBVIOUS
<1>0. configured \in Models /\ sweeper = Boot(FALSE) /\ collection = NoCollection
  BY DEF VectorsInit, Models
<1>1. sweeper.at = "idle" /\ sweeper.ensured = FALSE /\ sweeper.extracted = {}
  BY <1>0, BootIs
<1>2. collection.points = {}
  BY <1>0 DEF NoCollection
<1>3. \A p \in Embedded : stamps[p].model = "none"
  BY DEF VectorsInit, NoStamp
<1> QED
  BY <1>1, <1>2, <1>3, VecTypeInit
  DEF VecInv, Sized, Vouching, SizeKnown, AsPlanned, InWork, Storing, Unstamped, Chunked, Models

\* The sweeper lets go of its paper, goes on to one, or ends; what is stored stays.
LEMMA Leaves ==
    ASSUME VecInv, VecTypeInv', collection' = collection, unvouched \subseteq unvouched',
           \A p \in Embedded : /\ stamps'[p].model = stamps[p].model
                               /\ stamps'[p].edition = stamps[p].edition,
           sweeper.at = "remove" => sweeper.cur \in unvouched',
           sweeper'.ensured => sweeper.ensured /\ sweeper'.model = sweeper.model,
           AsPlanned', sweeper'.at \notin Chunked \cup {"recreate"}
    PROVE  VecInv'
<1>1. Sized'
  BY DEF VecInv, Sized
<1>2. Vouching'
  BY DEF VecInv, Vouching, Vouches
<1>3. SizeKnown'
  BY DEF VecInv, SizeKnown, Fits, Chunked
<1>4. InWork' /\ Storing' /\ Unstamped'
  BY DEF InWork, Storing, Unstamped, Chunked
<1> QED
  BY <1>1, <1>2, <1>3, <1>4 DEF VecInv

\* Nothing but a backoff, or what the sweeper does not look at.
LEMMA Apart ==
    ASSUME VecInv, VecTypeInv', UNCHANGED <<collection, unvouched, sweeper>>,
           \A p \in Embedded : /\ stamps'[p].model = stamps[p].model
                               /\ stamps'[p].edition = stamps[p].edition
    PROVE  VecInv'
<1>0. /\ sweeper \in Sweeper /\ (sweeper.at \in Chunked => sweeper.cur \in Embedded)
      /\ sweeper.extracted \subseteq Embedded
  BY VecTyped DEF VecInv, VecTypeInv, Chunked, Busy, Sweeper
<1>1. Sized' /\ SizeKnown' /\ Storing'
  BY DEF VecInv, Sized, SizeKnown, Fits, Storing
<1>2. Vouching'
  BY DEF VecInv, Vouching, Vouches
<1>3. AsPlanned' /\ InWork' /\ Unstamped'
  BY <1>0 DEF VecInv, AsPlanned, InWork, Unstamped
<1> QED
  BY <1>1, <1>2, <1>3 DEF VecInv

LEMMA BackKeeps ==
    ASSUME VecInv, sweeper' = Back \/ sweeper' = Forgotten(Back), sweeper.at # "remove",
           UNCHANGED <<catalogue, collection, configured, unvouched>>,
           Happens \/ UNCHANGED happened,
           \/ UNCHANGED stamps
           \/ sweeper.cur \in Embedded /\ Backoff(sweeper.cur)
    PROVE  VecInv'
<1>t. /\ VecTypeInv /\ sweeper \in Sweeper /\ stamps \in [Embedded -> Stamp]
  BY VecTyped DEF VecInv
<1>1. /\ sweeper' \in Sweeper /\ sweeper'.at = "sweep" /\ sweeper'.model = sweeper.model
      /\ sweeper'.ensured => sweeper.ensured
      /\ sweeper'.extracted = sweeper.extracted \ {sweeper.cur}
  BY <1>t, BackIs, ForgottenIs
<1>2. /\ stamps' \in [Embedded -> Stamp]
      /\ \A q \in Embedded : /\ stamps'[q].model = stamps[q].model
                             /\ stamps'[q].edition = stamps[q].edition
  <2>1. CASE UNCHANGED stamps
    BY <1>t, <2>1
  <2>2. CASE sweeper.cur \in Embedded /\ Backoff(sweeper.cur)
    BY <1>t, <2>2, BackoffIs DEF Backoff
  <2> QED
    BY <2>1, <2>2
<1>3. happened' \in Nat /\ happened' <= MaxHappenings
  BY <1>t, HappensIs
<1>4. sweeper.extracted \subseteq Embedded
  BY <1>t DEF Sweeper
<1>5. \A p \in sweeper'.extracted : stamps'[p].edition \in Editions
  BY <1>t, <1>1, <1>2, <1>4 DEF VecTypeInv
<1>6. VecTypeInv'
  BY <1>t, <1>1, <1>2, <1>3, <1>5, VecTyped, VecTypeBy DEF Busy, Chunked
<1>7. AsPlanned'
  BY <1>1, <1>2, <1>4 DEF VecInv, AsPlanned
<1> QED
  BY <1>1, <1>2, <1>6, <1>7, Leaves DEF Chunked

LEMMA PlanKeeps == VecInv /\ PlanVectors => VecInv'
<1> SUFFICES ASSUME VecInv, PlanVectors PROVE VecInv'
  OBVIOUS
<1>t. VecTypeInv /\ catalogue \in [Embedded -> [at : {"live", "trashed", "gone"}, edition : Editions]]
  BY VecTyped DEF VecInv
<1>1. /\ sweeper' \in Sweeper /\ sweeper'.at = "sweep" /\ sweeper'.model = sweeper.model
      /\ sweeper'.ensured = sweeper.ensured
      /\ \A p \in sweeper'.extracted : /\ p \in Embedded /\ StaleTier(p)
                                       /\ stamps[p].edition = catalogue[p].edition
      /\ UNCHANGED <<catalogue, stamps, collection, configured, happened, unvouched>>
  BY <1>t, PlanIs
<1>2. VecTypeInv'
  BY <1>t, <1>1, VecTyped, VecTypeBy DEF Busy, Chunked
<1>3. AsPlanned'
  BY <1>1 DEF AsPlanned, StaleTier
<1>4. sweeper.at = "idle"
  BY DEF PlanVectors
<1> QED
  BY <1>1, <1>2, <1>3, <1>4, Leaves DEF Chunked

LEMMA NextKeeps == ASSUME NEW p \in Embedded, VecInv, NextPaper(p) PROVE VecInv'
<1>t. VecTypeInv
  BY DEF VecInv
<1>1. /\ sweeper' \in Sweeper /\ sweeper'.at \in {"delete", "extract"}
      /\ sweeper'.model = sweeper.model /\ sweeper'.ensured = sweeper.ensured
      /\ sweeper'.cur = p /\ sweeper'.extracted = sweeper.extracted /\ sweeper.at = "sweep"
      /\ UNCHANGED <<catalogue, stamps, collection, configured, happened, unvouched>>
  BY <1>t, NextIs
<1>2. VecTypeInv'
  <2>1. \A q \in sweeper'.extracted : stamps'[q].edition \in Editions
    BY <1>t, <1>1 DEF VecTypeInv
  <2> QED
    BY <1>t, <1>1, <2>1, VecTyped, VecTypeBy DEF Busy, Chunked
<1>3. AsPlanned'
  BY <1>1 DEF AsPlanned, VecInv
<1> QED
  BY <1>1, <1>2, <1>3, Leaves DEF Chunked

\* A process begins or ends; at the end it may forget all.
LEMMA BeginKeeps ==
    ASSUME VecInv, sweeper' \in Sweeper, sweeper'.at \in {"idle", "clear", "down"},
           sweeper'.extracted = {},
           \/ sweeper'.ensured = FALSE
           \/ sweeper'.model = sweeper.model /\ sweeper'.ensured = sweeper.ensured,
           UNCHANGED <<catalogue, stamps, collection, configured>>,
           Happens \/ UNCHANGED happened,
           unvouched \subseteq unvouched', unvouched' \subseteq Embedded,
           sweeper.at = "remove" => sweeper.cur \in unvouched'
    PROVE  VecInv'
<1>t. VecTypeInv
  BY DEF VecInv
<1>1. VecTypeInv'
  BY <1>t, VecTyped, HappensIs, VecTypeBy DEF Busy, Chunked
<1>2. AsPlanned'
  BY DEF AsPlanned
<1> QED
  BY <1>1, <1>2, Leaves DEF Chunked

LEMMA BeginsKeep ==
    VecInv /\ (EndSweep \/ Rebuilding \/ Serve \/ Halt) => VecInv'
<1> SUFFICES ASSUME VecInv, EndSweep \/ Rebuilding \/ Serve \/ Halt PROVE VecInv'
  OBVIOUS
<1>t. VecTypeInv /\ configured \in Models /\ unvouched \subseteq Embedded
  BY VecTyped DEF VecInv
<1>1. CASE EndSweep
  <2>1. sweeper.at = "sweep"
    BY <1>1 DEF EndSweep
  <2> QED
    BY <1>1, <1>t, <2>1, EndSweepIs, BeginKeeps
<1>2. CASE Rebuilding
  <2>1. sweeper' = Boot(TRUE) /\ sweeper.at = "down" /\ Happens
        /\ UNCHANGED <<catalogue, stamps, collection, configured, unvouched>>
    BY <1>2 DEF Rebuilding
  <2>2. sweeper' \in Sweeper /\ sweeper'.at = "clear" /\ sweeper'.extracted = {}
        /\ sweeper'.ensured = FALSE
    BY <1>t, <2>1, BootIs
  <2> QED
    BY <1>t, <2>1, <2>2, BeginKeeps
<1>3. CASE Serve
  <2>1. sweeper' = Boot(FALSE) /\ sweeper.at = "down"
        /\ UNCHANGED <<catalogue, stamps, collection, configured, unvouched, happened>>
    BY <1>3 DEF Serve
  <2>2. sweeper' \in Sweeper /\ sweeper'.at = "idle" /\ sweeper'.extracted = {}
        /\ sweeper'.ensured = FALSE
    BY <1>t, <2>1, BootIs
  <2> QED
    BY <1>t, <2>1, <2>2, BeginKeeps
<1>4. CASE Halt
  <2>1. /\ sweeper' = Down /\ Happens /\ UNCHANGED <<catalogue, stamps, collection, configured>>
        /\ unvouched' = unvouched \cup IF sweeper.at = "remove" THEN {sweeper.cur} ELSE {}
    BY <1>4 DEF Halt
  <2>2. sweeper' \in Sweeper /\ sweeper'.at = "down" /\ sweeper'.extracted = {}
        /\ sweeper'.ensured = FALSE
    BY <1>t, <2>1, BootIs
  <2>3. sweeper.at = "remove" => sweeper.cur \in Embedded
    BY <1>t DEF VecTypeInv, Busy
  <2>4. unvouched \subseteq unvouched' /\ unvouched' \subseteq Embedded
        /\ (sweeper.at = "remove" => sweeper.cur \in unvouched')
    BY <1>t, <2>1, <2>3
  <2> QED
    BY <2>1, <2>2, <2>4, BeginKeeps
<1> QED
  BY <1>1, <1>2, <1>3, <1>4

LEMMA OthersKeep ==
    ASSUME VecInv,
           \/ Reconfigure
           \/ \E p \in Embedded : Revise(p) \/ VecBackoffEnds(p)
           \/ UNCHANGED vectorsVars
    PROVE  VecInv'
<1>t. VecTypeInv
  BY DEF VecInv
<1>1. ASSUME UNCHANGED <<collection, unvouched, sweeper>>, Happens \/ UNCHANGED happened,
             catalogue' \in [Embedded -> [at : {"live", "trashed", "gone"}, edition : Editions]],
             configured' \in Models, stamps' \in [Embedded -> Stamp],
             \A p \in Embedded : /\ stamps'[p].model = stamps[p].model
                                 /\ stamps'[p].edition = stamps[p].edition
      PROVE  VecInv'
  <2>1. happened' \in Nat /\ happened' <= MaxHappenings
    BY <1>t, <1>1, HappensIs
  <2>2. sweeper.extracted \subseteq Embedded
    BY <1>t, VecTyped DEF Sweeper
  <2>3. /\ \A p \in sweeper'.extracted : stamps'[p].edition \in Editions
        /\ sweeper'.at \in Busy => sweeper'.cur \in Embedded
        /\ sweeper'.at \in Chunked =>
             sweeper'.edition \in Editions /\ sweeper'.left \subseteq Seqs[sweeper'.edition]
    BY <1>t, <1>1, <2>2 DEF VecTypeInv
  <2>4. sweeper' \in Sweeper /\ collection' \in Collection /\ unvouched' \subseteq Embedded
    BY <1>t, <1>1, VecTyped
  <2>5. VecTypeInv'
    BY <1>1, <2>1, <2>3, <2>4, VecTypeBy
  <2> QED
    BY <1>1, <2>5, Apart
<1>2. CASE Reconfigure
  <2>1. configured' \in Models
    BY <1>2 DEF Reconfigure, Models
  <2> QED
    BY <1>1, <1>2, <1>t, <2>1, VecTyped DEF Reconfigure
<1>3. ASSUME NEW p \in Embedded, Revise(p) PROVE VecInv'
  <2>1. catalogue' \in [Embedded -> [at : {"live", "trashed", "gone"}, edition : Editions]]
    <3>t. catalogue \in [Embedded -> [at : {"live", "trashed", "gone"}, edition : Editions]]
      BY <1>t, VecTyped
    <3>1. \/ \E v \in Editions : catalogue' = [catalogue EXCEPT ![p].edition = v]
          \/ \E at \in {"live", "trashed", "gone"} : catalogue' = [catalogue EXCEPT ![p].at = at]
      BY <1>3 DEF Revise
    <3> QED
      BY <3>t, <3>1
  <2> QED
    BY <1>1, <1>3, <1>t, <2>1, VecTyped DEF Revise
<1>4. ASSUME NEW p \in Embedded, VecBackoffEnds(p) PROVE VecInv'
  <2>1. /\ stamps' \in [Embedded -> Stamp]
        /\ \A q \in Embedded : /\ stamps'[q].model = stamps[q].model
                               /\ stamps'[q].edition = stamps[q].edition
    BY <1>4, <1>t, VecTyped, BackoffIs DEF VecBackoffEnds
  <2> QED
    BY <1>1, <1>4, <1>t, <2>1, VecTyped DEF VecBackoffEnds
<1>5. CASE UNCHANGED vectorsVars
  BY <1>1, <1>5, <1>t, VecTyped DEF vectorsVars
<1> QED
  BY <1>2, <1>3, <1>4, <1>5

LEMMA ExtractKeeps == VecInv /\ ExtractChunks => VecInv'
<1> SUFFICES ASSUME VecInv, ExtractChunks PROVE VecInv'
  OBVIOUS
<1>t. VecTypeInv /\ stamps \in [Embedded -> Stamp] /\ sweeper \in Sweeper /\ sweeper.at = "extract"
  BY VecTyped DEF VecInv, ExtractChunks
<1>c. PICK c \in Embedded : c = sweeper.cur
  BY <1>t DEF VecTypeInv, Busy
<1>1. /\ sweeper' \in Sweeper /\ stamps' \in [Embedded -> Stamp]
      /\ sweeper'.model = sweeper.model /\ sweeper'.ensured = sweeper.ensured
      /\ UNCHANGED <<catalogue, collection, configured, happened, unvouched>>
  BY <1>t, <1>c, ExtractIs
<1>2. CASE sweeper' = Back /\ stamps' = stamps
  BY <1>t, <1>1, <1>2, BackKeeps
<1>3. ASSUME sweeper'.at = "embed", sweeper'.cur = c, sweeper'.extracted = sweeper.extracted,
             sweeper'.edition \in Editions, sweeper'.left = Seqs[sweeper'.edition],
             stamps'[c].edition = sweeper'.edition,
             IF c \in sweeper.extracted THEN stamps' = stamps
             ELSE /\ stamps'[c].model = "none"
                  /\ \A q \in Embedded \ {c} : stamps'[q] = stamps[q]
      PROVE  VecInv'
  <2>e. sweeper.extracted \subseteq Embedded
    BY <1>t DEF Sweeper
  <2>m. sweeper.model \in Models /\ "none" \notin Models
    BY <1>t DEF Sweeper, Models
  <2>1. \A p \in sweeper'.extracted : /\ stamps'[p].edition \in Editions
                                      /\ stamps'[p].model # sweeper'.model
    <3> SUFFICES ASSUME NEW p \in sweeper'.extracted
                 PROVE  stamps'[p].edition \in Editions /\ stamps'[p].model # sweeper'.model
      OBVIOUS
    <3>1. stamps'[p] = stamps[p]
      BY <1>3, <2>e
    <3>2. stamps[p].edition \in Editions /\ stamps[p].model # sweeper.model
      BY <1>3, <1>t DEF VecInv, VecTypeInv, AsPlanned
    <3> QED
      BY <1>1, <3>1, <3>2
  <2>2. VecTypeInv'
    BY <1>t, <1>1, <1>3, <2>1, VecTyped, VecTypeBy DEF Busy, Chunked
  <2>3. Sized' /\ SizeKnown'
    BY <1>1, <1>3 DEF VecInv, Sized, SizeKnown, Fits
  <2>4. Vouching'
    <3> SUFFICES ASSUME NEW p \in Embedded \ unvouched, stamps'[p].model \in Models PROVE Vouches(p)'
      BY <1>1 DEF Vouching
    <3>1. stamps'[p] = stamps[p]
      BY <1>3, <2>m
    <3>2. Vouches(p)
      BY <1>t, <3>1 DEF VecInv, Vouching
    <3> QED
      BY <1>1, <3>1, <3>2 DEF Vouches
  <2>5. InWork'
    <3>1. stamps'[c].model # sweeper'.model
      BY <1>1, <1>3, <2>1, <2>m
    <3> QED
      BY <1>3, <3>1 DEF InWork
  <2>6. AsPlanned' /\ Storing' /\ Unstamped'
    BY <1>3, <2>1 DEF AsPlanned, Storing, Unstamped
  <2> QED
    BY <2>2, <2>3, <2>4, <2>5, <2>6 DEF VecInv
<1> QED
  BY <1>t, <1>c, <1>2, <1>3, ExtractIs

\* A chunked paper's next step, with nothing stored or stamped.
LEMMA StepKeeps ==
    ASSUME VecInv, sweeper.at \in {"embed", "ensure"},
           UNCHANGED <<catalogue, stamps, configured, happened, unvouched>>,
           \/ collection' = collection
           \/ collection = NoCollection /\ collection'.points = {},
           collection' \in Collection,
           sweeper' \in Sweeper, sweeper'.cur = sweeper.cur, sweeper'.model = sweeper.model,
           sweeper'.extracted = sweeper.extracted,
           sweeper'.edition = sweeper.edition, sweeper'.left = sweeper.left,
           \/ sweeper'.at = "mark" /\ sweeper.left = {}
           \/ sweeper'.at \in {"ensure", "upsert"},
           SizeKnown'
    PROVE  VecInv'
<1>t. VecTypeInv /\ sweeper.left = Seqs[sweeper.edition]
  BY DEF VecInv, Storing
<1>c. PICK c \in Embedded : c = sweeper.cur
  BY <1>t DEF VecTypeInv, Busy
<1>2. VecTypeInv'
  <2>1. \A p \in sweeper'.extracted : stamps'[p].edition \in Editions
    BY <1>t DEF VecTypeInv
  <2>2. sweeper'.edition \in Editions /\ sweeper'.left \subseteq Seqs[sweeper'.edition]
    BY <1>t DEF VecTypeInv, Chunked
  <2> QED
    BY <1>t, <1>c, <2>1, <2>2, VecTyped, VecTypeBy
<1>3. Sized' /\ AsPlanned'
  BY DEF VecInv, Sized, AsPlanned
<1>4. Vouching'
  <2> SUFFICES ASSUME NEW p \in Embedded \ unvouched, stamps[p].model \in Models PROVE Vouches(p)'
    BY DEF Vouching
  <2>1. Vouches(p)
    BY DEF VecInv, Vouching
  <2>2. CASE collection' = collection
    BY <2>1, <2>2 DEF Vouches
  <2>3. CASE collection = NoCollection
    <3>1. collection.points = {}
      BY <2>3 DEF NoCollection
    <3> QED
      BY <2>1, <3>1 DEF Vouches
  <2> QED
    BY <2>2, <2>3
<1>5. InWork'
  BY DEF VecInv, InWork, Chunked
<1>6. Storing' /\ Unstamped'
  BY <1>t DEF Storing, Unstamped
<1> QED
  BY <1>2, <1>3, <1>4, <1>5, <1>6 DEF VecInv

LEMMA EmbedKeeps == VecInv /\ EmbedChunks => VecInv'
<1> SUFFICES ASSUME VecInv, EmbedChunks PROVE VecInv'
  OBVIOUS
<1>t. VecTypeInv /\ sweeper \in Sweeper /\ sweeper.at = "embed" /\ collection \in Collection
  BY VecTyped DEF VecInv, EmbedChunks
<1>c. PICK c \in Embedded : c = sweeper.cur
  BY <1>t DEF VecTypeInv, Busy
<1>1. CASE To(IF sweeper.left = {} THEN "mark" ELSE "ensure") /\ UNCHANGED <<stamps, happened>>
  <2>1. PICK at \in {"mark", "ensure"} : To(at) /\ (at = "mark" => sweeper.left = {})
    BY <1>1
  <2>2. /\ sweeper' \in Sweeper /\ sweeper'.at = at /\ sweeper'.model = sweeper.model
        /\ sweeper'.ensured = sweeper.ensured /\ sweeper'.cur = sweeper.cur
        /\ sweeper'.extracted = sweeper.extracted /\ sweeper'.edition = sweeper.edition
        /\ sweeper'.left = sweeper.left
    BY <1>t, <2>1, ToIs DEF Busy
  <2>3. UNCHANGED <<catalogue, stamps, collection, configured, happened, unvouched>>
    BY <1>1 DEF EmbedChunks
  <2>4. SizeKnown'
    BY <2>1, <2>2, <2>3 DEF VecInv, SizeKnown, Fits
  <2>5. collection' \in Collection
    BY <1>t, <2>3
  <2>6. \/ sweeper'.at = "mark" /\ sweeper.left = {}
        \/ sweeper'.at \in {"ensure", "upsert"}
    BY <2>1, <2>2
  <2> QED
    BY <1>t, <2>2, <2>3, <2>4, <2>5, <2>6, StepKeeps
<1>2. CASE Happens /\ Backoff(sweeper.cur) /\ sweeper' = Back
  BY <1>2, <1>t, <1>c, BackKeeps DEF EmbedChunks
<1> QED
  BY <1>1, <1>2 DEF EmbedChunks

LEMMA EnsureKeeps == VecInv /\ EnsureCollection => VecInv'
<1> SUFFICES ASSUME VecInv, EnsureCollection PROVE VecInv'
  OBVIOUS
<1>t. VecTypeInv /\ sweeper \in Sweeper /\ sweeper.at = "ensure" /\ collection \in Collection
  BY VecTyped DEF VecInv, EnsureCollection
<1>c. PICK c \in Embedded : c = sweeper.cur
  BY <1>t DEF VecTypeInv, Busy
<1>0. UNCHANGED <<catalogue, configured, unvouched>>
  BY DEF EnsureCollection
<1>1. CASE sweeper.ensured /\ To("upsert") /\ UNCHANGED <<stamps, collection, happened>>
  <2>2. /\ sweeper' \in Sweeper /\ sweeper'.at = "upsert" /\ sweeper'.model = sweeper.model
        /\ sweeper'.ensured = sweeper.ensured /\ sweeper'.cur = sweeper.cur
        /\ sweeper'.extracted = sweeper.extracted /\ sweeper'.edition = sweeper.edition
        /\ sweeper'.left = sweeper.left
    BY <1>t, <1>1, ToIs DEF Busy
  <2>4. SizeKnown'
    BY <1>1, <2>2 DEF VecInv, SizeKnown, Fits
  <2>5. collection' \in Collection
    BY <1>1, <1>t
  <2>6. UNCHANGED <<catalogue, stamps, configured, happened, unvouched>>
    BY <1>0, <1>1
  <2> QED
    BY <1>1, <1>t, <2>2, <2>4, <2>5, <2>6, StepKeeps
<1>2. CASE /\ ~sweeper.ensured /\ collection' = Create /\ UNCHANGED happened
           /\ IF collection'.size = sweeper.model
              THEN sweeper' = [sweeper EXCEPT !.at = "upsert", !.ensured = TRUE] /\ UNCHANGED stamps
              ELSE Backoff(sweeper.cur) /\ sweeper' = Back
  <2>m. sweeper.model \in Models
    BY <1>t DEF Sweeper
  <2>1. /\ collection' \in Collection
        /\ \/ collection' = collection
           \/ /\ collection = NoCollection /\ collection'.points = {}
              /\ collection'.size = sweeper.model
    BY <1>2, <1>t, <2>m DEF Create, NoCollection, Collection
  <2>2. CASE collection'.size = sweeper.model
    <3>0. sweeper' = [sweeper EXCEPT !.at = "upsert", !.ensured = TRUE]
      BY <1>2, <2>2
    <3>1. /\ sweeper' \in Sweeper /\ sweeper'.at = "upsert" /\ sweeper'.model = sweeper.model
          /\ sweeper'.cur = sweeper.cur
          /\ sweeper'.extracted = sweeper.extracted /\ sweeper'.edition = sweeper.edition
          /\ sweeper'.left = sweeper.left
      BY <1>t, <3>0 DEF Sweeper, Busy
    <3>2. SizeKnown'
      BY <2>2, <3>1 DEF SizeKnown, Fits
    <3>3. UNCHANGED <<catalogue, stamps, configured, happened, unvouched>>
      BY <1>0, <1>2, <2>2
    <3> QED
      BY <1>t, <2>1, <3>1, <3>2, <3>3, StepKeeps
  <2>3. CASE collection'.size # sweeper.model
    BY <1>0, <1>2, <1>t, <1>c, <2>1, <2>3, BackKeeps
  <2> QED
    BY <2>2, <2>3
<1>3. CASE Happens /\ Backoff(sweeper.cur) /\ sweeper' = Back /\ UNCHANGED collection
  BY <1>0, <1>3, <1>t, <1>c, BackKeeps
<1> QED
  BY <1>1, <1>2, <1>3 DEF EnsureCollection

LEMMA PtIs ==
    ASSUME NEW p, NEW s, NEW v, NEW m
    PROVE  /\ Pt(p, s, v, m).paper = p /\ Pt(p, s, v, m).seq = s
           /\ Pt(p, s, v, m).edition = v /\ Pt(p, s, v, m).model = m
BY DEF Pt

\* One batch of points: they are of the collection's size, and take no other
\* stamp's points away.
LEMMA BatchKeeps ==
    ASSUME VecInv, NEW s \in sweeper.left, sweeper.at = "upsert", collection # NoCollection,
           collection' = [collection EXCEPT !.points =
               {q \in collection.points : q.paper # sweeper.cur \/ q.seq # s}
                   \cup {Pt(sweeper.cur, s, sweeper.edition, sweeper.model)}],
           sweeper' = [sweeper EXCEPT !.left = sweeper.left \ {s},
                          !.at = IF sweeper.left = {s} THEN "mark" ELSE "upsert"],
           UNCHANGED <<catalogue, stamps, configured, happened, unvouched>>
    PROVE  VecInv'
<1>t. /\ VecTypeInv /\ sweeper \in Sweeper /\ collection \in Collection
      /\ stamps \in [Embedded -> Stamp]
  BY VecTyped DEF VecInv
<1>c. PICK c \in Embedded : c = sweeper.cur
  BY <1>t DEF VecTypeInv, Busy
<1>v. PICK v \in Editions : v = sweeper.edition
  BY <1>t DEF VecTypeInv, Chunked
<1>m. PICK m \in Models : m = sweeper.model
  BY <1>t DEF Sweeper
<1>s. s \in Seqs[v] /\ s \in Nat /\ sweeper.left \subseteq Seqs[v]
  BY <1>t, <1>v, VectorsAssumption DEF VecTypeInv, Chunked
<1>z. collection.size = m
  BY <1>m DEF VecInv, SizeKnown, Fits
<1>p. PICK pt : pt = Pt(c, s, v, m)
  OBVIOUS
<1>0. /\ pt.paper = c /\ pt.seq = s /\ pt.edition = v /\ pt.model = m
      /\ pt \in [paper : Embedded, seq : Nat, edition : Editions, model : Models]
  BY <1>p, <1>s DEF Pt
<1>1. /\ collection' \in Collection /\ collection'.size = m
      /\ collection'.points = {q \in collection.points : q.paper # c \/ q.seq # s} \cup {pt}
  <2>1. collection' = [collection EXCEPT !.points =
                          {q \in collection.points : q.paper # c \/ q.seq # s} \cup {pt}]
    BY <1>c, <1>v, <1>m, <1>p
  <2> QED
    BY <1>t, <1>0, <1>z, <2>1 DEF Collection
<1>2. PICK at \in {"mark", "upsert"} :
        /\ at = IF sweeper.left = {s} THEN "mark" ELSE "upsert"
        /\ sweeper' = [sweeper EXCEPT !.left = sweeper.left \ {s}, !.at = at]
  OBVIOUS
<1>3. /\ sweeper' \in Sweeper /\ sweeper'.at = at /\ sweeper'.model = m
      /\ sweeper'.ensured = sweeper.ensured /\ sweeper'.cur = c
      /\ sweeper'.extracted = sweeper.extracted /\ sweeper'.edition = v
      /\ sweeper'.left = sweeper.left \ {s}
  <2>1. sweeper.left \ {s} \in SUBSET Nat
    BY <1>t DEF Sweeper
  <2> QED
    BY <1>t, <1>c, <1>v, <1>m, <1>2, <2>1 DEF Sweeper, Busy
<1>4. VecTypeInv'
  <2>1. \A p \in sweeper'.extracted : stamps'[p].edition \in Editions
    BY <1>t, <1>3 DEF VecTypeInv
  <2> QED
    BY <1>t, <1>1, <1>3, <1>s, <2>1, VecTyped, VecTypeBy
<1>5. Sized'
  BY <1>0, <1>1, <1>z DEF VecInv, Sized
<1>6. Vouching'
  <2> SUFFICES ASSUME NEW p \in Embedded \ unvouched, stamps[p].model \in Models PROVE Vouches(p)'
    BY DEF Vouching
  <2>1. Vouches(p)
    BY DEF VecInv, Vouching
  <2>2. p # c
    <3> SUFFICES ASSUME p = c PROVE FALSE
      OBVIOUS
    <3>1. stamps[p].edition = v /\ stamps[p].model # m
      BY <1>c, <1>v, <1>m DEF VecInv, InWork, Chunked
    <3>2. Pt(p, s, v, stamps[p].model) \in collection.points
      BY <1>s, <2>1, <3>1 DEF Vouches
    <3> QED
      BY <1>z, <3>1, <3>2, PtIs DEF VecInv, Sized
  <2> QED
    BY <1>1, <2>1, <2>2, PtIs DEF Vouches
<1>7. SizeKnown'
  BY <1>1, <1>3 DEF SizeKnown, Fits
<1>8. AsPlanned' /\ InWork' /\ Unstamped'
  BY <1>2, <1>3, <1>c, <1>v, <1>m DEF VecInv, AsPlanned, InWork, Unstamped, Chunked
<1>9. Storing'
  <2>1. \A r \in Seqs[v] \ (sweeper.left \ {s}) : Pt(c, r, v, m) \in collection'.points
    <3> SUFFICES ASSUME NEW r \in Seqs[v] \ (sweeper.left \ {s})
                 PROVE  Pt(c, r, v, m) \in collection'.points
      OBVIOUS
    <3>1. CASE r = s
      BY <1>1, <1>p, <3>1
    <3>2. CASE r # s
      <4>1. Pt(c, r, v, m) \in collection.points
        BY <1>c, <1>v, <1>m, <3>2 DEF VecInv, Storing
      <4> QED
        BY <1>1, <3>2, <4>1, PtIs
    <3> QED
      BY <3>1, <3>2
  <2>2. collection' # NoCollection
    BY <1>1 DEF NoCollection
  <2> QED
    BY <1>2, <1>3, <2>1, <2>2 DEF Storing
<1> QED
  BY <1>4, <1>5, <1>6, <1>7, <1>8, <1>9 DEF VecInv

LEMMA UpsertKeeps == VecInv /\ UpsertBatch => VecInv'
<1> SUFFICES ASSUME VecInv, UpsertBatch PROVE VecInv'
  OBVIOUS
<1>t. VecTypeInv /\ sweeper.at = "upsert"
  BY DEF VecInv, UpsertBatch
<1>c. sweeper.cur \in Embedded
  BY <1>t DEF VecTypeInv, Busy
<1>0. UNCHANGED <<catalogue, configured, unvouched>>
  BY DEF UpsertBatch
<1>1. ASSUME NEW s \in sweeper.left, collection # NoCollection, UNCHANGED <<stamps, happened>>,
             collection' = [collection EXCEPT !.points =
                 {q \in collection.points : q.paper # sweeper.cur \/ q.seq # s}
                     \cup {Pt(sweeper.cur, s, sweeper.edition, sweeper.model)}],
             sweeper' = [sweeper EXCEPT !.left = sweeper.left \ {s},
                          !.at = IF sweeper.left = {s} THEN "mark" ELSE "upsert"]
      PROVE  VecInv'
  BY <1>0, <1>1, <1>t, BatchKeeps
<1>2. CASE /\ Backoff(sweeper.cur) /\ sweeper' = Forgotten(Back)
           /\ UNCHANGED <<collection, happened>>
  BY <1>0, <1>2, <1>t, <1>c, BackKeeps
<1>3. CASE Happens /\ Backoff(sweeper.cur) /\ sweeper' = Back /\ UNCHANGED collection
  BY <1>0, <1>3, <1>t, <1>c, BackKeeps
<1> QED
  BY <1>1, <1>2, <1>3 DEF UpsertBatch, Pt

LEMMA MarkKeeps == VecInv /\ MarkDone => VecInv'
<1> SUFFICES ASSUME VecInv, MarkDone PROVE VecInv'
  OBVIOUS
<1>t. /\ VecTypeInv /\ sweeper \in Sweeper /\ stamps \in [Embedded -> Stamp]
      /\ unvouched \subseteq Embedded /\ sweeper.at = "mark"
  BY VecTyped DEF VecInv, MarkDone
<1>c. PICK c \in Embedded : c = sweeper.cur
  BY <1>t DEF VecTypeInv, Busy
<1>v. PICK v \in Editions : v = sweeper.edition
  BY <1>t DEF VecTypeInv, Chunked
<1>m. PICK m \in Models : m = sweeper.model
  BY <1>t DEF Sweeper
<1>w. stamps[c].edition = v /\ stamps[c] # NoStamp
  BY <1>c, <1>v, <1>t, VectorsAssumption DEF VecInv, InWork, Chunked, NoStamp
<1>0. /\ stamps' = [stamps EXCEPT ![c].model = m, ![c].waits = FALSE]
      /\ unvouched' = IF collection = NoCollection /\ Seqs[v] # {} THEN unvouched
                      ELSE unvouched \ {c}
      /\ sweeper' = Back /\ UNCHANGED <<catalogue, collection, configured, happened>>
  BY <1>c, <1>v, <1>m, <1>w DEF MarkDone, Marked
<1>1. /\ sweeper' \in Sweeper /\ sweeper'.at = "sweep" /\ sweeper'.model = m
      /\ sweeper'.ensured = sweeper.ensured
      /\ sweeper'.extracted = sweeper.extracted \ {c}
  BY <1>t, <1>c, <1>m, <1>0, BackIs
<1>2. /\ stamps' \in [Embedded -> Stamp] /\ stamps'[c].edition = v /\ stamps'[c].model = m
      /\ \A p \in Embedded \ {c} : stamps'[p] = stamps[p]
  BY <1>t, <1>0, <1>w DEF Stamp
<1>3. sweeper.extracted \subseteq Embedded
  BY <1>t DEF Sweeper
<1>4. VecTypeInv'
  <2>1. \A p \in sweeper'.extracted : stamps'[p].edition \in Editions
    BY <1>t, <1>1, <1>2, <1>3 DEF VecTypeInv
  <2>2. unvouched' \subseteq Embedded
    BY <1>t, <1>0
  <2> QED
    BY <1>t, <1>0, <1>1, <1>2, <2>1, <2>2, VecTyped, VecTypeBy DEF Busy, Chunked
<1>5. Sized' /\ SizeKnown'
  BY <1>0, <1>1, <1>m DEF VecInv, Sized, SizeKnown, Fits
<1>6. AsPlanned'
  BY <1>1, <1>2, <1>3, <1>m DEF VecInv, AsPlanned
<1>7. InWork' /\ Storing' /\ Unstamped'
  BY <1>1 DEF InWork, Storing, Unstamped, Chunked
<1>8. Vouching'
  <2> SUFFICES ASSUME NEW p \in Embedded, p \notin unvouched', stamps'[p].model \in Models
               PROVE  Vouches(p)'
    BY DEF Vouching
  <2>1. CASE p # c
    <3>1. stamps'[p] = stamps[p] /\ p \notin unvouched
      BY <1>0, <1>2, <2>1
    <3>2. Vouches(p)
      BY <1>t, <3>1 DEF VecInv, Vouching
    <3> QED
      BY <1>0, <3>1, <3>2 DEF Vouches
  <2>2. CASE p = c
    <3>1. \A s \in Seqs[v] : Pt(c, s, v, m) \in collection.points
      <4>1. CASE collection # NoCollection
        BY <1>t, <1>c, <1>v, <1>m, <4>1 DEF VecInv, Storing
      <4>2. CASE collection = NoCollection
        <5>1. Seqs[v] # {} => c \in unvouched
          BY <1>t, <1>c, <1>v, <4>2 DEF VecInv, Storing
        <5> QED
          BY <1>0, <2>2, <4>2, <5>1
      <4> QED
        BY <4>1, <4>2
    <3> QED
      BY <1>0, <1>2, <2>2, <3>1 DEF Vouches
  <2> QED
    BY <2>1, <2>2
<1> QED
  BY <1>4, <1>5, <1>6, <1>7, <1>8 DEF VecInv

\* Of the paper under deletion nothing is vouched for any more.
LEMMA DeleteKeeps == VecInv /\ DeletePoints => VecInv'
<1> SUFFICES ASSUME VecInv, DeletePoints PROVE VecInv'
  OBVIOUS
<1>t. /\ VecTypeInv /\ sweeper \in Sweeper /\ collection \in Collection /\ sweeper.at = "delete"
      /\ stamps \in [Embedded -> Stamp]
  BY VecTyped DEF VecInv, DeletePoints
<1>c. PICK c \in Embedded : c = sweeper.cur
  BY <1>t DEF VecTypeInv, Busy
<1>0. UNCHANGED <<catalogue, stamps, configured, unvouched>>
  BY DEF DeletePoints
<1>1. /\ sweeper' \in Sweeper /\ sweeper'.at = "remove" /\ sweeper'.model = sweeper.model
      /\ (sweeper'.ensured => sweeper.ensured) /\ sweeper'.cur = c
      /\ sweeper'.extracted = sweeper.extracted
      /\ Happens \/ UNCHANGED happened
  <2> DEFINE s == [sweeper EXCEPT !.at = "remove"]
  <2>1. /\ s \in Sweeper /\ s.at = "remove" /\ s.model = sweeper.model
        /\ s.ensured = sweeper.ensured /\ s.cur = sweeper.cur /\ s.extracted = sweeper.extracted
    BY <1>t DEF Sweeper, Busy
  <2>2. sweeper' = Forgotten(s) \/ sweeper' = s
    BY DEF DeletePoints, To
  <2>3. Happens \/ UNCHANGED happened
    BY DEF DeletePoints
  <2> HIDE DEF s
  <2> QED
    BY <1>c, <2>1, <2>2, <2>3, ForgottenIs
<1>2. \/ collection' = collection
      \/ collection' = [collection EXCEPT !.points = {q \in collection.points : q.paper # c}]
  BY <1>c DEF DeletePoints
<1>3. /\ collection' \in Collection /\ collection'.size = collection.size
      /\ collection'.points \subseteq collection.points
      /\ \A q \in collection.points : q.paper # c => q \in collection'.points
      /\ collection = NoCollection => collection' = NoCollection
  <2>1. CASE collection' = collection
    BY <1>t, <2>1
  <2>2. CASE collection' = [collection EXCEPT !.points = {q \in collection.points : q.paper # c}]
    <3>1. /\ collection' \in Collection /\ collection'.size = collection.size
          /\ collection'.points = {q \in collection.points : q.paper # c}
      BY <1>t, <2>2 DEF Collection
    <3>2. collection = NoCollection => collection' = NoCollection
      BY <2>2 DEF NoCollection
    <3> QED
      BY <3>1, <3>2
  <2> QED
    BY <1>2, <2>1, <2>2
<1>4. VecTypeInv'
  <2>1. \A p \in sweeper'.extracted : stamps'[p].edition \in Editions
    BY <1>0, <1>t, <1>1 DEF VecTypeInv
  <2>2. happened' \in Nat /\ happened' <= MaxHappenings
    BY <1>t, <1>1, HappensIs
  <2> QED
    BY <1>t, <1>0, <1>1, <1>3, <2>1, <2>2, VecTyped, VecTypeBy DEF Chunked
<1>5. Sized' /\ SizeKnown' /\ AsPlanned'
  BY <1>0, <1>1, <1>3 DEF VecInv, Sized, SizeKnown, Fits, AsPlanned
<1>6. Vouching'
  <2> SUFFICES ASSUME NEW p \in Embedded \ unvouched, stamps[p].model \in Models, p # c
               PROVE  Vouches(p)'
    BY <1>0, <1>1 DEF Vouching
  <2>1. Vouches(p)
    BY <1>t DEF VecInv, Vouching
  <2> QED
    BY <1>0, <1>3, <2>1, PtIs DEF Vouches
<1>7. InWork' /\ Storing' /\ Unstamped'
  BY <1>1 DEF InWork, Storing, Unstamped, Chunked
<1> QED
  BY <1>4, <1>5, <1>6, <1>7 DEF VecInv

LEMMA RemoveKeeps == VecInv /\ RemoveRow => VecInv'
<1> SUFFICES ASSUME VecInv, RemoveRow PROVE VecInv'
  OBVIOUS
<1>t. /\ VecTypeInv /\ sweeper \in Sweeper /\ sweeper.at = "remove"
      /\ stamps \in [Embedded -> Stamp] /\ unvouched \subseteq Embedded
      /\ NoStamp \in Stamp /\ NoStamp.model = "none"
  BY VecTyped DEF VecInv, RemoveRow, NoStamp
<1>c. PICK c \in Embedded : c = sweeper.cur
  BY <1>t DEF VecTypeInv, Busy
<1>0. /\ stamps' = [stamps EXCEPT ![c] = NoStamp] /\ unvouched' = unvouched \ {c}
      /\ sweeper' = Back /\ UNCHANGED <<catalogue, collection, configured, happened>>
  BY <1>c DEF RemoveRow
<1>1. /\ sweeper' \in Sweeper /\ sweeper'.at = "sweep" /\ sweeper'.model = sweeper.model
      /\ sweeper'.ensured = sweeper.ensured
      /\ sweeper'.extracted = sweeper.extracted \ {c}
  BY <1>t, <1>c, <1>0, BackIs
<1>2. /\ stamps' \in [Embedded -> Stamp] /\ stamps'[c].model = "none"
      /\ \A p \in Embedded \ {c} : stamps'[p] = stamps[p]
  BY <1>t, <1>0
<1>3. sweeper.extracted \subseteq Embedded
  BY <1>t DEF Sweeper
<1>4. VecTypeInv'
  <2>1. \A p \in sweeper'.extracted : stamps'[p].edition \in Editions
    BY <1>t, <1>1, <1>2, <1>3 DEF VecTypeInv
  <2>2. unvouched' \subseteq Embedded
    BY <1>t, <1>0
  <2> QED
    BY <1>t, <1>0, <1>1, <1>2, <2>1, <2>2, VecTyped, VecTypeBy DEF Busy, Chunked
<1>5. Sized' /\ SizeKnown'
  BY <1>0, <1>1 DEF VecInv, Sized, SizeKnown, Fits
<1>6. AsPlanned'
  BY <1>1, <1>2, <1>3 DEF VecInv, AsPlanned
<1>7. InWork' /\ Storing' /\ Unstamped'
  BY <1>1 DEF InWork, Storing, Unstamped, Chunked
<1>8. Vouching'
  <2> SUFFICES ASSUME NEW p \in Embedded, p \notin unvouched', stamps'[p].model \in Models
               PROVE  Vouches(p)'
    BY DEF Vouching
  <2>1. p # c
    BY <1>2 DEF Models
  <2>2. stamps'[p] = stamps[p] /\ p \notin unvouched
    BY <1>0, <1>2, <2>1
  <2>3. Vouches(p)
    BY <1>c, <2>1, <2>2 DEF VecInv, Vouching
  <2> QED
    BY <1>0, <2>2, <2>3 DEF Vouches
<1> QED
  BY <1>4, <1>5, <1>6, <1>7, <1>8 DEF VecInv

LEMMA UnstampKeeps == VecInv /\ Unstamp => VecInv'
<1> SUFFICES ASSUME VecInv, Unstamp PROVE VecInv'
  OBVIOUS
<1>t. VecTypeInv /\ sweeper \in Sweeper /\ stamps \in [Embedded -> Stamp] /\ sweeper.at = "clear"
  BY VecTyped DEF VecInv, Unstamp
<1>0. /\ To("recreate") /\ UNCHANGED <<catalogue, collection, configured, happened, unvouched>>
      /\ stamps' = [p \in Embedded |-> [stamps[p] EXCEPT !.model = "none", !.waits = FALSE]]
  BY DEF Unstamp
<1>1. /\ sweeper' \in Sweeper /\ sweeper'.at = "recreate" /\ sweeper'.model = sweeper.model
      /\ sweeper'.ensured = sweeper.ensured /\ sweeper'.extracted = sweeper.extracted
  BY <1>t, <1>0, ToIs
<1>2. /\ stamps' \in [Embedded -> Stamp]
      /\ \A p \in Embedded : stamps'[p].model = "none" /\ stamps'[p].edition = stamps[p].edition
  BY <1>t, <1>0 DEF Stamp
<1>3. sweeper.extracted \subseteq Embedded /\ sweeper.model \in Models
  BY <1>t DEF Sweeper
<1>4. VecTypeInv'
  <2>1. \A p \in sweeper'.extracted : stamps'[p].edition \in Editions
    BY <1>t, <1>1, <1>2, <1>3 DEF VecTypeInv
  <2> QED
    BY <1>t, <1>0, <1>1, <1>2, <2>1, VecTyped, VecTypeBy DEF Busy, Chunked
<1>5. Sized' /\ SizeKnown'
  BY <1>0, <1>1 DEF VecInv, Sized, SizeKnown, Fits
<1>6. AsPlanned' /\ Vouching'
  BY <1>1, <1>2, <1>3 DEF AsPlanned, Vouching, Models
<1>7. InWork' /\ Storing' /\ Unstamped'
  BY <1>1, <1>2 DEF InWork, Storing, Unstamped, Chunked
<1> QED
  BY <1>4, <1>5, <1>6, <1>7 DEF VecInv

LEMMA RecreatedKeeps == VecInv /\ Recreated => VecInv'
<1> SUFFICES ASSUME VecInv, Recreated PROVE VecInv'
  OBVIOUS
<1>t. /\ VecTypeInv /\ sweeper \in Sweeper /\ collection \in Collection /\ configured \in Models
      /\ NoCollection \in Collection /\ NoCollection.points = {} /\ sweeper.at = "recreate"
      /\ sweeper.model \in Models
  BY VecTyped DEF VecInv, Recreated, NoCollection, Sweeper
<1>0. UNCHANGED <<catalogue, stamps, configured, unvouched>>
  BY DEF Recreated
<1>1. \A p \in Embedded : stamps'[p].model = "none"
  BY <1>0, <1>t DEF VecInv, Unstamped
<1>2. ASSUME sweeper' \in Sweeper, sweeper'.at \in {"idle", "down"}, collection' \in Collection,
             Happens \/ UNCHANGED happened, sweeper'.extracted \subseteq sweeper.extracted,
             SizeKnown', Sized'
      PROVE  VecInv'
  <2>1. sweeper'.extracted \subseteq Embedded /\ sweeper'.model \in Models
    BY <1>2 DEF Sweeper
  <2>2. \A p \in sweeper'.extracted : stamps'[p].edition \in Editions
    BY <1>t, <1>0, <1>2 DEF VecTypeInv
  <2>3. happened' \in Nat /\ happened' <= MaxHappenings
    BY <1>t, <1>2, HappensIs
  <2>4. VecTypeInv'
    BY <1>t, <1>0, <1>2, <2>2, <2>3, VecTyped, VecTypeBy DEF Busy, Chunked
  <2>5. AsPlanned' /\ Vouching'
    BY <1>1, <2>1 DEF AsPlanned, Vouching, Models
  <2>6. InWork' /\ Storing' /\ Unstamped'
    BY <1>2 DEF InWork, Storing, Unstamped, Chunked
  <2> QED
    BY <1>2, <2>4, <2>5, <2>6 DEF VecInv
<1>3. CASE /\ collection' = [NoCollection EXCEPT !.size = sweeper.model]
           /\ sweeper' = [sweeper EXCEPT !.at = "idle", !.ensured = TRUE] /\ UNCHANGED happened
  <2>1. collection' \in Collection /\ collection'.size = sweeper.model /\ collection'.points = {}
    BY <1>3, <1>t DEF Collection, NoCollection
  <2>2. /\ sweeper' \in Sweeper /\ sweeper'.at = "idle" /\ sweeper'.model = sweeper.model
        /\ sweeper'.extracted = sweeper.extracted
    BY <1>3, <1>t DEF Sweeper, Busy
  <2>3. SizeKnown' /\ Sized'
    BY <2>1, <2>2 DEF SizeKnown, Fits, Sized
  <2> QED
    BY <1>2, <1>3, <2>1, <2>2, <2>3
<1>4. CASE Happens /\ sweeper' = Down /\ collection' \in {collection, NoCollection}
  <2>1. /\ sweeper' \in Sweeper /\ sweeper'.at = "down" /\ sweeper'.ensured = FALSE
        /\ sweeper'.extracted = {}
    BY <1>4, <1>t, BootIs
  <2>2. SizeKnown' /\ Sized' /\ collection' \in Collection
    BY <1>4, <1>t, <2>1 DEF VecInv, SizeKnown, Fits, Sized
  <2> QED
    BY <1>2, <1>4, <2>1, <2>2
<1> QED
  BY <1>3, <1>4 DEF Recreated

LEMMA LoseKeeps == VecInv /\ LoseCollection => VecInv'
<1> SUFFICES ASSUME VecInv, LoseCollection PROVE VecInv'
  OBVIOUS
<1>t. /\ VecTypeInv /\ sweeper \in Sweeper /\ stamps \in [Embedded -> Stamp]
      /\ NoCollection \in Collection /\ NoCollection.points = {} /\ NoStamp.model = "none"
      /\ unvouched \subseteq Embedded
  BY VecTyped DEF VecInv, NoCollection, NoStamp
<1>0. /\ Happens /\ collection' = NoCollection
      /\ unvouched' = unvouched \cup {p \in Embedded : stamps[p] # NoStamp}
      /\ UNCHANGED <<catalogue, stamps, configured, sweeper>>
  BY DEF LoseCollection
<1>4. VecTypeInv'
  <2>1. \A p \in sweeper'.extracted : stamps'[p].edition \in Editions
    BY <1>t, <1>0 DEF VecTypeInv
  <2>2. unvouched' \subseteq Embedded
    BY <1>t, <1>0
  <2>3. happened' \in Nat /\ happened' <= MaxHappenings
    BY <1>t, <1>0, HappensIs
  <2>4. /\ sweeper'.at \in Busy => sweeper'.cur \in Embedded
        /\ sweeper'.at \in Chunked =>
             sweeper'.edition \in Editions /\ sweeper'.left \subseteq Seqs[sweeper'.edition]
    BY <1>t, <1>0 DEF VecTypeInv
  <2>5. collection' \in Collection /\ sweeper' \in Sweeper /\ stamps' \in [Embedded -> Stamp]
    BY <1>t, <1>0
  <2> QED
    BY <1>t, <1>0, <2>1, <2>2, <2>3, <2>4, <2>5, VecTyped, VecTypeBy
<1>5. Sized' /\ SizeKnown'
  BY <1>0, <1>t DEF Sized, SizeKnown, Fits
<1>6. AsPlanned' /\ InWork' /\ Unstamped'
  BY <1>0 DEF VecInv, AsPlanned, InWork, Unstamped
<1>7. Vouching'
  <2>1. \A p \in Embedded \ unvouched' : stamps'[p].model = "none"
    BY <1>0, <1>t
  <2> QED
    BY <2>1 DEF Vouching, Models
<1>8. Storing'
  <2>1. sweeper.at = "mark" => sweeper.cur \in unvouched'
    <3> SUFFICES ASSUME sweeper.at = "mark" PROVE sweeper.cur \in unvouched'
      OBVIOUS
    <3>1. sweeper.cur \in Embedded /\ sweeper.edition \in Editions
      BY <1>t DEF VecTypeInv, Busy, Chunked
    <3>2. stamps[sweeper.cur].edition = sweeper.edition
      BY DEF VecInv, InWork, Chunked
    <3>3. stamps[sweeper.cur] # NoStamp
      BY <3>1, <3>2, VectorsAssumption DEF NoStamp
    <3> QED
      BY <1>0, <3>1, <3>3
  <2> QED
    BY <1>0, <2>1 DEF VecInv, Storing
<1> QED
  BY <1>4, <1>5, <1>6, <1>7, <1>8 DEF VecInv

LEMMA VecInvNext == VecInv /\ [VectorsNext]_vectorsVars => VecInv'
BY PlanKeeps, NextKeeps, BeginsKeep, OthersKeep, ExtractKeeps, EmbedKeeps, EnsureKeeps,
   UpsertKeeps, MarkKeeps, DeleteKeeps, RemoveKeeps, UnstampKeeps, RecreatedKeeps, LoseKeeps
DEF VectorsNext, Sweeping

LEMMA VecInvVouched == VecInv => VectorsTypeOK /\ Vouched
<1> SUFFICES ASSUME VecInv PROVE VectorsTypeOK /\ Vouched
  OBVIOUS
<1>t. VecTypeInv /\ VectorsTypeOK /\ sweeper.model \in Models
  BY VecTyped DEF VecInv, VecTypeInv, Sweeper
<1>1. \A p \in LiveOnes \ unvouched :
        stamps[p].model = sweeper.model =>
          \/ PointsOf(p, stamps[p].edition, stamps[p].model) \subseteq collection.points
          \/ sweeper.cur = p /\ sweeper.at \in {"delete", "remove"}
  <2> SUFFICES ASSUME NEW p \in LiveOnes \ unvouched, stamps[p].model = sweeper.model
               PROVE  \/ PointsOf(p, stamps[p].edition, stamps[p].model) \subseteq collection.points
                      \/ sweeper.cur = p /\ sweeper.at \in {"delete", "remove"}
    OBVIOUS
  <2>1. Vouches(p) \/ (sweeper.cur = p /\ sweeper.at = "remove")
    BY <1>t DEF VecInv, Vouching, LiveOnes
  <2>2. Vouches(p) => PointsOf(p, stamps[p].edition, stamps[p].model) \subseteq collection.points
    BY DEF Vouches, PointsOf, Pt
  <2> QED
    BY <2>1, <2>2
<1> QED
  BY <1>t, <1>1 DEF VecInv, Sized, Vouched

\* A stamp vouches for every point of the edition and the model it names, and all
\* points are of the collection's size, across lost collections, requests that
\* fail, deaths, rebuilds and edits between any two steps of a sweep
\* (index_vectors, deindex_paper, mark_vectors_done).
THEOREM VouchedHolds == VectorsSpec => [](VectorsTypeOK /\ Vouched)
BY VecInvInit, VecInvNext, VecInvVouched, PTL DEF VectorsSpec

----------------------------------------------------------------------------
(* The summaries.                                                          *)

InQueue(q, p) == \E i \in DOMAIN q : q[i] = p
Distinct(q) == \A i, j \in DOMAIN q : q[i] = q[j] => i = j

LEMMA SummariesNumbers ==
    /\ BATCH \in Nat /\ BATCH >= 1 /\ MAX_ATTEMPTS \in Nat /\ MAX_ATTEMPTS >= 1
    /\ MaxEvents \in Nat
    /\ Shelf \subseteq Nat \ {0} /\ IsFiniteSet(Shelf)
BY SummariesAssumption

LEMMA TailIs ==
    ASSUME NEW q \in Seq(Shelf), q # <<>>, Distinct(q)
    PROVE  /\ Head(q) \in Shelf /\ InQueue(q, Head(q))
           /\ Tail(q) \in Seq(Shelf) /\ Len(Tail(q)) <= Len(q) /\ Distinct(Tail(q))
           /\ \A p : InQueue(Tail(q), p) => InQueue(q, p) /\ p # Head(q)
<1>1. /\ Len(q) \in Nat /\ Len(q) >= 1 /\ DOMAIN q = 1 .. Len(q) /\ Head(q) = q[1]
      /\ \A i \in 1 .. Len(q) : q[i] \in Shelf
  OBVIOUS
<1>2. /\ Tail(q) \in Seq(Shelf) /\ Len(Tail(q)) = Len(q) - 1
      /\ DOMAIN Tail(q) = 1 .. Len(q) - 1
      /\ \A i \in 1 .. Len(q) - 1 : Tail(q)[i] = q[i + 1]
  BY <1>1
<1>3. InQueue(q, Head(q)) /\ Head(q) \in Shelf
  BY <1>1 DEF InQueue
<1>4. \A i \in 1 .. Len(q) - 1 : i + 1 \in 1 .. Len(q) /\ i + 1 # 1
  BY <1>1
<1>5. Distinct(Tail(q))
  <2> SUFFICES ASSUME NEW i \in 1 .. Len(q) - 1, NEW j \in 1 .. Len(q) - 1,
                      Tail(q)[i] = Tail(q)[j]
               PROVE  i = j
    BY <1>2 DEF Distinct
  <2>1. q[i + 1] = q[j + 1]
    BY <1>2
  <2>2. i + 1 = j + 1
    BY <1>1, <1>4, <2>1 DEF Distinct
  <2> QED
    BY <1>1, <2>2
<1>6. ASSUME NEW p, InQueue(Tail(q), p) PROVE InQueue(q, p) /\ p # Head(q)
  <2>1. PICK i \in 1 .. Len(q) - 1 : Tail(q)[i] = p
    BY <1>2, <1>6 DEF InQueue
  <2>2. q[i + 1] = p /\ i + 1 \in DOMAIN q /\ i + 1 # 1 /\ 1 \in DOMAIN q
    BY <1>1, <1>2, <1>4, <2>1
  <2>3. q[1] # p
    BY <2>2 DEF Distinct
  <2> QED
    BY <1>1, <2>2, <2>3 DEF InQueue
<1>7. Len(Tail(q)) <= Len(q)
  BY <1>1, <1>2
<1> QED
  BY <1>2, <1>3, <1>5, <1>6, <1>7

Before(D, R, p) == {q \in D : <<q, p>> \in R}

\* Counting those before it ranks a finite set from 1 on, without gap or tie.
LEMMA Ranked ==
    ASSUME NEW D, IsFiniteSet(D), NEW R,
           \A p \in D : <<p, p>> \notin R,
           \A p, q \in D : p # q => <<p, q>> \in R \/ <<q, p>> \in R,
           \A p, q, r \in D : <<p, q>> \in R /\ <<q, r>> \in R => <<p, r>> \in R
    PROVE  \A i \in 1 .. Cardinality(D) : \E p \in D : Cardinality(Before(D, R, p)) + 1 = i
<1>1. PICK N \in Nat : N = Cardinality(D)
  BY FS_CardinalityType
<1>2. \A p \in D : /\ IsFiniteSet(Before(D, R, p)) /\ Cardinality(Before(D, R, p)) \in Nat
                   /\ Cardinality(Before(D, R, p)) + 1 <= N
  <2> SUFFICES ASSUME NEW p \in D
               PROVE  /\ IsFiniteSet(Before(D, R, p)) /\ Cardinality(Before(D, R, p)) \in Nat
                      /\ Cardinality(Before(D, R, p)) + 1 <= N
    OBVIOUS
  <2>1. IsFiniteSet(D \ {p}) /\ Cardinality(D \ {p}) = N - 1
    BY <1>1, FS_RemoveElement
  <2>2. Before(D, R, p) \in SUBSET (D \ {p})
    BY DEF Before
  <2>3. /\ IsFiniteSet(Before(D, R, p)) /\ Cardinality(Before(D, R, p)) \in Nat
        /\ Cardinality(Before(D, R, p)) <= Cardinality(D \ {p})
    BY <2>1, <2>2, FS_Subset, FS_CardinalityType
  <2> QED
    BY <1>1, <2>1, <2>3
<1>3. \A p, q \in D :
        <<p, q>> \in R => Cardinality(Before(D, R, p)) # Cardinality(Before(D, R, q))
  <2> SUFFICES ASSUME NEW p \in D, NEW q \in D, <<p, q>> \in R
               PROVE  Cardinality(Before(D, R, p)) # Cardinality(Before(D, R, q))
    OBVIOUS
  <2>1. /\ Before(D, R, p) \in SUBSET Before(D, R, q)
        /\ p \in Before(D, R, q) /\ p \notin Before(D, R, p)
    BY DEF Before
  <2>2. IsFiniteSet(Before(D, R, q))
    BY <1>2
  <2> QED
    BY <2>1, <2>2, FS_Subset
<1> DEFINE rank == [p \in D |-> Cardinality(Before(D, R, p)) + 1]
<1>4. rank \in [D -> 1 .. N]
  <2>1. \A p \in D : Cardinality(Before(D, R, p)) + 1 \in 1 .. N
    BY <1>1, <1>2
  <2> QED
    BY <2>1
<1>5. \A p, q \in D : rank[p] = rank[q] => p = q
  <2> SUFFICES ASSUME NEW p \in D, NEW q \in D,
                      Cardinality(Before(D, R, p)) + 1 = Cardinality(Before(D, R, q)) + 1, p # q
               PROVE  FALSE
    OBVIOUS
  <2>1. Cardinality(Before(D, R, p)) = Cardinality(Before(D, R, q))
    BY <1>2
  <2>2. <<p, q>> \in R \/ <<q, p>> \in R
    OBVIOUS
  <2> QED
    BY <1>3, <2>1, <2>2
<1>6. \A p \in D : rank[p] = Cardinality(Before(D, R, p)) + 1
  OBVIOUS
<1> HIDE DEF rank
<1>7. rank \in Injection(D, 1 .. N)
  BY <1>4, <1>5 DEF Injection, IsInjective
<1>8. IsFiniteSet(1 .. N) /\ Cardinality(1 .. N) = N
  BY <1>1, FS_Interval
<1>9. rank \in Surjection(D, 1 .. N)
  BY <1>1, <1>7, <1>8, FS_Injection
<1>10. \A i \in 1 .. N : \E p \in D : rank[p] = i
  BY <1>9 DEF Surjection
<1> QED
  BY <1>1, <1>6, <1>10

Failure == [attempts : Nat, waiting : BOOLEAN]

\* due_ids takes a paper once, and none that has MAX_ATTEMPTS failures.
LEMMA DueIds ==
    ASSUME failure \in [Shelf -> Failure], NEW n0 \in 0 .. BATCH, NEW ids \in [1 .. n0 -> Shelf],
           IsDueIds(ids)
    PROVE  /\ ids \in Seq(Shelf) /\ Len(ids) <= BATCH /\ Distinct(ids)
           /\ \A p : InQueue(ids, p) => failure[p].attempts < MAX_ATTEMPTS
<1> DEFINE due == {p \in Shelf : Due(p)}
           R == {pq \in Shelf \X Shelf : Sooner(pq[1], pq[2])}
           rank(p) == Cardinality({q \in due : Sooner(q, p)}) + 1
           n == IF Cardinality(due) < BATCH THEN Cardinality(due) ELSE BATCH
<1>f. IsFiniteSet(due)
  BY SummariesNumbers, FS_Subset
<1>N. PICK N \in Nat : N = Cardinality(due)
  BY <1>f, FS_CardinalityType
<1>1. \A p, q \in due : <<p, q>> \in R <=> Sooner(p, q)
  OBVIOUS
<1>s. \A p \in due : p \in Shelf /\ p \in Nat
  BY SummariesNumbers
<1>2. /\ \A p \in due : <<p, p>> \notin R
      /\ \A p, q \in due : p # q => <<p, q>> \in R \/ <<q, p>> \in R
      /\ \A p, q, r \in due : <<p, q>> \in R /\ <<q, r>> \in R => <<p, r>> \in R
  <2>1. /\ \A p \in due : ~Sooner(p, p)
        /\ \A p, q \in due : p # q => Sooner(p, q) \/ Sooner(q, p)
        /\ \A p, q, r \in due : Sooner(p, q) /\ Sooner(q, r) => Sooner(p, r)
    <3> HIDE DEF due
    <3> QED
      BY <1>s DEF Sooner
  <2> HIDE DEF due, R
  <2> QED
    BY <1>1, <2>1
<1>3. \A p \in due : Before(due, R, p) = {q \in due : Sooner(q, p)}
  <2> HIDE DEF due, R
  <2> QED
    BY <1>1 DEF Before
<1>4. \A i \in 1 .. N : \E p \in due : rank(p) = i
  <2>1. \A i \in 1 .. N : \E p \in due : Cardinality(Before(due, R, p)) + 1 = i
    <3> HIDE DEF due, R
    <3> QED
      BY <1>f, <1>2, <1>N, Ranked
  <2> HIDE DEF due, R
  <2> QED
    BY <1>3, <2>1
<1>5. ids = [i \in 1 .. n |-> CHOOSE p \in due : rank(p) = i]
  BY DEF IsDueIds
<1>6. n \in Nat /\ n <= N /\ n <= BATCH
  <2> HIDE DEF due
  <2> QED
    BY <1>N, SummariesNumbers
<1>7. \A i \in 1 .. n : ids[i] \in due /\ rank(ids[i]) = i
  <2> SUFFICES ASSUME NEW i \in 1 .. n PROVE ids[i] \in due /\ rank(ids[i]) = i
    OBVIOUS
  <2>1. i \in 1 .. N
    <3> HIDE DEF n
    <3> QED
      BY <1>6
  <2>2. \E p \in due : rank(p) = i
    BY <1>4, <2>1
  <2>3. ids[i] = CHOOSE p \in due : rank(p) = i
    BY <1>5
  <2> HIDE DEF due, rank
  <2> QED
    BY <2>2, <2>3
<1>8. DOMAIN ids = 1 .. n
  BY <1>5
<1>9. Distinct(ids)
  <2> HIDE DEF due, rank, n
  <2> QED
    BY <1>7, <1>8 DEF Distinct
<1>10. \A p : InQueue(ids, p) => p \in due
  <2> HIDE DEF due, rank, n
  <2> QED
    BY <1>7, <1>8 DEF InQueue
<1>11. \A p \in due : failure[p].attempts < MAX_ATTEMPTS
  BY SummariesNumbers DEF Due
<1>12. ids \in Seq(Shelf) /\ Len(ids) <= BATCH
  <2>1. n0 \in Nat /\ n0 <= BATCH
    BY SummariesNumbers
  <2> QED
    BY <2>1
<1> QED
  BY <1>9, <1>10, <1>11, <1>12

Has == {"next", "generate", "upsert", "clear", "record"}

\* A paper is in a worker's hands until its batch has come past it.
Waits(w, p) == writer[w].at \in Has /\ InQueue(writer[w].queue, p)
Load(w, p) == IF Waits(w, p) THEN 1 ELSE 0

Writer ==
    [at : Has \cup {"idle", "sweep", "clear_all", "clear_failures"}, queue : Seq(Shelf),
     wrote : BOOLEAN, one : BOOLEAN]

WriterInv(w) ==
    /\ Len(writer[w].queue) <= BATCH
    /\ Distinct(writer[w].queue)
    /\ writer[w].at \in Has \ {"next"} => writer[w].queue # <<>>
    /\ writer[w].one /\ writer[w].at \in {"clear_all", "clear_failures"} =>
         \E p \in Shelf : writer[w].queue = <<p>>
    /\ writer[w].at = "idle" => writer[w].one = FALSE

\* Every worker that has picked a paper may yet count a failure of it.
Bounded ==
    \A p \in Shelf :
        failure[p].attempts + Load("server", p) + Load("cli", p) <= MAX_ATTEMPTS + 1

SumInv ==
    /\ papers \in [Shelf -> {"to_come", "live", "trashed", "purged"}]
    /\ summary \in [Shelf -> {"none", "good", "unparsable"}]
    /\ failure \in [Shelf -> Failure]
    /\ writer \in [Workers -> Writer]
    /\ reader \in Shelf \cup {0}
    /\ spent \in 0 .. MaxEvents
    /\ \A w \in Workers : WriterInv(w)
    /\ Bounded

LEMMA SumInit == SummariesInit => SumInv
<1> SUFFICES ASSUME SummariesInit PROVE SumInv
  OBVIOUS
<1>1. /\ Resting \in Writer /\ Resting.at = "idle" /\ Resting.queue = <<>> /\ Resting.one = FALSE
      /\ NoFailure \in Failure /\ NoFailure.attempts = 0
  BY DEF Resting, Writer, Has, NoFailure, Failure
<1>2. writer \in [Workers -> Writer] /\ \A w \in Workers : writer[w] = Resting
  BY <1>1 DEF SummariesInit
<1>3. failure \in [Shelf -> Failure] /\ \A p \in Shelf : failure[p].attempts = 0
  BY <1>1 DEF SummariesInit
<1>4. \A w \in Workers : WriterInv(w)
  <2>1. Len(<<>>) = 0 /\ Distinct(<<>>)
    BY DEF Distinct
  <2> QED
    BY <1>1, <1>2, <2>1, SummariesNumbers DEF WriterInv, Has
<1>5. \A p \in Shelf : Load("server", p) = 0 /\ Load("cli", p) = 0
  BY <1>1, <1>2 DEF Load, Waits, Has, Workers
<1>6. Bounded
  BY <1>3, <1>5, SummariesNumbers DEF Bounded
<1>7. spent \in 0 .. MaxEvents
  BY SummariesNumbers DEF SummariesInit
<1> QED
  BY <1>2, <1>3, <1>4, <1>6, <1>7 DEF SumInv, SummariesInit

\* One worker's step: what it has picked and may yet count is not more than before,
\* or small enough for whatever the other has picked.
LEMMA WorkerBy ==
    ASSUME SumInv, NEW w \in Workers,
           writer' \in [Workers -> Writer], \A u \in Workers \ {w} : writer'[u] = writer[u],
           WriterInv(w)',
           failure' \in [Shelf -> Failure],
           \A p \in Shelf :
               \/ failure'[p].attempts + Load(w, p)' <= failure[p].attempts + Load(w, p)
               \/ failure'[p].attempts + Load(w, p)' <= MAX_ATTEMPTS,
           papers' \in [Shelf -> {"to_come", "live", "trashed", "purged"}],
           summary' \in [Shelf -> {"none", "good", "unparsable"}],
           reader' \in Shelf \cup {0}, spent' \in 0 .. MaxEvents
    PROVE  SumInv'
<1>1. \A u \in Workers : WriterInv(u)'
  <2> SUFFICES ASSUME NEW u \in Workers \ {w} PROVE WriterInv(u)'
    OBVIOUS
  <2>1. WriterInv(u) /\ writer'[u] = writer[u]
    BY DEF SumInv
  <2> QED
    BY <2>1 DEF WriterInv
<1>2. \A u \in Workers \ {w} : \A p \in Shelf : Load(u, p)' = Load(u, p)
  BY DEF Load, Waits
<1>3. \A u \in Workers : \A p \in Shelf : Load(u, p) \in {0, 1} /\ Load(u, p)' \in {0, 1}
  BY DEF Load
<1>4. \A p \in Shelf : failure[p].attempts \in Nat /\ failure'[p].attempts \in Nat
  BY DEF SumInv, Failure
<1>5. Bounded'
  <2> SUFFICES ASSUME NEW p \in Shelf
               PROVE  failure'[p].attempts + Load("server", p)' + Load("cli", p)' <= MAX_ATTEMPTS + 1
    BY DEF Bounded
  <2>1. failure[p].attempts + Load("server", p) + Load("cli", p) <= MAX_ATTEMPTS + 1
    BY DEF SumInv, Bounded
  <2>2. PICK a \in Nat, b \in Nat : a = failure[p].attempts /\ b = failure'[p].attempts
    BY <1>4
  <2>3. PICK s \in {0, 1}, c \in {0, 1} : s = Load("server", p) /\ c = Load("cli", p)
    BY <1>3 DEF Workers
  <2>4. PICK t \in {0, 1}, d \in {0, 1} : t = Load("server", p)' /\ d = Load("cli", p)'
    BY <1>3 DEF Workers
  <2>5. a + s + c <= MAX_ATTEMPTS + 1
    BY <2>1, <2>2, <2>3
  <2>6. CASE w = "server"
    <3>1. d = c /\ (b + t <= a + s \/ b + t <= MAX_ATTEMPTS)
      BY <1>2, <2>2, <2>3, <2>4, <2>6 DEF Workers
    <3>2. b + t + d <= MAX_ATTEMPTS + 1
      BY <2>5, <3>1, SummariesNumbers
    <3> QED
      BY <2>2, <2>4, <3>2
  <2>7. CASE w = "cli"
    <3>1. t = s /\ (b + d <= a + c \/ b + d <= MAX_ATTEMPTS)
      BY <1>2, <2>2, <2>3, <2>4, <2>7 DEF Workers
    <3>2. b + t + d <= MAX_ATTEMPTS + 1
      BY <2>5, <3>1, SummariesNumbers
    <3> QED
      BY <2>2, <2>4, <3>2
  <2> QED
    BY <2>6, <2>7 DEF Workers
<1> QED
  BY <1>1, <1>5 DEF SumInv

LEMMA NextOneIs ==
    ASSUME SumInv, NEW w \in Workers, NEW wrote \in BOOLEAN, writer[w].at \in Has,
           writer[w].queue # <<>>, Next1(w, wrote)
    PROVE  /\ writer' \in [Workers -> Writer] /\ \A u \in Workers \ {w} : writer'[u] = writer[u]
           /\ WriterInv(w)'
           /\ \A p : Waits(w, p)' => Waits(w, p) /\ p # Paper(w)
           /\ Paper(w) \in Shelf /\ Waits(w, Paper(w))
<1>1. PICK q \in Seq(Shelf), o \in BOOLEAN, at \in Has :
        /\ q = writer[w].queue /\ o = writer[w].one /\ at = writer[w].at
        /\ writer[w].wrote \in BOOLEAN /\ writer \in [Workers -> Writer]
  BY DEF SumInv, Writer
<1>2. Distinct(q) /\ Len(q) <= BATCH /\ q # <<>>
  BY <1>1 DEF SumInv, WriterInv
<1>3. PICK t \in Seq(Shelf) : t = Tail(q)
  BY <1>2, TailIs
<1>4. /\ Head(q) \in Shelf /\ InQueue(q, Head(q)) /\ Len(t) <= Len(q) /\ Distinct(t)
      /\ \A p : InQueue(t, p) => InQueue(q, p) /\ p # Head(q)
  BY <1>2, <1>3, TailIs
<1>5. PICK wr \in BOOLEAN : wr = (writer[w].wrote \/ wrote)
  BY Zenon
<1>6. writer' = [writer EXCEPT ![w].at = "next", ![w].queue = t, ![w].wrote = wr]
  BY <1>1, <1>3, <1>5 DEF Next1
<1>7. /\ writer' \in [Workers -> Writer] /\ \A u \in Workers \ {w} : writer'[u] = writer[u]
      /\ writer'[w].at = "next" /\ writer'[w].queue = t
  BY <1>1, <1>6, ZenonT(30) DEF Writer, Has
<1>8. Len(t) <= BATCH
  <2>1. Len(t) \in Nat /\ Len(q) \in Nat
    OBVIOUS
  <2> QED
    BY <1>2, <1>4, <2>1, SummariesNumbers
<1>9. WriterInv(w)'
  BY <1>4, <1>7, <1>8 DEF WriterInv, Has
<1>10. \A p : Waits(w, p)' => Waits(w, p) /\ p # Paper(w)
  BY <1>1, <1>4, <1>7 DEF Waits, Paper
<1>11. Paper(w) \in Shelf /\ Waits(w, Paper(w))
  BY <1>1, <1>4 DEF Waits, Paper
<1> QED
  BY <1>7, <1>9, <1>10, <1>11

LEMMA PutIs ==
    ASSUME SumInv, NEW w \in Workers,
           NEW at \in Has \cup {"idle", "sweep", "clear_all", "clear_failures"}, Put(w, at)
    PROVE  /\ writer' \in [Workers -> Writer] /\ \A u \in Workers \ {w} : writer'[u] = writer[u]
           /\ writer'[w].at = at /\ writer'[w].queue = writer[w].queue
           /\ writer'[w].one = writer[w].one
BY DEF SumInv, Put, Writer

\* A worker begins anew, with no paper in its hands.
LEMMA AnewIs ==
    ASSUME SumInv, NEW w \in Workers, NEW r \in Writer, writer' = [writer EXCEPT ![w] = r],
           r.at \notin Has, Len(r.queue) <= BATCH, Distinct(r.queue),
           r.one /\ r.at \in {"clear_all", "clear_failures"} => \E p \in Shelf : r.queue = <<p>>,
           r.at = "idle" => r.one = FALSE
    PROVE  /\ writer' \in [Workers -> Writer] /\ \A u \in Workers \ {w} : writer'[u] = writer[u]
           /\ WriterInv(w)' /\ \A p : ~Waits(w, p)'
<1>1. /\ writer' \in [Workers -> Writer] /\ \A u \in Workers \ {w} : writer'[u] = writer[u]
      /\ writer'[w] = r
  BY DEF SumInv
<1> QED
  BY <1>1 DEF WriterInv, Waits

LEMMA RestingIs ==
    /\ Resting \in Writer /\ Resting.at \notin Has /\ Len(Resting.queue) <= BATCH
    /\ Distinct(Resting.queue) /\ Resting.one = FALSE /\ Resting.queue = <<>>
<1>1. Resting \in Writer /\ Resting.at \notin Has /\ Resting.one = FALSE /\ Resting.queue = <<>>
  BY DEF Resting, Writer, Has
<1>2. Len(<<>>) = 0 /\ Distinct(<<>>)
  BY DEF Distinct
<1> QED
  BY <1>1, <1>2, SummariesNumbers

LEMMA EventIs == SumInv /\ (Event \/ UNCHANGED spent) => spent' \in 0 .. MaxEvents
<1>1. MaxEvents \in Nat
  BY SummariesNumbers
<1> QED
  BY <1>1 DEF SumInv, Event

\* Of what is picked and counted, less or the same.
LEMMA WorkerQuiet ==
    ASSUME SumInv, NEW w \in Workers,
           writer' \in [Workers -> Writer], \A u \in Workers \ {w} : writer'[u] = writer[u],
           WriterInv(w)', \A p \in Shelf : Waits(w, p)' => Waits(w, p),
           failure' \in [Shelf -> Failure],
           \A p \in Shelf : failure'[p].attempts <= failure[p].attempts,
           papers' \in [Shelf -> {"to_come", "live", "trashed", "purged"}],
           summary' \in [Shelf -> {"none", "good", "unparsable"}],
           reader' \in Shelf \cup {0}, spent' \in 0 .. MaxEvents
    PROVE  SumInv'
<1>1. ASSUME NEW p \in Shelf
      PROVE  failure'[p].attempts + Load(w, p)' <= failure[p].attempts + Load(w, p)
  <2>1. PICK a \in Nat, b \in Nat : a = failure[p].attempts /\ b = failure'[p].attempts
    BY DEF SumInv, Failure
  <2>2. PICK s \in {0, 1}, t \in {0, 1} : s = Load(w, p) /\ t = Load(w, p)'
    BY DEF Load
  <2>3. t <= s /\ b <= a
    BY <2>1, <2>2 DEF Load
  <2> QED
    BY <2>1, <2>2, <2>3
<1> QED
  BY <1>1, WorkerBy

\* The same with only the writer's step to speak of.
LEMMA WriterQuiet ==
    ASSUME SumInv, NEW w \in Workers,
           writer' \in [Workers -> Writer], \A u \in Workers \ {w} : writer'[u] = writer[u],
           WriterInv(w)', \A p \in Shelf : Waits(w, p)' => Waits(w, p),
           summary' \in [Shelf -> {"none", "good", "unparsable"}],
           UNCHANGED <<papers, failure, reader>>, Event \/ UNCHANGED spent
    PROVE  SumInv'
<1>1. \A p \in Shelf : failure'[p].attempts <= failure[p].attempts
  BY DEF SumInv, Failure
<1>2. /\ failure' \in [Shelf -> Failure] /\ reader' \in Shelf \cup {0}
      /\ papers' \in [Shelf -> {"to_come", "live", "trashed", "purged"}]
      /\ spent' \in 0 .. MaxEvents
  BY EventIs DEF SumInv
<1> QED
  BY <1>1, <1>2, WorkerQuiet

LEMMA SummaryIs ==
    ASSUME SumInv, NEW p \in Shelf, NEW x \in {"none", "good", "unparsable"}
    PROVE  /\ [summary EXCEPT ![p] = x] \in [Shelf -> {"none", "good", "unparsable"}]
           /\ summary \in [Shelf -> {"none", "good", "unparsable"}]
BY DEF SumInv

LEMMA TickKeeps == SumInv /\ Tick => SumInv'
<1> SUFFICES ASSUME SumInv, Tick PROVE SumInv'
  OBVIOUS
<1>0. "server" \in Workers /\ Put("server", "sweep") /\ WriterInv("server")
  BY DEF Tick, Workers, SumInv
<1>1. /\ writer' \in [Workers -> Writer]
      /\ \A u \in Workers \ {"server"} : writer'[u] = writer[u]
      /\ writer'["server"].at = "sweep"
      /\ writer'["server"].queue = writer["server"].queue
  BY <1>0, PutIs
<1>2. WriterInv("server")' /\ \A p \in Shelf : ~Waits("server", p)'
  BY <1>0, <1>1 DEF WriterInv, Waits, Has
<1> QED
  BY <1>0, <1>1, <1>2, WriterQuiet DEF Tick, SumInv

LEMMA CommandKeeps == SumInv /\ Command => SumInv'
<1> SUFFICES ASSUME SumInv, Command PROVE SumInv'
  OBVIOUS
<1>0. /\ "cli" \in Workers /\ WriterInv("cli") /\ In("cli", "idle") /\ Event
      /\ UNCHANGED <<papers, summary, failure, reader>>
      /\ summary' \in [Shelf -> {"none", "good", "unparsable"}]
  BY DEF Command, Workers, SumInv
<1>1. ASSUME NEW at \in {"sweep", "clear_all"}, Put("cli", at) PROVE SumInv'
  <2>1. /\ writer' \in [Workers -> Writer]
        /\ \A u \in Workers \ {"cli"} : writer'[u] = writer[u]
        /\ writer'["cli"].at = at
        /\ writer'["cli"].queue = writer["cli"].queue /\ writer'["cli"].one = writer["cli"].one
    BY <1>0, <1>1, PutIs
  <2>2. writer'["cli"].one = FALSE
    BY <1>0, <2>1 DEF WriterInv, In
  <2>3. WriterInv("cli")' /\ \A p \in Shelf : ~Waits("cli", p)'
    BY <1>0, <1>1, <2>1, <2>2 DEF WriterInv, Waits, Has
  <2> QED
    BY <1>0, <2>1, <2>3, WriterQuiet
<1>2. ASSUME NEW p \in Shelf,
             writer' = [writer EXCEPT !["cli"] =
                 [at |-> "clear_all", queue |-> <<p>>, wrote |-> FALSE, one |-> TRUE]]
      PROVE  SumInv'
  <2>1. PICK r : r = [at |-> "clear_all", queue |-> <<p>>, wrote |-> FALSE, one |-> TRUE]
    OBVIOUS
  <2>2. <<p>> \in Seq(Shelf) /\ Len(<<p>>) = 1 /\ Distinct(<<p>>)
    BY DEF Distinct
  <2>3. /\ r \in Writer /\ r.at \notin Has /\ r.queue = <<p>>
        /\ Len(r.queue) <= BATCH /\ Distinct(r.queue)
    BY <2>1, <2>2, SummariesNumbers DEF Writer, Has
  <2>4. /\ writer' \in [Workers -> Writer] /\ \A u \in Workers \ {"cli"} : writer'[u] = writer[u]
        /\ WriterInv("cli")' /\ \A x : ~Waits("cli", x)'
    BY <1>0, <1>2, <2>1, <2>3, AnewIs
  <2> QED
    BY <1>0, <2>4, WriterQuiet
<1>3. CASE Put("cli", "sweep")
  BY <1>1, <1>3
<1>4. CASE Put("cli", "clear_all")
  BY <1>1, <1>4
<1> QED
  BY <1>2, <1>3, <1>4 DEF Command

LEMMA ClearKeeps ==
    ASSUME SumInv, NEW w \in Workers, ClearAll(w) \/ ClearFailures(w)
    PROVE  SumInv'
<1>t. /\ writer \in [Workers -> Writer] /\ WriterInv(w) /\ failure \in [Shelf -> Failure]
      /\ summary \in [Shelf -> {"none", "good", "unparsable"}]
  BY DEF SumInv
<1>1. CASE ClearAll(w)
  <2>1. /\ writer' \in [Workers -> Writer] /\ \A u \in Workers \ {w} : writer'[u] = writer[u]
        /\ writer'[w].at = "clear_failures" /\ writer'[w].queue = writer[w].queue
        /\ writer'[w].one = writer[w].one
    BY <1>1, PutIs DEF ClearAll
  <2>2. WriterInv(w)' /\ \A p \in Shelf : ~Waits(w, p)'
    BY <1>1, <1>t, <2>1 DEF ClearAll, In, WriterInv, Waits, Has
  <2>3. summary' \in [Shelf -> {"none", "good", "unparsable"}]
    BY <1>1, <1>t DEF ClearAll
  <2> QED
    BY <1>1, <2>1, <2>2, <2>3, WriterQuiet DEF ClearAll
<1>2. CASE ClearFailures(w)
  <2>0. /\ failure' = [p \in Shelf |-> IF p \in Chosen(w) THEN NoFailure ELSE failure[p]]
        /\ writer[w].at = "clear_failures" /\ UNCHANGED <<papers, summary, reader, spent>>
    BY <1>2 DEF ClearFailures, In
  <2>1. PICK at \in {"next", "sweep"} : Put(w, at) /\ (at = "next" <=> writer[w].one)
    BY <1>2, <1>t DEF ClearFailures
  <2>2. /\ writer' \in [Workers -> Writer] /\ \A u \in Workers \ {w} : writer'[u] = writer[u]
        /\ writer'[w].at = at /\ writer'[w].queue = writer[w].queue
    BY <2>1, PutIs DEF Has
  <2>3. WriterInv(w)'
    BY <1>t, <2>2 DEF WriterInv, Has
  <2>n. NoFailure \in Failure /\ NoFailure.attempts = 0
    BY DEF NoFailure, Failure
  <2>4. /\ failure' \in [Shelf -> Failure]
        /\ \A p \in Shelf : /\ p \in Chosen(w) => failure'[p].attempts = 0
                            /\ p \notin Chosen(w) => failure'[p] = failure[p]
    BY <1>t, <2>0, <2>n
  <2>5. \A p \in Shelf : \/ failure'[p].attempts + Load(w, p)' <= failure[p].attempts + Load(w, p)
                         \/ failure'[p].attempts + Load(w, p)' <= MAX_ATTEMPTS
    <3> SUFFICES ASSUME NEW p \in Shelf
                 PROVE  \/ failure'[p].attempts + Load(w, p)' <= failure[p].attempts + Load(w, p)
                        \/ failure'[p].attempts + Load(w, p)' <= MAX_ATTEMPTS
      OBVIOUS
    <3>0. PICK s \in {0, 1}, d \in {0, 1} : s = Load(w, p) /\ d = Load(w, p)'
      BY DEF Load
    <3>1. CASE p \in Chosen(w)
      BY <2>4, <3>0, <3>1, SummariesNumbers
    <3>2. CASE p \notin Chosen(w)
      <4>1. PICK x \in Shelf : writer[w].queue = <<x>> /\ at = "next" /\ p # x
        <5>1. writer[w].one
          BY <3>2 DEF Chosen
        <5>2. PICK x \in Shelf : writer[w].queue = <<x>>
          BY <1>t, <2>0, <5>1 DEF WriterInv
        <5>3. Paper(w) = x
          BY <5>2 DEF Paper
        <5> QED
          BY <2>1, <3>2, <5>1, <5>2, <5>3 DEF Chosen
      <4>2. ~InQueue(<<x>>, p)
        BY <4>1 DEF InQueue
      <4>3. d = 0
        BY <2>2, <3>0, <4>1, <4>2 DEF Load, Waits
      <4>4. PICK a \in Nat : a = failure[p].attempts /\ a = failure'[p].attempts
        BY <1>t, <2>4, <3>2 DEF Failure
      <4> QED
        BY <3>0, <4>3, <4>4
    <3> QED
      BY <3>1, <3>2
  <2>6. /\ papers' \in [Shelf -> {"to_come", "live", "trashed", "purged"}]
        /\ summary' \in [Shelf -> {"none", "good", "unparsable"}]
        /\ reader' \in Shelf \cup {0} /\ spent' \in 0 .. MaxEvents
    BY <2>0 DEF SumInv
  <2> QED
    BY <2>2, <2>3, <2>4, <2>5, <2>6, WorkerBy
<1> QED
  BY <1>1, <1>2

\* A batch has no paper that was given up.
LEMMA SweepKeeps == ASSUME SumInv, NEW w \in Workers, Sweep(w) PROVE SumInv'
<1>t. writer \in [Workers -> Writer] /\ failure \in [Shelf -> Failure]
  BY DEF SumInv
<1>1. PICK n \in 0 .. BATCH : \E ids \in [1 .. n -> Shelf] :
        /\ IsDueIds(ids)
        /\ writer' = [writer EXCEPT ![w] = [at |-> "next", queue |-> ids,
                                              wrote |-> FALSE, one |-> FALSE]]
  BY DEF Sweep
<1>2. PICK ids \in [1 .. n -> Shelf] :
        /\ IsDueIds(ids)
        /\ writer' = [writer EXCEPT ![w] = [at |-> "next", queue |-> ids,
                                              wrote |-> FALSE, one |-> FALSE]]
  BY <1>1
<1>3. /\ ids \in Seq(Shelf) /\ Len(ids) <= BATCH /\ Distinct(ids)
      /\ \A p : InQueue(ids, p) => failure[p].attempts < MAX_ATTEMPTS
  BY <1>t, <1>2, DueIds
<1>4. PICK r \in Writer : /\ r.at = "next" /\ r.queue = ids /\ r.one = FALSE
                          /\ writer' = [writer EXCEPT ![w] = r]
  <2>1. [at |-> "next", queue |-> ids, wrote |-> FALSE, one |-> FALSE] \in Writer
    BY <1>3 DEF Writer, Has
  <2> QED
    BY <1>2, <2>1
<1>5. /\ writer' \in [Workers -> Writer] /\ \A u \in Workers \ {w} : writer'[u] = writer[u]
      /\ writer'[w] = r
  BY <1>t, <1>4
<1>6. WriterInv(w)'
  BY <1>3, <1>4, <1>5 DEF WriterInv
<1>7. \A p \in Shelf : \/ failure'[p].attempts + Load(w, p)' <= failure[p].attempts + Load(w, p)
                       \/ failure'[p].attempts + Load(w, p)' <= MAX_ATTEMPTS
  <2> SUFFICES ASSUME NEW p \in Shelf
               PROVE  \/ failure'[p].attempts + Load(w, p)' <= failure[p].attempts + Load(w, p)
                      \/ failure'[p].attempts + Load(w, p)' <= MAX_ATTEMPTS
    OBVIOUS
  <2>0. PICK s \in {0, 1}, d \in {0, 1} : s = Load(w, p) /\ d = Load(w, p)'
    BY DEF Load
  <2>1. PICK a \in Nat : a = failure[p].attempts /\ a = failure'[p].attempts
    BY <1>t DEF Failure, Sweep
  <2>2. CASE InQueue(ids, p)
    <3>1. a < MAX_ATTEMPTS
      BY <1>3, <2>1, <2>2
    <3>2. a + d <= MAX_ATTEMPTS
      BY <3>1, SummariesNumbers
    <3> QED
      BY <2>0, <2>1, <3>2
  <2>3. CASE ~InQueue(ids, p)
    <3>1. d = 0
      BY <1>4, <1>5, <2>0, <2>3 DEF Load, Waits
    <3> QED
      BY <2>0, <2>1, <3>1
  <2> QED
    BY <2>2, <2>3
<1>8. /\ papers' \in [Shelf -> {"to_come", "live", "trashed", "purged"}]
      /\ summary' \in [Shelf -> {"none", "good", "unparsable"}]
      /\ failure' \in [Shelf -> Failure]
      /\ reader' \in Shelf \cup {0} /\ spent' \in 0 .. MaxEvents
  BY DEF SumInv, Sweep
<1> QED
  BY <1>5, <1>6, <1>7, <1>8, WorkerBy

LEMMA RestKeepsSum ==
    ASSUME SumInv, NEW w \in Workers, writer' = [writer EXCEPT ![w] = Resting],
           UNCHANGED <<papers, summary, failure, reader>>, Event \/ UNCHANGED spent
    PROVE  SumInv'
<1>1. /\ writer' \in [Workers -> Writer] /\ \A u \in Workers \ {w} : writer'[u] = writer[u]
      /\ WriterInv(w)' /\ \A p : ~Waits(w, p)'
  BY RestingIs, AnewIs
<1>2. summary' \in [Shelf -> {"none", "good", "unparsable"}]
  BY DEF SumInv
<1> QED
  BY <1>1, <1>2, WriterQuiet

\* A paper's statements come one after another, and a step may skip to the next paper.
LEMMA NextOneKeeps ==
    ASSUME SumInv, NEW w \in Workers, NEW wrote \in BOOLEAN, writer[w].at \in Has,
           writer[w].queue # <<>>, Next1(w, wrote),
           UNCHANGED <<papers, summary, failure, reader>>, Event \/ UNCHANGED spent
    PROVE  SumInv'
<1>1. summary' \in [Shelf -> {"none", "good", "unparsable"}]
  BY DEF SumInv
<1> QED
  BY <1>1, NextOneIs, WriterQuiet

LEMMA PutKeeps ==
    ASSUME SumInv, NEW w \in Workers, NEW at \in Has \cup {"sweep"}, Put(w, at),
           writer[w].at \in Has, at \in Has => writer[w].queue # <<>>,
           summary' \in [Shelf -> {"none", "good", "unparsable"}],
           UNCHANGED <<papers, failure, reader, spent>>
    PROVE  SumInv'
<1>1. /\ writer' \in [Workers -> Writer] /\ \A u \in Workers \ {w} : writer'[u] = writer[u]
      /\ writer'[w].at = at /\ writer'[w].queue = writer[w].queue
  BY PutIs
<1>2. WriterInv(w)' /\ \A p \in Shelf : Waits(w, p)' => Waits(w, p)
  BY <1>1 DEF SumInv, WriterInv, Waits, Has
<1> QED
  BY <1>1, <1>2, WriterQuiet

LEMMA StatementsKeep ==
    ASSUME SumInv, NEW w \in Workers, Advance(w) \/ Generate(w) \/ Upsert(w)
    PROVE  SumInv'
<1>t. WriterInv(w) /\ summary \in [Shelf -> {"none", "good", "unparsable"}]
  BY DEF SumInv
<1>q. writer[w].at \in Has \ {"next"} => writer[w].queue # <<>>
  BY <1>t DEF WriterInv
<1>1. CASE Advance(w)
  <2>0. writer[w].at = "next" /\ UNCHANGED <<papers, summary, failure, reader, spent>>
        /\ summary' \in [Shelf -> {"none", "good", "unparsable"}]
    BY <1>1, <1>t DEF Advance, In
  <2>1. CASE Put(w, "sweep")
    BY <2>0, <2>1, PutKeeps DEF Has
  <2>2. CASE writer' = [writer EXCEPT ![w] = Resting]
    BY <2>0, <2>2, RestKeepsSum
  <2>3. CASE writer[w].queue # <<>> /\ Put(w, "generate")
    BY <2>0, <2>3, PutKeeps DEF Has
  <2>4. CASE writer[w].queue # <<>> /\ Next1(w, FALSE)
    BY <2>0, <2>4, NextOneKeeps DEF Has
  <2> QED
    BY <1>1, <2>1, <2>2, <2>3, <2>4 DEF Advance
<1>2. CASE Generate(w)
  <2>0. /\ writer[w].at = "generate" /\ UNCHANGED <<papers, summary, failure, reader, spent>>
        /\ summary' \in [Shelf -> {"none", "good", "unparsable"}] /\ writer[w].queue # <<>>
    BY <1>2, <1>t, <1>q DEF Generate, In, Has
  <2> QED
    BY <1>2, <2>0, PutKeeps DEF Generate, Has
<1>3. CASE Upsert(w)
  <2>0. /\ writer[w].at = "upsert" /\ UNCHANGED <<papers, failure, reader, spent>>
        /\ writer[w].queue # <<>>
    BY <1>3, <1>q DEF Upsert, In, Has
  <2>1. CASE UNCHANGED summary /\ Next1(w, FALSE)
    BY <2>0, <2>1, NextOneKeeps DEF Has
  <2>2. CASE summary' = [summary EXCEPT ![Paper(w)] = "good"] /\ Put(w, "clear")
    <3>1. summary' \in [Shelf -> {"none", "good", "unparsable"}]
      BY <1>t, <2>2
    <3> QED
      BY <2>0, <2>2, <3>1, PutKeeps DEF Has
  <2> QED
    BY <1>3, <2>1, <2>2 DEF Upsert
<1> QED
  BY <1>1, <1>2, <1>3

\* A success takes the count back; a failure takes the paper out of the worker's
\* hands as it is counted.
LEMMA CountsKeep ==
    ASSUME SumInv, NEW w \in Workers, ClearFailure(w) \/ RecordFailure(w)
    PROVE  SumInv'
<1>t. WriterInv(w) /\ failure \in [Shelf -> Failure]
  BY DEF SumInv
<1>0. /\ writer[w].at \in {"clear", "record"} /\ writer[w].queue # <<>>
      /\ UNCHANGED <<papers, summary, reader, spent>>
  BY <1>t DEF ClearFailure, RecordFailure, In, WriterInv, Has
<1>1. PICK wrote \in BOOLEAN : Next1(w, wrote)
  BY DEF ClearFailure, RecordFailure
<1>2. /\ writer' \in [Workers -> Writer] /\ \A u \in Workers \ {w} : writer'[u] = writer[u]
      /\ WriterInv(w)'
      /\ \A p : Waits(w, p)' => Waits(w, p) /\ p # Paper(w)
      /\ Paper(w) \in Shelf /\ Waits(w, Paper(w))
  BY <1>0, <1>1, NextOneIs DEF Has
<1>3. PICK x \in Shelf : x = Paper(w)
  BY <1>2
<1>4. /\ failure' \in [Shelf -> Failure]
      /\ \A p \in Shelf \ {x} : failure'[p] = failure[p]
      /\ failure'[x].attempts <= failure[x].attempts + 1
  <2>a. PICK a \in Nat : a = failure[x].attempts
    BY <1>t DEF Failure
  <2>1. CASE UNCHANGED failure
    BY <1>t, <2>a, <2>1
  <2>2. ASSUME NEW f \in Failure, f.attempts <= a + 1, failure' = [failure EXCEPT ![x] = f]
        PROVE  /\ failure' \in [Shelf -> Failure]
               /\ \A p \in Shelf \ {x} : failure'[p] = failure[p]
               /\ failure'[x].attempts <= failure[x].attempts + 1
    BY <1>t, <2>a, <2>2
  <2>3. NoFailure \in Failure /\ NoFailure.attempts <= a + 1
    BY DEF NoFailure, Failure
  <2>4. PICK f : f = [attempts |-> a + 1, waiting |-> TRUE]
    OBVIOUS
  <2>5. f \in Failure /\ f.attempts <= a + 1
    BY <2>4 DEF Failure
  <2>6. \/ UNCHANGED failure
        \/ failure' = [failure EXCEPT ![x] = NoFailure]
        \/ failure' = [failure EXCEPT ![x] = f]
    BY <1>3, <1>t, <2>a, <2>4 DEF ClearFailure, RecordFailure
  <2> QED
    BY <2>1, <2>2, <2>3, <2>5, <2>6
<1>5. \A p \in Shelf : failure'[p].attempts + Load(w, p)' <= failure[p].attempts + Load(w, p)
  <2> SUFFICES ASSUME NEW p \in Shelf
               PROVE  failure'[p].attempts + Load(w, p)' <= failure[p].attempts + Load(w, p)
    OBVIOUS
  <2>1. PICK a \in Nat, b \in Nat : a = failure[p].attempts /\ b = failure'[p].attempts
    BY <1>t, <1>4 DEF Failure
  <2>2. PICK s \in {0, 1}, d \in {0, 1} : s = Load(w, p) /\ d = Load(w, p)'
    BY DEF Load
  <2>3. CASE p = x
    <3>1. d = 0 /\ s = 1
      BY <1>2, <1>3, <2>2, <2>3 DEF Load
    <3>2. b <= a + 1
      BY <1>4, <2>1, <2>3
    <3> QED
      BY <2>1, <2>2, <3>1, <3>2
  <2>4. CASE p # x
    <3>1. d <= s /\ b = a
      BY <1>2, <1>4, <2>1, <2>2, <2>4 DEF Load
    <3> QED
      BY <2>1, <2>2, <3>1
  <2> QED
    BY <2>3, <2>4
<1>6. /\ papers' \in [Shelf -> {"to_come", "live", "trashed", "purged"}]
      /\ summary' \in [Shelf -> {"none", "good", "unparsable"}]
      /\ reader' \in Shelf \cup {0} /\ spent' \in 0 .. MaxEvents
  BY <1>0 DEF SumInv
<1> QED
  BY <1>2, <1>4, <1>5, <1>6, WorkerBy

LEMMA FaultsKeep ==
    ASSUME SumInv, NEW w \in Workers, Unwritten(w) \/ Death(w)
    PROVE  SumInv'
<1>t. writer[w].at \in Has \ {"next"} => writer[w].queue # <<>>
  BY DEF SumInv, WriterInv
<1>0. Event /\ UNCHANGED <<papers, summary, failure, reader>>
  BY DEF Unwritten, Death
<1>1. CASE writer' = [writer EXCEPT ![w] = Resting]
  BY <1>0, <1>1, RestKeepsSum
<1>2. CASE writer[w].at \in {"upsert", "clear", "record"} /\ Next1(w, FALSE)
  BY <1>0, <1>2, <1>t, NextOneKeeps DEF Has
<1> QED
  BY <1>1, <1>2 DEF Unwritten, Death

\* The library and the readers count nothing.
LEMMA ReadersKeep ==
    ASSUME SumInv,
           \/ \E p \in Shelf : Arrive(p) \/ Trash(p) \/ Purge(p) \/ BackoffEnds(p) \/ Read(p)
           \/ Reshape \/ Forget \/ UNCHANGED summariesVars
    PROVE  SumInv'
<1>t. /\ papers \in [Shelf -> {"to_come", "live", "trashed", "purged"}]
      /\ summary \in [Shelf -> {"none", "good", "unparsable"}]
      /\ failure \in [Shelf -> Failure] /\ reader \in Shelf \cup {0}
      /\ spent \in 0 .. MaxEvents /\ writer \in [Workers -> Writer]
      /\ "server" \in Workers /\ WriterInv("server")
      /\ NoFailure \in Failure /\ NoFailure.attempts = 0
  BY DEF SumInv, Workers, NoFailure, Failure
<1>n. \A p \in Shelf : failure[p].attempts \in Nat
  BY <1>t DEF Failure
<1>1. ASSUME UNCHANGED writer, failure' \in [Shelf -> Failure],
             \A p \in Shelf : failure'[p].attempts <= failure[p].attempts,
             papers' \in [Shelf -> {"to_come", "live", "trashed", "purged"}],
             summary' \in [Shelf -> {"none", "good", "unparsable"}],
             reader' \in Shelf \cup {0}, Event \/ UNCHANGED spent
      PROVE  SumInv'
  <2>1. WriterInv("server")' /\ \A p \in Shelf : Waits("server", p)' => Waits("server", p)
    BY <1>t, <1>1 DEF WriterInv, Waits
  <2>2. writer' \in [Workers -> Writer] /\ \A u \in Workers : writer'[u] = writer[u]
    BY <1>t, <1>1
  <2>3. spent' \in 0 .. MaxEvents
    BY <1>1, EventIs
  <2> QED
    BY <1>t, <1>1, <2>1, <2>2, <2>3, WorkerQuiet
<1>s. UNCHANGED failure => /\ failure' \in [Shelf -> Failure]
                           /\ \A p \in Shelf : failure'[p].attempts <= failure[p].attempts
  BY <1>t, <1>n
<1>2. ASSUME NEW p \in Shelf, Arrive(p) \/ Trash(p) PROVE SumInv'
  <2>1. papers' \in [Shelf -> {"to_come", "live", "trashed", "purged"}]
    BY <1>2, <1>t DEF Arrive, Trash
  <2> QED
    BY <1>1, <1>2, <1>s, <1>t, <2>1 DEF Arrive, Trash
<1>3. ASSUME NEW p \in Shelf, Purge(p) PROVE SumInv'
  <2>1. /\ papers' \in [Shelf -> {"to_come", "live", "trashed", "purged"}]
        /\ summary' \in [Shelf -> {"none", "good", "unparsable"}]
    BY <1>3, <1>t DEF Purge
  <2>2. /\ failure' \in [Shelf -> Failure]
        /\ \A q \in Shelf : failure'[q] = failure[q] \/ failure'[q].attempts = 0
    BY <1>3, <1>t DEF Purge
  <2>3. \A q \in Shelf : failure'[q].attempts <= failure[q].attempts
    BY <1>n, <2>2
  <2> QED
    BY <1>1, <1>3, <1>t, <2>1, <2>2, <2>3 DEF Purge
<1>4. ASSUME NEW p \in Shelf, BackoffEnds(p) PROVE SumInv'
  <2>1. /\ failure' \in [Shelf -> Failure]
        /\ \A q \in Shelf : failure'[q].attempts = failure[q].attempts
    BY <1>4, <1>t DEF BackoffEnds, Failure
  <2>2. \A q \in Shelf : failure'[q].attempts <= failure[q].attempts
    BY <1>n, <2>1
  <2> QED
    BY <1>1, <1>4, <1>t, <2>1, <2>2 DEF BackoffEnds
<1>5. ASSUME NEW p \in Shelf, Read(p) PROVE SumInv'
  BY <1>1, <1>5, <1>s, <1>t DEF Read
<1>6. CASE Reshape
  <2>1. summary' \in [Shelf -> {"none", "good", "unparsable"}]
    BY <1>6, <1>t DEF Reshape
  <2> QED
    BY <1>1, <1>6, <1>s, <1>t, <2>1 DEF Reshape
<1>7. CASE Forget
  <2>1. summary' \in [Shelf -> {"none", "good", "unparsable"}]
    BY <1>7, <1>t DEF Forget
  <2> QED
    BY <1>1, <1>7, <1>s, <1>t, <2>1 DEF Forget
<1>8. CASE UNCHANGED summariesVars
  BY <1>1, <1>8, <1>s, <1>t DEF summariesVars
<1> QED
  BY <1>2, <1>3, <1>4, <1>5, <1>6, <1>7, <1>8

LEMMA SumNext == SumInv /\ [SummariesNext]_summariesVars => SumInv'
BY TickKeeps, CommandKeeps, ClearKeeps, SweepKeeps, StatementsKeep, CountsKeep, FaultsKeep,
   ReadersKeep
DEF SummariesNext, Steps

LEMMA SumBounds == SumInv => SummariesTypeOK /\ AttemptsBounded
<1> SUFFICES ASSUME SumInv PROVE SummariesTypeOK /\ AttemptsBounded
  OBVIOUS
<1>1. ASSUME NEW p \in Shelf
      PROVE  /\ failure[p] \in [attempts : 0 .. MAX_ATTEMPTS + 1, waiting : BOOLEAN]
             /\ failure[p].attempts + Cardinality({w \in Workers :
                    In(w, "record") /\ writer[w].queue # <<>> /\ Paper(w) = p}) <= MAX_ATTEMPTS + 1
  <2> DEFINE S == {w \in Workers : In(w, "record") /\ writer[w].queue # <<>> /\ Paper(w) = p}
  <2>1. PICK a \in Nat, b \in BOOLEAN : /\ failure[p] = [attempts |-> a, waiting |-> b]
                                        /\ a = failure[p].attempts
    BY DEF SumInv, Failure
  <2>2. PICK s \in {0, 1}, c \in {0, 1} : s = Load("server", p) /\ c = Load("cli", p)
    BY DEF Load
  <2>3. a + s + c <= MAX_ATTEMPTS + 1
    BY <2>1, <2>2 DEF SumInv, Bounded
  <2>4. \A w \in S : Waits(w, p)
    <3> SUFFICES ASSUME NEW w \in Workers, In(w, "record"), writer[w].queue # <<>>, Paper(w) = p
                 PROVE  Waits(w, p)
      OBVIOUS
    <3>1. writer[w].queue \in Seq(Shelf) /\ Distinct(writer[w].queue)
      BY DEF SumInv, Writer, WriterInv
    <3> QED
      BY <3>1, TailIs DEF Waits, Has, In, Paper
  <2>5. S \subseteq {"server", "cli"}
    BY DEF Workers
  <2> HIDE DEF S
  <2>6. ("server" \in S => s = 1) /\ ("cli" \in S => c = 1)
    BY <2>2, <2>4 DEF Load
  <2>7. Cardinality(S) <= s + c /\ Cardinality(S) \in Nat
    <3>0. /\ Cardinality({}) = 0 /\ Cardinality({"server"}) = 1 /\ Cardinality({"cli"}) = 1
          /\ Cardinality({"server"} \cup {"cli"}) = 2
      <4>1. IsFiniteSet({"server"}) /\ Cardinality({"server"}) = 1 /\ Cardinality({"cli"}) = 1
        BY FS_Singleton
      <4>2. Cardinality({"server"} \cup {"cli"}) = 2
        BY <4>1, FS_AddElement
      <4> QED
        BY <4>1, <4>2, FS_EmptySet
    <3>1. S = {} \/ S = {"server"} \/ S = {"cli"} \/ S = {"server"} \cup {"cli"}
      BY <2>5
    <3>2. CASE S = {}
      BY <2>2, <3>0, <3>2
    <3>3. CASE S = {"server"}
      BY <2>2, <2>6, <3>0, <3>3
    <3>4. CASE S = {"cli"}
      BY <2>2, <2>6, <3>0, <3>4
    <3>5. CASE S = {"server"} \cup {"cli"}
      BY <2>2, <2>6, <3>0, <3>5
    <3> QED
      BY <3>1, <3>2, <3>3, <3>4, <3>5
  <2>8. a \in 0 .. MAX_ATTEMPTS + 1
    BY <2>3, SummariesNumbers
  <2>9. a + Cardinality(S) <= MAX_ATTEMPTS + 1
    BY <2>3, <2>7, SummariesNumbers
  <2> QED
    BY <2>1, <2>8, <2>9 DEF S
<1>2. failure \in [Shelf -> [attempts : 0 .. MAX_ATTEMPTS + 1, waiting : BOOLEAN]]
  <2>1. failure = [p \in Shelf |-> failure[p]]
    BY DEF SumInv
  <2> QED
    BY <1>1, <2>1
<1>3. \A w \in Workers :
         /\ writer[w].at \in {"idle", "sweep", "clear_all", "clear_failures", "next",
                             "generate", "upsert", "clear", "record"}
         /\ writer[w].queue \in Seq(Shelf) /\ Len(writer[w].queue) <= BATCH
         /\ writer[w].wrote \in BOOLEAN /\ writer[w].one \in BOOLEAN
  BY DEF SumInv, Writer, WriterInv, Has
<1>4. SummariesTypeOK
  BY <1>2, <1>3 DEF SummariesTypeOK, SumInv
<1>5. AttemptsBounded
  BY <1>1 DEF AttemptsBounded
<1> QED
  BY <1>4, <1>5

\* A failing paper costs at most MAX_ATTEMPTS generations, one more when server and
\* command both have it, whichever statements fail or interleave (due_ids,
\* record_failure, summarize_batch).
THEOREM AttemptsBoundedHolds == SummariesSpec => [](SummariesTypeOK /\ AttemptsBounded)
BY SumInit, SumNext, SumBounds, PTL DEF SummariesSpec

----------------------------------------------------------------------------
(* The workers together.                                                   *)

ServicesInv == WatchInv /\ SumInv /\ DailyInv /\ VecInv

\* Each step is one worker's, and the others' state is as it was (MCServices, the
\* specification that TLC checks).
LEMMA ServicesInvHolds == ServicesSpec => []ServicesInv
<1>1. ServicesInit => ServicesInv
  BY WatchInvInit, SumInit, DailyInvInit, VecInvInit DEF ServicesInit, ServicesInv
<1>2. [ServicesNext]_servicesVars =>
        /\ [WatchNext]_watchVars /\ [SummariesNext]_summariesVars
        /\ [DailyNext]_dailyVars /\ [VectorsNext]_vectorsVars
  BY DEF ServicesNext, servicesVars
<1>3. ServicesInv /\ [ServicesNext]_servicesVars => ServicesInv'
  BY <1>2, WatchInvNext, SumNext, DailyInvNext, VecInvNext DEF ServicesInv
<1> QED
  BY <1>1, <1>3, PTL DEF ServicesSpec

\* Every worker's state is of its type, whatever becomes of its work.
THEOREM ServicesTypesHold == ServicesSpec => []ServicesTypeOK
<1>1. ServicesInv => ServicesTypeOK
  BY SumBounds, VecInvVouched DEF ServicesInv, ServicesTypeOK, WatchInv, DailyInv
<1> QED
  BY <1>1, ServicesInvHolds, PTL

\* What is written down of the work is so: the failures of a summary are counted
\* (record_failure), and the stamps of the vectors vouch for them (mark_vectors_done).
THEOREM WorkRecordedHolds == ServicesSpec => []WorkRecorded
<1>1. ServicesInv => WorkRecorded
  BY SumBounds, VecInvVouched DEF ServicesInv, WorkRecorded
<1> QED
  BY <1>1, ServicesInvHolds, PTL

\* The same of the watcher's and the feed's accounts, in the composition.
THEOREM AccountsHold == ServicesSpec => [](WatchAccounts /\ DailyAccounts)
<1>1. ServicesInv => WatchAccounts /\ DailyAccounts
  BY DailyInvAccounts DEF ServicesInv, WatchInv
<1> QED
  BY <1>1, ServicesInvHolds, PTL

=============================================================================
