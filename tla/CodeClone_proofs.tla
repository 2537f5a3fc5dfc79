-------------------------- MODULE CodeClone_proofs --------------------------
(***************************************************************************)
(* Proofs about module CodeClone, for any number of attaches through the   *)
(* server and the command line, of crashes and of detaches.                *)
(***************************************************************************)
EXTENDS CodeClone, TLAPS, FiniteSetTheorems

Stages == {"idle"} \cup Running \cup Ended

\* The jobs that were ever started.
Attached == {j \in Jobs : job[j].pc # "idle"}

\* The server's crashes whose reconciliation is behind it.
Reconciled == crashes - (IF server.pc = "up" THEN 0 ELSE 1)

\* A generation is paid for by an attach or by a crash: what keeps it in Gens.
GenBound ==
    /\ Reconciled \in Nat
    /\ row # NoRow => row.gen + 1 <= Cardinality(Attached) + Reconciled

CloneTypeInv == CloneTypeOK /\ GenBound

\* While no generation is given twice they grow from 0, the row has the last
\* one, and only its own job can meet it.
GensGrow ==
    /\ \A j \in Jobs : job[j].pc = "idle" => job[j].gen = 0
    /\ Attached # {} => \E j \in Attached : job[j].gen = 0
    /\ row # NoRow =>
         /\ job[row.job].pc # "idle" /\ job[row.job].gen <= row.gen
         /\ \A j \in Attached \ {row.job} : job[j].gen < job[row.job].gen
         /\ row.status = "cloning" => row.gen = job[row.job].gen
         /\ row.status = "ready" => job[row.job].pc = "recorded"
         /\ row.by \in {row.job, NoJob}

\* From git to the rename a job's pid lock is its own, and so is its checkout
\* when git is done.
Staged ==
    \A j \in Jobs :
        /\ job[j].pc \in {"git", "queue", "check", "remove", "place"} =>
               locks[job[j].gen] = j
        /\ job[j].pc \in {"queue", "check", "remove", "place"} =>
               Staging(j) = [job |-> j, whole |-> TRUE]

\* A job that found its generation current.
Past == {"remove", "place", "record", "withdraw"}

\* The server's jobs publish one after the other, so none that is past its
\* check when the row goes to another outlasts that one's publishing.
Serial ==
    \A j \in ServerJobs :
        /\ job[j].pc \in Publishing => publish = j
        /\ (row # NoRow /\ row.job # j /\ row.job \in ServerJobs /\ job[j].pc \in Past)
               => job[row.job].pc # "recorded"

\* Another process's job, or a job of another process, went past its check
\* although the row is no longer, or not yet, its own.
Spoilt ==
    \E i \in Jobs \ {row.job} :
        /\ {i, row.job} \cap CliJobs # {}
        /\ job[i].pc \in Past \cup {"fail", "failed", "withdrawn", "unrecorded", "dead"}

\* What ReadyHasCheckout says, already from the rename on.
Shown ==
    row # NoRow /\ (row.status = "ready" \/ job[row.job].pc = "record") =>
        \/ repo = [job |-> row.job, whole |-> TRUE]
        \/ detach.pc # "idle" /\ detach.job = row.job
        \/ Spoilt

Ordered == GensGrow /\ Staged /\ Serial /\ Shown

CloneInv == CloneTypeInv /\ (Reused \/ Ordered)

----------------------------------------------------------------------------
(* How the jobs move.                                                      *)

\* No job is started, none gets another generation, none that ended goes on.
JobsKept ==
    \A j \in Jobs :
        /\ job'[j].gen = job[j].gen
        /\ job'[j].pc = "idle" <=> job[j].pc = "idle"
        /\ job[j].pc \in Ended => job'[j].pc = job[j].pc

LEMMA StagesApart ==
    /\ "idle" \notin Running \cup Ended /\ Running \cap Ended = {}
    /\ Running \cup Ended \subseteq Stages /\ Past \subseteq Publishing
    /\ Publishing \cup Cloning \cup {"fail"} = Running
BY DEF Running, Ended, Stages, Cloning, Publishing, Past

LEMMA Went ==
    ASSUME CloneTypeOK, NEW j \in Jobs, NEW pc \in Stages, Goto(j, pc)
    PROVE  /\ job' \in [Jobs -> [pc : Stages, gen : Gens]]
           /\ job'[j].pc = pc /\ job'[j].gen = job[j].gen
           /\ \A i \in Jobs \ {j} : job'[i] = job[i]
BY DEF CloneTypeOK, Goto, Stages

\* A step of a job moves that job alone, and on.
LEMMA StepMoves ==
    ASSUME CloneTypeOK, NEW j \in Jobs, JobStep(j)
    PROVE  /\ job[j].pc \in Running
           /\ \E pc \in (Running \cup Ended) \ {"prepare"} : Goto(j, pc)
<1>1. job[j].pc \in Running
  BY DEF JobStep, Prepare, GitDone, GitFails, TakePublish, CheckGen, RemoveOld, Place,
         Record, Withdraw, RecordError, Running, Cloning, Publishing
<1>2. \E pc \in (Running \cup Ended) \ {"prepare"} : Goto(j, pc)
  BY Zenon DEF JobStep, Prepare, GitDone, GitFails, TakePublish, CheckGen, RemoveOld, Place,
         Record, Withdraw, RecordError, Running, Cloning, Publishing, Ended
<1> QED
  BY <1>1, <1>2

LEMMA StepKeepsJobs ==
    ASSUME CloneTypeOK, NEW j \in Jobs, JobStep(j)
    PROVE  /\ job' \in [Jobs -> [pc : Stages, gen : Gens]]
           /\ \A i \in Jobs \ {j} : job'[i] = job[i]
           /\ JobsKept
<1>1. PICK pc \in (Running \cup Ended) \ {"prepare"} : Goto(j, pc)
  BY StepMoves
<1>2. job[j].pc \in Running
  BY StepMoves
<1>3. pc \in Stages
  BY <1>1, StagesApart
<1> QED
  BY <1>1, <1>2, <1>3, Went, StagesApart DEF JobsKept

LEMMA DeathKeepsJobs ==
    ASSUME CloneTypeOK, NEW dead \in SUBSET Jobs, Dies(dead)
    PROVE  /\ job' \in [Jobs -> [pc : Stages, gen : Gens]]
           /\ \A i \in Jobs : job'[i] = job[i] \/ (i \in dead /\ job'[i].pc = "dead")
           /\ JobsKept
BY StagesApart DEF CloneTypeOK, Dies, JobsKept, Stages, Ended

----------------------------------------------------------------------------
(* Types, and the bound of the generations.                                *)

LEMMA JobsFinite ==
    /\ IsFiniteSet(Jobs) /\ Cardinality(Jobs) \in Nat
    /\ IsFiniteSet(Attached) /\ Cardinality(Attached) \in Nat
    /\ Cardinality(Attached) <= Cardinality(Jobs)
<1>1. IsFiniteSet(Jobs)
  BY CloneAssumption, FS_Union DEF Jobs
<1>2. Attached \in SUBSET Jobs
  BY DEF Attached
<1> QED
  BY <1>1, <1>2, FS_Subset, FS_CardinalityType

LEMMA CloneTypeInit == CloneInit => CloneTypeInv
<1> SUFFICES ASSUME CloneInit PROVE CloneTypeInv
  OBVIOUS
<1>1. 0 \in Gens
  BY JobsFinite, CloneAssumption DEF Gens
<1>2. CloneTypeOK
  BY <1>1, CloneAssumption DEF CloneInit, CloneTypeOK
<1>3. GenBound
  BY DEF CloneInit, GenBound, Reconciled
<1> QED
  BY <1>2, <1>3 DEF CloneTypeInv

\* Where no job is started, no generation is taken.
LEMMA BoundKept ==
    ASSUME GenBound, JobsKept, Reconciled' = Reconciled, row' # NoRow => row # NoRow /\ row'.gen = row.gen
    PROVE  GenBound'
<1>1. Attached' = Attached
  BY DEF Attached, JobsKept
<1> QED
  BY <1>1 DEF GenBound

LEMMA AttachKeepsType ==
    ASSUME CloneTypeInv, NEW j \in Jobs, Attach(j)
    PROVE  CloneTypeInv'
<1> DEFINE g == IF row = NoRow THEN 0 ELSE row.gen + 1
<1>1. Attached' = Attached \cup {j} /\ j \notin Attached
  BY DEF CloneTypeInv, CloneTypeOK, Attach, Attached
<1>2. /\ Cardinality(Attached') = Cardinality(Attached) + 1
      /\ Cardinality(Attached') <= Cardinality(Jobs)
  <2>1. Cardinality(Attached \cup {j}) = Cardinality(Attached) + 1
    BY <1>1, JobsFinite, FS_AddElement
  <2>2. Attached' \in SUBSET Jobs
    BY <1>1 DEF Attached
  <2> QED
    BY <1>1, <2>1, <2>2, JobsFinite, FS_Subset
<1>3. Reconciled \in Nat /\ Reconciled <= crashes /\ crashes \in Nat /\ crashes <= MaxCrashes
  BY CloneAssumption DEF CloneTypeInv, CloneTypeOK, GenBound, Reconciled
<1>4. g \in Nat /\ g + 1 <= Cardinality(Attached) + 1 + Reconciled
  <2>1. row # NoRow => row.gen \in Nat
    BY DEF CloneTypeInv, CloneTypeOK, CodeRow, Gens
  <2> QED
    BY <2>1, <1>3, JobsFinite DEF CloneTypeInv, GenBound
<1>5. g \in Gens
  BY <1>2, <1>3, <1>4, JobsFinite, CloneAssumption DEF Gens
<1>6. row' = [gen |-> g, job |-> j, status |-> "cloning", by |-> NoJob]
      /\ job' = [job EXCEPT ![j] = [pc |-> "prepare", gen |-> g]]
      /\ UNCHANGED <<repo, staging, locks, publish, server, detach, crashes, detaches>>
  BY DEF Attach, ProcessUnchanged
<1> HIDE DEF g
<1>7. GenBound'
  BY <1>2, <1>3, <1>4, <1>6, JobsFinite DEF GenBound, Reconciled
<1>8. CloneTypeOK'
  BY <1>5, <1>6 DEF CloneTypeInv, CloneTypeOK, CodeRow, Running, Cloning, Publishing, Attach
<1> QED
  BY <1>7, <1>8 DEF CloneTypeInv

LEMMA JobStepKeepsType ==
    ASSUME CloneTypeInv, NEW j \in Jobs, JobStep(j)
    PROVE  CloneTypeInv'
<1> USE DEF CloneTypeInv
<1>1. /\ job' \in [Jobs -> [pc : Stages, gen : Gens]]
      /\ \A i \in Jobs \ {j} : job'[i] = job[i]
      /\ JobsKept
  BY StepKeepsJobs
<1>2. UNCHANGED <<server, detach, crashes, detaches>>
  BY DEF JobStep, Prepare, GitDone, GitFails, TakePublish, CheckGen, RemoveOld, Place,
         Record, Withdraw, RecordError, ProcessUnchanged
<1>3. /\ row' \in CodeRow \cup {NoRow}
      /\ row' # NoRow => row # NoRow /\ row'.gen = row.gen
  BY ZenonT(30) DEF JobStep, Prepare, GitDone, GitFails, TakePublish, CheckGen, RemoveOld, Place,
         Record, Withdraw, RecordError, CloneTypeOK, CodeRow, Current
<1>4. job[j].gen \in Gens
  BY DEF CloneTypeOK
<1>5. staging' \in [Gens -> Checkout \cup {Nothing}]
  <2>1. \/ UNCHANGED staging
        \/ \E s \in Checkout \cup {Nothing} : StagingBecomes(j, s)
    BY DEF JobStep, Prepare, GitDone, GitFails, TakePublish, CheckGen, RemoveOld, Place,
       Record, Withdraw, RecordError, Checkout
  <2> QED
    BY <2>1, <1>4 DEF CloneTypeOK, StagingBecomes
<1>6. repo' \in Checkout \cup {Nothing}
  BY <1>4 DEF JobStep, Prepare, GitDone, GitFails, TakePublish, CheckGen, RemoveOld, Place,
         Record, Withdraw, RecordError, CloneTypeOK, Staging
<1>7. locks' \in [Gens -> Jobs \cup {NoJob}]
  BY <1>4 DEF JobStep, Prepare, GitDone, GitFails, TakePublish, CheckGen, RemoveOld, Place,
         Record, Withdraw, RecordError, CloneTypeOK, Released
<1>8. /\ publish' \in ServerJobs \cup {NoJob}
      /\ publish' # NoJob => job'[publish'].pc \in Publishing \cup {"fail"}
  <2>1. CASE Prepare(j) \/ GitDone(j) \/ GitFails(j)
    <3>1. publish' = publish /\ publish # j
      BY <2>1, CloneAssumption DEF Prepare, GitDone, GitFails, CloneTypeOK, Publishing, Jobs
    <3> QED
      BY <3>1, <1>1 DEF CloneTypeOK, Jobs
  <2>2. CASE TakePublish(j)
    <3>1. job'[j].pc = "check"
      BY <2>2, Went DEF TakePublish, Stages, Running, Publishing
    <3> QED
      BY <2>2, <3>1, <1>1 DEF TakePublish, CloneTypeOK, Publishing, Jobs
  <2>3. ASSUME Released(j)
        PROVE  /\ publish' \in ServerJobs \cup {NoJob}
               /\ publish' # NoJob => job'[publish'].pc \in Publishing \cup {"fail"}
    BY <2>3, <1>1 DEF Released, CloneTypeOK, Jobs
  <2>4. ASSUME NEW pc \in Publishing \cup {"fail"}, Goto(j, pc), UNCHANGED publish
        PROVE  /\ publish' \in ServerJobs \cup {NoJob}
               /\ publish' # NoJob => job'[publish'].pc \in Publishing \cup {"fail"}
    <3>1. job'[j].pc = pc
      BY <2>4, Went, StagesApart
    <3> QED
      BY <2>4, <3>1, <1>1 DEF CloneTypeOK, Jobs
  <2> QED
    BY <2>1, <2>2, <2>3, <2>4 DEF JobStep, CheckGen, RemoveOld, Place, Record, Withdraw,
       RecordError, Publishing
<1>9. GenBound'
  BY <1>1, <1>2, <1>3, BoundKept DEF Reconciled
<1> QED
  BY <1>1, <1>2, <1>3, <1>5, <1>6, <1>7, <1>8, <1>9 DEF CloneTypeOK, Stages

LEMMA DeathKeepsType ==
    ASSUME CloneTypeInv, NEW dead \in SUBSET Jobs, Dies(dead),
           \/ server.pc # "down" /\ server' = [pc |-> "down", live |-> FALSE, missed |-> NoJob]
           \/ UNCHANGED server
    PROVE  CloneTypeInv'
<1>d. Dies(dead) /\ CloneTypeOK
  BY DEF CloneTypeInv
<1>2. /\ job' \in [Jobs -> [pc : Stages, gen : Gens]] /\ JobsKept
      /\ \A i \in Jobs : job'[i] = job[i] \/ (i \in dead /\ job'[i].pc = "dead")
  BY <1>d, DeathKeepsJobs
<1>p. /\ publish' \in ServerJobs \cup {NoJob}
      /\ publish' # NoJob => job'[publish'].pc \in Publishing \cup {"fail"}
  BY <1>d, <1>2 DEF Dies, CloneTypeOK, Jobs
<1>s. server' \in [pc : {"down", "sweep", "reconcile", "up"}, live : BOOLEAN,
                    missed : Jobs \cup {NoJob}]
  <2>1. CASE server' = [pc |-> "down", live |-> FALSE, missed |-> NoJob]
    BY <2>1
  <2>2. CASE UNCHANGED server
    BY <2>2, <1>d DEF CloneTypeOK
  <2> QED
    BY <2>1, <2>2
<1>c. crashes' \in 0 .. MaxCrashes
  BY <1>d, CloneAssumption DEF Dies, CloneTypeOK
<1>3. CloneTypeOK'
  BY <1>d, <1>2, <1>p, <1>s, <1>c DEF CloneTypeOK, Dies, Stages
<1>4. row' = row /\ crashes \in Nat /\ crashes' = crashes + 1 /\ Attached' = Attached
  BY <1>2 DEF Dies, CloneTypeInv, CloneTypeOK, Attached, JobsKept
<1>5. Reconciled \in Nat /\ Reconciled' \in Nat /\ Reconciled <= Reconciled'
  BY <1>4 DEF CloneTypeInv, GenBound, Reconciled
<1>6. row # NoRow => row.gen \in Nat
  BY DEF CloneTypeInv, CloneTypeOK, CodeRow, Gens
<1>7. GenBound'
  BY <1>4, <1>5, <1>6, JobsFinite DEF CloneTypeInv, GenBound
<1> QED
  BY <1>3, <1>7 DEF CloneTypeInv

LEMMA BootKeepsType ==
    ASSUME CloneTypeInv, Boot \/ Sweep \/ DetachRepo \/ DetachRow \/ DetachCut
    PROVE  CloneTypeInv'
<1>1. UNCHANGED <<job, publish, crashes>> /\ (row' # NoRow => row' = row)
  BY DEF Boot, Sweep, DetachRepo, DetachRow, DetachCut
<1>2. Reconciled' = Reconciled
  BY <1>1 DEF Boot, Sweep, DetachRepo, DetachRow, DetachCut, Reconciled, CloneTypeInv,
     CloneTypeOK
<1>3. GenBound'
  BY <1>1, <1>2 DEF CloneTypeInv, GenBound, Attached
<1>4. CloneTypeOK'
  <2> USE DEF CloneTypeInv, CloneTypeOK
  <2>1. CASE Boot
    BY <2>1 DEF Boot
  <2>2. CASE Sweep
    BY <2>2 DEF Sweep
  <2>3. CASE DetachRepo
    BY <2>3, CloneAssumption DEF DetachRepo, CodeRow
  <2>4. CASE DetachRow \/ DetachCut
    BY <2>4 DEF DetachRow, DetachCut
  <2> QED
    BY <2>1, <2>2, <2>3, <2>4
<1> QED
  BY <1>3, <1>4 DEF CloneTypeInv

LEMMA ReconcileKeepsType ==
    ASSUME CloneTypeInv, Reconcile
    PROVE  CloneTypeInv'
<1>t. CloneTypeOK
  BY DEF CloneTypeInv
<1>p. /\ UNCHANGED <<job, crashes>> /\ server.pc = "reconcile" /\ server'.pc = "up"
      /\ server' \in [pc : {"down", "sweep", "reconcile", "up"}, live : BOOLEAN,
                      missed : Jobs \cup {NoJob}]
  <2>1. /\ server \in [pc : {"down", "sweep", "reconcile", "up"}, live : BOOLEAN,
                       missed : Jobs \cup {NoJob}]
        /\ UNCHANGED <<job, crashes>> /\ server.pc = "reconcile"
    BY <1>t DEF CloneTypeOK, Reconcile
  <2>2. CASE server' = [server EXCEPT !.pc = "up"]
    BY <2>1, <2>2
  <2>3. CASE server' = [server EXCEPT !.pc = "up", !.missed = row.job] /\ row # NoRow
    BY <1>t, <2>1, <2>3 DEF CloneTypeOK, CodeRow
  <2> QED
    BY <2>1, <2>2, <2>3 DEF Reconcile, Interrupted
<1>1. Reconciled' = Reconciled + 1 /\ Reconciled' = crashes /\ Attached' = Attached
  BY <1>t, <1>p DEF CloneTypeOK, Reconciled, Attached
<1>2. Reconciled \in Nat /\ crashes \in 0 .. MaxCrashes
  BY DEF CloneTypeInv, CloneTypeOK, GenBound
<1>3. row # NoRow => row.gen \in Nat /\ row.gen + 1 <= Cardinality(Attached) + Reconciled
  BY DEF CloneTypeInv, CloneTypeOK, GenBound, CodeRow, Gens
<1>4. row # NoRow => row.gen + 1 \in Gens
  BY <1>1, <1>2, <1>3, JobsFinite, CloneAssumption DEF Gens
<1>5. /\ row' \in CodeRow \cup {NoRow}
      /\ row' # NoRow => row # NoRow /\ row'.gen \in {row.gen, row.gen + 1}
  BY <1>4 DEF Reconcile, Interrupted, CloneTypeInv, CloneTypeOK, CodeRow
<1>6. GenBound'
  BY <1>1, <1>2, <1>3, <1>5, JobsFinite DEF GenBound
<1>7. CloneTypeOK'
  BY <1>t, <1>p, <1>5 DEF CloneTypeOK, Reconcile
<1> QED
  BY <1>6, <1>7 DEF CloneTypeInv

LEMMA CloneTypeNext == CloneTypeInv /\ [CloneNext]_cloneVars => CloneTypeInv'
<1> SUFFICES ASSUME CloneTypeInv, [CloneNext]_cloneVars PROVE CloneTypeInv'
  OBVIOUS
<1>1. CASE UNCHANGED cloneVars
  BY <1>1 DEF cloneVars, CloneTypeInv, CloneTypeOK, GenBound, Attached, Reconciled
<1> QED
  <2>1. ASSUME ServerDies \/ \E j \in CliJobs : CliDies(j)
        PROVE  CloneTypeInv'
    <3>1. CASE ServerDies
      BY <3>1, DeathKeepsType DEF ServerDies, Jobs
    <3>2. CASE \E j \in CliJobs : CliDies(j)
      BY <3>2, DeathKeepsType DEF CliDies, Jobs
    <3> QED
      BY <2>1, <3>1, <3>2
  <2> QED
    BY <1>1, <2>1, AttachKeepsType, JobStepKeepsType, BootKeepsType, ReconcileKeepsType
       DEF CloneNext

\* However many attaches, crashes and detaches: the generations stay in their
\* bound, and who holds the publish lock is a server job between its check and
\* its outcome (code.rs, publish_lock).
THEOREM CloneTypeHolds == CloneSpec => []CloneTypeOK
<1>1. CloneTypeInv => CloneTypeOK
  BY DEF CloneTypeInv
<1> QED
  BY <1>1, CloneTypeInit, CloneTypeNext, PTL DEF CloneSpec

----------------------------------------------------------------------------
(* Generations.                                                            *)

LEMMA AttachStarts ==
    ASSUME CloneTypeOK, NEW j \in Jobs, Attach(j)
    PROVE  /\ job[j].pc = "idle" /\ job'[j].pc = "prepare"
           /\ \A i \in Jobs \ {j} : job'[i] = job[i]
           /\ row' = [gen |-> job'[j].gen, job |-> j, status |-> "cloning", by |-> NoJob]
           /\ job'[j].gen = IF row = NoRow THEN 0 ELSE row.gen + 1
           /\ UNCHANGED <<repo, staging, locks, publish, server, detach, crashes, detaches>>
BY DEF CloneTypeOK, Attach, ProcessUnchanged

\* A step that is of no job: what it does to the jobs is that some die.
LEMMA OthersKeepJobs ==
    ASSUME CloneTypeOK,
           \/ ServerDies \/ \E j \in CliJobs : CliDies(j)
           \/ Boot \/ Sweep \/ Reconcile \/ DetachRepo \/ DetachRow \/ DetachCut
           \/ UNCHANGED cloneVars
    PROVE  /\ JobsKept
           /\ \A i \in Jobs : job'[i] = job[i] \/ job'[i].pc = "dead"
<1>1. CASE ServerDies
  BY <1>1, DeathKeepsJobs DEF ServerDies, Jobs
<1>2. CASE \E j \in CliJobs : CliDies(j)
  BY <1>2, DeathKeepsJobs DEF CliDies, Jobs
<1>3. CASE UNCHANGED job
  BY <1>3 DEF JobsKept
<1> QED
  BY <1>1, <1>2, <1>3 DEF Boot, Sweep, Reconcile, Interrupted, DetachRepo, DetachRow, DetachCut, cloneVars

LEMMA ReusedStays ==
    ASSUME CloneTypeOK, Reused, [CloneNext]_cloneVars
    PROVE  Reused'
<1>1. ASSUME JobsKept PROVE Reused'
  BY <1>1 DEF Reused, JobsKept
<1>2. ASSUME NEW j \in Jobs, Attach(j) PROVE Reused'
  BY <1>2, AttachStarts DEF Reused
<1> QED
  BY <1>1, <1>2, StepKeepsJobs, OthersKeepJobs DEF CloneNext

\* The guard of a job's writes of the row lets the row's own job through only.
LEMMA CurrentIsOwner ==
    ASSUME CloneTypeOK, GensGrow, NEW j \in Jobs, job[j].pc # "idle", Current(j)
    PROVE  row # NoRow /\ row.job = j
BY DEF CloneTypeOK, CodeRow, GensGrow, Current, Attached, Gens

LEMMA GensGrowNext ==
    ASSUME CloneTypeOK, GensGrow, ~Reused', [CloneNext]_cloneVars
    PROVE  GensGrow'
<1>n. /\ \A j \in Jobs : job[j].gen \in Nat
      /\ row # NoRow => row.job \in Jobs /\ row.gen \in Nat
  BY DEF CloneTypeOK, Gens, CodeRow
<1>1. ASSUME NEW j \in Jobs, Attach(j) PROVE GensGrow'
  <2>1. Attached' = Attached \cup {j} /\ j \notin Attached
    BY <1>1, AttachStarts DEF Attached
  <2>2. \A i \in Attached : job'[i] = job[i]
    BY <1>1, <2>1, AttachStarts DEF Attached
  <2>3. row = NoRow => Attached = {}
    <3> SUFFICES ASSUME row = NoRow, Attached # {} PROVE FALSE
      OBVIOUS
    <3>1. PICK i \in Attached : job[i].gen = 0
      BY DEF GensGrow
    <3>2. job'[j].gen = 0 /\ job'[i].gen = 0 /\ i # j
      BY <1>1, <2>1, <2>2, <3>1, AttachStarts
    <3> QED
      BY <2>1, <3>2 DEF Reused, Attached
  <2>4. row' # NoRow => row'.job = j /\ row'.gen = job'[j].gen /\ row'.status = "cloning"
                        /\ row'.by = NoJob
    BY <1>1, AttachStarts
  <2>5. job'[j].gen \in Nat /\ \A i \in Attached : job'[i].gen < job'[j].gen
    <3>1. CASE row = NoRow
      BY <1>1, <2>3, <3>1, AttachStarts
    <3>2. CASE row # NoRow
      <4>1. job'[j].gen = row.gen + 1 /\ job[row.job].gen <= row.gen
        BY <1>1, <3>2, AttachStarts DEF GensGrow
      <4>2. \A i \in Attached : job[i].gen <= job[row.job].gen
        BY <1>n, <3>2 DEF GensGrow, Attached
      <4> QED
        BY <1>n, <2>2, <3>2, <4>1, <4>2 DEF Attached
    <3> QED
      BY <3>1, <3>2
  <2>6. \E i \in Attached' : job'[i].gen = 0
    <3>1. CASE row = NoRow
      BY <1>1, <2>1, <3>1, AttachStarts
    <3>2. CASE row # NoRow
      <4>1. PICK i \in Attached : job[i].gen = 0
        BY <1>n, <3>2 DEF GensGrow, Attached
      <4> QED
        BY <2>1, <2>2, <4>1
    <3> QED
      BY <3>1, <3>2
  <2>7. job'[j].pc = "prepare" /\ \A i \in Jobs \ {j} : job'[i] = job[i]
    BY <1>1, AttachStarts
  <2> QED
    BY <2>1, <2>4, <2>5, <2>6, <2>7 DEF GensGrow
<1>2. ASSUME JobsKept,
             \/ row' = row \/ row' = NoRow
             \/ /\ row # NoRow /\ row'.job = row.job /\ row'.gen = row.gen /\ row'.by = row.job
                /\ row'.status = "error" \/ (row'.status = "ready" /\ job'[row.job].pc = "recorded")
             \/ /\ row # NoRow /\ row'.job = row.job /\ row'.gen = row.gen + 1 /\ row'.by = row.by
                /\ row'.status = "error"
      PROVE  GensGrow'
  <2>1. Attached' = Attached /\ \A i \in Jobs : job'[i].gen = job[i].gen
    BY <1>2 DEF Attached, JobsKept
  <2>2. row # NoRow => job[row.job].gen <= row.gen + 1
    BY <1>n DEF GensGrow
  <2>3. \A i \in Jobs : job[i].pc = "idle" <=> job'[i].pc = "idle"
    BY <1>2 DEF JobsKept
  <2>4. \A i \in Jobs : job[i].pc = "recorded" => job'[i].pc = "recorded"
    BY <1>2 DEF JobsKept, Ended
  <2>5. /\ \A i \in Jobs : job'[i].pc = "idle" => job'[i].gen = 0
        /\ Attached' # {} => \E i \in Attached' : job'[i].gen = 0
    BY <2>1, <2>3 DEF GensGrow, Attached
  <2>6. row # NoRow => \A i \in Attached' \ {row.job} : job'[i].gen < job'[row.job].gen
    BY <1>n, <2>1 DEF GensGrow, Attached
  <2>7. CASE row' = row
    BY <1>n, <2>1, <2>3, <2>4, <2>5, <2>6, <2>7 DEF GensGrow
  <2>8. CASE row' = NoRow
    BY <2>5, <2>8 DEF GensGrow
  <2>9. CASE /\ row # NoRow /\ row'.job = row.job /\ row'.gen \in {row.gen, row.gen + 1}
             /\ row'.by \in {row.job, NoJob}
             /\ row'.status = "error" \/ (row'.status = "ready" /\ job'[row.job].pc = "recorded")
    BY <1>n, <2>1, <2>2, <2>3, <2>5, <2>6, <2>9 DEF GensGrow
  <2> QED
    BY <1>2, <2>7, <2>8, <2>9 DEF GensGrow
<1>3. ASSUME NEW j \in Jobs, JobStep(j) PROVE GensGrow'
  <2>1. JobsKept /\ job[j].pc # "idle"
    BY <1>3, StepKeepsJobs, StepMoves, StagesApart
  <2>2. ASSUME row' # row
        PROVE  /\ row # NoRow /\ row'.job = row.job /\ row'.gen = row.gen /\ row'.by = row.job
               /\ row'.status = "error" \/ (row'.status = "ready" /\ job'[row.job].pc = "recorded")
    <3>1. Current(j) /\ (Record(j) \/ RecordError(j))
      BY <1>3, <2>2 DEF JobStep, Prepare, GitDone, GitFails, TakePublish, CheckGen, RemoveOld,
         Place, Record, Withdraw, RecordError
    <3>2. row # NoRow /\ row.job = j /\ row \in CodeRow
      BY <2>1, <3>1, CurrentIsOwner DEF CloneTypeOK
    <3>3. CASE Record(j)
      <4>1. row' = [row EXCEPT !.status = "ready", !.by = j] /\ Goto(j, "recorded")
        BY <2>2, <3>3 DEF Record
      <4>2. job'[j].pc = "recorded"
        BY <4>1, Went DEF Stages, Ended
      <4> QED
        BY <3>2, <4>1, <4>2 DEF CodeRow
    <3>4. CASE RecordError(j)
      <4>1. row' = [row EXCEPT !.status = "error", !.by = j]
        BY <2>2, <3>4 DEF RecordError
      <4> QED
        BY <3>2, <4>1 DEF CodeRow
    <3> QED
      BY <3>1, <3>3, <3>4
  <2> QED
    BY <2>1, <2>2, <1>2
<1>4. ASSUME \/ ServerDies \/ \E j \in CliJobs : CliDies(j)
             \/ Boot \/ Sweep \/ Reconcile \/ DetachRepo \/ DetachRow \/ DetachCut
             \/ UNCHANGED cloneVars
      PROVE  GensGrow'
  <2>1. JobsKept
    BY <1>4, OthersKeepJobs
  <2>2. CASE Reconcile
    BY <2>1, <2>2, <1>2 DEF Reconcile, Interrupted, CloneTypeOK, CodeRow
  <2>3. row' = row \/ row' = NoRow \/ Reconcile
    BY <1>4 DEF ServerDies, CliDies, Dies, Boot, Sweep, DetachRepo, DetachRow, DetachCut,
       cloneVars
  <2> QED
    BY <2>1, <2>2, <2>3, <1>2
<1> QED
  BY <1>1, <1>3, <1>4 DEF CloneNext

----------------------------------------------------------------------------
(* Locks and checkouts.                                                    *)

\* A job's step writes the lock and the staging directory of its own
\* generation only.
LEMMA OwnGeneration ==
    ASSUME CloneTypeOK, NEW j \in Jobs, JobStep(j), NEW g \in Gens, g # job[j].gen
    PROVE  locks'[g] = locks[g] /\ staging'[g] = staging[g]
<1>1. UNCHANGED locks \/ \E l : locks' = [locks EXCEPT ![job[j].gen] = l]
  BY DEF JobStep, Prepare, GitDone, GitFails, TakePublish, CheckGen, RemoveOld, Place,
     Record, Withdraw, RecordError, Released
<1>2. UNCHANGED staging \/ \E s : staging' = [staging EXCEPT ![job[j].gen] = s]
  BY DEF JobStep, Prepare, GitDone, GitFails, TakePublish, CheckGen, RemoveOld, Place,
     Record, Withdraw, RecordError, StagingBecomes
<1> QED
  BY <1>1, <1>2 DEF CloneTypeOK

LEMMA StagedNext ==
    ASSUME CloneTypeOK, Staged, ~Reused, [CloneNext]_cloneVars
    PROVE  Staged'
<1> DEFINE Kept(i) ==
      /\ job'[i].pc \in {"git", "queue", "check", "remove", "place"} =>
             locks'[job'[i].gen] = i
      /\ job'[i].pc \in {"queue", "check", "remove", "place"} =>
             staging'[job'[i].gen] = [job |-> i, whole |-> TRUE]
<1>s. (\A i \in Jobs : Kept(i)) => Staged'
  BY DEF Staged, Staging
<1>g. \A i \in Jobs : job[i].gen \in Gens /\ job[i].pc \in Stages
  BY DEF CloneTypeOK, Stages
<1>1. ASSUME NEW j \in Jobs, Attach(j) PROVE Staged'
  BY <1>1, <1>s, AttachStarts DEF Staged, Staging
<1>2. ASSUME NEW j \in Jobs, JobStep(j) PROVE Staged'
  <2>1. ASSUME NEW i \in Jobs \ {j} PROVE Kept(i)
    <3>1. job'[i] = job[i] /\ job[j].pc # "idle"
      BY <1>2, StepKeepsJobs, StepMoves, StagesApart
    <3>2. job[i].pc # "idle" => job[i].gen # job[j].gen
      BY <3>1 DEF Reused
    <3>3. job[i].pc # "idle" => /\ locks'[job[i].gen] = locks[job[i].gen]
                                /\ staging'[job[i].gen] = staging[job[i].gen]
      BY <1>2, <1>g, <3>2, OwnGeneration
    <3> QED
      BY <3>1, <3>3 DEF Staged, Staging
  <2> DEFINE Off == {"fail", "record", "withdraw", "superseded", "recorded", "withdrawn",
                     "failed", "unrecorded"}
  <2>2. ASSUME NEW pc \in Off, Goto(j, pc) PROVE Kept(j)
    <3>1. pc \in Stages /\ pc \notin {"git", "queue", "check", "remove", "place"}
      BY DEF Stages, Running, Publishing, Ended
    <3> QED
      BY <2>2, <3>1, Went
  <2>3. ASSUME NEW pc \in {"check", "remove", "place"}, Goto(j, pc),
               job[j].pc \in {"queue", "check", "remove"}, UNCHANGED <<locks, staging>>
        PROVE  Kept(j)
    BY <2>3, Went, StagesApart DEF Staged, Staging, Publishing
  <2>4. ASSUME Prepare(j) \/ GitDone(j) PROVE Kept(j)
    <3>1. ASSUME Prepare(j), Goto(j, "git") PROVE Kept(j)
      <4>1. job'[j].pc = "git" /\ job'[j].gen = job[j].gen
        BY <3>1, Went DEF Stages, Running, Cloning
      <4>2. locks'[job[j].gen] = j
        BY <3>1, <4>1, <1>g DEF Prepare, CloneTypeOK, Goto
      <4> QED
        BY <4>1, <4>2
    <3>2. ASSUME GitDone(j) PROVE Kept(j)
      <4>1. job'[j].pc = "queue" /\ job'[j].gen = job[j].gen
        BY <3>2, Went DEF GitDone, Stages, Running, Cloning
      <4>2. staging'[job[j].gen] = [job |-> j, whole |-> TRUE] /\ locks'[job[j].gen] = j
        BY <3>2, <1>g DEF GitDone, StagingBecomes, CloneTypeOK, Staged
      <4> QED
        BY <4>1, <4>2
    <3> QED
      BY <2>2, <2>4, <3>1, <3>2 DEF Prepare
  <2>5. ASSUME TakePublish(j) \/ RemoveOld(j) PROVE Kept(j)
    BY <2>3, <2>5 DEF TakePublish, RemoveOld
  <2>6. ASSUME CheckGen(j) PROVE Kept(j)
    BY <2>2, <2>3, <2>6 DEF CheckGen
  <2>7. ASSUME GitFails(j) \/ Place(j) \/ Record(j) \/ Withdraw(j) \/ RecordError(j)
        PROVE  Kept(j)
    BY <2>2, <2>7 DEF GitFails, Place, Record, Withdraw, RecordError
  <2> QED
    BY <1>2, <1>s, <2>1, <2>4, <2>5, <2>6, <2>7 DEF JobStep
<1>3. CASE Sweep
  <2>1. \A i \in Jobs : job[i].pc \in {"git", "queue", "check", "remove", "place"} =>
            LockAlive(job[i].gen)
    BY CloneAssumption, StagesApart DEF Staged, LockAlive, Running, Cloning, Publishing, Jobs
  <2>2. \A g \in Gens : LockAlive(g) => locks'[g] = locks[g] /\ staging'[g] = staging[g]
    BY <1>3 DEF Sweep
  <2> QED
    BY <1>3, <1>g, <1>s, <2>1, <2>2 DEF Sweep, Staged, Staging
<1>4. ASSUME \/ ServerDies \/ \E j \in CliJobs : CliDies(j)
             \/ Boot \/ Reconcile \/ DetachRepo \/ DetachRow \/ DetachCut
             \/ UNCHANGED cloneVars
      PROVE  Staged'
  <2>1. UNCHANGED <<locks, staging>>
    BY <1>4 DEF ServerDies, CliDies, Dies, Boot, Reconcile, Interrupted, DetachRepo, DetachRow, DetachCut,
       cloneVars
  <2>2. \A i \in Jobs : job'[i] = job[i] \/ job'[i].pc = "dead"
    BY <1>4, OthersKeepJobs
  <2> QED
    BY <1>s, <2>1, <2>2 DEF Staged, Staging
<1> QED
  BY <1>1, <1>2, <1>3, <1>4 DEF CloneNext

----------------------------------------------------------------------------
(* The publish section.                                                    *)

\* A job's step leaves the row with its attach and its generation.
LEMMA StepKeepsRow ==
    ASSUME CloneTypeOK, GensGrow, NEW j \in Jobs, JobStep(j), row' # NoRow
    PROVE  /\ row # NoRow /\ row'.job = row.job
           /\ row.job # j => row' = row
<1>1. CASE row' = row
  BY <1>1
<1>2. CASE row' # row
  <2>1. /\ Current(j) /\ \E st : row' = [row EXCEPT !.status = st, !.by = j]
        /\ job[j].pc # "idle"
    BY <1>2, Zenon DEF JobStep, Prepare, GitDone, GitFails, TakePublish, CheckGen, RemoveOld,
       Place, Record, Withdraw, RecordError
  <2>2. row # NoRow /\ row.job = j /\ row \in CodeRow
    BY <2>1, CurrentIsOwner DEF CloneTypeOK
  <2> QED
    BY <2>1, <2>2 DEF CodeRow
<1> QED
  BY <1>1, <1>2

\* The lock changes hands only through its holder, or from nobody.
LEMMA LockKept ==
    ASSUME CloneTypeOK, NEW j \in Jobs, JobStep(j), publish # NoJob, publish # j
    PROVE  publish' = publish
BY CloneAssumption DEF JobStep, Prepare, GitDone, GitFails, TakePublish, CheckGen, RemoveOld,
   Place, Record, Withdraw, RecordError, Released

LEMMA SerialNext ==
    ASSUME CloneTypeOK, GensGrow, Serial, [CloneNext]_cloneVars
    PROVE  Serial'
<1> DEFINE Holds(i) == job[i].pc \in Publishing => publish = i
           Outlived(i) == (row # NoRow /\ row.job # i /\ row.job \in ServerJobs
                           /\ job[i].pc \in Past) => job[row.job].pc # "recorded"
<1>s. (\A i \in ServerJobs : Holds(i)' /\ Outlived(i)') => Serial'
  BY DEF Serial
<1>h. \A i \in ServerJobs : Holds(i) /\ Outlived(i) /\ i \in Jobs /\ i # NoJob
  BY CloneAssumption DEF Serial, Jobs
<1>1. ASSUME NEW j \in Jobs, Attach(j) PROVE Serial'
  <2>1. /\ job'[j].pc = "prepare" /\ "prepare" \notin Publishing /\ row'.job = j
        /\ UNCHANGED publish /\ \A i \in Jobs \ {j} : job'[i] = job[i]
    BY <1>1, AttachStarts DEF Publishing
  <2> QED
    BY <1>h, <1>s, <2>1
<1>2. ASSUME NEW j \in Jobs, JobStep(j) PROVE Serial'
  <2>1. /\ \A i \in Jobs \ {j} : job'[i] = job[i]
        /\ job[j].pc # "idle"
    BY <1>2, StepKeepsJobs, StepMoves, StagesApart
  <2>2. ASSUME NEW i \in ServerJobs PROVE Holds(i)'
    <3>1. CASE i # j
      BY <1>2, <1>h, <2>1, <3>1, LockKept
    <3>2. CASE i = j /\ job'[j].pc \in Publishing
      <4>1. ASSUME NEW pc \in {"superseded", "fail", "recorded", "unrecorded", "withdrawn",
                               "failed", "git", "queue"}, Goto(j, pc)
            PROVE  FALSE
        <5>1. pc \in Stages /\ pc \notin Publishing
          BY DEF Stages, Running, Cloning, Publishing, Ended
        <5> QED
          BY <3>2, <4>1, <5>1, Went
      <4>2. CASE TakePublish(j)
        BY <3>2, <4>2 DEF TakePublish
      <4>3. CASE CheckGen(j) \/ RemoveOld(j) \/ Place(j) \/ Record(j)
        <5>1. publish' = publish /\ job[j].pc \in Publishing
          BY <4>1, <4>3 DEF CheckGen, RemoveOld, Place, Record, Publishing
        <5> QED
          BY <1>h, <3>2, <5>1
      <4> QED
        BY <1>2, <4>1, <4>2, <4>3 DEF JobStep, Prepare, GitDone, GitFails, Withdraw, RecordError
    <3> QED
      BY <3>1, <3>2
  <2>3. ASSUME NEW i \in ServerJobs, row' # NoRow, row'.job # i, row'.job \in ServerJobs,
               job'[i].pc \in Past
        PROVE  job'[row'.job].pc # "recorded"
    <3>1. row # NoRow /\ row'.job = row.job /\ row.job \in Jobs
      BY <1>2, <2>3, StepKeepsRow DEF Jobs
    <3>2. job[i].pc \in Past
      <4>1. CASE i # j
        BY <1>h, <2>1, <2>3, <4>1
      <4>2. CASE i = j
        <5>1. ~Current(j)
          BY <1>2, <2>1, <2>3, <3>1, <4>2, CurrentIsOwner
        <5>2. ASSUME NEW pc \in {"superseded", "fail", "recorded", "unrecorded", "withdrawn",
                                 "failed", "git", "queue", "check"}, Goto(j, pc)
              PROVE  FALSE
          <6>1. pc \in Stages /\ pc \notin Past
            BY DEF Stages, Running, Cloning, Publishing, Ended, Past
          <6> QED
            BY <2>3, <4>2, <5>2, <6>1, Went
        <5> QED
          BY <1>2, <4>2, <5>1, <5>2 DEF JobStep, Prepare, GitDone, GitFails, TakePublish,
             CheckGen, RemoveOld, Place, Record, Withdraw, RecordError, Past
      <4> QED
        BY <4>1, <4>2
    <3>3. publish = i
      BY <1>h, <3>2, StagesApart
    <3>4. CASE row.job # j
      BY <1>h, <2>1, <2>3, <3>1, <3>2, <3>4
    <3>5. CASE row.job = j
      <4>1. job[j].pc \notin Publishing
        BY <1>h, <2>3, <3>1, <3>3, <3>5
      <4>2. ~Record(j)
        BY <4>1 DEF Record, Publishing
      <4>3. ASSUME NEW pc \in Stages \ {"recorded"}, Goto(j, pc)
            PROVE  job'[j].pc # "recorded"
        BY <4>3, Went
      <4>4. {"git", "fail", "queue", "check", "superseded", "remove", "place", "record",
             "withdraw", "withdrawn", "failed", "unrecorded"} \subseteq Stages \ {"recorded"}
        BY DEF Stages, Running, Cloning, Publishing, Ended
      <4>5. job'[j].pc # "recorded"
        BY <1>2, <4>2, <4>3, <4>4 DEF JobStep, Prepare, GitDone, GitFails, TakePublish,
           CheckGen, RemoveOld, Place, Withdraw, RecordError
      <4> QED
        BY <3>1, <3>5, <4>5
    <3> QED
      BY <3>4, <3>5
  <2> QED
    BY <1>s, <2>2, <2>3
<1>3. ASSUME \/ ServerDies \/ \E j \in CliJobs : CliDies(j)
             \/ Boot \/ Sweep \/ Reconcile \/ DetachRepo \/ DetachRow \/ DetachCut
             \/ UNCHANGED cloneVars
      PROVE  Serial'
  <2>1. /\ \A i \in Jobs : job'[i] = job[i] \/ job'[i].pc = "dead"
        /\ "dead" \notin Publishing /\ "dead" \notin Past
    BY <1>3, OthersKeepJobs DEF Publishing, Past
  <2>2. row' # NoRow => row # NoRow /\ row'.job = row.job
    <3>1. row' \in {row, NoRow} \/ Reconcile
      BY <1>3 DEF ServerDies, CliDies, Dies, Boot, Sweep, DetachRepo, DetachRow,
         DetachCut, cloneVars
    <3>2. CASE Reconcile
      <4>1. row' = row \/ (row # NoRow /\ row' = [row EXCEPT !.status = "error", !.gen = row.gen + 1])
        BY <3>2 DEF Reconcile, Interrupted
      <4>2. ASSUME row # NoRow, row' = [row EXCEPT !.status = "error", !.gen = row.gen + 1]
            PROVE  row'.job = row.job
        <5>1. row \in CodeRow
          BY <1>h, <4>2 DEF CloneTypeOK
        <5> QED
          BY <4>2, <5>1 DEF CodeRow
      <4> QED
        BY <4>1, <4>2
    <3> QED
      BY <3>1, <3>2
  <2>3. ASSUME NEW i \in ServerJobs, job'[i].pc \in Publishing PROVE publish' = i
    <3>1. job'[i] = job[i] /\ publish = i
      BY <1>h, <2>1, <2>3
    <3>2. CASE ServerDies
      <4>1. i \in Jobs /\ job[i].pc \in Running
        BY <2>3, <3>1, StagesApart DEF Jobs
      <4>2. job'[i] = [job[i] EXCEPT !.pc = "dead"]
        BY <3>2, <4>1 DEF ServerDies, Dies
      <4>3. job[i] \in [pc : Stages, gen : Gens]
        BY <1>h, <4>1 DEF CloneTypeOK, Stages
      <4> QED
        BY <2>1, <2>3, <4>2, <4>3
    <3>3. CASE \E j \in CliJobs : CliDies(j)
      BY <3>1, <3>3, CloneAssumption DEF CliDies, Dies
    <3>4. CASE Boot \/ Sweep \/ DetachRepo \/ DetachRow \/ DetachCut \/ UNCHANGED cloneVars
      BY <3>1, <3>4 DEF Boot, Sweep, DetachRepo, DetachRow, DetachCut, cloneVars
    <3>5. CASE Reconcile
      BY <3>1, <3>5 DEF Reconcile
    <3> QED
      BY <1>3, <3>2, <3>3, <3>4, <3>5
  <2>4. ASSUME NEW i \in ServerJobs PROVE Outlived(i)'
    BY <1>h, <2>1, <2>2 DEF Jobs
  <2> QED
    BY <1>s, <2>3, <2>4
<1> QED
  BY <1>1, <1>2, <1>3 DEF CloneNext

----------------------------------------------------------------------------
(* What the agent is shown.                                                *)

\* What a job past its check may do to another's checkout stays excused.
LEMMA SpoiltStays ==
    ASSUME CloneTypeOK, GensGrow, Spoilt, row # NoRow, row' # NoRow, row'.job = row.job,
           \/ \E j \in Jobs : JobStep(j)
           \/ \A i \in Jobs : job'[i] = job[i] \/ job'[i].pc = "dead"
    PROVE  Spoilt'
<1> DEFINE Late == Past \cup {"fail", "failed", "withdrawn", "unrecorded", "dead"}
<1>1. PICK i \in Jobs \ {row.job} : {i, row.job} \cap CliJobs # {} /\ job[i].pc \in Late
  BY DEF Spoilt
<1>2. CASE \A k \in Jobs : job'[k] = job[k] \/ job'[k].pc = "dead"
  BY <1>1, <1>2 DEF Spoilt
<1>3. ASSUME NEW j \in Jobs, JobStep(j), j # i PROVE Spoilt'
  BY <1>1, <1>3, StepKeepsJobs DEF Spoilt
<1>4. CASE JobStep(i)
  <2>1. ~Current(i)
    BY <1>1, <1>4, StepMoves, StagesApart, CurrentIsOwner
  <2>2. ASSUME NEW pc \in Late, Goto(i, pc) PROVE job'[i].pc \in Late
    <3>1. pc \in Stages
      BY DEF Stages, Running, Publishing, Ended, Past
    <3> QED
      BY <2>2, <3>1, Went
  <2>3. job'[i].pc \in Late
    BY <1>1, <1>4, <2>1, <2>2 DEF JobStep, Prepare, GitDone, GitFails, TakePublish,
       CheckGen, RemoveOld, Place, Record, Withdraw, RecordError, Past
  <2> QED
    BY <1>1, <2>3 DEF Spoilt
<1> QED
  BY <1>2, <1>3, <1>4

LEMMA ShownNext ==
    ASSUME CloneTypeOK, Ordered, [CloneNext]_cloneVars
    PROVE  Shown'
<1> USE DEF Ordered
<1>1. ASSUME NEW j \in Jobs, Attach(j) PROVE Shown'
  BY <1>1, AttachStarts DEF Shown
<1>2. ASSUME NEW j \in Jobs, JobStep(j) PROVE Shown'
  <2> SUFFICES ASSUME row' # NoRow,
                      row'.status = "ready" \/ job'[row'.job].pc = "record",
                      ~(detach'.pc # "idle" /\ detach'.job = row'.job), ~Spoilt'
               PROVE  repo' = [job |-> row'.job, whole |-> TRUE]
    BY DEF Shown
  <2>1. /\ row # NoRow /\ row'.job = row.job /\ row.job \in Jobs
        /\ row.job # j => row' = row
    BY <1>2, StepKeepsRow DEF CloneTypeOK, CodeRow
  <2>2. ~Spoilt
    BY <1>2, <2>1, SpoiltStays
  <2>3. UNCHANGED detach
    BY <1>2 DEF JobStep, Prepare, GitDone, GitFails, TakePublish, CheckGen, RemoveOld, Place,
       Record, Withdraw, RecordError, ProcessUnchanged
  <2>4. \A i \in Jobs \ {j} : job'[i] = job[i]
    BY <1>2, StepKeepsJobs
  <2>5. job[j].pc \in Running
    BY <1>2, StepMoves
  <2>6. CASE row.job # j
    <3>1. repo = [job |-> row.job, whole |-> TRUE]
      BY <2>1, <2>2, <2>3, <2>4, <2>6 DEF Shown
    <3>2. ASSUME repo' # repo PROVE FALSE
      <4>1. /\ job[j].pc \in {"remove", "place", "withdraw"}
            /\ Goto(j, "place") \/ Goto(j, "record") \/ Goto(j, "withdrawn")
        BY <1>2, <3>2 DEF JobStep, Prepare, GitDone, GitFails, TakePublish, CheckGen,
           RemoveOld, Place, Record, Withdraw, RecordError
      <4>2. job'[j].pc \in {"place", "record", "withdrawn"}
        BY <4>1, Went DEF Stages, Running, Publishing, Ended
      <4>3. j \in ServerJobs /\ row.job \in ServerJobs
        BY <2>1, <2>6, <4>2 DEF Spoilt, Jobs, Past
      <4>4. job[j].pc \in Past /\ job[j].pc \in Publishing
        BY <4>1 DEF Past, Publishing
      <4>5. row.status # "ready"
        BY <2>1, <2>6, <4>3, <4>4 DEF Serial, GensGrow
      <4>6. job[row.job].pc = "record"
        BY <2>1, <2>4, <2>6, <4>5
      <4> QED
        BY <2>6, <4>3, <4>4, <4>6 DEF Serial, Publishing
    <3> QED
      BY <2>1, <3>1, <3>2
  <2>7. CASE row.job = j
    <3>1. row.status # "ready"
      <4>1. job[j].pc # "recorded"
        BY <2>5, StagesApart DEF Ended
      <4> QED
        BY <2>1, <2>7, <4>1 DEF GensGrow
    <3>2. CASE Place(j) /\ job'[j].pc = "record"
      <4>1. Goto(j, "record") \/ Goto(j, "fail")
        BY <3>2 DEF Place
      <4>2. ~Goto(j, "fail")
        BY <3>2, Went DEF Stages, Running
      <4>3. repo' = Staging(j) /\ job[j].pc = "place"
        BY <3>2, <4>1, <4>2 DEF Place
      <4> QED
        BY <2>1, <2>7, <4>3 DEF Staged
    <3>3. CASE Record(j)
      BY <2>1, <2>2, <2>3, <2>7, <3>3 DEF Shown, Record
    <3>4. CASE ~Place(j) /\ ~Record(j)
      <4>1. row' = row \/ row'.status = "error"
        BY <1>2, <2>1, <3>4 DEF JobStep, Prepare, GitDone, GitFails, TakePublish, CheckGen,
           RemoveOld, Withdraw, RecordError, CloneTypeOK, CodeRow
      <4>2. ASSUME NEW pc \in Stages \ {"record"}, Goto(j, pc)
            PROVE  job'[j].pc # "record"
        BY <4>2, Went
      <4>3. {"git", "fail", "queue", "check", "superseded", "remove", "place",
             "withdrawn", "failed", "unrecorded"} \subseteq Stages \ {"record"}
        BY DEF Stages, Running, Cloning, Publishing, Ended
      <4>4. job'[j].pc # "record"
        BY <1>2, <3>4, <4>2, <4>3 DEF JobStep, Prepare, GitDone, GitFails, TakePublish,
           CheckGen, RemoveOld, Withdraw, RecordError
      <4> QED
        BY <2>1, <2>7, <3>1, <4>1, <4>4
    <3>5. CASE Place(j) /\ job'[j].pc # "record"
      BY <2>1, <2>7, <3>1, <3>5 DEF Place
    <3> QED
      BY <3>2, <3>3, <3>4, <3>5
  <2> QED
    BY <2>6, <2>7
<1>3. ASSUME \/ ServerDies \/ \E j \in CliJobs : CliDies(j)
             \/ Boot \/ Sweep \/ Reconcile \/ DetachCut \/ UNCHANGED cloneVars
      PROVE  Shown'
  <2>1. \A i \in Jobs : job'[i] = job[i] \/ job'[i].pc = "dead"
    BY <1>3, OthersKeepJobs
  <2>2. row' # NoRow => /\ row # NoRow /\ row'.job = row.job /\ row.job \in Jobs
                        /\ row'.status = "ready" => row.status = "ready"
    BY <1>3 DEF ServerDies, CliDies, Dies, Boot, Sweep, Reconcile, Interrupted, DetachCut, cloneVars,
       CloneTypeOK, CodeRow
  <2>3. /\ repo' = repo /\ detach'.job = detach.job
        /\ detach.pc # "idle" => detach'.pc # "idle"
    BY <1>3 DEF ServerDies, CliDies, Dies, Boot, Sweep, Reconcile, Interrupted, DetachCut, cloneVars,
       CloneTypeOK
  <2>4. Spoilt /\ row' # NoRow => Spoilt'
    BY <2>1, <2>2, SpoiltStays
  <2> QED
    BY <2>1, <2>2, <2>3, <2>4 DEF Shown
<1>4. CASE DetachRepo
  BY <1>4 DEF DetachRepo, Shown
<1>5. CASE DetachRow
  BY <1>5 DEF DetachRow, Shown
<1> QED
  BY <1>1, <1>2, <1>3, <1>4, <1>5 DEF CloneNext

----------------------------------------------------------------------------
(* The invariant, and what it gives.                                       *)

LEMMA CloneInvInit == CloneInit => CloneInv
<1> SUFFICES ASSUME CloneInit PROVE CloneInv
  OBVIOUS
<1>1. GensGrow
  BY DEF CloneInit, GensGrow, Attached
<1>2. Staged /\ Serial /\ Shown
  BY CloneAssumption DEF CloneInit, Staged, Serial, Shown, Jobs, Publishing, Past
<1> QED
  BY <1>1, <1>2, CloneTypeInit DEF CloneInv, Ordered

LEMMA CloneInvNext == CloneInv /\ [CloneNext]_cloneVars => CloneInv'
<1> SUFFICES ASSUME CloneInv, [CloneNext]_cloneVars PROVE CloneInv'
  OBVIOUS
<1>1. CloneTypeInv' /\ CloneTypeOK
  BY CloneTypeNext DEF CloneInv, CloneTypeInv
<1>2. CASE Reused
  BY <1>1, <1>2, ReusedStays DEF CloneInv
<1>3. CASE ~Reused /\ ~Reused' /\ Ordered
  BY <1>1, <1>3, GensGrowNext, StagedNext, SerialNext, ShownNext DEF CloneInv, Ordered
<1> QED
  BY <1>1, <1>2, <1>3 DEF CloneInv

\* The agent is never shown another attach's code, or none, as the ready row's
\* own, whatever attaches, detaches and deaths interleave (run_clone's publish
\* section); but for the excuses that ReadyHasCheckout names.
THEOREM ReadyHasCheckoutHolds == CloneSpec => []ReadyHasCheckout
<1>1. CloneInv => ReadyHasCheckout
  <2> SUFFICES ASSUME CloneInv, ~Reused, row # NoRow, row.status = "ready"
               PROVE  \/ repo = [job |-> row.job, whole |-> TRUE]
                      \/ detach.pc # "idle" /\ detach.job = row.job
                      \/ Overrun
    BY DEF ReadyHasCheckout
  <2>1. Spoilt => Overrun
    BY StagesApart DEF Spoilt, Overrun
  <2> QED
    BY <2>1 DEF CloneInv, Ordered, Shown
<1> QED
  BY <1>1, CloneInvInit, CloneInvNext, PTL DEF CloneSpec

\* No job's outcome reaches the row of another attach (migration 0018's
\* promise), as long as no generation is given twice.
THEOREM StaleDroppedHolds == CloneSpec => []StaleDroppedUnlessReused
<1>1. CloneInv => StaleDroppedUnlessReused
  BY DEF CloneInv, Ordered, GensGrow, StaleDroppedUnlessReused
<1> QED
  BY <1>1, CloneInvInit, CloneInvNext, PTL DEF CloneSpec

\* No boot's sweep takes the checkout of a clone that still runs, in whichever
\* process (sweep_staging and the pid locks).
THEOREM StagingHeldHolds == CloneSpec => []StagingHeld
<1>1. CloneInv => StagingHeld
  BY DEF CloneInv, Ordered, Staged, StagingHeld
<1> QED
  BY <1>1, CloneInvInit, CloneInvNext, PTL DEF CloneSpec

=============================================================================
