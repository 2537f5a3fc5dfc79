--------------------------- MODULE Screen_proofs ----------------------------
(***************************************************************************)
(* Proofs about what the user puts on papers and commands, and what the    *)
(* browser shows, for every set of papers, names, files, requests and      *)
(* bounds. A component has an inductive invariant of its own, for none     *)
(* reads the state of another: ShelfInv and CommandsInv for the library;   *)
(* PreviewInv, QueueInv, ViewInv and PanelInv for the screen.              *)
(***************************************************************************)
EXTENDS Shelf, Commands, Previews, LibraryView, ImportQueue, ChatPanel,
        FiniteSetTheorems, SequenceTheorems, WellFoundedInduction, TLAPS

----------------------------------------------------------------------------
(* What the user puts on papers.                                           *)

\* Ids are given in order, so that the next is nobody's.
IdsInOrder ==
    /\ \A t \in tags : t.id <= minted.tags
    /\ \A x \in projects : x.id <= minted.projects

ShelfInv == ShelfTypeOK /\ IdsInOrder /\ AnswersHold /\ TagsAreUsed

LEMMA ShelfInvInit == ShelfInit => ShelfInv
BY ShelfAssumption
   DEF ShelfInit, ShelfInv, ShelfTypeOK, IdsInOrder, AnswersHold, TagsAreUsed, TagIds, ProjectIds,
       ByHand, NoLink

\* The requests about tags.
LEMMA TaggingNext ==
    ASSUME ShelfInv,
           \/ \E p \in Cards, n \in TagNames : GetOrCreate(p, n)
           \/ LinkTag
           \/ \E p \in Cards, t \in TagIds : Unlink(p, t)
           \/ Collect
           \/ \E t \in tags : DeleteTag(t) \/ \E n \in TagNames : RenameTag(t, n)
    PROVE  ShelfInv'
<1> USE ShelfAssumption DEF ShelfInv, ShelfTypeOK, IdsInOrder, TagIds, ProjectIds
<1>1. ASSUME NEW p \in Cards, NEW n \in TagNames, GetOrCreate(p, n)
      PROVE  ShelfInv'
  <2> USE DEF GetOrCreate, projecting, byHand
  <2>1. CASE UNCHANGED <<tags, minted>>
    BY <1>1, <2>1 DEF AnswersHold, TagsAreUsed, There, NoLink
  <2>2. CASE minted' = [minted EXCEPT !.tags = @ + 1]
    <3>1. /\ minted.tags < MaxTags /\ minted'.tags = minted.tags + 1
          /\ minted'.projects = minted.projects
          /\ tags' = tags \cup {[id |-> minted'.tags, name |-> n]}
          /\ adding' = [card |-> p, tag |-> minted'.tags]
          /\ \A t \in tags : t.name # n
      BY <1>1, <2>2
    <3>2. minted' \in [tags : 0 .. MaxTags, projects : 0 .. MaxProjects]
      BY <2>2, <3>1
    <3>3. tags' \subseteq [id : TagIds, name : TagNames]
      BY <3>1
    <3>4. (\A t, u \in tags : t.id = u.id \/ t.name = u.name => t = u)'
      BY <3>1, <3>3
    <3>5. ShelfTypeOK'
      BY <1>1, <3>1, <3>2, <3>3, <3>4 DEF NoLink
    <3> QED
      BY <1>1, <3>1, <3>5 DEF AnswersHold, TagsAreUsed, There, NoLink
  <2> QED
    BY <1>1, <2>1, <2>2
<1>2. CASE LinkTag
  <2> USE DEF LinkTag, projecting, byHand, There, NoLink
  <2>1. CASE /\ There(adding.card) /\ \E t \in tags : t.id = adding.tag
             /\ links' = links \cup {<<adding.card, adding.tag>>}
             /\ given' = given \cup {<<adding.card, adding.tag>>}
             /\ stranded' = stranded \ {adding.tag}
    <3>1. adding.card \in Cards /\ adding.tag \in TagIds
      BY <1>2
    <3>2. ShelfTypeOK' /\ IdsInOrder'
      <4>1. UNCHANGED <<card, tags, removing, projects, members, minted, refreshing, changes,
                        written>> /\ adding' = NoLink
        BY <1>2
      <4>2. links' \subseteq {p \in Cards : card[p].at # "purged"} \X {t.id : t \in tags}
        BY <2>1, <3>1
      <4>3. given \subseteq Cards \X TagIds /\ stranded \subseteq TagIds
        OBVIOUS
      <4>4. given' \subseteq Cards \X TagIds
        BY <2>1, <3>1, <4>3
      <4>5. stranded' \subseteq TagIds
        BY <2>1, <4>3
      <4> QED
        BY <4>1, <4>2, <4>4, <4>5
    <3>3. AnswersHold'
      BY <1>2, <2>1 DEF AnswersHold
    <3>4. <<adding.card, adding.tag>> \in links'
      BY <2>1
    <3>5. TagsAreUsed'
      BY <1>2, <2>1, <3>4 DEF TagsAreUsed
    <3> QED
      BY <3>2, <3>3, <3>5
  <2>2. CASE Strands(adding.tag) /\ UNCHANGED <<links, given>>
    <3>1. adding.tag \in TagIds
      BY <1>2
    <3> QED
      BY <1>2, <2>2, <3>1 DEF Strands, Collectable, AnswersHold, TagsAreUsed
  <2> QED
    BY <1>2, <2>1, <2>2
<1>3. ASSUME NEW p \in Cards, NEW t \in TagIds, Unlink(p, t)
      PROVE  ShelfInv'
  BY <1>3 DEF Unlink, projecting, byHand, AnswersHold, TagsAreUsed, There, NoLink
<1>4. CASE Collect
  <2> USE DEF Collect, Collectable, projecting, byHand, AnswersHold, TagsAreUsed, There, NoLink
  <2>1. CASE Drops(removing) /\ UNCHANGED stranded
    BY <1>4, <2>1 DEF Drops
  <2>2. CASE Strands(removing) /\ UNCHANGED <<tags, links>>
    BY <1>4, <2>2 DEF Strands
  <2> QED
    BY <1>4, <2>1, <2>2
<1>5. ASSUME NEW t \in tags, DeleteTag(t)
      PROVE  ShelfInv'
  BY <1>5 DEF DeleteTag, projecting, byHand, AnswersHold, TagsAreUsed, There, NoLink
<1>6. ASSUME NEW t \in tags, NEW n \in TagNames, RenameTag(t, n)
      PROVE  ShelfInv'
  <2> DEFINE new == [t EXCEPT !.name = n]
  <2>1. new = [id |-> t.id, name |-> n] /\ new.id = t.id /\ new.name = n
    OBVIOUS
  <2>2. tags' = (tags \ {t}) \cup {new} /\ \A u \in tags \ {t} : u.name # n
    BY <1>6 DEF RenameTag
  <2> HIDE DEF new
  <2>3. tags' \subseteq [id : TagIds, name : TagNames]
    BY <2>1, <2>2
  <2>4. (\A u, v \in tags : u.id = v.id \/ u.name = v.name => u = v)'
    BY <2>1, <2>2
  <2>5. {u.id : u \in tags'} = {u.id : u \in tags}
    BY <2>1, <2>2
  <2>6. ShelfTypeOK'
    BY <1>6, <2>3, <2>4, <2>5 DEF RenameTag, projecting, byHand
  <2>7. IdsInOrder' /\ AnswersHold' /\ TagsAreUsed'
    BY <1>6, <2>1, <2>2 DEF RenameTag, projecting, byHand, AnswersHold, TagsAreUsed, There
  <2> QED
    BY <2>6, <2>7
<1> QED
  BY <1>1, <1>2, <1>3, <1>4, <1>5, <1>6

\* The requests about projects.
LEMMA ProjectingNext ==
    ASSUME ShelfInv,
           \/ \E p \in Cards, x \in projects : AddMember(p, x)
           \/ \E x \in projects : DeleteProject(x) \/ \E n \in ProjectNames : UpdateProject(x, n)
           \/ \E n \in ProjectNames : CreateProject(n)
           \/ \E m \in members : RemoveMember(m)
    PROVE  ShelfInv'
<1> USE ShelfAssumption
    DEF ShelfInv, ShelfTypeOK, IdsInOrder, TagIds, ProjectIds, AnswersHold, TagsAreUsed, There,
        tagging, byHand
<1>1. ASSUME NEW p \in Cards, NEW x \in projects, AddMember(p, x)
      PROVE  ShelfInv'
  BY <1>1 DEF AddMember
<1>2. ASSUME NEW x \in projects, DeleteProject(x)
      PROVE  ShelfInv'
  BY <1>2 DEF DeleteProject
<1>3. ASSUME NEW x \in projects, NEW n \in ProjectNames, UpdateProject(x, n)
      PROVE  ShelfInv'
  <2> DEFINE new == [x EXCEPT !.name = n]
  <2>1. new = [id |-> x.id, name |-> n] /\ new.id = x.id /\ new.name = n
    OBVIOUS
  <2>2. projects' = (projects \ {x}) \cup {new} /\ \A y \in projects \ {x} : y.name # n
    BY <1>3 DEF UpdateProject
  <2> HIDE DEF new
  <2>3. projects' \subseteq [id : ProjectIds, name : ProjectNames]
    BY <2>1, <2>2
  <2>4. (\A y, z \in projects : y.id = z.id \/ y.name = z.name => y = z)'
    BY <2>1, <2>2
  <2>5. {y.id : y \in projects'} = {y.id : y \in projects}
    BY <2>1, <2>2
  <2> QED
    BY <1>3, <2>1, <2>2, <2>3, <2>4, <2>5 DEF UpdateProject
<1>4. ASSUME NEW n \in ProjectNames, CreateProject(n)
      PROVE  ShelfInv'
  BY <1>4 DEF CreateProject
<1>5. ASSUME NEW m \in members, RemoveMember(m)
      PROVE  ShelfInv'
  BY <1>5 DEF RemoveMember
<1> QED
  BY <1>1, <1>2, <1>3, <1>4, <1>5

\* The writes of a paper's row.
LEMMA RowNext ==
    ASSUME ShelfInv,
           \/ \E p \in Cards :
                \/ \E v \in ByHand : WriteByHand(p, v)
                \/ ReadRow(p) \/ TrashCard(p) \/ RestoreCard(p) \/ DeleteCard(p)
           \/ UpdatePaper
    PROVE  ShelfInv'
<1> USE ShelfAssumption
    DEF ShelfInv, ShelfTypeOK, IdsInOrder, TagIds, ProjectIds, AnswersHold, TagsAreUsed, There,
        tagging, projecting, byHand, Change, NoLink
<1>1. ASSUME NEW p \in Cards, NEW v \in ByHand, WriteByHand(p, v)
      PROVE  ShelfInv'
  BY <1>1 DEF WriteByHand
<1>2. ASSUME NEW p \in Cards, ReadRow(p)
      PROVE  ShelfInv'
  BY <1>2 DEF ReadRow
<1>3. ASSUME NEW p \in Cards, TrashCard(p)
      PROVE  ShelfInv'
  BY <1>3 DEF TrashCard
<1>4. ASSUME NEW p \in Cards, RestoreCard(p)
      PROVE  ShelfInv'
  BY <1>4 DEF RestoreCard
<1>5. ASSUME NEW p \in Cards, DeleteCard(p)
      PROVE  ShelfInv'
  BY <1>5 DEF DeleteCard
<1>6. CASE UpdatePaper
  BY <1>6 DEF UpdatePaper
<1> QED
  BY <1>1, <1>2, <1>3, <1>4, <1>5, <1>6

LEMMA ShelfInvNext == ShelfInv /\ [ShelfNext]_shelfVars => ShelfInv'
<1> SUFFICES ASSUME ShelfInv, [ShelfNext]_shelfVars
             PROVE  ShelfInv'
  OBVIOUS
<1>1. CASE UNCHANGED shelfVars
  BY <1>1 DEF ShelfInv, ShelfTypeOK, IdsInOrder, AnswersHold, TagsAreUsed, There, shelfVars
<1>2. CASE ShelfNext
  BY <1>2, TaggingNext, ProjectingNext, RowNext DEF ShelfNext
<1> QED
  BY <1>1, <1>2

\* A membership of a live paper is one of the papers the project lists.
LEMMA MembersCounted ==
    ASSUME ShelfTypeOK, NEW x \in projects
    PROVE  ProjectCount(x) = Cardinality(ListedByProject(x))
<1> DEFINE S == ListedByProject(x)
           T == {m \in members : m[2] = x.id /\ m[1] \in Live}
           f == [p \in S |-> <<p, x.id>>]
<1>1. IsFiniteSet(S)
  <2>1. S \subseteq Cards
    BY DEF ListedByProject, Live
  <2> QED
    BY <2>1, FS_Subset, ShelfAssumption
<1>2. f \in Bijection(S, T)
  <2>1. f \in [S -> T]
    BY DEF ListedByProject
  <2>2. \A p, q \in S : f[p] = f[q] => p = q
    OBVIOUS
  <2>3. \A m \in T : \E p \in S : f[p] = m
    BY DEF ShelfTypeOK, ListedByProject
  <2> QED
    BY <2>1, <2>2, <2>3 DEF Bijection, Injection, Surjection, IsInjective
<1> HIDE DEF S, T, f
<1>3. Cardinality(T) = Cardinality(S)
  BY <1>1, <1>2, FS_Bijection DEF ExistsBijection
<1> QED
  BY <1>3 DEF S, T, ProjectCount

LEMMA ShelfInvHolds == ShelfInv => ShelfHolds
<1> SUFFICES ASSUME ShelfInv
             PROVE  CountsMatch
  BY DEF ShelfInv, ShelfHolds
<1>1. \A x \in projects : ProjectCount(x) = Cardinality(ListedByProject(x))
  BY MembersCounted DEF ShelfInv
<1>2. ASSUME NEW t \in tags, \A l \in links : l[1] \in Live
      PROVE  TagCount(t) = Cardinality(ListedByTag(t.name))
  <2>1. {l[1] : l \in {m \in links : m[2] \in TagsNamed(Below(t.name))}} = ListedByTag(t.name)
    BY <1>2 DEF ListedByTag, Live, ShelfInv, ShelfTypeOK
  <2> QED
    BY <2>1 DEF TagCount
<1> QED
  BY <1>1, <1>2 DEF CountsMatch

----------------------------------------------------------------------------
(* The commands that destroy or overwrite.                                 *)

MatchesOf == UNION {{l[n] : n \in DOMAIN l} : l \in Lists}
Target == [id : Ids, path : Paths]
IdsOf(targets) == {t.id : t \in targets}

CommandType ==
    [op : {"none", "delete", "restore", "purge", "clear", "identify"},
     at : {"idle", "ask", "act", "row", "report"},
     targets : SUBSET Target, left : SUBSET Target, cur : Ids \cup {"none"},
     failed : SUBSET Ids, match : MatchesOf \cup {"none"}]

HistoryType ==
    [agreed : SUBSET Ids, harmed : SUBSET Ids, restored : SUBSET Ids,
     robbed : SUBSET [owner : Ids, by : Ids], snags : Nat, stuck : SUBSET Ids,
     meant : MatchesOf \cup {"none"}]

BudgetType == [meddling : Nat, snags : Nat, commands : Nat]

CommandTypeInv ==
    /\ CommandsTypeOK
    /\ \A p \in Ids : row[p].at = "absent" <=> row[p].path = "none"
    /\ cmd \in CommandType
    /\ cmd.at = "row" => cmd.op = "purge" /\ cmd.cur \in IdsOf(cmd.targets)
    /\ cmd.op = "identify" => cmd.match \in MatchesOf
    /\ \A p \in IdsOf(cmd.targets) : row[p].at # "absent"
    /\ history \in HistoryType /\ budget \in BudgetType

\* A file is at its paper's place, and at the place of no other that is on record.
InPlace ==
    \A x \in Paths : disk[x] # "none" =>
        /\ row[disk[x]].path = x
        /\ \A p \in OnRecord : row[p].path = x => p = disk[x]

\* Whatever the command may still do has been agreed to, and nothing is done
\* while it asks.
Agreed ==
    /\ cmd.at = "ask" => history.harmed = {}
    /\ cmd.at \in {"act", "row"} /\ cmd.op # "restore" => IdsOf(cmd.targets) \subseteq history.agreed

\* A purge comes to each of its papers once.
Once ==
    /\ \A t, u \in cmd.targets : t.id = u.id => t = u
    /\ cmd.at = "row" => cmd.cur \notin IdsOf(cmd.left)

\* A paper that a purge has before it, and that nobody restored, is in the
\* trash at the place that was read.
AsRead ==
    cmd.op = "purge" =>
        \A t \in cmd.left : \/ t.id \in history.restored
                            \/ row[t.id].at = "trashed" /\ row[t.id].path = t.path

\* So is the one whose file it has been at: none is left of it, but one that
\* could not be removed.
Unfiled ==
    cmd.at = "row" /\ cmd.cur \notin history.restored =>
        /\ row[cmd.cur].at = "trashed"
        /\ \A x \in Paths : disk[x] = cmd.cur => cmd.cur \in history.stuck

\* Each paper of a purge is before it, in its hands, counted as failed or gone.
Tallied ==
    /\ cmd.op = "purge" =>
         \A t \in cmd.targets : \/ t \in cmd.left
                                \/ cmd.at = "row" /\ t.id = cmd.cur
                                \/ t.id \in cmd.failed
                                \/ row[t.id].at = "purged"
    /\ cmd.at = "report" => cmd.left = {}
    /\ IsFiniteSet(cmd.failed) /\ Cardinality(cmd.failed) <= history.snags

CommandsInv ==
    /\ CommandTypeInv /\ InPlace /\ Agreed /\ Once /\ AsRead /\ Unfiled /\ Tallied
    /\ Consented /\ RobsNoOne /\ LeavesNothing /\ AsListed

LEMMA IdsOfTargets ==
    ASSUME NEW targets \in SUBSET Target
    PROVE  IdsOf(targets) \in SUBSET Ids
BY DEF IdsOf, Target

\* A paper on record is at a place.
LEMMA SnapshotTargets ==
    ASSUME CommandTypeInv, NEW ids \in SUBSET OnRecord
    PROVE  /\ Snapshot(ids) \in SUBSET Target /\ IdsOf(Snapshot(ids)) = ids
           /\ ids \subseteq Ids
<1>1. ids \subseteq Ids
  BY DEF OnRecord
<1>2. ASSUME NEW p \in ids
      PROVE  row[p].path \in Paths
  <2>1. p \in Ids /\ row[p].at # "absent"
    BY DEF OnRecord
  <2>2. row[p].path \in Paths \cup {"none"} /\ row[p].path # "none"
    BY <2>1 DEF CommandTypeInv, CommandsTypeOK
  <2> QED
    BY <2>2
<1>3. Snapshot(ids) \in SUBSET Target
  BY <1>1, <1>2 DEF Snapshot, Target
<1>4. ASSUME NEW p \in ids
      PROVE  p \in IdsOf(Snapshot(ids))
  <2>1. [id |-> p, path |-> row[p].path] \in Snapshot(ids)
    BY DEF Snapshot
  <2> QED
    BY <2>1 DEF IdsOf
<1>5. ASSUME NEW p \in IdsOf(Snapshot(ids))
      PROVE  p \in ids
  BY DEF Snapshot, IdsOf
<1> QED
  BY <1>1, <1>3, <1>4, <1>5

LEMMA Idle == NoCommand.at = "idle"
BY DEF NoCommand

LEMMA CommandsInvInit == CommandsInit => CommandsInv
<1> SUFFICES ASSUME CommandsInit
             PROVE  CommandsInv
  OBVIOUS
<1> USE CommandsAssumption DEF CommandsInit
<1>1. /\ cmd = [op |-> "none", at |-> "idle", targets |-> {}, left |-> {}, cur |-> "none",
                failed |-> {}, match |-> "none"]
      /\ history = [agreed |-> {}, harmed |-> {}, restored |-> {}, robbed |-> {}, snags |-> 0,
                    stuck |-> {}, meant |-> "none"]
  BY DEF NoCommand, Nothing
<1>2. CommandTypeInv
  BY <1>1
     DEF CommandTypeInv, CommandsTypeOK, NoCommand, CommandType, HistoryType, BudgetType, IdsOf
<1>3. InPlace
  BY DEF InPlace, OnRecord
<1> QED
  BY <1>1, <1>2, <1>3, FS_EmptySet
     DEF CommandsInv, Agreed, Once, AsRead, Unfiled, Tallied, Consented, RobsNoOne, LeavesNothing,
         AsListed

\* A command begins on papers that are on record, if it is a purge in the trash.
LEMMA StartsKeeps ==
    ASSUME CommandsInv,
           NEW op \in {"delete", "restore", "purge", "clear", "identify"},
           NEW ids \in SUBSET OnRecord, NEW yes \in BOOLEAN,
           NEW match \in MatchesOf \cup {"none"}, NEW meant \in MatchesOf \cup {"none"},
           Starts(op, ids, yes, match, meant),
           op = "identify" => match \in MatchesOf /\ (meant # "none" => match = meant),
           op = "purge" => ids \subseteq Trashed
    PROVE  CommandsInv'
<1> USE CommandsAssumption
    DEF CommandsInv, CommandTypeInv, CommandType, HistoryType, BudgetType
<1> DEFINE targets == Snapshot(ids)
           first == IF yes \/ op = "restore" THEN "act" ELSE "ask"
           agreed == IF yes THEN ids ELSE {}
<1>1. /\ cmd.at = "idle" /\ UNCHANGED <<row, disk>>
      /\ cmd' = [op |-> op, at |-> first, targets |-> targets, left |-> targets, cur |-> "none",
                 failed |-> {}, match |-> match]
      /\ history' = [agreed |-> agreed, harmed |-> {}, restored |-> {}, robbed |-> {},
                     snags |-> 0, stuck |-> history.stuck, meant |-> meant]
  BY DEF Starts, NoCommand, Nothing
<1>2. budget' \in BudgetType
  BY DEF Starts
<1>3. targets \in SUBSET Target /\ IdsOf(targets) = ids /\ ids \subseteq Ids
  BY SnapshotTargets
<1>4. /\ \A t, u \in targets : t.id = u.id => t = u
      /\ \A t \in targets : t.id \in ids /\ t.path = row[t.id].path
  BY DEF Snapshot
<1>5. first \in {"act", "ask"} /\ agreed \in SUBSET Ids
  BY <1>3
<1> HIDE DEF targets, first, agreed
<1>6. CommandTypeInv'
  <2>1. CommandsTypeOK'
    BY <1>1, <1>3, <1>5 DEF CommandsTypeOK, NoCommand, Target
  <2>2. (\A p \in IdsOf(cmd.targets) : row[p].at # "absent")'
    BY <1>1, <1>3 DEF OnRecord
  <2> QED
    BY <1>1, <1>2, <1>3, <1>5, <2>1, <2>2
<1>7. InPlace'
  BY <1>1 DEF InPlace, OnRecord
<1>8. Agreed' /\ Consented'
  BY <1>1, <1>3 DEF Agreed, Consented, first, agreed
<1>9. Once' /\ Unfiled' /\ RobsNoOne' /\ LeavesNothing' /\ AsListed'
  BY <1>1, <1>4, <1>5 DEF Once, Unfiled, RobsNoOne, LeavesNothing, AsListed
<1>10. AsRead'
  BY <1>1, <1>4 DEF AsRead, Trashed
<1>11. Tallied'
  BY <1>1, <1>5, FS_EmptySet DEF Tallied
<1> QED
  BY <1>6, <1>7, <1>8, <1>9, <1>10, <1>11

LEMMA StartNext ==
    ASSUME CommandsInv,
           \/ \E s \in DOMAIN Selectors, yes \in BOOLEAN :
                \/ \E op \in {"delete", "restore", "purge", "clear"} : RunOne(op, s, yes)
                \/ \E list \in Lists, n \in 0 .. 2 : RunIdentify(s, n, list, yes)
           \/ \E yes \in BOOLEAN : RunPurgeAll(yes)
    PROVE  CommandsInv'
<1>0. \A s : FindOne(s) \subseteq OnRecord
  BY DEF FindOne
<1>1. ASSUME NEW s \in DOMAIN Selectors, NEW yes \in BOOLEAN,
             NEW op \in {"delete", "restore", "purge", "clear"}, RunOne(op, s, yes)
      PROVE  CommandsInv'
  <2>1. op = "purge" => FindOne(s) \subseteq Trashed
    BY <1>0, <1>1 DEF RunOne, Accepts, Trashed, OnRecord
  <2> QED
    BY <1>0, <1>1, <2>1, StartsKeeps DEF RunOne
<1>2. ASSUME NEW s \in DOMAIN Selectors, NEW yes \in BOOLEAN, NEW list \in Lists,
             NEW n \in 0 .. 2, RunIdentify(s, n, list, yes)
      PROVE  CommandsInv'
  <2> DEFINE match == Pick(list, n)
             meant == IF listed = list /\ n \in DOMAIN listed THEN listed[n] ELSE "none"
  <2>1. /\ match \in MatchesOf /\ meant \in MatchesOf \cup {"none"}
        /\ meant # "none" => match = meant
        /\ Starts("identify", FindOne(s), yes, match, meant)
    BY <1>2 DEF RunIdentify, Pick, MatchesOf
  <2> HIDE DEF match, meant
  <2> QED
    BY <1>0, <2>1, StartsKeeps
<1>3. ASSUME NEW yes \in BOOLEAN, RunPurgeAll(yes)
      PROVE  CommandsInv'
  BY <1>3, StartsKeeps DEF RunPurgeAll, InTrash, Trashed, OnRecord
<1> QED
  BY <1>1, <1>2, <1>3

\* What becomes of the command itself: its question answered, its end.
LEMMA CommandEnds ==
    ASSUME CommandsInv, UNCHANGED <<row, disk>>, cmd' = NoCommand,
           history' = [history EXCEPT !.agreed = history'.agreed],
           history'.agreed \in SUBSET Ids, history.harmed \subseteq history'.agreed,
           budget' \in BudgetType
    PROVE  CommandsInv'
<1> USE CommandsAssumption
    DEF CommandsInv, CommandTypeInv, CommandType, HistoryType, BudgetType
<1>1. cmd' = [op |-> "none", at |-> "idle", targets |-> {}, left |-> {}, cur |-> "none",
              failed |-> {}, match |-> "none"]
  BY DEF NoCommand
<1>2. /\ history'.harmed = history.harmed /\ history'.restored = history.restored
      /\ history'.robbed = history.robbed /\ history'.snags = history.snags
      /\ history'.stuck = history.stuck /\ history'.meant = history.meant
      /\ history' \in HistoryType
  OBVIOUS
<1>3. CommandTypeInv'
  <2>1. CommandsTypeOK'
    BY <1>1, <1>2 DEF CommandsTypeOK, NoCommand
  <2> QED
    BY <1>1, <1>2, <2>1 DEF IdsOf
<1>4. InPlace' /\ LeavesNothing'
  BY <1>2 DEF InPlace, OnRecord, LeavesNothing
<1> QED
  BY <1>1, <1>2, <1>3, <1>4, FS_EmptySet
     DEF Agreed, Once, AsRead, Unfiled, Tallied, Consented, RobsNoOne, AsListed

LEMMA TypeLineKeeps ==
    ASSUME CommandsInv, NEW line \in {"y", "yes", "no", ""}, TypeLine(line)
    PROVE  CommandsInv'
<1> USE CommandsAssumption
    DEF CommandsInv, CommandTypeInv, CommandType, HistoryType, BudgetType
<1>1. CASE ~Affirmed(line)
  <2>1. history'.agreed = {} /\ history.harmed = {}
    BY <1>1 DEF TypeLine, Affirmed, Agreed
  <2> QED
    BY <1>1, <2>1, CommandEnds DEF TypeLine
<1>2. CASE Affirmed(line)
  <2>1. /\ cmd' = [cmd EXCEPT !.at = "act"] /\ cmd.at = "ask"
        /\ history' = [history EXCEPT !.agreed = IdsOf(cmd.targets)]
        /\ UNCHANGED <<row, disk, listed, budget>>
    BY <1>2 DEF TypeLine, Affirmed, IdsOf
  <2>2. IdsOf(cmd.targets) \in SUBSET Ids
    BY IdsOfTargets
  <2>3. /\ cmd'.op = cmd.op /\ cmd'.at = "act" /\ cmd'.targets = cmd.targets
        /\ cmd'.left = cmd.left /\ cmd'.cur = cmd.cur /\ cmd'.failed = cmd.failed
        /\ cmd'.match = cmd.match
        /\ cmd' \in CommandType
    BY <2>1
  <2>4. /\ history'.harmed = history.harmed /\ history'.restored = history.restored
        /\ history'.robbed = history.robbed /\ history'.snags = history.snags
        /\ history'.stuck = history.stuck /\ history'.meant = history.meant
        /\ history'.agreed = IdsOf(cmd.targets)
        /\ history' \in HistoryType
    BY <2>1, <2>2
  <2>5. CommandsTypeOK'
    <3>1. cmd' # NoCommand
      BY <2>3, Idle
    <3>2. history'.harmed \cup history'.agreed \subseteq Ids
      BY <2>4
    <3> QED
      BY <2>1, <2>3, <3>1, <3>2 DEF CommandsTypeOK, Target
  <2>6. CommandTypeInv'
    BY <2>1, <2>3, <2>4, <2>5, ZenonT(30)
  <2>7. InPlace' /\ LeavesNothing'
    BY <2>1, <2>4 DEF InPlace, OnRecord, LeavesNothing
  <2>8. Agreed' /\ Consented'
    BY <2>1, <2>3, <2>4 DEF Agreed, Consented
  <2>9. Once' /\ AsRead' /\ Unfiled' /\ Tallied' /\ RobsNoOne' /\ AsListed'
    <3>1. Once' /\ AsRead' /\ Unfiled'
      <4>1. Once'
        BY <2>1, <2>3, <2>4 DEF Once
      <4>2. AsRead'
        BY <2>1, <2>3, <2>4 DEF AsRead
      <4>3. Unfiled'
        BY <2>1, <2>3, <2>4 DEF Unfiled
      <4> QED
        BY <4>1, <4>2, <4>3
    <3>2. Tallied'
      BY <2>1, <2>3, <2>4 DEF Tallied
    <3> QED
      BY <2>1, <2>3, <2>4, <3>1, <3>2 DEF RobsNoOne, AsListed
  <2> QED
    BY <2>6, <2>7, <2>8, <2>9
<1> QED
  BY <1>1, <1>2

\* What one act of a command other than a purge does to the rows.
LEMMA ActedRows ==
    ASSUME CommandsInv, NEW t \in cmd.left, ActOnce(t)
    PROVE  /\ row' \in [Ids -> [at : {"absent", "live", "trashed", "purged"},
                                path : Paths \cup {"none"}, notes : 0 .. 1,
                                match : {"old"} \cup MatchesOf]]
           /\ \A p \in Ids : /\ row'[p].path = row[p].path
                             /\ row'[p].at = "absent" <=> row[p].at = "absent"
                             /\ row'[p].at = "purged" <=> row[p].at = "purged"
<1> USE DEF CommandsInv, CommandTypeInv, CommandsTypeOK, MatchesOf
<1>0. t.id \in Ids
  BY DEF Target, CommandType
<1>1. CASE cmd.op = "delete" /\ row' = SoftDelete(t.id)
  BY <1>0, <1>1 DEF SoftDelete
<1>2. CASE cmd.op = "restore" /\ row' = Restored(t.id)
  BY <1>0, <1>2 DEF Restored
<1>3. CASE cmd.op = "clear" /\ row' = Cleared(t.id)
  BY <1>0, <1>3 DEF Cleared
<1>4. CASE cmd.op = "identify" /\ row' = Matched(t.id)
  BY <1>0, <1>4 DEF Matched
<1> QED
  BY <1>1, <1>2, <1>3, <1>4 DEF ActOnce

LEMMA ActOnceKeeps ==
    ASSUME CommandsInv, NEW t \in cmd.left, ActOnce(t)
    PROVE  CommandsInv'
<1> USE CommandsAssumption
    DEF CommandsInv, CommandTypeInv, CommandType, HistoryType, BudgetType
<1>1. /\ cmd.at = "act" /\ cmd.op \in {"delete", "restore", "clear", "identify"}
      /\ cmd' = [cmd EXCEPT !.left = {}, !.at = "report"] /\ UNCHANGED <<disk, budget>>
      /\ \/ history' = history
         \/ cmd.op # "restore" /\ history' = [history EXCEPT !.harmed = @ \cup {t.id}]
  BY DEF ActOnce, Harms
<1>2. t \in cmd.targets /\ t.id \in Ids /\ t.id \in IdsOf(cmd.targets)
  BY DEF CommandsTypeOK, Target, IdsOf
<1>3. /\ cmd'.op = cmd.op /\ cmd'.at = "report" /\ cmd'.targets = cmd.targets
      /\ cmd'.left = {} /\ cmd'.cur = cmd.cur /\ cmd'.failed = cmd.failed
      /\ cmd'.match = cmd.match /\ cmd' \in CommandType
  BY <1>1
<1>4. /\ history'.agreed = history.agreed /\ history'.restored = history.restored
      /\ history'.robbed = history.robbed /\ history'.snags = history.snags
      /\ history'.stuck = history.stuck /\ history'.meant = history.meant
      /\ history'.harmed \in SUBSET Ids /\ history' \in HistoryType
      /\ history'.harmed \subseteq history'.agreed
  BY <1>1, <1>2 DEF Agreed, Consented
<1>5. CommandTypeInv'
  <2>1. cmd' # NoCommand
    BY <1>3, Idle
  <2>2. CommandsTypeOK'
    BY <1>1, <1>3, <1>4, <2>1, ActedRows DEF CommandsTypeOK, MatchesOf
  <2>3. (\A p \in IdsOf(cmd.targets) : row[p].at # "absent")'
    BY <1>3, IdsOfTargets, ActedRows
  <2> QED
    BY <1>1, <1>3, <1>4, <2>2, <2>3, ActedRows
<1>6. OnRecord' = OnRecord
  BY ActedRows DEF OnRecord, CommandsTypeOK
<1>7. InPlace' /\ LeavesNothing'
  BY <1>1, <1>4, <1>6, ActedRows DEF InPlace, LeavesNothing, CommandsTypeOK, OnRecord
<1>8. Agreed' /\ Consented' /\ Once' /\ AsRead' /\ Unfiled' /\ RobsNoOne' /\ AsListed'
  BY <1>1, <1>3, <1>4 DEF Agreed, Consented, Once, AsRead, Unfiled, RobsNoOne, AsListed
<1>9. Tallied'
  BY <1>1, <1>3, <1>4 DEF Tallied
<1> QED
  BY <1>5, <1>7, <1>8, <1>9

LEMMA PurgeTheFileKeeps ==
    ASSUME CommandsInv, NEW t \in cmd.left, PurgeTheFile(t)
    PROVE  CommandsInv'
<1> USE CommandsAssumption
    DEF CommandsInv, CommandTypeInv, CommandType, HistoryType, BudgetType
<1> DEFINE owner == disk[t.path]
           robbed == IF owner \in Ids /\ (owner # t.id \/ row[owner].at = "live")
                     THEN {[owner |-> owner, by |-> t.id]} ELSE {}
<1>1. /\ cmd.at = "act" /\ cmd.op = "purge" /\ UNCHANGED row
      /\ cmd' = [cmd EXCEPT !.at = "row", !.cur = t.id, !.left = @ \ {t}]
  BY DEF PurgeTheFile
<1>2. /\ t \in cmd.targets /\ t \in Target /\ t.id \in Ids /\ t.path \in Paths
      /\ t.id \in IdsOf(cmd.targets)
  BY DEF CommandsTypeOK, Target, IdsOf
<1>3. /\ cmd'.op = "purge" /\ cmd'.at = "row" /\ cmd'.targets = cmd.targets
      /\ cmd'.left = cmd.left \ {t} /\ cmd'.cur = t.id /\ cmd'.failed = cmd.failed
      /\ cmd'.match = cmd.match /\ cmd' \in CommandType
  BY <1>1, <1>2
<1>4. t.id \in history.restored \/ (row[t.id].at = "trashed" /\ row[t.id].path = t.path)
  BY <1>1 DEF AsRead
<1>5. robbed \in SUBSET [owner : Ids, by : Ids] /\ \A r \in robbed : r.by \in history.restored
  <2>1. ASSUME owner \in Ids, t.id \notin history.restored
        PROVE  owner = t.id /\ row[owner].at # "live"
    <3>1. t.id \in OnRecord /\ owner # "none"
      BY <1>2, <1>4, <2>1 DEF OnRecord
    <3> QED
      BY <1>2, <1>4, <2>1, <3>1 DEF InPlace
  <2> QED
    BY <1>2, <2>1
<1>6. \/ /\ disk' = [disk EXCEPT ![t.path] = "none"] /\ UNCHANGED budget
         /\ history' = [history EXCEPT !.harmed = @ \cup {t.id}, !.robbed = @ \cup robbed]
      \/ /\ owner # "none" /\ Snag /\ UNCHANGED disk
         /\ history' = [history EXCEPT !.stuck = @ \cup {owner}]
  BY DEF PurgeTheFile
<1> HIDE DEF robbed
<1>7. /\ disk' \in [Paths -> Ids \cup {"none"}] /\ budget' \in BudgetType
      /\ \A x \in Paths : disk'[x] # "none" => disk'[x] = disk[x]
  BY <1>2, <1>6 DEF CommandsTypeOK, Snag
<1>8. /\ history'.agreed = history.agreed /\ history'.restored = history.restored
      /\ history'.snags = history.snags /\ history'.meant = history.meant
      /\ history' \in HistoryType /\ history.stuck \subseteq history'.stuck
      /\ history'.harmed \subseteq history.harmed \cup {t.id}
      /\ \A r \in history'.robbed : r \in history.robbed \/ r \in robbed
  <2>1. owner \in Ids \cup {"none"}
    BY <1>2 DEF CommandsTypeOK
  <2> HIDE DEF owner
  <2>2. CASE history' = [history EXCEPT !.harmed = @ \cup {t.id}, !.robbed = @ \cup robbed]
    BY <1>2, <1>5, <2>2
  <2>3. CASE owner # "none" /\ history' = [history EXCEPT !.stuck = @ \cup {owner}]
    BY <2>1, <2>3
  <2> QED
    BY <1>6, <2>2, <2>3
<1>9. CommandTypeInv'
  <2>1. cmd' # NoCommand
    BY <1>3, Idle
  <2>2. CommandsTypeOK'
    BY <1>1, <1>3, <1>7, <1>8, <2>1 DEF CommandsTypeOK, Target
  <2> QED
    BY <1>1, <1>2, <1>3, <1>7, <1>8, <2>2
<1>10. InPlace' /\ LeavesNothing'
  BY <1>1, <1>7, <1>8 DEF InPlace, LeavesNothing, OnRecord
<1>11. Agreed' /\ Consented' /\ AsRead'
  BY <1>1, <1>2, <1>3, <1>8 DEF Agreed, Consented, AsRead
<1>12. Once'
  BY <1>2, <1>3 DEF Once, IdsOf, CommandsTypeOK
<1>13. Unfiled'
  <2>1. ASSUME t.id \notin history.restored, NEW x \in Paths, disk'[x] = t.id
        PROVE  t.id \in history'.stuck
    <3>1. disk[x] = t.id /\ t.id # "none"
      BY <1>2, <1>7, <2>1
    <3>2. x = t.path
      BY <1>4, <2>1, <3>1 DEF InPlace
    <3>3. disk'[t.path] # "none"
      BY <2>1, <3>1, <3>2
    <3> QED
      BY <1>2, <1>6, <3>1, <3>2, <3>3 DEF CommandsTypeOK
  <2> QED
    BY <1>1, <1>3, <1>4, <1>8, <2>1 DEF Unfiled
<1>14. Tallied'
  BY <1>1, <1>3, <1>8 DEF Tallied
<1>15. RobsNoOne' /\ AsListed'
  BY <1>3, <1>5, <1>8 DEF RobsNoOne, AsListed
<1> QED
  BY <1>9, <1>10, <1>11, <1>12, <1>13, <1>14, <1>15

LEMMA PurgeTheRowKeeps ==
    ASSUME CommandsInv, PurgeTheRow
    PROVE  CommandsInv'
<1> USE CommandsAssumption
    DEF CommandsInv, CommandTypeInv, CommandType, HistoryType, BudgetType
<1> DEFINE p == cmd.cur
           next == IF cmd.left = {} THEN "report" ELSE "act"
<1>1. /\ cmd.at = "row" /\ cmd.op = "purge" /\ p \in IdsOf(cmd.targets) /\ p \in Ids
      /\ UNCHANGED <<disk, listed>>
  BY DEF PurgeTheRow, IdsOf, CommandsTypeOK, Target
<1>2. /\ p \in history.agreed /\ p \notin IdsOf(cmd.left)
      /\ \A t \in cmd.left : t.id # p
  BY <1>1 DEF Agreed, Once, IdsOf
<1>3. CASE /\ row' = [row EXCEPT ![p].at = "purged", ![p].notes = 0]
           /\ cmd' = Onward(cmd) /\ UNCHANGED budget
           /\ history' = [history EXCEPT !.harmed = @ \cup {p},
                                         !.stuck = @ \cup ({p} \cap history.restored)]
  <2>1. /\ cmd'.op = "purge" /\ cmd'.at = next /\ cmd'.targets = cmd.targets
        /\ cmd'.left = cmd.left /\ cmd'.cur = "none" /\ cmd'.failed = cmd.failed
        /\ cmd'.match = cmd.match /\ cmd' \in CommandType
    <3>1. cmd' = [cmd EXCEPT !.cur = "none", !.at = next]
      BY <1>3 DEF Onward
    <3>2. next \in {"report", "act"}
      OBVIOUS
    <3> QED
      BY <1>1, <3>1, <3>2
  <2>2. /\ history'.agreed = history.agreed /\ history'.restored = history.restored
        /\ history'.snags = history.snags /\ history'.meant = history.meant
        /\ history'.robbed = history.robbed /\ history' \in HistoryType
        /\ history'.stuck = history.stuck \cup ({p} \cap history.restored)
        /\ history'.harmed = history.harmed \cup {p}
    BY <1>1, <1>3
  <2>3. /\ row' \in [Ids -> [at : {"absent", "live", "trashed", "purged"},
                             path : Paths \cup {"none"}, notes : 0 .. 1,
                             match : {"old"} \cup MatchesOf]]
        /\ row'[p].at = "purged" /\ \A q \in Ids \ {p} : row'[q] = row[q]
        /\ \A q \in Ids : row'[q].path = row[q].path
    BY <1>1, <1>3 DEF CommandsTypeOK, MatchesOf
  <2>4. row[p].at # "absent" /\ OnRecord' \subseteq OnRecord
    <3>1. row[p].at # "absent"
      BY <1>1
    <3> QED
      BY <1>1, <2>3, <3>1 DEF OnRecord, CommandsTypeOK
  <2>5. CommandTypeInv'
    <3>1. cmd' # NoCommand
      BY <2>1, Idle
    <3>2. CommandsTypeOK'
      BY <1>1, <2>1, <2>2, <2>3, <3>1 DEF CommandsTypeOK, Target, MatchesOf
    <3>3. (\A q \in IdsOf(cmd.targets) : row[q].at # "absent")'
      BY <1>1, <2>1, <2>3, IdsOfTargets
    <3>4. (\A q \in Ids : row[q].at = "absent" <=> row[q].path = "none")'
      BY <1>1, <2>3, <2>4
    <3> QED
      BY <1>1, <1>3, <2>1, <2>2, <3>2, <3>3, <3>4
  <2>6. InPlace'
    <3>1. \A x \in Paths : disk[x] # "none" => disk[x] \in Ids
      BY DEF CommandsTypeOK
    <3>2. OnRecord \subseteq Ids
      BY DEF OnRecord
    <3> QED
      BY <1>1, <2>3, <2>4, <3>1, <3>2 DEF InPlace
  <2>7. LeavesNothing'
    BY <1>1, <2>2, <2>3 DEF LeavesNothing, Unfiled, CommandsTypeOK
  <2>8. Agreed' /\ Consented' /\ Once'
    BY <1>1, <1>2, <2>1, <2>2 DEF Agreed, Consented, Once
  <2>9. AsRead'
    BY <1>1, <1>2, <2>1, <2>2, <2>3 DEF AsRead, Target, CommandsTypeOK
  <2>10. Unfiled' /\ RobsNoOne' /\ AsListed'
    BY <1>1, <2>1, <2>2 DEF Unfiled, RobsNoOne, AsListed
  <2>11. Tallied'
    BY <1>1, <2>1, <2>2, <2>3 DEF Tallied, Target, CommandsTypeOK
  <2> QED
    BY <2>5, <2>6, <2>7, <2>8, <2>9, <2>10, <2>11
<1>4. CASE /\ Snag /\ UNCHANGED row
           /\ cmd' = Onward([cmd EXCEPT !.failed = @ \cup {p}])
           /\ history' = [history EXCEPT !.snags = @ + 1]
  <2>1. /\ cmd'.op = "purge" /\ cmd'.at = next /\ cmd'.targets = cmd.targets
        /\ cmd'.left = cmd.left /\ cmd'.cur = "none" /\ cmd'.failed = cmd.failed \cup {p}
        /\ cmd'.match = cmd.match /\ cmd' \in CommandType
    BY <1>1, <1>4 DEF Onward
  <2>2. /\ history'.agreed = history.agreed /\ history'.restored = history.restored
        /\ history'.harmed = history.harmed /\ history'.meant = history.meant
        /\ history'.robbed = history.robbed /\ history'.stuck = history.stuck
        /\ history' \in HistoryType /\ history'.snags = history.snags + 1
    BY <1>4
  <2>3. budget' \in BudgetType
    BY <1>4 DEF Snag
  <2>4. CommandTypeInv'
    <3>1. cmd' # NoCommand
      BY <2>1, Idle
    <3>2. cmd'.failed \subseteq {t.id : t \in cmd'.targets}
      BY <1>1, <2>1 DEF IdsOf, CommandsTypeOK
    <3>3. CommandsTypeOK'
      BY <1>1, <1>4, <2>1, <2>2, <3>1, <3>2 DEF CommandsTypeOK
    <3> QED
      BY <1>1, <1>4, <2>1, <2>2, <2>3, <3>3, ZenonT(30)
  <2>5. InPlace' /\ LeavesNothing'
    BY <1>1, <1>4, <2>2 DEF InPlace, LeavesNothing, OnRecord
  <2>6. Agreed' /\ Consented' /\ Once' /\ AsRead'
    BY <1>1, <1>2, <1>4, <2>1, <2>2, ZenonT(30) DEF Agreed, Consented, Once, AsRead
  <2>7. Unfiled' /\ RobsNoOne' /\ AsListed'
    BY <1>1, <2>1, <2>2 DEF Unfiled, RobsNoOne, AsListed
  <2>8. Tallied'
    <3>1. IsFiniteSet(cmd'.failed) /\ Cardinality(cmd'.failed) <= history'.snags
      <4>1. IsFiniteSet(cmd.failed) /\ Cardinality(cmd.failed) <= history.snags
        BY DEF Tallied
      <4>2. Cardinality(cmd.failed) \in Nat /\ history.snags \in Nat
        BY <4>1, FS_CardinalityType
      <4>3. /\ IsFiniteSet(cmd.failed \cup {p})
            /\ Cardinality(cmd.failed \cup {p}) \in {Cardinality(cmd.failed), Cardinality(cmd.failed) + 1}
        BY <4>1, FS_AddElement
      <4> QED
        BY <2>1, <2>2, <4>1, <4>2, <4>3
    <3> QED
      BY <1>1, <1>4, <2>1, <2>2, <3>1, ZenonT(30) DEF Tallied
  <2> QED
    BY <2>4, <2>5, <2>6, <2>7, <2>8
<1> QED
  BY <1>3, <1>4 DEF PurgeTheRow

LEMMA EndNext ==
    ASSUME CommandsInv, Report \/ Interrupt
    PROVE  CommandsInv'
<1>1. /\ UNCHANGED <<row, disk, history>> /\ cmd' = NoCommand /\ budget' \in BudgetType
  BY DEF Report, Interrupt, Snag, CommandsInv, CommandTypeInv, BudgetType
<1>2. history' = [history EXCEPT !.agreed = history'.agreed]
  BY <1>1 DEF CommandsInv, CommandTypeInv, HistoryType
<1> QED
  BY <1>1, <1>2, CommandEnds DEF CommandsInv, CommandTypeInv, HistoryType, Consented

\* What the server may do to the papers without the command noticing: a paper
\* that it takes out of the trash counts as restored, and one that stays there
\* keeps its place and gets no file.
LEMMA MeddlingKeeps ==
    ASSUME CommandsInv, UNCHANGED cmd, budget' \in BudgetType, history' \in HistoryType,
           history' = [history EXCEPT !.restored = history'.restored],
           history.restored \subseteq history'.restored,
           CommandsTypeOK', InPlace',
           \A p \in Ids : /\ row'[p].at = "absent" <=> row'[p].path = "none"
                          /\ row'[p].at = "absent" => row[p].at = "absent"
                          /\ row'[p].at = "purged" <=> row[p].at = "purged",
           \A p \in Ids : row[p].at = "trashed" =>
               \/ p \in history'.restored
               \/ /\ row'[p].at = "trashed" /\ row'[p].path = row[p].path
                  /\ \A x \in Paths : disk'[x] = p => disk[x] = p,
           \A x \in Paths : disk'[x] \in {disk[x], "none"} \/ row[disk'[x]].at # "purged"
    PROVE  CommandsInv'
<1> USE CommandsAssumption
    DEF CommandsInv, CommandTypeInv, CommandType, HistoryType, BudgetType
<1>1. /\ history'.agreed = history.agreed /\ history'.harmed = history.harmed
      /\ history'.robbed = history.robbed /\ history'.snags = history.snags
      /\ history'.stuck = history.stuck /\ history'.meant = history.meant
  OBVIOUS
<1>2. /\ cmd.targets \in SUBSET Target /\ cmd.left \in SUBSET Target
      /\ IdsOf(cmd.targets) \in SUBSET Ids
  BY IdsOfTargets
<1>3. CommandTypeInv'
  <2>1. (\A p \in IdsOf(cmd.targets) : row[p].at # "absent")'
    BY <1>2
  <2> QED
    BY <2>1
<1>4. LeavesNothing'
  BY <1>1 DEF LeavesNothing, CommandsTypeOK
<1>5. Agreed' /\ Consented' /\ Once' /\ RobsNoOne' /\ AsListed'
  BY <1>1 DEF Agreed, Consented, Once, RobsNoOne, AsListed
<1>6. AsRead'
  BY <1>2 DEF AsRead, Target
<1>7. Unfiled'
  <2>1. cmd.at = "row" => cmd.cur \in Ids
    BY <1>2
  <2> QED
    BY <1>1, <2>1 DEF Unfiled
<1>8. Tallied'
  BY <1>1, <1>2 DEF Tallied, Target
<1> QED
  BY <1>3, <1>4, <1>5, <1>6, <1>7, <1>8

LEMMA ServerNext ==
    ASSUME CommandsInv,
           \E p \in Ids : TrashIt(p) \/ RestoreIt(p) \/ Annotate(p) \/ \E x \in Paths : Place(p, x)
    PROVE  CommandsInv'
<1> USE CommandsAssumption
<1>1. budget' \in BudgetType
  BY DEF CommandsInv, CommandTypeInv, BudgetType, TrashIt, RestoreIt, Annotate, Place, Meddle
<1>2. history \in HistoryType /\ history = [history EXCEPT !.restored = history.restored]
  BY DEF CommandsInv, CommandTypeInv, HistoryType
<1>3. CommandsTypeOK /\ InPlace
  BY DEF CommandsInv, CommandTypeInv
<1>4. \A p \in Ids : row[p].at = "absent" <=> row[p].path = "none"
  BY DEF CommandsInv, CommandTypeInv
<1>5. ASSUME NEW p \in Ids, TrashIt(p)
      PROVE  CommandsInv'
  <2>1. CommandsTypeOK'
    BY <1>3, <1>5 DEF CommandsTypeOK, TrashIt
  <2>2. InPlace'
    BY <1>3, <1>5 DEF InPlace, CommandsTypeOK, TrashIt, OnRecord
  <2> QED
    BY <1>1, <1>2, <1>3, <1>4, <1>5, <2>1, <2>2, MeddlingKeeps DEF TrashIt, CommandsTypeOK
<1>6. ASSUME NEW p \in Ids, RestoreIt(p)
      PROVE  CommandsInv'
  <2>1. /\ history' \in HistoryType /\ history'.restored = history.restored \cup {p}
        /\ history' = [history EXCEPT !.restored = history'.restored]
        /\ history'.harmed = history.harmed /\ history'.agreed = history.agreed
    BY <1>2, <1>6 DEF RestoreIt, HistoryType
  <2>2. CommandsTypeOK'
    BY <1>3, <1>6, <2>1 DEF CommandsTypeOK, RestoreIt
  <2>3. InPlace'
    BY <1>3, <1>6 DEF InPlace, CommandsTypeOK, RestoreIt, OnRecord
  <2> QED
    BY <1>1, <1>3, <1>4, <1>6, <2>1, <2>2, <2>3, MeddlingKeeps DEF RestoreIt, CommandsTypeOK
<1>7. ASSUME NEW p \in Ids, Annotate(p)
      PROVE  CommandsInv'
  <2>1. CommandsTypeOK'
    BY <1>3, <1>7 DEF CommandsTypeOK, Annotate
  <2>2. InPlace'
    BY <1>3, <1>7 DEF InPlace, CommandsTypeOK, Annotate, OnRecord
  <2> QED
    BY <1>1, <1>2, <1>3, <1>4, <1>7, <2>1, <2>2, MeddlingKeeps DEF Annotate, CommandsTypeOK
<1>8. ASSUME NEW p \in Ids, NEW x \in Paths, Place(p, x)
      PROVE  CommandsInv'
  <2>1. FreeFor(p, x) /\ UNCHANGED <<cmd, listed, history>>
    BY <1>8 DEF Place
  <2>2. CASE /\ row[p].at = "absent"
             /\ row' = [row EXCEPT ![p].at = "live", ![p].path = x]
             /\ disk' = [disk EXCEPT ![x] = p]
    <3>1. CommandsTypeOK'
      <4> DEFINE Row == [at : {"absent", "live", "trashed", "purged"},
                         path : Paths \cup {"none"}, notes : 0 .. 1,
                         match : {"old"} \cup UNION {{l[n] : n \in DOMAIN l} : l \in Lists}]
      <4>1. row' \in [Ids -> Row]
        <5>1. row \in [Ids -> Row]
          BY <1>3 DEF CommandsTypeOK
        <5>2. [row[p] EXCEPT !.at = "live", !.path = x] \in Row
          <6>1. row[p] \in Row
            BY <5>1
          <6>2. [row[p] EXCEPT !.at = "live"] \in Row
            BY <6>1
          <6> QED
            BY <6>2
        <5> HIDE DEF Row
        <5> QED
          BY <2>2, <5>1, <5>2
      <4>2. disk' \in [Paths -> Ids \cup {"none"}]
        BY <1>3, <2>2 DEF CommandsTypeOK
      <4> QED
        BY <1>3, <2>1, <4>1, <4>2 DEF CommandsTypeOK
    <3>2. InPlace'
      BY <1>3, <1>4, <2>1, <2>2 DEF InPlace, CommandsTypeOK, OnRecord, FreeFor
    <3> QED
      BY <1>1, <1>2, <1>3, <1>4, <2>1, <2>2, <3>1, <3>2, MeddlingKeeps DEF CommandsTypeOK
  <2>3. CASE /\ row[p].at = "live" /\ disk[row[p].path] = p
             /\ row' = [row EXCEPT ![p].path = x]
             /\ disk' = [disk EXCEPT ![x] = p, ![row[p].path] = "none"]
    <3>0. row[p].path \in Paths /\ row[p].path # x
      BY <1>3, <1>4, <2>1, <2>3 DEF CommandsTypeOK, FreeFor
    <3>1. CommandsTypeOK'
      BY <1>3, <2>1, <2>3, <3>0 DEF CommandsTypeOK
    <3>2. InPlace'
      BY <1>3, <1>4, <2>1, <2>3, <3>0 DEF InPlace, CommandsTypeOK, OnRecord, FreeFor
    <3> QED
      BY <1>1, <1>2, <1>3, <1>4, <2>1, <2>3, <3>0, <3>1, <3>2, MeddlingKeeps DEF CommandsTypeOK
  <2> QED
    BY <1>8, <2>2, <2>3 DEF Place
<1> QED
  BY <1>5, <1>6, <1>7, <1>8

LEMMA CommandsInvNext == CommandsInv /\ [CommandsNext]_commandsVars => CommandsInv'
<1> SUFFICES ASSUME CommandsInv, [CommandsNext]_commandsVars
             PROVE  CommandsInv'
  OBVIOUS
<1>1. ASSUME UNCHANGED <<row, disk, cmd, budget, history>>
      PROVE  CommandsInv'
  BY <1>1
     DEF CommandsInv, CommandTypeInv, CommandsTypeOK, InPlace, OnRecord, Agreed, Once, AsRead,
         Unfiled, Tallied, Consented, RobsNoOne, LeavesNothing, AsListed
<1>2. ASSUME NEW list \in Lists, ListCandidates(list)
      PROVE  CommandsInv'
  BY <1>1, <1>2 DEF ListCandidates
<1>3. CASE CommandsNext
  BY <1>2, <1>3, StartNext, TypeLineKeeps, ActOnceKeeps, PurgeTheFileKeeps, PurgeTheRowKeeps,
     EndNext, ServerNext DEF CommandsNext
<1>4. CASE UNCHANGED commandsVars
  BY <1>1, <1>4 DEF commandsVars
<1> QED
  BY <1>3, <1>4

LEMMA CommandsInvHolds == CommandsInv => CommandsHold
BY DEF CommandsInv, CommandsHold, RobsNoOne, Accounted, Tallied

----------------------------------------------------------------------------
(* The page images.                                                        *)

\* A file of the cache is named after the request that made it, which has come
\* past the opening of it.
Opened ==
    \A f \in {cached, staging} \ {0} :
        look[f].at \in {"fill", "rename", "answered", "dropped"}

\* As long as the paper kept its path to itself and one request wrote at a time,
\* what was read is the paper's, and the file under the staging name is the
\* writer's: whole, when it comes to be renamed.
Unmixed ==
    mixed = {} =>
        /\ \A r, s \in Writers : r = s
        /\ \A r \in Looks : look[r].at \in {"permit", "render", "open", "fill", "rename"} =>
               look[r].doc = "own"
        /\ \A r \in Writers :
               /\ staging # 0 /\ fd[r] = staging
               /\ look[r].at = "rename" => inode[staging] = [whole |-> TRUE, of |-> "own"]

PreviewInv == PreviewTypeOK /\ PermitsReturn /\ PagesTrue /\ Opened /\ Unmixed

LooksType ==
    [Looks -> [asks : {"page", "meta"}, path : 1 .. 2, doc : Docs,
               at : {"new", "answered", "dropped"} \cup Awaits]]

LEMMA PreviewInvInit == PreviewInit => PreviewInv
BY PreviewAssumption
   DEF PreviewInit, PreviewInv, PreviewTypeOK, PermitsReturn, Permits, PagesTrue, Opened, Unmixed,
       Writers, NoLook, Docs, Bytes, Awaits

LEMMA Awaited ==
    ASSUME PreviewTypeOK, NEW r \in Looks,
           NEW then \in {"answered", "dropped"} \cup Awaits, Await(r, then)
    PROVE  /\ look' \in LooksType
           /\ look'[r].at = then /\ look'[r].doc = look[r].doc
           /\ \A s \in Looks \ {r} : look'[s] = look[s]
BY DEF PreviewTypeOK, LooksType, Await, Awaits

\* A request that comes to another await, the files as they were: unless it
\* starts to write, or to rename, or has read a file.
LEMMA AwaitKeeps ==
    ASSUME PreviewInv, NEW r \in Looks, NEW then \in {"read", "permit", "render", "open", "answered", "dropped"},
           Await(r, then), UNCHANGED <<cache, mixed>>,
           look[r].at \notin {"new", "fill"},
           then \in {"permit", "render", "open"} => look[r].at \in {"permit", "render"},
           (cached = r \/ staging = r) => then \in {"answered", "dropped"}
    PROVE  PagesTrue' /\ Opened' /\ Unmixed'
<1> USE DEF PreviewInv, PreviewTypeOK, Await, cache
<1>1. look'[r].at = then /\ look'[r].doc = look[r].doc /\ \A s \in Looks \ {r} : look'[s] = look[s]
  OBVIOUS
<1>2. PagesTrue'
  BY DEF PagesTrue
<1>3. Opened'
  BY <1>1 DEF Opened
<1>4. Unmixed'
  BY <1>1 DEF Unmixed, Writers
<1> QED
  BY <1>2, <1>3, <1>4

LEMMA PreviewInvNext == PreviewInv /\ [PreviewNext]_previewVars => PreviewInv'
<1> SUFFICES ASSUME PreviewInv, [PreviewNext]_previewVars
             PROVE  PreviewInv'
  OBVIOUS
<1> USE PreviewAssumption
    DEF PreviewInv, PreviewTypeOK, PermitsReturn, Permits, Docs, Bytes, Awaits, LooksType,
        library, cache
<1>1. CASE UNCHANGED previewVars
  BY <1>1 DEF previewVars, PagesTrue, Opened, Unmixed, Writers
<1>2. CASE RefileDoc \/ ReusePath
  <2>1. rowPath' \in 1 .. 2 /\ atPath' \in [1 .. 2 -> Docs]
    BY <1>2 DEF RefileDoc, ReusePath
  <2>2. UNCHANGED <<look, renders, inode, fd, staging, cached, known, slips, mixed>>
    BY <1>2 DEF RefileDoc, ReusePath
  <2> QED
    BY <2>1, <2>2 DEF PagesTrue, Opened, Unmixed, Writers
<1>3. ASSUME NEW r \in Looks, Look(r)
      PROVE  PreviewInv'
  <2>1. PICK asks \in {"page", "meta"} :
            look' = [look EXCEPT ![r] = [NoLook EXCEPT !.asks = asks, !.at = "cache",
                                                       !.path = rowPath]]
    BY <1>3 DEF Look
  <2>2. /\ look'[r] = [asks |-> asks, at |-> "cache", path |-> rowPath, doc |-> "none"]
        /\ look' \in LooksType
        /\ look[r].at = "new" /\ \A s \in Looks \ {r} : look'[s] = look[s]
    BY <1>3, <2>1 DEF Look, NoLook
  <2>3. PreviewTypeOK' /\ PermitsReturn'
    BY <1>3, <2>2 DEF Look
  <2>4. PagesTrue' /\ Opened' /\ Unmixed'
    BY <1>3, <2>2 DEF Look, PagesTrue, Opened, Unmixed, Writers
  <2> QED
    BY <2>3, <2>4
<1>4. ASSUME NEW r \in Looks, AskCache(r)
      PROVE  PreviewInv'
  <2>1. (cached # r /\ staging # r) /\ look[r].at = "cache"
    BY <1>4 DEF AskCache, Opened
  <2>2. PreviewTypeOK' /\ PermitsReturn'
    <3>1. PICK then \in {"answered", "read"} : Await(r, then)
      BY <1>4 DEF AskCache
    <3>2. look' \in LooksType /\ look'[r].at # "render" /\ \A s \in Looks \ {r} : look'[s] = look[s]
      BY <3>1, Awaited
    <3>3. UNCHANGED <<rowPath, atPath, renders, inode, fd, staging, cached, known, slips, mixed>>
      BY <1>4 DEF AskCache
    <3> QED
      BY <3>2, <3>3
  <2>3. PagesTrue' /\ Opened' /\ Unmixed'
    BY <1>4, <2>1, AwaitKeeps DEF AskCache
  <2> QED
    BY <2>2, <2>3
<1>5. ASSUME NEW r \in Looks, ReadPdf(r)
      PROVE  PreviewInv'
  <2> DEFINE doc == atPath[look[r].path]
  <2>1. /\ look[r].at = "read" /\ doc \in Docs
        /\ look' = [look EXCEPT ![r].doc = doc,
                        ![r].at = IF doc = "none" THEN "answered" ELSE "permit"]
        /\ mixed' = IF doc = "other" THEN mixed \cup {"path"} ELSE mixed
    BY <1>5 DEF ReadPdf
  <2>2. /\ look'[r].doc = doc /\ look'[r].at = IF doc = "none" THEN "answered" ELSE "permit"
        /\ look' \in LooksType
        /\ \A s \in Looks \ {r} : look'[s] = look[s]
    BY <2>1
  <2> HIDE DEF doc
  <2>3. PreviewTypeOK' /\ PermitsReturn'
    BY <1>5, <2>1, <2>2 DEF ReadPdf
  <2>4. PagesTrue' /\ Opened' /\ Unmixed'
    <3>1. /\ UNCHANGED <<inode, fd, staging, cached>> /\ mixed \subseteq mixed'
          /\ mixed' = {} => doc # "other"
      BY <1>5, <2>1 DEF ReadPdf
    <3>2. cached # r /\ staging # r
      BY <2>1 DEF Opened
    <3>3. PagesTrue' /\ Opened'
      BY <2>2, <3>1, <3>2 DEF PagesTrue, Opened
    <3>4. Writers' = Writers
      BY <2>1, <2>2 DEF Writers
    <3>5. Unmixed'
      BY <2>1, <2>2, <3>1, <3>4 DEF Unmixed, Writers
    <3> QED
      BY <3>3, <3>5
  <2> QED
    BY <2>3, <2>4
<1>6. ASSUME NEW r \in Looks, Acquire(r)
      PROVE  PreviewInv'
  <2>1. (cached # r /\ staging # r) /\ look[r].at = "permit"
    BY <1>6 DEF Acquire, Opened
  <2>2. PreviewTypeOK' /\ PermitsReturn'
    BY <1>6, Awaited DEF Acquire
  <2>3. PagesTrue' /\ Opened' /\ Unmixed'
    BY <1>6, <2>1, AwaitKeeps DEF Acquire
  <2> QED
    BY <2>2, <2>3
<1>7. ASSUME NEW r \in Looks, Rendered(r)
      PROVE  PreviewInv'
  <2>1. PreviewTypeOK' /\ PermitsReturn'
    BY <1>7, SMTT(30) DEF Rendered, Await
  <2>2. CASE look[r].at = "render"
    <3>1. cached # r /\ staging # r
      BY <2>2 DEF Opened
    <3> QED
      BY <1>7, <2>1, <2>2, <3>1, AwaitKeeps DEF Rendered
  <2>3. CASE UNCHANGED look
    BY <1>7, <2>1, <2>3 DEF Rendered, PagesTrue, Opened, Unmixed, Writers
  <2> QED
    BY <1>7, <2>2, <2>3 DEF Rendered
<1>8. ASSUME NEW r \in Looks, Refused(r)
      PROVE  PreviewInv'
  <2>1. PreviewTypeOK' /\ PermitsReturn'
    BY <1>8, Awaited DEF Refused
  <2>2. CASE look[r].at = "render"
    BY <1>8, <2>1, <2>2, AwaitKeeps DEF Refused
  <2>3. CASE UNCHANGED look
    BY <1>8, <2>1, <2>3 DEF Refused, PagesTrue, Opened, Unmixed, Writers
  <2> QED
    BY <1>8, <2>2, <2>3 DEF Refused
<1>9. ASSUME NEW r \in Looks, OpenStaging(r)
      PROVE  PreviewInv'
  <2> DEFINE f == IF staging # 0 THEN staging ELSE r
  <2>1. /\ look[r].at = "open" /\ look'[r].at = "fill" /\ look'[r].doc = look[r].doc
        /\ \A s \in Looks \ {r} : look'[s] = look[s]
        /\ staging' = f /\ fd' = [fd EXCEPT ![r] = f] /\ cached' = cached
        /\ inode' = [inode EXCEPT ![f] = [whole |-> FALSE, of |-> look[r].doc]]
        /\ mixed' = IF Writers # {} THEN mixed \cup {"writers"} ELSE mixed
    BY <1>9 DEF OpenStaging, Await
  <2>2. f \in Looks /\ f # 0 /\ f # cached
    BY <2>1 DEF Opened
  <2> HIDE DEF f
  <2>3. PreviewTypeOK' /\ PermitsReturn'
    <3>1. look' \in LooksType
      BY <1>9, Awaited DEF OpenStaging
    <3>2. inode' \in [Looks -> Bytes] /\ fd' \in [Looks -> Looks \cup {0}]
      BY <2>1, <2>2
    <3>3. /\ UNCHANGED <<rowPath, atPath, renders, known, slips>>
          /\ mixed' \subseteq {"writers", "path"}
      BY <1>9, <2>1 DEF OpenStaging
    <3> QED
      BY <2>1, <2>2, <3>1, <3>2, <3>3
  <2>4. PagesTrue'
    BY <2>1, <2>2 DEF PagesTrue
  <2>5. Opened'
    BY <2>1, <2>2 DEF Opened, f
  <2>6. Unmixed'
    <3>0. mixed' = {} => mixed = {} /\ Writers = {}
      BY <2>1
    <3>1. Writers = {} => Writers' = {r}
      BY <2>1 DEF Writers
    <3>2. staging' # 0 /\ fd'[r] = staging' /\ look'[r].at # "rename"
      BY <2>1, <2>2
    <3> QED
      BY <2>1, <3>0, <3>1, <3>2 DEF Unmixed
  <2> QED
    BY <2>3, <2>4, <2>5, <2>6
<1>10. ASSUME NEW r \in Looks, FillStaging(r)
       PROVE  PreviewInv'
  <2>1. /\ look[r].at = "fill" /\ look'[r].at = "rename" /\ look'[r].doc = look[r].doc
        /\ \A s \in Looks \ {r} : look'[s] = look[s]
        /\ inode' = [inode EXCEPT ![fd[r]] = [whole |-> TRUE, of |-> look[r].doc]]
        /\ UNCHANGED <<fd, staging, cached, mixed>>
    BY <1>10 DEF FillStaging, Await
  <2>2. PreviewTypeOK' /\ PermitsReturn'
    <3>1. look' \in LooksType
      BY <1>10, Awaited DEF FillStaging
    <3>2. inode' \in [Looks -> Bytes]
      BY <2>1
    <3>3. UNCHANGED <<rowPath, atPath, renders, known, slips>>
      BY <1>10 DEF FillStaging
    <3> QED
      BY <2>1, <3>1, <3>2, <3>3
  <2>3. PagesTrue' /\ Unmixed'
    <3>1. r \in Writers /\ Writers' = Writers
      BY <2>1 DEF Writers
    <3>2. mixed = {} => fd[r] = staging /\ staging # 0 /\ staging # cached /\ look[r].doc = "own"
      BY <2>1, <3>1 DEF Unmixed
    <3>3. PagesTrue'
      BY <2>1, <3>2 DEF PagesTrue
    <3>4. mixed = {} => inode'[staging] = [whole |-> TRUE, of |-> "own"]
      BY <2>1, <3>2
    <3>5. Unmixed'
      BY <2>1, <3>1, <3>4 DEF Unmixed
    <3> QED
      BY <3>3, <3>5
  <2>4. Opened'
    BY <2>1 DEF Opened
  <2> QED
    BY <2>2, <2>3, <2>4
<1>11. ASSUME NEW r \in Looks, RenameStaging(r)
       PROVE  PreviewInv'
  <2>1. /\ look[r].at = "rename" /\ look'[r].at = "answered" /\ look'[r].doc = look[r].doc
        /\ \A s \in Looks \ {r} : look'[s] = look[s]
        /\ cached' = (IF staging # 0 THEN staging ELSE cached) /\ staging' = 0
        /\ UNCHANGED <<fd, inode, mixed>>
    BY <1>11 DEF RenameStaging, Await
  <2>2. PreviewTypeOK' /\ PermitsReturn'
    <3>1. look' \in LooksType
      BY <1>11, Awaited DEF RenameStaging
    <3>2. UNCHANGED <<rowPath, atPath, renders, known, slips>>
      BY <1>11 DEF RenameStaging
    <3> QED
      BY <2>1, <3>1, <3>2
  <2>3. PagesTrue' /\ Unmixed'
    <3>1. r \in Writers /\ Writers' = Writers \ {r}
      BY <2>1 DEF Writers
    <3>2. mixed = {} => Writers' = {}
      BY <3>1 DEF Unmixed
    <3>3. mixed = {} /\ staging # 0 => inode[staging] = [whole |-> TRUE, of |-> "own"]
      BY <2>1, <3>1 DEF Unmixed
    <3>4. PagesTrue'
      BY <2>1, <3>3 DEF PagesTrue
    <3>5. mixed = {} => \A s \in Looks :
            look'[s].at \in {"permit", "render", "open", "fill", "rename"} => look'[s].doc = "own"
      <4>1. \A s \in Looks : s = r \/ look'[s] = look[s]
        BY <2>1
      <4> QED
        BY <2>1, <4>1 DEF Unmixed
    <3>6. Unmixed'
      BY <2>1, <3>2, <3>5 DEF Unmixed
    <3> QED
      BY <3>4, <3>6
  <2>4. Opened'
    BY <2>1 DEF Opened
  <2> QED
    BY <2>2, <2>3, <2>4
<1>12. ASSUME NEW r \in Looks, DropLook(r)
       PROVE  PreviewInv'
  <2>1. PreviewTypeOK' /\ PermitsReturn'
    <3>1. look' \in LooksType /\ look'[r].at # "render" /\ \A s \in Looks \ {r} : look'[s] = look[s]
      BY <1>12, Awaited DEF DropLook
    <3>2. UNCHANGED <<rowPath, atPath, renders, inode, fd, staging, cached, known, slips, mixed>>
      BY <1>12 DEF DropLook
    <3> QED
      BY <3>1, <3>2
  <2> QED
    BY <1>12, <2>1, AwaitKeeps DEF DropLook
<1>13. CASE ServerDies
  <2>1. /\ look' \in LooksType
        /\ \A r \in Looks : IF look[r].at \in Awaits THEN look'[r].at = "dropped"
                            ELSE look'[r] = look[r]
    <3>1. \A r \in Looks : [look[r] EXCEPT !.at = "dropped"] \in
                [asks : {"page", "meta"}, path : 1 .. 2, doc : Docs,
                 at : {"new", "answered", "dropped"} \cup Awaits]
      BY SMTT(30)
    <3>2. look' = [r \in Looks |-> IF look[r].at \in Awaits
                                   THEN [look[r] EXCEPT !.at = "dropped"] ELSE look[r]]
      BY <1>13 DEF ServerDies
    <3>3. look' \in LooksType
      BY <3>1, <3>2
    <3> QED
      BY <3>2, <3>3
  <2>2. PreviewTypeOK' /\ PermitsReturn'
    <3>1. /\ renders' = {} /\ known' = "none" /\ slips' \in 0 .. MaxSlips
          /\ UNCHANGED <<rowPath, atPath, inode, fd, staging, cached, mixed>>
      BY <1>13 DEF ServerDies
    <3> QED
      BY <2>1, <3>1
  <2>3. PagesTrue' /\ Opened' /\ Unmixed'
    BY <1>13, <2>1 DEF ServerDies, PagesTrue, Opened, Unmixed, Writers
  <2> QED
    BY <2>2, <2>3
<1> QED
  BY <1>1, <1>2, <1>3, <1>4, <1>5, <1>6, <1>7, <1>8, <1>9, <1>10, <1>11, <1>12, <1>13
     DEF PreviewNext, Answering

----------------------------------------------------------------------------
(* The import dialog's queue.                                              *)

RowType == [job : QueueJobs, says : {"queued", "importing"} \cup Outcomes]
JobType == [job : QueueJobs, index : QueueJobs, session : 0 .. MaxClicks]

\* Rows are of jobs in the order of the clicks.
Rowed(rs, n) ==
    /\ rs \in Seq(RowType) /\ Len(rs) <= n
    /\ \A i \in 1 .. Len(rs) : rs[i].job <= n
    /\ \A i, j \in 1 .. Len(rs) : i < j => rs[i].job < rs[j].job

\* What is to do are rows of this session that are queued, each once.
ToDo(jobs, rs) ==
    /\ jobs \in Seq(JobType)
    /\ \A k \in 1 .. Len(jobs) :
         /\ jobs[k].index \in 1 .. Len(rs) /\ jobs[k].session = imports
         /\ rs[jobs[k].index].job = jobs[k].job /\ rs[jobs[k].index].says = "queued"
    /\ \A k, l \in 1 .. Len(jobs) : k < l => jobs[k].index < jobs[l].index

\* Every queued row of the open dialog is to do.
Due(rs, jobs) ==
    DialogOpen => \A i \in 1 .. Len(rs) : rs[i].says = "queued" =>
                      \E k \in 1 .. Len(jobs) : jobs[k].index = i

\* The job in hand has its row in this session, or has none.
InHand ==
    drain.at = "answer" =>
        /\ drain.item \in JobType /\ drain.item.job <= clicks /\ drain.item.session <= imports
        /\ IF drain.item.session = imports
           THEN /\ drain.item.index \in 1 .. Len(items)
                /\ items[drain.item.index].job = drain.item.job
                /\ items[drain.item.index].says = "importing"
           ELSE \A i \in 1 .. Len(items) : items[i].job # drain.item.job

QueueInv ==
    /\ ImportQueueTypeOK /\ imports <= clicks
    /\ Rowed(items, clicks) /\ ToDo(pending, items) /\ Due(items, pending)
    /\ InHand /\ RowsTrue
    /\ ~missed /\ drain.at # "answer" => pending = <<>>

LEMMA QueueInvInit == ImportQueueInit => QueueInv
<1> SUFFICES ASSUME ImportQueueInit
             PROVE  QueueInv
  OBVIOUS
<1> USE QueueAssumption DEF ImportQueueInit
<1>1. drain.at = "none" /\ items = <<>> /\ pending = <<>> /\ imports = 0 /\ clicks = 0
  BY DEF Waiting
<1>2. ImportQueueTypeOK
  <2>1. /\ imports \in 0 .. MaxClicks /\ clicks \in 0 .. MaxClicks
        /\ outcome \in [QueueJobs -> Outcomes \cup {"none"}]
    BY <1>1
  <2> QED
    <3>1. \A S : items \in Seq(S) /\ pending \in Seq(S)
      BY <1>1
    <3> QED
      BY <1>1, <2>1, <3>1 DEF ImportQueueTypeOK
<1>3. Rowed(items, clicks) /\ ToDo(pending, items) /\ Due(items, pending)
  BY <1>1 DEF Rowed, ToDo, Due
<1>4. InHand /\ RowsTrue
  BY <1>1 DEF InHand, RowsTrue
<1> QED
  BY <1>1, <1>2, <1>3, <1>4 DEF QueueInv

\* What a row says changes nothing else.
Saying(rs, x, a) == [rs EXCEPT ![x].says = a]

LEMMA SaysSet ==
    ASSUME NEW rs \in Seq(RowType), NEW x \in 1 .. Len(rs), NEW a \in {"importing"} \cup Outcomes
    PROVE  /\ Saying(rs, x, a) \in Seq(RowType) /\ Len(Saying(rs, x, a)) = Len(rs)
           /\ Saying(rs, x, a)[x].job = rs[x].job /\ Saying(rs, x, a)[x].says = a
           /\ \A i \in 1 .. Len(rs) : i # x => Saying(rs, x, a)[i] = rs[i]
<1> DEFINE entry == [rs[x] EXCEPT !.says = a]
<1>1. rs[x] \in RowType
  OBVIOUS
<1>2. entry \in RowType /\ entry.job = rs[x].job /\ entry.says = a
  BY <1>1 DEF RowType
<1>3. Saying(rs, x, a) = [rs EXCEPT ![x] = entry]
  BY DEF Saying
<1> HIDE DEF entry
<1> QED
  BY <1>2, <1>3

\* The drain took the first job there was, and nothing else changed.
Drained(rs, n) ==
    /\ Rowed(items', n) /\ ToDo(pending, items)' /\ Due(items, pending)'
    /\ drain'.at \in {"answer", "reload"}
    /\ drain'.at = "reload" => pending' = <<>>
    /\ Len(items') = Len(rs)
    /\ \A i \in 1 .. Len(rs) : items'[i].job = rs[i].job
    /\ \A i \in 1 .. Len(rs) : items'[i].says \in Outcomes => items'[i] = rs[i]
    /\ \A i \in 1 .. Len(rs) : items'[i].says = "importing" =>
           drain'.at = "answer" /\ drain'.item.job = items'[i].job
    /\ drain'.at = "answer" =>
           /\ drain'.item \in JobType /\ drain'.item.session = imports
           /\ drain'.item.index \in 1 .. Len(rs)
           /\ items'[drain'.item.index].job = drain'.item.job
           /\ items'[drain'.item.index].says = "importing"

LEMMA DrainTakes ==
    ASSUME NEW n \in Nat, NEW rs, NEW jobs, Rowed(rs, n), ToDo(jobs, rs), Due(rs, jobs),
           \A i \in 1 .. Len(rs) : rs[i].says # "importing",
           Drain(rs, jobs), UNCHANGED <<imports, cancelled>>
    PROVE  Drained(rs, n)
<1>1. CASE jobs = <<>> \/ cancelled
  <2>1. drain'.at = "reload" /\ items' = rs /\ pending' = <<>>
    BY <1>1 DEF Drain, Waiting
  <2>2. Due(items, pending)'
    BY <1>1, <2>1 DEF Due, DialogOpen
  <2>3. ToDo(pending, items)'
    BY <2>1 DEF ToDo
  <2>4. \A i \in 1 .. Len(rs) : items'[i] = rs[i] /\ rs[i].says # "importing"
    BY <2>1
  <2>5. Rowed(items', n) /\ Len(items') = Len(rs) /\ drain'.at # "answer"
    BY <2>1
  <2> QED
    BY <2>1, <2>2, <2>3, <2>4, <2>5 DEF Drained
<1>2. CASE jobs # <<>> /\ ~cancelled
  <2> DEFINE first == Head(jobs)
  <2>1. /\ drain' = [at |-> "answer", item |-> first]
        /\ items' = [rs EXCEPT ![first.index].says = "importing"]
        /\ pending' = Tail(jobs)
    BY <1>2 DEF Drain
  <2>2. /\ jobs \in Seq(JobType) /\ Len(jobs) >= 1 /\ first = jobs[1] /\ first \in JobType
        /\ Tail(jobs) \in Seq(JobType) /\ Len(Tail(jobs)) = Len(jobs) - 1
        /\ \A k \in 1 .. Len(Tail(jobs)) : Tail(jobs)[k] = jobs[k + 1]
    BY <1>2 DEF ToDo
  <2>3. /\ first.index \in 1 .. Len(rs) /\ first.session = imports
        /\ rs[first.index].job = first.job /\ rs[first.index].says = "queued"
    BY <2>2 DEF ToDo
  <2> HIDE DEF first
  <2>4. /\ rs \in Seq(RowType) /\ Len(items') = Len(rs) /\ items' \in Seq(RowType)
        /\ items'[first.index].job = rs[first.index].job
        /\ items'[first.index].says = "importing"
        /\ \A i \in 1 .. Len(rs) : i # first.index => items'[i] = rs[i]
    <3>1. rs \in Seq(RowType)
      BY DEF Rowed
    <3>2. items' = Saying(rs, first.index, "importing")
      BY <2>1 DEF Saying
    <3>3. "importing" \in {"importing"} \cup Outcomes /\ first.index \in 1 .. Len(rs)
      BY <2>3
    <3>4. /\ items' \in Seq(RowType) /\ Len(items') = Len(rs)
          /\ items'[first.index].job = rs[first.index].job
          /\ items'[first.index].says = "importing"
          /\ \A i \in 1 .. Len(rs) : i # first.index => items'[i] = rs[i]
      BY <3>1, <3>2, <3>3, SaysSet, ZenonT(30)
    <3> QED
      BY <3>1, <3>4
  <2>5. Rowed(items', n)
    BY <2>3, <2>4 DEF Rowed
  <2>6. \A k \in 1 .. Len(pending') : /\ pending'[k] = jobs[k + 1] /\ k + 1 \in 1 .. Len(jobs)
                                      /\ jobs[k + 1].index # first.index
    <3>1. ASSUME NEW k \in 1 .. Len(pending')
          PROVE  pending'[k] = jobs[k + 1] /\ k + 1 \in 1 .. Len(jobs) /\ 1 < k + 1
      BY <2>1, <2>2
    <3>2. \A k \in 1 .. Len(jobs) : jobs[k].index \in Nat
      <4>1. \A k \in 1 .. Len(jobs) : jobs[k] \in JobType
        BY <2>2
      <4> QED
        BY <4>1, QueueAssumption DEF JobType, QueueJobs
    <3>3. \A k, l \in 1 .. Len(jobs) : k < l => jobs[k].index < jobs[l].index
      BY DEF ToDo
    <3>4. ASSUME NEW k \in 1 .. Len(jobs), 1 < k
          PROVE  jobs[k].index # first.index
      BY <2>2, <3>2, <3>3, <3>4
    <3> QED
      BY <3>1, <3>4
  <2>7. ToDo(pending, items)'
    <3>1. pending' \in Seq(JobType)
      BY <2>1, <2>2
    <3>2. ASSUME NEW k \in 1 .. Len(pending')
          PROVE  /\ pending'[k].index \in 1 .. Len(items') /\ pending'[k].session = imports'
                 /\ items'[pending'[k].index].job = pending'[k].job
                 /\ items'[pending'[k].index].says = "queued"
      <4> DEFINE m == k + 1
      <4>1. m \in 1 .. Len(jobs) /\ pending'[k] = jobs[m] /\ jobs[m].index # first.index
        BY <2>6
      <4> HIDE DEF m
      <4>2. /\ jobs[m].index \in 1 .. Len(rs) /\ jobs[m].session = imports
            /\ rs[jobs[m].index].job = jobs[m].job /\ rs[jobs[m].index].says = "queued"
        BY <4>1 DEF ToDo
      <4> QED
        BY <2>4, <4>1, <4>2
    <3>3. ASSUME NEW k \in 1 .. Len(pending'), NEW l \in 1 .. Len(pending'), k < l
          PROVE  pending'[k].index < pending'[l].index
      <4>1. /\ pending'[k] = jobs[k + 1] /\ pending'[l] = jobs[l + 1]
            /\ k + 1 \in 1 .. Len(jobs) /\ l + 1 \in 1 .. Len(jobs)
        BY <2>6
      <4>2. k + 1 < l + 1
        BY <2>1, <2>2, <3>3
      <4>3. \A m, o \in 1 .. Len(jobs) : m < o => jobs[m].index < jobs[o].index
        BY DEF ToDo
      <4> QED
        BY <4>1, <4>2, <4>3
    <3> QED
      BY <3>1, <3>2, <3>3 DEF ToDo
  <2>8. Due(items, pending)'
    <3>1. ASSUME DialogOpen, NEW i \in 1 .. Len(rs), items'[i].says = "queued"
          PROVE  \E k \in 1 .. Len(pending') : pending'[k].index = i
      <4>1. i # first.index /\ rs[i].says = "queued"
        BY <2>4, <3>1
      <4>2. PICK k \in 1 .. Len(jobs) : jobs[k].index = i
        BY <3>1, <4>1 DEF Due
      <4>3. k - 1 \in 1 .. Len(pending') /\ pending'[k - 1] = jobs[k]
        BY <2>1, <2>2, <4>1, <4>2
      <4> QED
        BY <4>2, <4>3
    <3> QED
      BY <2>4, <3>1 DEF Due, DialogOpen
  <2>9. drain'.at = "answer" /\ drain'.item = first
    BY <2>1
  <2>10. \A i \in 1 .. Len(rs) : items'[i].job = rs[i].job
    BY <2>4
  <2>11. \A i \in 1 .. Len(rs) : i # first.index => items'[i] = rs[i] /\ rs[i].says # "importing"
    BY <2>4
  <2>12. "importing" \notin Outcomes
    BY DEF Outcomes
  <2>13. \A i \in 1 .. Len(rs) : items'[i].says \in Outcomes => items'[i] = rs[i]
    BY <2>4, <2>11, <2>12
  <2>14. \A i \in 1 .. Len(rs) : items'[i].says = "importing" => first.job = items'[i].job
    BY <2>3, <2>4, <2>11
  <2> QED
    BY <2>2, <2>3, <2>4, <2>5, <2>7, <2>8, <2>9, <2>10, <2>13, <2>14 DEF Drained
<1> QED
  BY <1>1, <1>2

\* The job that settles was the one row's that was importing.
RowsSettled(a) == IF Ours(drain.item) THEN [items EXCEPT ![drain.item.index].says = a] ELSE items

LEMMA SettleRows ==
    ASSUME QueueInv, drain.at = "answer", NEW a \in Outcomes, NEW rs, rs = RowsSettled(a),
           outcome' = [outcome EXCEPT ![drain.item.job] = a]
    PROVE  /\ Rowed(rs, clicks) /\ ToDo(pending, rs) /\ Due(rs, pending)
           /\ \A i \in 1 .. Len(rs) : rs[i].says # "importing"
           /\ \A i \in 1 .. Len(rs) : rs[i].says \in Outcomes =>
                  outcome'[rs[i].job] = rs[i].says
<1> USE DEF QueueInv
<1>1. /\ items \in Seq(RowType) /\ drain.item \in JobType /\ clicks \in Nat
      /\ outcome \in [QueueJobs -> Outcomes \cup {"none"}]
  BY QueueAssumption DEF Rowed, InHand, ImportQueueTypeOK
<1>2. \A i, j \in 1 .. Len(items) : items[i].job = items[j].job => i = j
  <2>1. \A i \in 1 .. Len(items) : items[i].job \in Nat
    <3>1. \A i \in 1 .. Len(items) : items[i] \in RowType
      BY <1>1
    <3> QED
      BY <3>1, QueueAssumption DEF RowType, QueueJobs
  <2>2. \A i, j \in 1 .. Len(items) : i < j => items[i].job < items[j].job
    BY DEF Rowed
  <2>3. \A i, j \in 1 .. Len(items) : i < j \/ j < i \/ i = j
    OBVIOUS
  <2> QED
    BY <2>1, <2>2, <2>3
<1>3. CASE drain.item.session = imports
  <2> DEFINE x == drain.item.index
  <2>1. /\ x \in 1 .. Len(items) /\ items[x].job = drain.item.job /\ items[x].says = "importing"
        /\ drain.item.job \in QueueJobs
    BY <1>1, <1>3 DEF InHand, JobType
  <2>2. /\ rs \in Seq(RowType) /\ Len(rs) = Len(items)
        /\ rs[x].job = items[x].job /\ rs[x].says = a
        /\ \A i \in 1 .. Len(items) : i # x => rs[i] = items[i]
    <3>1. rs = Saying(items, x, a)
      BY <1>3 DEF Ours, Saying, RowsSettled
    <3> HIDE DEF x
    <3>2. x \in 1 .. Len(items) /\ items \in Seq(RowType) /\ a \in {"importing"} \cup Outcomes
      BY <1>1, <2>1
    <3> QED
      BY <3>1, <3>2, SaysSet
  <2> HIDE DEF x
  <2>3. \A i \in 1 .. Len(items) : i # x => /\ items[i].says # "importing"
                                            /\ items[i].job # drain.item.job
    BY <1>1, <1>2, <2>1 DEF RowsTrue
  <2>4. Rowed(rs, clicks)
    BY <2>1, <2>2 DEF Rowed
  <2>5. ToDo(pending, rs)
    BY <2>1, <2>2 DEF ToDo
  <2>6. Due(rs, pending)
    BY <2>1, <2>2 DEF Due, Outcomes
  <2>7. \A i \in 1 .. Len(rs) : rs[i].says # "importing"
    BY <2>1, <2>2, <2>3 DEF Outcomes
  <2>8. \A i \in 1 .. Len(items) : items[i].says \in Outcomes => outcome[items[i].job] = items[i].says
    BY <1>1 DEF RowsTrue
  <2>9. ASSUME NEW i \in 1 .. Len(rs), rs[i].says \in Outcomes
        PROVE  outcome'[rs[i].job] = rs[i].says
    <3>0. rs[i] \in RowType
      BY <2>2
    <3>1. rs[i].job \in QueueJobs
      BY <3>0 DEF RowType
    <3>2. CASE i = x
      BY <1>1, <2>1, <2>2, <3>2
    <3>3. CASE i # x
      <4>1. i \in 1 .. Len(items) /\ rs[i] = items[i] /\ items[i].job # drain.item.job
        BY <2>2, <2>3, <3>3
      <4>2. outcome'[items[i].job] = outcome[items[i].job]
        BY <1>1, <3>1, <4>1
      <4> QED
        BY <2>8, <2>9, <4>1, <4>2
    <3> QED
      BY <3>2, <3>3
  <2> QED
    BY <2>4, <2>5, <2>6, <2>7, <2>9
<1>4. CASE drain.item.session # imports
  <2>1. rs = items /\ \A i \in 1 .. Len(items) : items[i].job # drain.item.job
    BY <1>4 DEF InHand, Ours, RowsSettled
  <2>2. \A i \in 1 .. Len(items) : items[i].says # "importing"
    BY <1>1, <2>1 DEF RowsTrue
  <2>3. \A i \in 1 .. Len(items) : items[i].says \in Outcomes => outcome[items[i].job] = items[i].says
    BY <1>1 DEF RowsTrue
  <2>4. \A i \in 1 .. Len(items) : items[i].job \in QueueJobs
    <3>1. \A i \in 1 .. Len(items) : items[i] \in RowType
      BY <1>1
    <3> QED
      BY <3>1 DEF RowType
  <2> QED
    BY <1>1, <2>1, <2>2, <2>3, <2>4
<1> QED
  BY <1>3, <1>4

LEMMA QueueInvNext == QueueInv /\ [ImportQueueNext]_queueVars => QueueInv'
<1> SUFFICES ASSUME QueueInv, [ImportQueueNext]_queueVars
             PROVE  QueueInv'
  OBVIOUS
<1> USE QueueAssumption
<1>0. /\ items \in Seq(RowType) /\ pending \in Seq(JobType) /\ Len(items) <= clicks
      /\ clicks \in 0 .. MaxClicks /\ imports \in 0 .. MaxClicks /\ imports <= clicks
      /\ outcome \in [QueueJobs -> Outcomes \cup {"none"}]
      /\ drain.at \in {"none", "answer", "reload"} /\ cancelled \in BOOLEAN /\ missed \in BOOLEAN
  BY DEF QueueInv, ImportQueueTypeOK, Rowed, ToDo
<1>1. CASE UNCHANGED queueVars
  BY <1>1 DEF queueVars, QueueInv, ImportQueueTypeOK, Rowed, ToDo, Due, DialogOpen, InHand, RowsTrue
<1>2. CASE OpenImport
  <2>1. /\ imports' = imports + 1 /\ cancelled' = FALSE /\ items' = <<>> /\ pending' = <<>>
        /\ clicks' = clicks + 1 /\ clicks < MaxClicks /\ UNCHANGED <<drain, outcome, missed>>
    BY <1>2 DEF OpenImport, Click
  <2>2. items' \in Seq(RowType) /\ pending' \in Seq(JobType)
    BY <2>1
  <2>3. ImportQueueTypeOK'
    <3>1. imports' \in 0 .. MaxClicks /\ clicks' \in 0 .. MaxClicks
      BY <1>0, <2>1
    <3>2. cancelled' \in BOOLEAN
      BY <2>1
    <3> QED
      BY <1>0, <2>1, <2>2, <3>1, <3>2 DEF ImportQueueTypeOK, RowType, JobType
  <2>4. Rowed(items, clicks)' /\ ToDo(pending, items)' /\ Due(items, pending)'
    BY <1>0, <2>1 DEF Rowed, ToDo, Due
  <2>5. InHand'
    <3>1. drain.at = "answer" => /\ drain.item \in JobType /\ drain.item.job <= clicks
                                 /\ drain.item.session <= imports
      BY DEF QueueInv, InHand
    <3>2. drain.at = "answer" => drain.item.session \in Nat /\ drain.item.job \in Nat
      BY <3>1 DEF JobType, QueueJobs
    <3> QED
      BY <1>0, <2>1, <3>1, <3>2 DEF InHand
  <2> QED
    BY <1>0, <2>1, <2>3, <2>4, <2>5 DEF QueueInv, RowsTrue
<1>3. CASE CloseImport
  <2>1. /\ cancelled' = TRUE /\ clicks' = clicks + 1 /\ clicks < MaxClicks
        /\ UNCHANGED <<imports, items, pending, drain, outcome, missed>>
    BY <1>3 DEF CloseImport, Click
  <2>2. ImportQueueTypeOK'
    BY <1>0, <2>1 DEF QueueInv, ImportQueueTypeOK
  <2>3. Rowed(items, clicks)'
    <3>1. \A i \in 1 .. Len(items) : items[i] \in RowType
      BY <1>0
    <3> QED
      BY <1>0, <2>1, <3>1 DEF QueueInv, Rowed, RowType, QueueJobs
  <2>4. ToDo(pending, items)' /\ Due(items, pending)'
    BY <2>1 DEF QueueInv, ToDo, Due, DialogOpen
  <2>5. InHand' /\ RowsTrue'
    BY <1>0, <2>1 DEF QueueInv, InHand, RowsTrue, JobType, QueueJobs
  <2> QED
    BY <1>0, <2>1, <2>2, <2>3, <2>4, <2>5 DEF QueueInv
<1>4. CASE Enqueue
  <2> DEFINE entry == [job |-> clicks', says |-> "queued"]
             rs == Append(items, entry)
             job == [job |-> clicks', index |-> Len(rs), session |-> imports]
             jobs == Append(pending, job)
  <2>1. /\ clicks' = clicks + 1 /\ clicks < MaxClicks /\ ~cancelled
        /\ UNCHANGED <<imports, cancelled, outcome>>
        /\ IF drain.at = "none" THEN Drain(rs, jobs)
           ELSE items' = rs /\ pending' = jobs /\ UNCHANGED drain
        /\ missed' = (missed \/ drain.at = "reload")
    BY <1>4 DEF Enqueue, Click, DialogOpen
  <2>2. /\ entry \in RowType /\ rs \in Seq(RowType) /\ Len(rs) = Len(items) + 1
        /\ rs[Len(rs)] = entry /\ \A i \in 1 .. Len(items) : rs[i] = items[i]
    BY <1>0, <2>1 DEF RowType, QueueJobs
  <2>3. /\ job \in JobType /\ jobs \in Seq(JobType) /\ Len(jobs) = Len(pending) + 1
        /\ jobs[Len(jobs)] = job /\ \A k \in 1 .. Len(pending) : jobs[k] = pending[k]
    BY <1>0, <2>1, <2>2 DEF JobType, QueueJobs
  <2>4. /\ entry.job = clicks + 1 /\ entry.says = "queued" /\ job.job = clicks + 1
        /\ job.index = Len(rs) /\ job.session = imports
    BY <2>1
  <2> HIDE DEF entry, rs, job, jobs
  <2>5. Rowed(rs, clicks')
    <3>1. \A i \in 1 .. Len(items) : items[i].job <= clicks /\ items[i].job \in Nat
      <4>1. \A i \in 1 .. Len(items) : items[i] \in RowType
        BY <1>0
      <4> QED
        BY <4>1 DEF QueueInv, Rowed, RowType, QueueJobs
    <3> QED
      <4>1. \A i, j \in 1 .. Len(items) : i < j => items[i].job < items[j].job
        BY DEF QueueInv, Rowed
      <4>2. \A i \in 1 .. Len(rs) : i \in 1 .. Len(items) \/ i = Len(rs)
        BY <2>2
      <4>3. \A i \in 1 .. Len(rs) : rs[i].job <= clicks'
        BY <1>0, <2>1, <2>2, <2>4, <3>1, <4>2
      <4>4. ASSUME NEW i \in 1 .. Len(rs), NEW j \in 1 .. Len(rs), i < j
            PROVE  rs[i].job < rs[j].job
        <5>1. i \in 1 .. Len(items)
          BY <2>2, <4>4
        <5>2. CASE j \in 1 .. Len(items)
          BY <2>2, <4>1, <4>4, <5>1, <5>2
        <5>3. CASE j = Len(rs)
          BY <1>0, <2>2, <2>4, <3>1, <5>1, <5>3
        <5> QED
          BY <4>2, <5>2, <5>3
      <4> QED
        BY <1>0, <2>1, <2>2, <4>3, <4>4 DEF Rowed
  <2>6. ToDo(jobs, rs)
    <3>1. \A k \in 1 .. Len(pending) : /\ pending[k].index \in 1 .. Len(items)
                                       /\ pending[k].session = imports
                                       /\ items[pending[k].index].job = pending[k].job
                                       /\ items[pending[k].index].says = "queued"
      BY DEF QueueInv, ToDo
    <3>2. \A k \in 1 .. Len(jobs) : k \in 1 .. Len(pending) \/ k = Len(jobs)
      BY <2>3
    <3>3. ASSUME NEW k \in 1 .. Len(jobs)
          PROVE  /\ jobs[k].index \in 1 .. Len(rs) /\ jobs[k].session = imports
                 /\ rs[jobs[k].index].job = jobs[k].job /\ rs[jobs[k].index].says = "queued"
      BY <2>2, <2>3, <2>4, <3>1, <3>2, SMTT(30)
    <3>4. ASSUME NEW k \in 1 .. Len(jobs), NEW l \in 1 .. Len(jobs), k < l
          PROVE  jobs[k].index < jobs[l].index
      <4>1. k \in 1 .. Len(pending)
        BY <2>3, <3>4
      <4>2. CASE l \in 1 .. Len(pending)
        BY <2>3, <3>4, <4>1, <4>2 DEF QueueInv, ToDo
      <4>3. CASE l = Len(jobs)
        BY <2>2, <2>3, <2>4, <3>1, <4>1, <4>3
      <4> QED
        BY <3>2, <4>2, <4>3
    <3> QED
      BY <2>3, <3>3, <3>4 DEF ToDo
  <2>7. Due(rs, jobs)
    <3>1. ASSUME DialogOpen, NEW i \in 1 .. Len(rs), rs[i].says = "queued"
          PROVE  \E k \in 1 .. Len(jobs) : jobs[k].index = i
      <4>1. CASE i \in 1 .. Len(items)
        <5>1. PICK k \in 1 .. Len(pending) : pending[k].index = i
          BY <2>2, <3>1, <4>1 DEF QueueInv, Due
        <5> QED
          BY <2>3, <5>1
      <4>2. CASE i = Len(rs)
        BY <2>3, <2>4, <4>2
      <4> QED
        BY <2>2, <4>1, <4>2
    <3> QED
      BY <3>1 DEF Due
  <2>8. \A i \in 1 .. Len(rs) : \/ i \in 1 .. Len(items) /\ rs[i] = items[i]
                                \/ i = Len(rs) /\ rs[i] = entry
    BY <2>2
  <2>9. CASE drain.at = "none"
    <3>1. \A i \in 1 .. Len(rs) : rs[i].says # "importing"
      <4>1. \A i \in 1 .. Len(items) : items[i].says # "importing"
        <5>1. drain.at # "answer" /\ DOMAIN items = 1 .. Len(items)
          BY <1>0, <2>9
        <5> QED
          BY <5>1 DEF QueueInv, RowsTrue
      <4>2. entry.says # "importing"
        BY <2>4
      <4> QED
        BY <2>8, <4>1, <4>2
    <3>2. Drain(rs, jobs) /\ missed' = missed /\ clicks' \in Nat
      BY <1>0, <2>1, <2>9
    <3>3. /\ Rowed(items', clicks') /\ ToDo(pending, items)' /\ Due(items, pending)'
          /\ drain'.at \in {"answer", "reload"} /\ (drain'.at = "reload" => pending' = <<>>)
          /\ Len(items') = Len(rs)
          /\ \A i \in 1 .. Len(rs) : items'[i].job = rs[i].job
          /\ \A i \in 1 .. Len(rs) : items'[i].says \in Outcomes => items'[i] = rs[i]
          /\ \A i \in 1 .. Len(rs) : items'[i].says = "importing" =>
                 drain'.at = "answer" /\ drain'.item.job = items'[i].job
          /\ drain'.at = "answer" =>
                 /\ drain'.item \in JobType /\ drain'.item.session = imports
                 /\ drain'.item.index \in 1 .. Len(rs)
                 /\ items'[drain'.item.index].job = drain'.item.job
                 /\ items'[drain'.item.index].says = "importing"
      <4>1. UNCHANGED <<imports, cancelled>> /\ Drain(rs, jobs) /\ clicks' \in Nat
        BY <2>1, <3>2
      <4>2. Drained(rs, clicks')
        BY <2>5, <2>6, <2>7, <3>1, <4>1, DrainTakes
      <4> QED
        BY <4>2 DEF Drained
    <3>4. ImportQueueTypeOK'
      BY <1>0, <2>1, <3>2, <3>3
         DEF ImportQueueTypeOK, Rowed, ToDo, RowType, JobType
    <3>5. InHand'
      BY <1>0, <2>1, <3>3 DEF InHand, Rowed
    <3>6. RowsTrue'
      <4>1. items' \in Seq(RowType)
        BY <3>3 DEF Rowed
      <4>2. ASSUME NEW i \in 1 .. Len(items'), items'[i].says \in Outcomes
            PROVE  outcome'[items'[i].job] = items'[i].says
        <5>1. i \in 1 .. Len(items) /\ items'[i] = items[i]
          BY <2>4, <2>8, <3>3, <4>2 DEF Outcomes
        <5> QED
          BY <1>0, <2>1, <4>2, <5>1 DEF QueueInv, RowsTrue
      <4> QED
        BY <3>3, <4>1, <4>2 DEF RowsTrue
    <3> QED
      BY <1>0, <2>1, <3>3, <3>4, <3>5, <3>6 DEF QueueInv
  <2>10. CASE drain.at # "none"
    <3>1. items' = rs /\ pending' = jobs /\ UNCHANGED drain
      BY <2>1, <2>10
    <3>2. ImportQueueTypeOK'
      BY <1>0, <2>1, <2>2, <2>3, <3>1 DEF ImportQueueTypeOK, RowType, JobType
    <3>3. InHand'
      <4>1. drain.at = "answer" => drain.item.job \in Nat /\ drain.item.job <= clicks
        BY DEF QueueInv, InHand, JobType, QueueJobs
      <4>2. ASSUME drain.at = "answer"
            PROVE  IF drain.item.session = imports
                   THEN /\ drain.item.index \in 1 .. Len(rs)
                        /\ rs[drain.item.index].job = drain.item.job
                        /\ rs[drain.item.index].says = "importing"
                   ELSE \A i \in 1 .. Len(rs) : rs[i].job # drain.item.job
        <5>1. CASE drain.item.session = imports
          BY <1>0, <2>2, <4>2, <5>1 DEF QueueInv, InHand
        <5>2. CASE drain.item.session # imports
          <6>1. \A i \in 1 .. Len(items) : items[i].job # drain.item.job
            BY <4>2, <5>2 DEF QueueInv, InHand
          <6>2. entry.job # drain.item.job
            BY <1>0, <2>4, <4>1, <4>2
          <6> QED
            BY <2>8, <5>2, <6>1, <6>2
        <5> QED
          BY <5>1, <5>2
      <4>3. drain.at = "answer" => /\ drain.item \in JobType /\ drain.item.job <= clicks'
                                   /\ drain.item.session <= imports
        BY <1>0, <2>1, <4>1 DEF QueueInv, InHand
      <4> QED
        BY <2>1, <3>1, <4>2, <4>3 DEF InHand
    <3>4. RowsTrue'
      BY <1>0, <2>1, <2>2, <2>4, <2>8, <3>1 DEF QueueInv, RowsTrue, Outcomes
    <3>5. Due(items, pending)' /\ ToDo(pending, items)'
      BY <2>1, <2>6, <2>7, <3>1 DEF ToDo, Due, DialogOpen
    <3> QED
      <4>1. (~missed /\ drain.at # "answer" => pending = <<>>)'
        BY <1>0, <2>1, <2>10, <3>1
      <4>2. imports' <= clicks' /\ Rowed(items, clicks)'
        BY <1>0, <2>1, <2>5, <3>1 DEF Rowed
      <4> QED
        BY <3>2, <3>3, <3>4, <3>5, <4>1, <4>2 DEF QueueInv
  <2> QED
    BY <2>9, <2>10
<1>5. CASE JobSettles
  <2>1. PICK a \in Outcomes :
          LET rs == IF Ours(drain.item) THEN [items EXCEPT ![drain.item.index].says = a]
                    ELSE items
          IN  /\ outcome' = [outcome EXCEPT ![drain.item.job] = a]
              /\ IF Carried(a) THEN Drain(rs, pending)
                 ELSE drain' = Waiting("none") /\ items' = rs /\ UNCHANGED pending
    BY <1>5 DEF JobSettles
  <2> DEFINE rs == RowsSettled(a)
  <2>2. /\ drain.at = "answer" /\ outcome' = [outcome EXCEPT ![drain.item.job] = a]
        /\ Drain(rs, pending) /\ UNCHANGED <<imports, cancelled, missed, clicks>>
    BY <1>5, <2>1 DEF JobSettles, Carried, RowsSettled
  <2>3. /\ Rowed(rs, clicks) /\ ToDo(pending, rs) /\ Due(rs, pending)
        /\ \A i \in 1 .. Len(rs) : rs[i].says # "importing"
        /\ \A i \in 1 .. Len(rs) : rs[i].says \in Outcomes => outcome'[rs[i].job] = rs[i].says
    BY <2>2, SettleRows
  <2> HIDE DEF rs
  <2>4. /\ Rowed(items', clicks) /\ ToDo(pending, items)' /\ Due(items, pending)'
        /\ drain'.at \in {"answer", "reload"} /\ (drain'.at = "reload" => pending' = <<>>)
        /\ Len(items') = Len(rs)
        /\ \A i \in 1 .. Len(rs) : items'[i].job = rs[i].job
        /\ \A i \in 1 .. Len(rs) : items'[i].says \in Outcomes => items'[i] = rs[i]
        /\ \A i \in 1 .. Len(rs) : items'[i].says = "importing" =>
               drain'.at = "answer" /\ drain'.item.job = items'[i].job
        /\ drain'.at = "answer" =>
               /\ drain'.item \in JobType /\ drain'.item.session = imports
               /\ drain'.item.index \in 1 .. Len(rs)
               /\ items'[drain'.item.index].job = drain'.item.job
               /\ items'[drain'.item.index].says = "importing"
    <3>1. UNCHANGED <<imports, cancelled>> /\ Drain(rs, pending) /\ clicks \in Nat
      BY <1>0, <2>2
    <3>2. Rowed(rs, clicks) /\ ToDo(pending, rs) /\ Due(rs, pending)
      BY <2>3
    <3>3. \A i \in 1 .. Len(rs) : rs[i].says # "importing"
      BY <2>3
    <3>4. Drained(rs, clicks)
      BY <3>1, <3>2, <3>3, DrainTakes
    <3> QED
      BY <2>2, <3>4 DEF Drained
  <2>5. outcome' \in [QueueJobs -> Outcomes \cup {"none"}]
    BY <1>0, <2>2
  <2>6. ImportQueueTypeOK'
    BY <1>0, <2>2, <2>4, <2>5 DEF ImportQueueTypeOK, Rowed, ToDo, RowType, JobType
  <2>7. InHand'
    BY <1>0, <2>2, <2>4 DEF InHand, Rowed
  <2>8. RowsTrue'
    <3>1. items' \in Seq(RowType)
      BY <2>4 DEF Rowed
    <3> QED
      BY <2>3, <2>4, <3>1 DEF RowsTrue
  <2> QED
    BY <1>0, <2>2, <2>4, <2>6, <2>7, <2>8 DEF QueueInv
<1>6. CASE Reloaded
  <2>1. /\ drain.at = "reload" /\ drain'.at = "none"
        /\ UNCHANGED <<imports, cancelled, items, pending, outcome, missed, clicks>>
    BY <1>6 DEF Reloaded, Waiting
  <2> QED
    BY <2>1 DEF QueueInv, ImportQueueTypeOK, Rowed, ToDo, Due, DialogOpen, InHand, RowsTrue
<1> QED
  BY <1>1, <1>2, <1>3, <1>4, <1>5, <1>6 DEF ImportQueueNext

LEMMA QueueInvHolds == QueueInv => QueueHolds
<1> SUFFICES ASSUME QueueInv, drain.at # "answer", DialogOpen, ~missed, NEW i \in DOMAIN items
             PROVE  items[i].says \in Outcomes
  BY DEF QueueInv, QueueHolds, NothingWaits
<1>1. items \in Seq(RowType) /\ pending = <<>>
  BY DEF QueueInv, Rowed
<1>2. items[i] \in RowType /\ i \in 1 .. Len(items)
  BY <1>1
<1>3. items[i].says # "importing"
  BY DEF QueueInv, RowsTrue
<1>4. items[i].says # "queued"
  BY <1>1, <1>2 DEF QueueInv, Due
<1> QED
  BY <1>2, <1>3, <1>4 DEF RowType

----------------------------------------------------------------------------
(* The library in the browser.                                             *)

TagKinds == {"tag", "untag", "untag_all"}
LiveKinds == {"drop", "undo"}
WriteType ==
    [n : 1 .. MaxGestures, kind : {"star"} \cup TagKinds \cup LiveKinds, papers : SUBSET Listed,
     at : {"sent", "served", "refused", "over", "failed"}, prev : BOOLEAN, row : Nat]
Shows == Flags \cup {Absent}
ListLoadType ==
    [n : Nat, filter : Filters, mixed : SUBSET Listed, answer : [Listed -> Shows] \cup {Absent}]
GetType == [n : 1 .. MaxGestures, paper : Listed, mixed : SUBSET Listed, answer : Shows]

ViewType ==
    /\ kept \in [Listed -> [live : BOOLEAN, starred : BOOLEAN, tagged : BOOLEAN]]
    /\ rows \in [Listed -> Shows] /\ details \in [Listed -> Shows]
    /\ listing \in Nat /\ seq \in Nat /\ filter \in Filters /\ gestures \in 0 .. MaxGestures
    /\ listLoads \subseteq ListLoadType /\ gets \subseteq GetType /\ writes \subseteq WriteType
    /\ toasts \subseteq SUBSET Listed

Active(w) == w.at \in {"sent", "served", "refused"}

\* A gesture's writes are of one kind, of one paper unless a tag goes for good.
WritesWell ==
    /\ \A w \in writes : /\ w.n <= gestures /\ (Active(w) \/ w.kind \in LiveKinds)
                         /\ w.kind \in {"star", "tag", "untag"} => \E p \in Listed : w.papers = {p}
    /\ \A u, v \in writes : u.n = v.n => u.kind = v.kind

\* A read knows of every write that was on its way with it, ...
ReadsMixed ==
    \A w \in writes : Active(w) =>
        /\ \A l \in listLoads : w.papers \subseteq l.mixed
        /\ \A g \in gets : w.papers \subseteq g.mixed

\* ... and of the other papers its answer is still true.
ReadsTrue ==
    /\ \A l \in listLoads : l.answer # Absent =>
           \A p \in Listed \ l.mixed : l.answer[p] = RowsUnder(l.filter)[p]
    /\ \A g \in gets : g.answer # Absent /\ g.paper \notin g.mixed => g.answer = FlagsOf(g.paper)

Newest == \A l \in listLoads : l.n <= seq /\ (l.n = seq => l.filter = filter)
NewestOut == \E l \in listLoads : l.n = seq
TagGone == \E a \in after : a.why = "deleted"

RowSure(p) == <<p, "row">> \notin doubt
DetailSure(p) == details[p] # Absent /\ <<p, "detail">> \notin doubt

On(p) == {w \in writes : p \in w.papers}

\* Of two writes of one thing at a time what comes is not known.
OneAtATime(p) ==
    \A u, v \in On(p) : u # v /\ Active(u) /\ Touches(u.kind) = Touches(v.kind) =>
        ~RowSure(p) /\ ~DetailSure(p)

\* What was served is so in the server.
Took(p) ==
    \A w \in On(p) : w.at = "served" =>
        /\ w.kind \in TagKinds /\ (RowSure(p) \/ DetailSure(p)) => kept[p].tagged = (w.kind = "tag")
        /\ w.kind = "drop" /\ RowSure(p) => ~kept[p].live

\* The star is the server's, or the one that a write on its way makes of it.
StarTrue(flags, p) ==
    /\ \A w \in On(p) : w.kind = "star" =>
           /\ flags.starred = ~w.prev
           /\ kept[p].starred = IF w.at = "served" THEN ~w.prev ELSE w.prev
    /\ (\A w \in On(p) : w.kind # "star") => flags.starred = kept[p].starred

TagTrue(flags, p) ==
    (\A w \in On(p) : w.kind \in TagKinds => w.at # "served") => flags.tagged = kept[p].tagged

RowTrue(p) ==
    RowSure(p) /\ rows[p] # Absent =>
        /\ StarTrue(rows[p], p)
        /\ \A w \in On(p) : w.kind = "star" => w.row = listing
        /\ ~NewestOut /\ ~TagGone => TagTrue(rows[p], p)

DetailTrue(p) == DetailSure(p) => StarTrue(details[p], p) /\ TagTrue(details[p], p)

\* No write served has yet to change what is listed.
Quiet(p) ==
    \A w \in On(p) :
        /\ w.kind \in LiveKinds => w.at # "served"
        /\ w.kind = "undo" => w.at # "over"
        /\ filter = "starred" /\ w.kind = "star" => w.at # "served"
        /\ filter = "tagged" /\ w.kind \in TagKinds => w.at # "served"

\* The list has the papers that pass the filter, unless it is about to be loaded.
ListTrue(p) ==
    RowSure(p) /\ ~NewestOut /\ ~TagGone /\ (filter = "tagged" => after = {}) /\ Quiet(p) =>
        (rows[p] # Absent <=> kept[p].live /\ Passes(filter, FlagsOf(p)))

Sound(p) ==
    OneAtATime(p) /\ Took(p) /\ RowTrue(p) /\ DetailTrue(p) /\ ListTrue(p)

ViewInv ==
    /\ ViewType /\ WritesWell /\ ReadsMixed /\ ReadsTrue /\ Newest
    /\ \A p \in Listed : Sound(p)

----------------------------------------------------------------------------

LEMMA NoFlags == Absent \notin Flags
<1> SUFFICES ASSUME Absent \in Flags
             PROVE  FALSE
  OBVIOUS
<1>1. DOMAIN Absent = {"none"} /\ DOMAIN Absent = {"starred", "tagged"}
  BY DEF Absent, Flags
<1>2. "none" # "starred"
  OBVIOUS
<1> QED
  BY <1>1, <1>2

LEMMA TouchesOf ==
    /\ Touches("star") = {"starred"}
    /\ \A k \in TagKinds : Touches(k) = {"tagged"}
    /\ \A k \in LiveKinds : Touches(k) = {"live"}
BY DEF Touches, TagKinds, LiveKinds

LEMMA KeptRows ==
    ASSUME ViewType
    PROVE  /\ \A p \in Listed : /\ FlagsOf(p) \in Flags /\ FlagsOf(p) # Absent
                                /\ FlagsOf(p).starred = kept[p].starred
                                /\ FlagsOf(p).tagged = kept[p].tagged
                                /\ kept[p].live \in BOOLEAN /\ kept[p].starred \in BOOLEAN
                                /\ kept[p].tagged \in BOOLEAN
           /\ \A f : RowsUnder(f) \in [Listed -> Shows]
           /\ \A f : \A p \in Listed :
                RowsUnder(f)[p] = IF kept[p].live /\ Passes(f, FlagsOf(p)) THEN FlagsOf(p) ELSE Absent
<1>1. \A p \in Listed : kept[p] \in [live : BOOLEAN, starred : BOOLEAN, tagged : BOOLEAN]
  BY DEF ViewType
<1>2. \A p \in Listed : /\ FlagsOf(p) \in Flags
                        /\ FlagsOf(p).starred = kept[p].starred
                        /\ FlagsOf(p).tagged = kept[p].tagged
  BY <1>1 DEF FlagsOf, Flags
<1>3. \A f : RowsUnder(f) \in [Listed -> Shows]
  BY <1>2 DEF RowsUnder, Shows
<1> QED
  BY <1>1, <1>2, <1>3, NoFlags DEF RowsUnder

LEMMA ViewInvInit == ViewInit => ViewInv
<1> SUFFICES ASSUME ViewInit
             PROVE  ViewInv
  OBVIOUS
<1> USE ViewAssumption
<1>1. /\ kept = [p \in Listed |-> [live |-> TRUE, starred |-> p \in Favourites, tagged |-> FALSE]]
      /\ rows = RowsUnder("all") /\ listing = 0 /\ filter = "all"
      /\ details = [p \in Listed |-> Absent] /\ seq = 0 /\ gestures = 0
      /\ listLoads = {} /\ gets = {} /\ writes = {} /\ after = {} /\ toasts = {} /\ doubt = {}
  BY DEF ViewInit
<1>2. kept \in [Listed -> [live : BOOLEAN, starred : BOOLEAN, tagged : BOOLEAN]]
  BY <1>1
<1>3. RowsUnder("all") \in [Listed -> Shows]
  <2>1. \A p \in Listed : FlagsOf(p) \in Flags
    BY <1>2 DEF FlagsOf, Flags
  <2> QED
    BY <2>1 DEF RowsUnder, Shows
<1>4. ViewType
  BY <1>1, <1>2, <1>3 DEF ViewType, Filters, Shows
<1>5. WritesWell /\ ReadsMixed /\ ReadsTrue /\ Newest
  BY <1>1 DEF WritesWell, ReadsMixed, ReadsTrue, Newest
<1>6. ASSUME NEW p \in Listed
      PROVE  Sound(p)
  <2>1. On(p) = {} /\ ~DetailSure(p)
    BY <1>1 DEF On, DetailSure
  <2>2. RowsUnder("all")[p] = IF kept[p].live THEN FlagsOf(p) ELSE Absent
    BY <1>4, KeptRows DEF Passes
  <2>3. /\ FlagsOf(p) # Absent /\ FlagsOf(p).starred = kept[p].starred
        /\ FlagsOf(p).tagged = kept[p].tagged
    BY <1>4, KeptRows
  <2>4. OneAtATime(p) /\ Took(p) /\ DetailTrue(p)
    BY <2>1 DEF OneAtATime, Took, DetailTrue
  <2>5. RowTrue(p)
    BY <1>1, <2>1, <2>2, <2>3 DEF RowTrue, StarTrue, TagTrue
  <2>6. ListTrue(p)
    BY <1>1, <2>2, <2>3 DEF ListTrue, Passes
  <2> QED
    BY <2>4, <2>5, <2>6 DEF Sound
<1> QED
  BY <1>4, <1>5, <1>6 DEF ViewInv

----------------------------------------------------------------------------
(* What most steps do with a paper.                                        *)

Framed(p) ==
    /\ kept'[p] = kept[p] /\ rows'[p] = rows[p] /\ listing' = listing
    /\ details'[p] = details[p] \/ details'[p] = Absent
    /\ RowSure(p)' => RowSure(p)
    /\ DetailSure(p)' => DetailSure(p)
    /\ \A w \in On(p) : w \in On(p)' \/ (w.kind # "star" /\ (w.kind \in TagKinds => w.at # "served"))
    /\ \A w \in On(p)' : w \in On(p) \/ (w.kind # "star" /\ w.at # "served")
    /\ OneAtATime(p)'
    /\ ~NewestOut' =>
         /\ filter' = filter /\ ~NewestOut
         /\ TagGone => TagGone'
         /\ filter = "tagged" /\ after' = {} => after = {}
         /\ RowSure(p)' /\ Quiet(p)' => Quiet(p)

LEMMA FrameKeeps ==
    ASSUME NEW p, Sound(p), Framed(p)
    PROVE  Sound(p)'
<1>0. OneAtATime(p) /\ Took(p) /\ RowTrue(p) /\ DetailTrue(p) /\ ListTrue(p)
  BY DEF Sound
<1>1. /\ kept'[p] = kept[p] /\ rows'[p] = rows[p] /\ listing' = listing
      /\ details'[p] = details[p] \/ details'[p] = Absent
      /\ RowSure(p)' => RowSure(p)
      /\ DetailSure(p)' => DetailSure(p) /\ details'[p] = details[p]
      /\ OneAtATime(p)'
  BY DEF Framed, DetailSure
<1>2. /\ \A w \in On(p) : w \in On(p)' \/ (w.kind # "star" /\ (w.kind \in TagKinds => w.at # "served"))
      /\ \A w \in On(p)' : w \in On(p) \/ (w.kind # "star" /\ w.at # "served")
  BY DEF Framed
<1>3. ~NewestOut' => /\ filter' = filter /\ ~NewestOut
                     /\ TagGone => TagGone'
                     /\ filter = "tagged" /\ after' = {} => after = {}
                     /\ RowSure(p)' /\ Quiet(p)' => Quiet(p)
  BY DEF Framed
<1>4. Took(p)'
  BY <1>0, <1>1, <1>2 DEF Took
<1>6. \A w \in On(p)' : w.kind = "star" => w \in On(p)
  BY <1>2
<1>7. RowTrue(p)'
  <2> SUFFICES ASSUME RowSure(p)', rows'[p] # Absent
               PROVE  /\ StarTrue(rows[p], p)'
                      /\ \A w \in On(p)' : w.kind = "star" => w.row = listing'
                      /\ ~NewestOut' /\ ~TagGone' => TagTrue(rows[p], p)'
    BY DEF RowTrue
  <2>1. /\ StarTrue(rows[p], p) /\ \A w \in On(p) : w.kind = "star" => w.row = listing
        /\ ~NewestOut /\ ~TagGone => TagTrue(rows[p], p)
    BY <1>0, <1>1 DEF RowTrue
  <2>2. StarTrue(rows[p], p)'
    BY <1>1, <1>2, <2>1 DEF StarTrue
  <2>3. TagTrue(rows[p], p) => TagTrue(rows[p], p)'
    BY <1>1, <1>2 DEF TagTrue
  <2> QED
    BY <1>1, <1>3, <1>6, <2>1, <2>2, <2>3
<1>8. DetailTrue(p)'
  <2> SUFFICES ASSUME DetailSure(p)'
               PROVE  StarTrue(details[p], p)' /\ TagTrue(details[p], p)'
    BY DEF DetailTrue
  <2>1. StarTrue(details[p], p) /\ TagTrue(details[p], p) /\ details'[p] = details[p]
    BY <1>0, <1>1 DEF DetailTrue
  <2>2. StarTrue(details[p], p)'
    BY <1>1, <1>2, <2>1 DEF StarTrue
  <2>3. TagTrue(details[p], p)'
    BY <1>1, <1>2, <2>1 DEF TagTrue
  <2> QED
    BY <2>2, <2>3
<1>9. ListTrue(p)'
  <2>1. FlagsOf(p)' = FlagsOf(p)
    BY <1>1 DEF FlagsOf
  <2> QED
    BY <1>0, <1>1, <1>3, <2>1 DEF ListTrue, Passes
<1> QED
  BY <1>1, <1>4, <1>7, <1>8, <1>9 DEF Sound

LEMMA ReadFrame ==
    ASSUME NEW p, Sound(p), UNCHANGED writes, kept'[p] = kept[p], rows'[p] = rows[p],
           listing' = listing, details'[p] = details[p] \/ details'[p] = Absent,
           RowSure(p)' => RowSure(p), DetailSure(p)' => DetailSure(p),
           ~NewestOut' => /\ filter' = filter /\ ~NewestOut /\ (TagGone => TagGone')
                          /\ filter = "tagged" /\ after' = {} => after = {}
    PROVE  Sound(p)'
<1>1. On(p)' = On(p)
  BY DEF On
<1>2. OneAtATime(p)'
  BY <1>1 DEF Sound, OneAtATime
<1>3. ~NewestOut' => (Quiet(p)' <=> Quiet(p))
  BY <1>1 DEF Quiet
<1>4. Framed(p)
  BY <1>1, <1>2, <1>3 DEF Framed
<1> QED
  BY <1>4, FrameKeeps

LEMMA SameSure ==
    ASSUME UNCHANGED <<doubt, details>>
    PROVE  \A p : (RowSure(p)' <=> RowSure(p)) /\ (DetailSure(p)' <=> DetailSure(p))
BY DEF RowSure, DetailSure

LEMMA LoadListGives ==
    ASSUME ViewType, Newest, NEW f \in Filters, NEW amid \in SUBSET Listed, LoadList(f, amid)
    PROVE  LET new == [n |-> seq + 1, filter |-> f, mixed |-> amid, answer |-> Absent]
           IN  /\ listLoads' = listLoads \cup {new} /\ new \in ListLoadType
               /\ new.mixed = amid /\ new.answer = Absent
               /\ seq' \in Nat /\ seq < seq' /\ NewestOut' /\ (filter' = f => Newest')
<1> DEFINE new == [n |-> seq + 1, filter |-> f, mixed |-> amid, answer |-> Absent]
<1>1. /\ seq \in Nat /\ seq' = seq + 1 /\ listLoads' = listLoads \cup {new}
      /\ new.n = seq + 1 /\ new.filter = f /\ new.mixed = amid /\ new.answer = Absent
      /\ new \in ListLoadType
  BY DEF LoadList, ViewType, ListLoadType
<1> HIDE DEF new
<1>2. \A l \in listLoads : l.n \in Nat /\ l.n <= seq
  <2>1. \A l \in listLoads : l \in ListLoadType
    BY DEF ViewType
  <2> QED
    BY <2>1 DEF ListLoadType, Newest
<1>3. NewestOut'
  BY <1>1 DEF NewestOut
<1>4. filter' = f => Newest'
  BY <1>1, <1>2 DEF Newest
<1> QED
  BY <1>1, <1>3, <1>4 DEF new

\* The reads on their way know of the writes that are.
LEMMA MixedKeeps ==
    ASSUME ReadsMixed,
           \A w \in writes' : Active(w) => \E v \in writes : Active(v) /\ v.papers = w.papers,
           \A l \in listLoads' : Writing(writes') \subseteq l.mixed
                                 \/ \E k \in listLoads : k.mixed \subseteq l.mixed,
           \A g \in gets' : Writing(writes') \subseteq g.mixed
                            \/ \E k \in gets : k.mixed \subseteq g.mixed
    PROVE  ReadsMixed'
<1>1. \A w \in writes' : Active(w) => w.papers \subseteq Writing(writes')
  BY DEF Active, Writing
<1>2. ASSUME NEW w \in writes', Active(w), NEW l \in listLoads'
      PROVE  w.papers \subseteq l.mixed
  BY <1>1, <1>2 DEF ReadsMixed
<1>3. ASSUME NEW w \in writes', Active(w), NEW g \in gets'
      PROVE  w.papers \subseteq g.mixed
  BY <1>1, <1>3 DEF ReadsMixed
<1> QED
  BY <1>2, <1>3 DEF ReadsMixed

LEMMA WritingPapers == ASSUME ViewType PROVE InWriting \in SUBSET Listed
<1>1. \A w \in writes : w.papers \subseteq Listed
  BY DEF ViewType, WriteType
<1> QED
  BY <1>1 DEF InWriting, Writing

LEMMA SetFilterKeeps == ASSUME ViewInv, NEW f \in Filters, SetFilter(f) PROVE ViewInv'
<1>0. ViewType /\ WritesWell /\ ReadsMixed /\ ReadsTrue /\ Newest /\ \A p \in Listed : Sound(p)
  BY DEF ViewInv
<1>1. /\ filter' = f /\ gestures < MaxGestures /\ gestures' = gestures + 1
      /\ LoadList(f, InWriting)
      /\ UNCHANGED <<kept, rows, listing, details, gets, writes, after, toasts, doubt>>
  BY DEF SetFilter, Gesture
<1> DEFINE new == [n |-> seq + 1, filter |-> f, mixed |-> InWriting, answer |-> Absent]
<1>2. /\ listLoads' = listLoads \cup {new} /\ new \in ListLoadType
      /\ new.mixed = InWriting /\ new.answer = Absent
      /\ seq' \in Nat /\ seq < seq' /\ NewestOut' /\ Newest'
  BY <1>0, <1>1, WritingPapers, LoadListGives
<1> HIDE DEF new
<1>3. gestures \in Nat /\ gestures' \in 0 .. MaxGestures /\ gestures <= gestures'
  BY <1>0, <1>1, ViewAssumption DEF ViewType
<1>4. ViewType'
  BY <1>0, <1>1, <1>2, <1>3 DEF ViewType
<1>5. WritesWell'
  <2>1. \A w \in writes : w.n \in Nat
    BY <1>0, ViewAssumption DEF ViewType, WriteType
  <2> QED
    BY <1>0, <1>1, <1>3, <2>1 DEF WritesWell
<1>6. ReadsMixed'
  BY <1>0, <1>1, <1>2, MixedKeeps DEF InWriting
<1>7. ReadsTrue'
  BY <1>0, <1>1, <1>2 DEF ReadsTrue, RowsUnder, FlagsOf
<1>8. ASSUME NEW p \in Listed
      PROVE  Sound(p)'
  BY <1>0, <1>1, <1>2, ReadFrame, SameSure
<1> QED
  BY <1>2, <1>4, <1>5, <1>6, <1>7, <1>8 DEF ViewInv

LEMMA ServeListKeeps == ASSUME ViewInv, NEW l \in listLoads, ServeList(l) PROVE ViewInv'
<1>0. ViewType /\ WritesWell /\ ReadsMixed /\ ReadsTrue /\ Newest /\ \A p \in Listed : Sound(p)
  BY DEF ViewInv
<1> DEFINE new == [l EXCEPT !.answer = RowsUnder(l.filter)]
<1>1. /\ listLoads' = (listLoads \ {l}) \cup {new}
      /\ UNCHANGED <<kept, rows, listing, filter, details, seq, gets, writes, after, toasts, doubt,
                     gestures>>
  BY DEF ServeList
<1>2. /\ new \in ListLoadType /\ new.n = l.n /\ new.filter = l.filter /\ new.mixed = l.mixed
      /\ new.answer = RowsUnder(l.filter)
  <2>1. l \in ListLoadType /\ RowsUnder(l.filter) \in [Listed -> Shows]
    BY <1>0, KeptRows DEF ViewType
  <2> QED
    BY <2>1 DEF ListLoadType
<1> HIDE DEF new
<1>3. ViewType'
  BY <1>0, <1>1, <1>2 DEF ViewType
<1>4. WritesWell'
  BY <1>0, <1>1 DEF WritesWell
<1>5. ReadsMixed'
  BY <1>0, <1>1, <1>2, MixedKeeps
<1>6. ReadsTrue'
  <2>1. \A f : RowsUnder(f)' = RowsUnder(f)
    BY <1>1 DEF RowsUnder, FlagsOf
  <2>2. \A g \in gets : FlagsOf(g.paper)' = FlagsOf(g.paper)
    BY <1>1 DEF FlagsOf
  <2> QED
    BY <1>0, <1>1, <1>2, <2>1, <2>2 DEF ReadsTrue
<1>7. Newest' /\ (NewestOut' <=> NewestOut)
  BY <1>0, <1>1, <1>2 DEF Newest, NewestOut
<1>8. ASSUME NEW p \in Listed
      PROVE  Sound(p)'
  <2>1. TagGone' <=> TagGone
    BY <1>1 DEF TagGone
  <2> QED
    BY <1>0, <1>1, <1>7, <2>1, ReadFrame, SameSure
<1> QED
  BY <1>3, <1>4, <1>5, <1>6, <1>7, <1>8 DEF ViewInv

LEMMA OpenDetailKeeps == ASSUME ViewInv, NEW p \in Listed, OpenDetail(p) PROVE ViewInv'
<1>0. ViewType /\ WritesWell /\ ReadsMixed /\ ReadsTrue /\ Newest /\ \A q \in Listed : Sound(q)
  BY DEF ViewInv
<1> DEFINE new == [n |-> gestures', paper |-> p, mixed |-> InWriting, answer |-> Absent]
<1>1. /\ gestures < MaxGestures /\ gestures' = gestures + 1 /\ gets' = gets \cup {new}
      /\ UNCHANGED <<kept, rows, listing, filter, details, seq, listLoads, writes, after, toasts,
                     doubt>>
  BY DEF OpenDetail, Gesture
<1>2. gestures \in Nat /\ gestures' \in 1 .. MaxGestures /\ gestures <= gestures'
  BY <1>0, <1>1, ViewAssumption DEF ViewType
<1>3. new \in GetType /\ new.mixed = InWriting /\ new.answer = Absent
  BY <1>0, <1>2, WritingPapers DEF GetType, Shows
<1> HIDE DEF new
<1>4. ViewType'
  BY <1>0, <1>1, <1>2, <1>3 DEF ViewType
<1>5. WritesWell'
  <2>1. \A w \in writes : w.n \in Nat
    BY <1>0, ViewAssumption DEF ViewType, WriteType
  <2> QED
    BY <1>0, <1>1, <1>2, <2>1 DEF WritesWell
<1>6. ReadsMixed'
  BY <1>0, <1>1, <1>3, MixedKeeps DEF InWriting
<1>7. ReadsTrue' /\ Newest' /\ (NewestOut' <=> NewestOut) /\ (TagGone' <=> TagGone)
  BY <1>0, <1>1, <1>3 DEF ReadsTrue, RowsUnder, FlagsOf, Newest, NewestOut, TagGone
<1>8. ASSUME NEW q \in Listed
      PROVE  Sound(q)'
  BY <1>0, <1>1, <1>7, ReadFrame, SameSure
<1> QED
  BY <1>4, <1>5, <1>6, <1>7, <1>8 DEF ViewInv

LEMMA ServeDetailKeeps == ASSUME ViewInv, NEW g \in gets, ServeDetail(g) PROVE ViewInv'
<1>0. ViewType /\ WritesWell /\ ReadsMixed /\ ReadsTrue /\ Newest /\ \A q \in Listed : Sound(q)
  BY DEF ViewInv
<1> DEFINE new == [g EXCEPT !.answer = FlagsOf(g.paper)]
<1>1. /\ gets' = (gets \ {g}) \cup {new}
      /\ UNCHANGED <<kept, rows, listing, filter, details, seq, listLoads, writes, after, toasts,
                     doubt, gestures>>
  BY DEF ServeDetail
<1>2. /\ new \in GetType /\ new.paper = g.paper /\ new.mixed = g.mixed
      /\ new.answer = FlagsOf(g.paper)
  <2>1. g \in GetType
    BY <1>0 DEF ViewType
  <2>2. FlagsOf(g.paper) \in Shows
    BY <1>0, <2>1, KeptRows DEF GetType, Shows
  <2> QED
    BY <2>1, <2>2 DEF GetType
<1> HIDE DEF new
<1>3. ViewType'
  BY <1>0, <1>1, <1>2 DEF ViewType
<1>4. WritesWell'
  BY <1>0, <1>1 DEF WritesWell
<1>5. ReadsMixed'
  BY <1>0, <1>1, <1>2, MixedKeeps
<1>6. ReadsTrue' /\ Newest' /\ (NewestOut' <=> NewestOut) /\ (TagGone' <=> TagGone)
  BY <1>0, <1>1, <1>2 DEF ReadsTrue, RowsUnder, FlagsOf, Newest, NewestOut, TagGone
<1>7. ASSUME NEW q \in Listed
      PROVE  Sound(q)'
  BY <1>0, <1>1, <1>6, ReadFrame, SameSure
<1> QED
  BY <1>3, <1>4, <1>5, <1>6, <1>7 DEF ViewInv

LEMMA TagsLoadedKeeps == ASSUME ViewInv, NEW a \in after, TagsLoaded(a) PROVE ViewInv'
<1>0. ViewType /\ WritesWell /\ ReadsMixed /\ ReadsTrue /\ Newest /\ \A p \in Listed : Sound(p)
  BY DEF ViewInv
<1>1. /\ after' = after \ {a}
      /\ filter' = IF a.why = "deleted" /\ filter = "tagged" THEN "all" ELSE filter
      /\ IF a.why = "deleted" \/ filter = "tagged" THEN LoadList(filter', InWriting)
         ELSE UNCHANGED <<seq, listLoads>>
      /\ UNCHANGED <<kept, rows, listing, details, gets, writes, toasts, doubt, gestures>>
  BY DEF TagsLoaded
<1>2. WritesWell'
  BY <1>0, <1>1 DEF WritesWell
<1>3. filter' \in Filters
  BY <1>0, <1>1 DEF ViewType, Filters
<1>4. CASE a.why = "deleted" \/ filter = "tagged"
  <2> DEFINE new == [n |-> seq + 1, filter |-> filter', mixed |-> InWriting, answer |-> Absent]
  <2>1. /\ listLoads' = listLoads \cup {new} /\ new \in ListLoadType
        /\ new.mixed = InWriting /\ new.answer = Absent
        /\ seq' \in Nat /\ seq < seq' /\ NewestOut' /\ Newest'
    BY <1>0, <1>1, <1>3, <1>4, WritingPapers, LoadListGives
  <2> HIDE DEF new
  <2>2. ViewType'
    BY <1>0, <1>1, <1>3, <2>1 DEF ViewType
  <2>3. ReadsMixed'
    BY <1>0, <1>1, <2>1, MixedKeeps DEF InWriting
  <2>4. ReadsTrue'
    BY <1>0, <1>1, <2>1 DEF ReadsTrue, RowsUnder, FlagsOf
  <2>5. ASSUME NEW p \in Listed
        PROVE  Sound(p)'
    BY <1>0, <1>1, <2>1, ReadFrame, SameSure
  <2> QED
    BY <1>2, <2>1, <2>2, <2>3, <2>4, <2>5 DEF ViewInv
<1>5. CASE ~(a.why = "deleted" \/ filter = "tagged")
  <2>1. UNCHANGED <<seq, listLoads, filter>>
    BY <1>1, <1>5
  <2>2. ViewType' /\ ReadsMixed'
    <3>1. ViewType'
      BY <1>0, <1>1, <2>1 DEF ViewType
    <3>2. ReadsMixed'
      BY <1>0, <1>1, <2>1 DEF ReadsMixed
    <3> QED
      BY <3>1, <3>2
  <2>3. ReadsTrue' /\ Newest' /\ (NewestOut' <=> NewestOut)
    BY <1>0, <1>1, <2>1 DEF ReadsTrue, RowsUnder, FlagsOf, Newest, NewestOut
  <2>4. TagGone => TagGone'
    BY <1>1, <1>5 DEF TagGone
  <2>5. ASSUME NEW p \in Listed
        PROVE  Sound(p)'
    BY <1>0, <1>1, <1>5, <2>1, <2>3, <2>4, ReadFrame, SameSure
  <2> QED
    BY <1>2, <2>2, <2>3, <2>5 DEF ViewInv
<1> QED
  BY <1>4, <1>5

LEMMA ListArrivesKeeps == ASSUME ViewInv, NEW l \in listLoads, ListArrives(l) PROVE ViewInv'
<1>0. ViewType /\ WritesWell /\ ReadsMixed /\ ReadsTrue /\ Newest /\ \A p \in Listed : Sound(p)
  BY DEF ViewInv
<1>1. /\ l.answer # Absent /\ listLoads' = listLoads \ {l}
      /\ IF l.n # seq THEN UNCHANGED <<rows, listing, doubt>>
         ELSE /\ rows' = l.answer /\ listing' = l.n
              /\ doubt' = {d \in doubt : d[2] = "detail"} \cup (l.mixed \X {"row"})
      /\ UNCHANGED <<kept, filter, details, seq, gets, writes, after, toasts, gestures>>
  BY DEF ListArrives, Superseded
<1>2. l \in ListLoadType /\ l.n \in Nat /\ l.answer \in [Listed -> Shows] /\ l.mixed \subseteq Listed
  BY <1>0, <1>1 DEF ViewType, ListLoadType
<1>3. ViewType'
  BY <1>0, <1>1, <1>2 DEF ViewType
<1>4. WritesWell'
  BY <1>0, <1>1 DEF WritesWell
<1>5. ReadsMixed'
  BY <1>0, <1>1, MixedKeeps
<1>6. ReadsTrue' /\ Newest'
  BY <1>0, <1>1 DEF ReadsTrue, RowsUnder, FlagsOf, Newest
<1>7. CASE l.n # seq
  <2>1. (NewestOut' <=> NewestOut) /\ (TagGone' <=> TagGone)
    BY <1>1, <1>7 DEF NewestOut, TagGone
  <2>2. ASSUME NEW p \in Listed
        PROVE  Sound(p)'
    BY <1>0, <1>1, <1>7, <2>1, ReadFrame, SameSure
  <2> QED
    BY <1>3, <1>4, <1>5, <1>6, <2>2 DEF ViewInv
<1>8. CASE l.n = seq
  <2>1. ASSUME NEW p \in Listed
        PROVE  Sound(p)'
    <3>0. OneAtATime(p) /\ Took(p) /\ RowTrue(p) /\ DetailTrue(p) /\ ListTrue(p)
      BY <1>0 DEF Sound
    <3>1. On(p)' = On(p)
      BY <1>1 DEF On
    <3>2. (RowSure(p)' <=> p \notin l.mixed) /\ (DetailSure(p)' <=> DetailSure(p))
      BY <1>1, <1>8 DEF RowSure, DetailSure
    <3>3. p \notin l.mixed => /\ rows'[p] = RowsUnder(filter)[p]
                              /\ \A w \in On(p) : ~Active(w) /\ w.kind \in LiveKinds
      BY <1>0, <1>1, <1>8 DEF ReadsTrue, ReadsMixed, WritesWell, Newest, On
    <3>4. OneAtATime(p)'
      BY <3>0, <3>1, <3>2, <3>3 DEF OneAtATime
    <3>5. Took(p)'
      BY <1>1, <3>0, <3>1, <3>2, <3>3 DEF Took, Active
    <3>6. /\ FlagsOf(p) # Absent /\ FlagsOf(p).starred = kept[p].starred
          /\ FlagsOf(p).tagged = kept[p].tagged
          /\ RowsUnder(filter)[p] = IF kept[p].live /\ Passes(filter, FlagsOf(p))
                                    THEN FlagsOf(p) ELSE Absent
      BY <1>0, KeptRows
    <3>7. RowTrue(p)'
      <4> SUFFICES ASSUME p \notin l.mixed, rows'[p] # Absent
                   PROVE  /\ StarTrue(rows[p], p)'
                          /\ \A w \in On(p)' : w.kind = "star" => w.row = listing'
                          /\ TagTrue(rows[p], p)'
        BY <3>2 DEF RowTrue
      <4>1. rows'[p] = FlagsOf(p) /\ \A w \in On(p)' : w.kind # "star"
        BY <3>1, <3>3, <3>6 DEF LiveKinds
      <4>2. StarTrue(rows[p], p)'
        BY <1>1, <3>6, <4>1 DEF StarTrue
      <4>3. TagTrue(rows[p], p)'
        BY <1>1, <3>6, <4>1 DEF TagTrue
      <4> QED
        BY <4>1, <4>2, <4>3
    <3>8. DetailTrue(p)'
      <4> SUFFICES ASSUME DetailSure(p)'
                   PROVE  StarTrue(details[p], p)' /\ TagTrue(details[p], p)'
        BY DEF DetailTrue
      <4>1. StarTrue(details[p], p) /\ TagTrue(details[p], p)
        BY <3>0, <3>2 DEF DetailTrue
      <4>2. StarTrue(details[p], p)'
        BY <1>1, <3>1, <4>1 DEF StarTrue
      <4>3. TagTrue(details[p], p)'
        BY <1>1, <3>1, <4>1 DEF TagTrue
      <4> QED
        BY <4>2, <4>3
    <3>9. ListTrue(p)'
      <4>1. FlagsOf(p)' = FlagsOf(p)
        BY <1>1 DEF FlagsOf
      <4> QED
        BY <1>1, <3>2, <3>3, <3>6, <4>1 DEF ListTrue
    <3> QED
      BY <3>4, <3>5, <3>7, <3>8, <3>9 DEF Sound
  <2> QED
    BY <1>3, <1>4, <1>5, <1>6, <2>1 DEF ViewInv
<1> QED
  BY <1>7, <1>8

LEMMA ListFailsKeeps == ASSUME ViewInv, NEW l \in listLoads, ListFails(l) PROVE ViewInv'
<1>0. ViewType /\ WritesWell /\ ReadsMixed /\ ReadsTrue /\ Newest /\ \A p \in Listed : Sound(p)
  BY DEF ViewInv
<1>1. /\ gestures < MaxGestures /\ gestures' = gestures + 1 /\ listLoads' = listLoads \ {l}
      /\ doubt' = IF l.n # seq THEN doubt ELSE doubt \cup (Listed \X {"row"})
      /\ UNCHANGED <<kept, rows, listing, filter, details, seq, gets, writes, after, toasts>>
  BY DEF ListFails, Gesture
<1>2. gestures \in Nat /\ gestures' \in 0 .. MaxGestures /\ gestures <= gestures'
  BY <1>0, <1>1, ViewAssumption DEF ViewType
<1>3. ViewType'
  BY <1>0, <1>1, <1>2 DEF ViewType
<1>4. WritesWell'
  <2>1. \A w \in writes : w.n \in Nat
    BY <1>0, ViewAssumption DEF ViewType, WriteType
  <2> QED
    BY <1>0, <1>1, <1>2, <2>1 DEF WritesWell
<1>5. ReadsMixed'
  BY <1>0, <1>1, MixedKeeps
<1>6. ReadsTrue' /\ Newest'
  BY <1>0, <1>1 DEF ReadsTrue, RowsUnder, FlagsOf, Newest
<1>7. ASSUME NEW p \in Listed
      PROVE  Sound(p)'
  <2>1. CASE l.n # seq
    <3>1. (NewestOut' <=> NewestOut) /\ (TagGone' <=> TagGone)
      BY <1>1, <2>1 DEF NewestOut, TagGone
    <3> QED
      BY <1>0, <1>1, <2>1, <3>1, ReadFrame, SameSure
  <2>2. CASE l.n = seq
    <3>0. OneAtATime(p) /\ Took(p) /\ RowTrue(p) /\ DetailTrue(p) /\ ListTrue(p)
      BY <1>0 DEF Sound
    <3>1. On(p)' = On(p) /\ ~RowSure(p)' /\ (DetailSure(p)' <=> DetailSure(p))
      BY <1>1, <2>2 DEF On, RowSure, DetailSure
    <3>2. OneAtATime(p)'
      BY <3>0, <3>1 DEF OneAtATime
    <3>3. Took(p)'
      BY <1>1, <3>0, <3>1 DEF Took
    <3>4. RowTrue(p)' /\ ListTrue(p)'
      BY <3>1 DEF RowTrue, ListTrue
    <3>5. DetailTrue(p)'
      <4> SUFFICES ASSUME DetailSure(p)'
                   PROVE  StarTrue(details[p], p)' /\ TagTrue(details[p], p)'
        BY DEF DetailTrue
      <4>1. StarTrue(details[p], p) /\ TagTrue(details[p], p)
        BY <3>0, <3>1 DEF DetailTrue
      <4>2. StarTrue(details[p], p)'
        BY <1>1, <3>1, <4>1 DEF StarTrue
      <4>3. TagTrue(details[p], p)'
        BY <1>1, <3>1, <4>1 DEF TagTrue
      <4> QED
        BY <4>2, <4>3
    <3> QED
      BY <3>2, <3>3, <3>4, <3>5 DEF Sound
  <2> QED
    BY <2>1, <2>2
<1> QED
  BY <1>3, <1>4, <1>5, <1>6, <1>7 DEF ViewInv

LEMMA DetailArrivesKeeps == ASSUME ViewInv, NEW g \in gets, DetailArrives(g) PROVE ViewInv'
<1>0. ViewType /\ WritesWell /\ ReadsMixed /\ ReadsTrue /\ Newest /\ \A p \in Listed : Sound(p)
  BY DEF ViewInv
<1>1. /\ g.answer # Absent /\ gets' = gets \ {g}
      /\ details' = [details EXCEPT ![g.paper] = g.answer]
      /\ doubt' = (doubt \ {<<g.paper, "detail">>}) \cup ((g.mixed \cap {g.paper}) \X {"detail"})
      /\ UNCHANGED <<kept, rows, listing, filter, seq, listLoads, writes, after, toasts, gestures>>
  BY DEF DetailArrives
<1>2. g.paper \in Listed /\ g.answer \in Shows
  BY <1>0 DEF ViewType, GetType
<1>3. /\ details' \in [Listed -> Shows] /\ details'[g.paper] = g.answer
      /\ \A p \in Listed : p # g.paper => details'[p] = details[p]
  BY <1>0, <1>1, <1>2 DEF ViewType
<1>4. ViewType'
  BY <1>0, <1>1, <1>3 DEF ViewType
<1>5. WritesWell'
  BY <1>0, <1>1 DEF WritesWell
<1>6. ReadsMixed'
  BY <1>0, <1>1, MixedKeeps
<1>7. ReadsTrue' /\ Newest' /\ (NewestOut' <=> NewestOut) /\ (TagGone' <=> TagGone)
  BY <1>0, <1>1 DEF ReadsTrue, RowsUnder, FlagsOf, Newest, NewestOut, TagGone
<1>8. \A p \in Listed : RowSure(p)' <=> RowSure(p)
  BY <1>1 DEF RowSure
<1>9. ASSUME NEW p \in Listed
      PROVE  Sound(p)'
  <2>1. CASE p # g.paper
    <3>1. DetailSure(p)' <=> DetailSure(p)
      BY <1>1, <1>3, <2>1 DEF DetailSure
    <3> QED
      BY <1>0, <1>1, <1>3, <1>7, <1>8, <2>1, <3>1, ReadFrame
  <2>2. CASE p = g.paper
    <3>0. OneAtATime(p) /\ Took(p) /\ RowTrue(p) /\ DetailTrue(p) /\ ListTrue(p)
      BY <1>0 DEF Sound
    <3>1. On(p)' = On(p)
      BY <1>1 DEF On
    <3>2. DetailSure(p)' => /\ details'[p] = FlagsOf(p)
                            /\ \A w \in On(p) : ~Active(w) /\ w.kind \in LiveKinds
      <4>1. DetailSure(p)' => p \notin g.mixed
        BY <1>1, <2>2 DEF DetailSure
      <4> QED
        BY <1>0, <1>1, <1>3, <2>2, <4>1 DEF ReadsTrue, ReadsMixed, WritesWell, On
    <3>3. OneAtATime(p)'
      BY <1>8, <3>0, <3>1, <3>2 DEF OneAtATime
    <3>4. Took(p)'
      BY <1>1, <1>8, <3>0, <3>1, <3>2 DEF Took, Active
    <3>5. RowTrue(p)'
      <4> SUFFICES ASSUME RowSure(p)', rows'[p] # Absent
                   PROVE  /\ StarTrue(rows[p], p)'
                          /\ \A w \in On(p)' : w.kind = "star" => w.row = listing'
                          /\ ~NewestOut' /\ ~TagGone' => TagTrue(rows[p], p)'
        BY DEF RowTrue
      <4>1. /\ StarTrue(rows[p], p) /\ \A w \in On(p) : w.kind = "star" => w.row = listing
            /\ ~NewestOut /\ ~TagGone => TagTrue(rows[p], p)
        BY <1>1, <1>8, <3>0 DEF RowTrue
      <4>2. StarTrue(rows[p], p)'
        BY <1>1, <3>1, <4>1 DEF StarTrue
      <4>3. TagTrue(rows[p], p) => TagTrue(rows[p], p)'
        BY <1>1, <3>1 DEF TagTrue
      <4> QED
        BY <1>1, <1>7, <3>1, <4>1, <4>2, <4>3
    <3>6. DetailTrue(p)'
      <4> SUFFICES ASSUME DetailSure(p)'
                   PROVE  StarTrue(details[p], p)' /\ TagTrue(details[p], p)'
        BY DEF DetailTrue
      <4>1. /\ details'[p] = FlagsOf(p) /\ FlagsOf(p).starred = kept[p].starred
            /\ FlagsOf(p).tagged = kept[p].tagged /\ \A w \in On(p) : w.kind # "star"
        BY <1>0, <3>2, KeptRows DEF LiveKinds
      <4>2. StarTrue(details[p], p)'
        BY <1>1, <3>1, <4>1 DEF StarTrue
      <4>3. TagTrue(details[p], p)'
        BY <1>1, <3>1, <4>1 DEF TagTrue
      <4> QED
        BY <4>2, <4>3
    <3>7. ListTrue(p)'
      <4>1. FlagsOf(p)' = FlagsOf(p) /\ (Quiet(p)' <=> Quiet(p))
        BY <1>1, <3>1 DEF FlagsOf, Quiet
      <4> QED
        BY <1>1, <1>7, <1>8, <3>0, <4>1 DEF ListTrue
    <3> QED
      BY <3>3, <3>4, <3>5, <3>6, <3>7 DEF Sound
  <2> QED
    BY <2>1, <2>2
<1> QED
  BY <1>4, <1>5, <1>6, <1>7, <1>9 DEF ViewInv

----------------------------------------------------------------------------
(* Writes that start.                                                      *)

\* The writes of one gesture.
OneGesture(ws, kind) ==
    /\ ws \subseteq WriteType
    /\ \A w \in ws : w.at = "sent" /\ w.kind = kind /\ w.n = gestures'
    /\ kind \in {"star", "tag", "untag"} => \A w \in ws : \E p \in Listed : w.papers = {p}
    /\ \A u, v \in ws : u # v => u.papers \cap v.papers = {}

LEMMA StartGives ==
    ASSUME ViewInv, Gesture, NEW kind, NEW ws, OneGesture(ws, kind), Start(ws),
           UNCHANGED <<kept, filter, seq, after>>
    PROVE  /\ writes' = writes \cup ws /\ writes' \subseteq WriteType
           /\ listLoads' \subseteq ListLoadType /\ gets' \subseteq GetType
           /\ gestures' \in 0 .. MaxGestures
           /\ WritesWell' /\ ReadsMixed' /\ ReadsTrue' /\ Newest'
           /\ (NewestOut' <=> NewestOut) /\ (TagGone' <=> TagGone)
<1>0. ViewType /\ WritesWell /\ ReadsMixed /\ ReadsTrue /\ Newest
  BY DEF ViewInv
<1> DEFINE papers == UNION {w.papers : w \in ws}
<1>1. /\ gestures < MaxGestures /\ gestures' = gestures + 1 /\ writes' = writes \cup ws
      /\ listLoads' = Mixing(listLoads, papers) /\ gets' = Mixing(gets, papers)
  BY DEF Gesture, Start
<1>2. gestures \in Nat /\ gestures' \in 0 .. MaxGestures /\ gestures < gestures'
  BY <1>0, <1>1, ViewAssumption DEF ViewType
<1>3. papers \subseteq Listed /\ \A w \in ws : w.papers \subseteq papers
  BY DEF OneGesture, WriteType
<1> HIDE DEF papers
<1>4. \A l \in listLoads' : \E k \in listLoads :
        /\ l \in ListLoadType /\ l.n = k.n /\ l.filter = k.filter /\ l.answer = k.answer
        /\ l.mixed = k.mixed \cup papers
  <2>1. ASSUME NEW k \in listLoads
        PROVE  LET l == [k EXCEPT !.mixed = @ \cup papers]
               IN  /\ l \in ListLoadType /\ l.n = k.n /\ l.filter = k.filter
                   /\ l.answer = k.answer /\ l.mixed = k.mixed \cup papers
    <3>1. k \in ListLoadType
      BY <1>0 DEF ViewType
    <3> QED
      BY <1>3, <3>1 DEF ListLoadType
  <2>2. ASSUME NEW l \in listLoads'
        PROVE  \E k \in listLoads : l = [k EXCEPT !.mixed = @ \cup papers]
    BY <1>1, <2>2 DEF Mixing
  <2>3. ASSUME NEW l \in listLoads'
        PROVE  \E k \in listLoads :
                 /\ l \in ListLoadType /\ l.n = k.n /\ l.filter = k.filter /\ l.answer = k.answer
                 /\ l.mixed = k.mixed \cup papers
    <3>1. PICK k \in listLoads : l = [k EXCEPT !.mixed = @ \cup papers]
      BY <2>2
    <3> QED
      BY <2>1, <3>1
  <2> QED
    BY <2>3
<1>5. \A k \in listLoads : \E l \in listLoads' : l.n = k.n
  <2>1. ASSUME NEW k \in listLoads
        PROVE  LET l == [k EXCEPT !.mixed = @ \cup papers] IN l \in listLoads' /\ l.n = k.n
    <3>1. k \in ListLoadType
      BY <1>0 DEF ViewType
    <3> QED
      BY <1>1, <3>1 DEF Mixing, ListLoadType
  <2> QED
    BY <2>1
<1>6. \A g \in gets' : \E k \in gets :
        /\ g \in GetType /\ g.paper = k.paper /\ g.answer = k.answer
        /\ g.mixed = k.mixed \cup papers
  <2>1. ASSUME NEW k \in gets
        PROVE  LET g == [k EXCEPT !.mixed = @ \cup papers]
               IN  /\ g \in GetType /\ g.paper = k.paper /\ g.answer = k.answer
                   /\ g.mixed = k.mixed \cup papers
    <3>1. k \in GetType
      BY <1>0 DEF ViewType
    <3> QED
      BY <1>3, <3>1 DEF GetType
  <2>2. ASSUME NEW g \in gets'
        PROVE  \E k \in gets : g = [k EXCEPT !.mixed = @ \cup papers]
    BY <1>1, <2>2 DEF Mixing
  <2>3. ASSUME NEW g \in gets'
        PROVE  \E k \in gets : /\ g \in GetType /\ g.paper = k.paper /\ g.answer = k.answer
                              /\ g.mixed = k.mixed \cup papers
    <3>1. PICK k \in gets : g = [k EXCEPT !.mixed = @ \cup papers]
      BY <2>2
    <3> QED
      BY <2>1, <3>1
  <2> QED
    BY <2>3
<1>7. writes' \subseteq WriteType /\ listLoads' \subseteq ListLoadType /\ gets' \subseteq GetType
  <2>1. writes \subseteq WriteType /\ ws \subseteq WriteType
    BY <1>0 DEF ViewType, OneGesture
  <2>2. \A l \in listLoads' : l \in ListLoadType
    BY <1>4
  <2>3. \A g \in gets' : g \in GetType
    BY <1>6
  <2> QED
    BY <1>1, <2>1, <2>2, <2>3
<1>8. WritesWell'
  <2>1. \A w \in writes : w.n \in Nat /\ w.n <= gestures
    BY <1>0, ViewAssumption DEF ViewType, WriteType, WritesWell
  <2>2. \A w \in writes : w.n < gestures'
    BY <1>2, <2>1
  <2>3. \A w \in writes : w.n <= gestures'
    BY <1>2, <2>1
  <2>4. \A w \in ws : w.n = gestures' /\ w.n <= gestures' /\ Active(w) /\ w.kind = kind
    BY <1>2 DEF OneGesture, Active
  <2>5. \A u, v \in writes' : u.n = v.n => u.kind = v.kind
    BY <1>0, <1>1, <1>2, <2>2, <2>4 DEF WritesWell
  <2>6. \A w \in writes' : w.kind \in {"star", "tag", "untag"} => \E p \in Listed : w.papers = {p}
    BY <1>0, <1>1, <2>4 DEF WritesWell, OneGesture
  <2> QED
    BY <1>0, <1>1, <2>3, <2>4, <2>5, <2>6 DEF WritesWell
<1>9. ReadsMixed'
  BY <1>0, <1>1, <1>3, <1>4, <1>6 DEF ReadsMixed
<1>10. ReadsTrue'
  <2>1. \A f : RowsUnder(f)' = RowsUnder(f)
    BY DEF RowsUnder, FlagsOf
  <2>2. \A p : FlagsOf(p)' = FlagsOf(p)
    BY DEF FlagsOf
  <2>3. \A l \in listLoads' : l.answer # Absent =>
           \A p \in Listed \ l.mixed : l.answer[p] = RowsUnder(l.filter)[p]
    BY <1>0, <1>4 DEF ReadsTrue
  <2>4. \A g \in gets' : g.answer # Absent /\ g.paper \notin g.mixed => g.answer = FlagsOf(g.paper)
    BY <1>0, <1>6 DEF ReadsTrue
  <2> QED
    BY <2>1, <2>2, <2>3, <2>4 DEF ReadsTrue
<1>11. Newest' /\ (NewestOut' <=> NewestOut) /\ (TagGone' <=> TagGone)
  BY <1>0, <1>4, <1>5 DEF Newest, NewestOut, TagGone
<1> QED
  BY <1>1, <1>2, <1>7, <1>8, <1>9, <1>10, <1>11

LEMMA StartDoubts ==
    ASSUME NEW kind, NEW ws, OneGesture(ws, kind), Start(ws), NEW p \in Listed
    PROVE  /\ RowSure(p)' => RowSure(p)
           /\ <<p, "detail">> \notin doubt' => <<p, "detail">> \notin doubt
           /\ \A w \in ws : p \in w.papers =>
                /\ \A v \in On(p) : Touches(v.kind) = Touches(w.kind) =>
                        ~RowSure(p)' /\ <<p, "detail">> \in doubt'
                /\ kind = "star" /\ rows[p] # Absent /\ ~RowSure(p) => <<p, "detail">> \in doubt'
<1>1. doubt' = doubt \cup Spoilt(UNION {Crossed(w) \cup Misread(w) : w \in ws})
  BY DEF Start
<1>2. \A w \in ws : p \in Crossed(w) \cup Misread(w) => <<p, "row">> \in doubt' /\ <<p, "detail">> \in doubt'
  BY <1>1 DEF Spoilt
<1>3. \A w \in ws : p \in w.papers => \A v \in On(p) : Touches(v.kind) = Touches(w.kind) => p \in Crossed(w)
  BY DEF Crossed, On
<1>4. \A w \in ws : p \in w.papers /\ kind = "star" /\ rows[p] # Absent /\ ~RowSure(p) => p \in Misread(w)
  BY DEF Misread, RowSure, OneGesture
<1> QED
  BY <1>1, <1>2, <1>3, <1>4 DEF RowSure

LEMMA StartOne ==
    ASSUME NEW kind, NEW ws, OneGesture(ws, kind), Start(ws), NEW p \in Listed, OneAtATime(p),
           details[p] = Absent => details'[p] = Absent
    PROVE  OneAtATime(p)'
<1>1. writes' = writes \cup ws
  BY DEF Start
<1> SUFFICES ASSUME NEW u \in On(p)', NEW v \in On(p)', u # v, Active(u),
                    Touches(u.kind) = Touches(v.kind)
             PROVE  ~RowSure(p)' /\ ~DetailSure(p)'
  BY DEF OneAtATime
<1>2. (RowSure(p)' => RowSure(p)) /\ (DetailSure(p)' => DetailSure(p))
  BY StartDoubts DEF DetailSure
<1>3. CASE u \in writes /\ v \in writes
  BY <1>2, <1>3 DEF OneAtATime, On
<1>4. CASE u \in ws /\ v \in writes
  BY <1>4, StartDoubts DEF On, DetailSure
<1>5. CASE u \in writes /\ v \in ws
  BY <1>5, StartDoubts DEF On, DetailSure
<1>6. CASE u \in ws /\ v \in ws
  BY <1>6 DEF OneGesture, On
<1> QED
  BY <1>1, <1>3, <1>4, <1>5, <1>6 DEF On

\* Of the writes that do not show at once.
LEMMA StartKeeps ==
    ASSUME ViewInv, Gesture, NEW kind \in TagKinds \cup LiveKinds, NEW ws, OneGesture(ws, kind),
           Start(ws), toasts' \subseteq toasts,
           UNCHANGED <<kept, rows, listing, filter, details, seq, after>>
    PROVE  ViewInv'
<1>0. ViewType /\ \A p \in Listed : Sound(p)
  BY DEF ViewInv
<1>1. /\ writes' = writes \cup ws /\ writes' \subseteq WriteType
      /\ listLoads' \subseteq ListLoadType /\ gets' \subseteq GetType
      /\ gestures' \in 0 .. MaxGestures
      /\ WritesWell' /\ ReadsMixed' /\ ReadsTrue' /\ Newest'
      /\ (NewestOut' <=> NewestOut) /\ (TagGone' <=> TagGone)
  BY StartGives
<1>2. ViewType'
  BY <1>0, <1>1 DEF ViewType
<1>3. kind # "star" /\ \A w \in ws : w.at = "sent" /\ w.kind = kind
  BY DEF TagKinds, LiveKinds, OneGesture
<1>4. ASSUME NEW p \in Listed
      PROVE  Sound(p)'
  <2>1. OneAtATime(p)'
    BY <1>0, StartOne DEF Sound
  <2>2. (RowSure(p)' => RowSure(p)) /\ (DetailSure(p)' => DetailSure(p))
    BY StartDoubts DEF DetailSure
  <2>3. /\ \A w \in On(p) : w \in On(p)'
        /\ \A w \in On(p)' : w \in On(p) \/ (w.kind # "star" /\ w.at # "served")
    BY <1>1, <1>3 DEF On
  <2>4. Quiet(p)' => Quiet(p)
    BY <2>3 DEF Quiet
  <2>5. Framed(p)
    BY <1>1, <2>1, <2>2, <2>3, <2>4 DEF Framed
  <2> QED
    BY <1>0, <2>5, FrameKeeps
<1> QED
  BY <1>1, <1>2, <1>4 DEF ViewInv

LEMMA WriteIs ==
    ASSUME ViewType, Gesture, NEW kind \in {"star"} \cup TagKinds \cup LiveKinds,
           NEW papers \in SUBSET Listed
    PROVE  LET w == Write(kind, papers)
           IN  /\ w \in WriteType /\ w.n = gestures' /\ w.kind = kind /\ w.papers = papers
               /\ w.at = "sent" /\ w.row = listing
<1>1. gestures' \in 1 .. MaxGestures
  BY ViewAssumption DEF ViewType, Gesture
<1>2. listing \in Nat
  BY DEF ViewType
<1> QED
  BY <1>1, <1>2 DEF Write, WriteType

LEMMA OneWriteEach ==
    ASSUME ViewType, Gesture, NEW kind \in TagKinds \cup LiveKinds, NEW papers \in SUBSET Listed
    PROVE  OneGesture({Write(kind, {p}) : p \in papers}, kind)
<1> DEFINE W(p) == Write(kind, {p})
<1>1. ASSUME NEW p \in papers
      PROVE  /\ W(p) \in WriteType /\ W(p).n = gestures' /\ W(p).kind = kind
             /\ W(p).papers = {p} /\ W(p).at = "sent"
  <2>1. {p} \in SUBSET Listed /\ kind \in {"star"} \cup TagKinds \cup LiveKinds
    OBVIOUS
  <2> QED
    BY <2>1, WriteIs
<1> HIDE DEF W
<1>2. OneGesture({W(p) : p \in papers}, kind)
  BY <1>1 DEF OneGesture
<1> QED
  BY <1>2 DEF W

LEMMA TagPaperKeeps ==
    ASSUME ViewInv, NEW p \in Listed, NEW kind \in {"tag", "untag"}, TagPaper(p, kind)
    PROVE  ViewInv'
<1>1. ViewType /\ Gesture /\ kind \in TagKinds \cup LiveKinds
  BY DEF ViewInv, TagPaper, TagKinds
<1>2. OneGesture({Write(kind, {q}) : q \in {p}}, kind)
  BY <1>1, OneWriteEach
<1>3. {Write(kind, {q}) : q \in {p}} = {Write(kind, {p})}
  OBVIOUS
<1> QED
  BY <1>1, <1>2, <1>3, StartKeeps DEF TagPaper

LEMMA DeleteTagKeeps == ASSUME ViewInv, DeleteTagEverywhere PROVE ViewInv'
<1>1. ViewType /\ Gesture /\ "untag_all" \in TagKinds \cup LiveKinds
  BY DEF ViewInv, DeleteTagEverywhere, TagKinds
<1>2. LET w == Write("untag_all", Listed)
      IN  w \in WriteType /\ w.n = gestures' /\ w.kind = "untag_all" /\ w.at = "sent"
  BY <1>1, WriteIs
<1>3. OneGesture({Write("untag_all", Listed)}, "untag_all")
  BY <1>2 DEF OneGesture
<1> QED
  BY <1>1, <1>3, StartKeeps DEF DeleteTagEverywhere

LEMMA RemoveKeeps == ASSUME ViewInv, NEW papers \in SUBSET Listed, RemovePapers(papers) PROVE ViewInv'
<1>1. ViewType /\ Gesture /\ "drop" \in TagKinds \cup LiveKinds
  BY DEF ViewInv, RemovePapers, LiveKinds
<1> QED
  BY <1>1, OneWriteEach, StartKeeps DEF RemovePapers

LEMMA UndoKeeps == ASSUME ViewInv, NEW papers \in toasts, UndoDelete(papers) PROVE ViewInv'
<1>1. ViewType /\ Gesture /\ "undo" \in TagKinds \cup LiveKinds /\ papers \in SUBSET Listed
  BY DEF ViewInv, ViewType, UndoDelete, LiveKinds
<1> QED
  BY <1>1, OneWriteEach, StartKeeps DEF UndoDelete

\* What is shown of a paper, with one flag set.
Patched(old, new, field, value) ==
    IF old = Absent THEN new = Absent
    ELSE /\ new # Absent
         /\ IF field = "starred" THEN new.starred = value /\ new.tagged = old.tagged
            ELSE new.tagged = value /\ new.starred = old.starred

LEMMA PatchGives ==
    ASSUME ViewType, NEW p \in Listed, NEW field \in {"starred", "tagged"}, NEW value \in BOOLEAN,
           NEW onto \in BOOLEAN, Patch(p, field, value, onto)
    PROVE  /\ rows' \in [Listed -> Shows] /\ details' \in [Listed -> Shows]
           /\ \A q \in Listed : q # p => rows'[q] = rows[q] /\ details'[q] = details[q]
           /\ IF onto THEN Patched(rows[p], rows'[p], field, value) ELSE rows'[p] = rows[p]
           /\ Patched(details[p], details'[p], field, value)
<1>1. ASSUME NEW f \in Flags
      PROVE  /\ [f EXCEPT ![field] = value] \in Flags /\ [f EXCEPT ![field] = value] # Absent
             /\ Patched(f, [f EXCEPT ![field] = value], field, value)
  <2>1. f # Absent /\ [f EXCEPT ![field] = value] \in Flags
    BY NoFlags DEF Flags
  <2>2. CASE field = "starred"
    BY <2>1, <2>2, NoFlags DEF Patched, Flags
  <2>3. CASE field = "tagged"
    BY <2>1, <2>3, NoFlags DEF Patched, Flags
  <2> QED
    BY <2>1, <2>2, <2>3, NoFlags
<1>2. ASSUME NEW shown \in [Listed -> Shows], shown[p] # Absent
      PROVE  LET new == [shown EXCEPT ![p][field] = value]
             IN  /\ new \in [Listed -> Shows] /\ \A q \in Listed : q # p => new[q] = shown[q]
                 /\ Patched(shown[p], new[p], field, value)
  <2>1. shown[p] \in Flags
    BY <1>2 DEF Shows
  <2>2. [shown[p] EXCEPT ![field] = value] \in Shows
    BY <1>1, <2>1 DEF Shows
  <2>3. [shown EXCEPT ![p][field] = value] = [shown EXCEPT ![p] = [shown[p] EXCEPT ![field] = value]]
    OBVIOUS
  <2> QED
    BY <1>1, <2>1, <2>2, <2>3
<1>3. rows \in [Listed -> Shows] /\ details \in [Listed -> Shows]
  BY DEF ViewType
<1>4. CASE onto /\ rows[p] # Absent
  <2>1. rows' = [rows EXCEPT ![p][field] = value]
    BY <1>4 DEF Patch
  <2>2. /\ rows' \in [Listed -> Shows] /\ \A q \in Listed : q # p => rows'[q] = rows[q]
        /\ Patched(rows[p], rows'[p], field, value)
    BY <1>2, <1>3, <1>4, <2>1
  <2>3. CASE details[p] # Absent
    <3>1. details' = [details EXCEPT ![p][field] = value]
      BY <2>3 DEF Patch
    <3> QED
      BY <1>2, <1>3, <1>4, <2>2, <2>3, <3>1
  <2>4. CASE details[p] = Absent
    BY <1>3, <1>4, <2>2, <2>4 DEF Patch, Patched
  <2> QED
    BY <2>3, <2>4
<1>5. CASE ~(onto /\ rows[p] # Absent)
  <2>1. rows' = rows /\ IF onto THEN Patched(rows[p], rows'[p], field, value) ELSE rows'[p] = rows[p]
    BY <1>5 DEF Patch, Patched
  <2>3. CASE details[p] # Absent
    <3>1. details' = [details EXCEPT ![p][field] = value]
      BY <2>3 DEF Patch
    <3> QED
      BY <1>2, <1>3, <2>1, <2>3, <3>1
  <2>4. CASE details[p] = Absent
    BY <1>3, <2>1, <2>4 DEF Patch, Patched
  <2> QED
    BY <2>3, <2>4
<1> QED
  BY <1>4, <1>5

LEMMA ToggleStarKeeps == ASSUME ViewInv, NEW p \in Listed, ToggleStar(p) PROVE ViewInv'
<1>0. ViewType /\ \A q \in Listed : Sound(q)
  BY DEF ViewInv
<1> DEFINE prev == IF rows[p] # Absent THEN rows[p].starred ELSE details[p].starred
           new == [Write("star", {p}) EXCEPT !.prev = prev]
<1>1. /\ Gesture /\ Patch(p, "starred", ~prev, TRUE) /\ Start({new})
      /\ UNCHANGED <<kept, listing, filter, seq, after, toasts>>
  BY DEF ToggleStar
<1>2. rows[p] # Absent \/ details[p] # Absent
  BY DEF ToggleStar, InSight
<1>3. prev \in BOOLEAN
  BY <1>0, <1>2 DEF ViewType, Shows, Flags
<1>4. /\ new \in WriteType /\ new.n = gestures' /\ new.kind = "star" /\ new.papers = {p}
      /\ new.at = "sent" /\ new.row = listing /\ new.prev = prev
  <2>1. LET w == Write("star", {p})
        IN  /\ w \in WriteType /\ w.n = gestures' /\ w.kind = "star" /\ w.papers = {p}
            /\ w.at = "sent" /\ w.row = listing
    BY <1>0, <1>1, WriteIs
  <2> QED
    BY <1>3, <2>1 DEF WriteType
<1>5. /\ rows[p] # Absent => prev = rows[p].starred
      /\ rows[p] = Absent => prev = details[p].starred
  OBVIOUS
<1> HIDE DEF prev, new
<1>6. OneGesture({new}, "star")
  BY <1>4 DEF OneGesture
<1>7. /\ writes' = writes \cup {new} /\ writes' \subseteq WriteType
      /\ listLoads' \subseteq ListLoadType /\ gets' \subseteq GetType
      /\ gestures' \in 0 .. MaxGestures
      /\ WritesWell' /\ ReadsMixed' /\ ReadsTrue' /\ Newest'
      /\ (NewestOut' <=> NewestOut) /\ (TagGone' <=> TagGone)
  BY <1>1, <1>6, StartGives
<1>8. /\ rows' \in [Listed -> Shows] /\ details' \in [Listed -> Shows]
      /\ \A q \in Listed : q # p => rows'[q] = rows[q] /\ details'[q] = details[q]
      /\ Patched(rows[p], rows'[p], "starred", ~prev)
      /\ Patched(details[p], details'[p], "starred", ~prev)
  BY <1>0, <1>1, <1>3, PatchGives
<1>9. ViewType'
  BY <1>0, <1>1, <1>7, <1>8 DEF ViewType
<1>10. ASSUME NEW q \in Listed, q # p
       PROVE  Sound(q)'
  <2>1. On(q)' = On(q)
    BY <1>4, <1>7, <1>10 DEF On
  <2>2. OneAtATime(q)'
    BY <1>0, <1>1, <1>6, <1>8, <1>10, StartOne DEF Sound
  <2>3. (RowSure(q)' => RowSure(q)) /\ (DetailSure(q)' => DetailSure(q))
    BY <1>1, <1>6, <1>8, <1>10, StartDoubts DEF DetailSure
  <2>4. Quiet(q)' => Quiet(q)
    BY <1>1, <2>1 DEF Quiet
  <2>5. Framed(q)
    BY <1>1, <1>7, <1>8, <1>10, <2>1, <2>2, <2>3, <2>4 DEF Framed
  <2> QED
    BY <1>0, <2>5, FrameKeeps
<1>11. Sound(p)'
  <2>0. OneAtATime(p) /\ Took(p) /\ RowTrue(p) /\ DetailTrue(p) /\ ListTrue(p)
    BY <1>0 DEF Sound
  <2>1. On(p)' = On(p) \cup {new}
    BY <1>4, <1>7 DEF On
  <2>2. /\ rows'[p] = Absent <=> rows[p] = Absent
        /\ rows[p] # Absent => rows'[p].starred = ~prev /\ rows'[p].tagged = rows[p].tagged
        /\ details'[p] = Absent <=> details[p] = Absent
        /\ details[p] # Absent => details'[p].starred = ~prev /\ details'[p].tagged = details[p].tagged
    BY <1>8 DEF Patched
  <2>3. /\ RowSure(p)' => RowSure(p)
        /\ <<p, "detail">> \notin doubt' => <<p, "detail">> \notin doubt
        /\ \A v \in On(p) : v.kind = "star" => ~RowSure(p)' /\ <<p, "detail">> \in doubt'
        /\ rows[p] # Absent /\ ~RowSure(p) => <<p, "detail">> \in doubt'
    BY <1>1, <1>4, <1>6, StartDoubts
  <2>4. DetailSure(p)' => DetailSure(p)
    BY <2>2, <2>3 DEF DetailSure
  <2>5. OneAtATime(p)'
    BY <1>1, <1>6, <2>0, <2>2, StartOne
  <2>6. Took(p)'
    BY <1>1, <1>4, <2>0, <2>1, <2>3, <2>4 DEF Took
  <2>7. RowSure(p) /\ rows[p] # Absent /\ (\A v \in On(p) : v.kind # "star") => prev = kept[p].starred
    BY <1>5, <2>0 DEF RowTrue, StarTrue
  <2>8. DetailSure(p) /\ rows[p] = Absent /\ (\A v \in On(p) : v.kind # "star") => prev = kept[p].starred
    BY <1>5, <2>0 DEF DetailTrue, StarTrue
  <2>9. RowTrue(p)'
    <3> SUFFICES ASSUME RowSure(p)', rows'[p] # Absent
                 PROVE  /\ StarTrue(rows[p], p)'
                        /\ \A w \in On(p)' : w.kind = "star" => w.row = listing'
                        /\ ~NewestOut' /\ ~TagGone' => TagTrue(rows[p], p)'
      BY DEF RowTrue
    <3>1. prev = kept[p].starred /\ \A v \in On(p) : v.kind # "star"
      BY <2>2, <2>3, <2>7
    <3>2. StarTrue(rows[p], p)'
      BY <1>1, <1>4, <2>1, <2>2, <3>1 DEF StarTrue
    <3>3. TagTrue(rows[p], p) => TagTrue(rows[p], p)'
      BY <1>1, <1>4, <2>1, <2>2 DEF TagTrue
    <3> QED
      BY <1>1, <1>4, <1>7, <2>0, <2>1, <2>2, <2>3, <3>1, <3>2, <3>3 DEF RowTrue
  <2>10. DetailTrue(p)'
    <3> SUFFICES ASSUME DetailSure(p)'
                 PROVE  StarTrue(details[p], p)' /\ TagTrue(details[p], p)'
      BY DEF DetailTrue
    <3>1. prev = kept[p].starred /\ \A v \in On(p) : v.kind # "star"
      BY <2>3, <2>4, <2>7, <2>8 DEF DetailSure
    <3>2. StarTrue(details[p], p)'
      BY <1>1, <1>4, <2>1, <2>2, <2>4, <3>1 DEF StarTrue, DetailSure
    <3>3. TagTrue(details[p], p)'
      BY <1>1, <1>4, <2>0, <2>1, <2>2, <2>4 DEF TagTrue, DetailSure, DetailTrue
    <3> QED
      BY <3>2, <3>3
  <2>11. ListTrue(p)'
    <3>1. FlagsOf(p)' = FlagsOf(p)
      BY <1>1 DEF FlagsOf
    <3>2. Quiet(p)' => Quiet(p)
      BY <1>1, <2>1 DEF Quiet
    <3> QED
      BY <1>1, <1>7, <2>0, <2>2, <2>3, <3>1, <3>2 DEF ListTrue
  <2> QED
    BY <2>5, <2>6, <2>9, <2>10, <2>11 DEF Sound
<1> QED
  BY <1>7, <1>9, <1>10, <1>11 DEF ViewInv

----------------------------------------------------------------------------
(* Writes that are served.                                                 *)

LEMMA AnswerGives ==
    ASSUME ViewInv, NEW w \in writes, w.at = "sent", NEW reply \in {"served", "refused"},
           NEW v, v = [w EXCEPT !.at = reply], writes' = (writes \ {w}) \cup {v},
           gestures' \in 0 .. MaxGestures, gestures <= gestures',
           UNCHANGED <<rows, details, doubt, listLoads, gets>>
    PROVE  /\ v.at = reply /\ v.n = w.n /\ v.kind = w.kind /\ v.papers = w.papers
           /\ v.prev = w.prev /\ v.row = w.row
           /\ writes' \subseteq WriteType /\ WritesWell' /\ ReadsMixed'
           /\ \A p \in Listed : OneAtATime(p)'
<1>0. ViewType /\ WritesWell /\ ReadsMixed /\ \A p \in Listed : OneAtATime(p)
  BY DEF ViewInv, Sound
<1>1. w \in WriteType /\ writes \subseteq WriteType
  BY <1>0 DEF ViewType
<1>2. /\ v.at = reply /\ v.n = w.n /\ v.kind = w.kind /\ v.papers = w.papers
      /\ v.prev = w.prev /\ v.row = w.row /\ v \in WriteType
  BY <1>1 DEF WriteType
<1>3. Active(w) /\ Active(v)
  BY <1>2 DEF Active
<1>4. WritesWell'
  <2>1. \A u \in writes : u.n \in Nat
    BY <1>1, ViewAssumption DEF WriteType
  <2>2. gestures \in Nat /\ gestures' \in Nat
    BY <1>0, ViewAssumption DEF ViewType
  <2>3. \A u \in writes' : u.n <= gestures'
    <3>1. \A u \in writes : u.n <= gestures
      BY <1>0 DEF WritesWell
    <3>2. \A u \in writes : u.n <= gestures'
      BY <2>1, <2>2, <3>1
    <3> QED
      BY <1>2, <3>2
  <2>4. \A u \in writes' : \E x \in writes : u.n = x.n /\ u.kind = x.kind /\ u.papers = x.papers
    BY <1>2
  <2>5. \A u \in writes' : Active(u) \/ u.kind \in LiveKinds
    BY <1>0, <1>3 DEF WritesWell
  <2>6. \A u \in writes' : u.kind \in {"star", "tag", "untag"} => \E p \in Listed : u.papers = {p}
    BY <1>0, <2>4 DEF WritesWell
  <2>7. ASSUME NEW u \in writes', NEW x \in writes', u.n = x.n
        PROVE  u.kind = x.kind
    <3>1. PICK a \in writes : u.n = a.n /\ u.kind = a.kind
      BY <2>4
    <3>2. PICK b \in writes : x.n = b.n /\ x.kind = b.kind
      BY <2>4
    <3> QED
      BY <1>0, <2>7, <3>1, <3>2 DEF WritesWell
  <2> QED
    BY <2>3, <2>5, <2>6, <2>7 DEF WritesWell
<1>5. ReadsMixed'
  BY <1>0, <1>2, <1>3, MixedKeeps
<1>6. ASSUME NEW p \in Listed
      PROVE  OneAtATime(p)'
  <2> SUFFICES ASSUME NEW a \in On(p)', NEW b \in On(p)', a # b, Active(a),
                      Touches(a.kind) = Touches(b.kind)
               PROVE  ~RowSure(p) /\ ~DetailSure(p)
    BY SameSure DEF OneAtATime
  <2>1. /\ \A u \in On(p)' : u = v \/ (u # w /\ u \in On(p))
        /\ p \in v.papers => w \in On(p)
    BY <1>2 DEF On
  <2>2. CASE a = v
    BY <1>0, <1>2, <1>3, <2>1, <2>2 DEF OneAtATime, On
  <2>3. CASE b = v
    BY <1>0, <1>2, <1>3, <2>1, <2>3 DEF OneAtATime, On
  <2>4. CASE a # v /\ b # v
    BY <1>0, <2>1, <2>4 DEF OneAtATime
  <2> QED
    BY <2>2, <2>3, <2>4
<1> QED
  BY <1>1, <1>2, <1>4, <1>5, <1>6

LEMMA RefusedKeeps ==
    ASSUME ViewInv, NEW w \in writes, w.at = "sent", Gesture,
           writes' = (writes \ {w}) \cup {[w EXCEPT !.at = "refused"]},
           UNCHANGED <<kept, rows, listing, filter, details, seq, listLoads, gets, after, toasts,
                       doubt>>
    PROVE  ViewInv'
<1>0. ViewType /\ ReadsTrue /\ Newest /\ \A p \in Listed : Sound(p)
  BY DEF ViewInv
<1> DEFINE v == [w EXCEPT !.at = "refused"]
<1>1. gestures' \in 0 .. MaxGestures /\ gestures <= gestures'
  BY <1>0, ViewAssumption DEF ViewType, Gesture
<1>2. /\ v.at = "refused" /\ v.n = w.n /\ v.kind = w.kind /\ v.papers = w.papers
      /\ v.prev = w.prev /\ v.row = w.row
      /\ writes' \subseteq WriteType /\ WritesWell' /\ ReadsMixed'
      /\ \A p \in Listed : OneAtATime(p)'
  BY <1>1, AnswerGives
<1>3. writes' = (writes \ {w}) \cup {v}
  OBVIOUS
<1> HIDE DEF v
<1>4. ViewType'
  BY <1>0, <1>1, <1>2 DEF ViewType
<1>5. ReadsTrue' /\ Newest' /\ (NewestOut' <=> NewestOut) /\ (TagGone' <=> TagGone)
  BY <1>0 DEF ReadsTrue, RowsUnder, FlagsOf, Newest, NewestOut, TagGone
<1>6. ASSUME NEW p \in Listed
      PROVE  Sound(p)'
  <2>0. OneAtATime(p) /\ Took(p) /\ RowTrue(p) /\ DetailTrue(p) /\ ListTrue(p)
    BY <1>0 DEF Sound
  <2>1. /\ \A u \in On(p) : u \in On(p)' \/ (u = w /\ v \in On(p)')
        /\ \A u \in On(p)' : u \in On(p) \/ (u = v /\ w \in On(p))
    BY <1>2, <1>3 DEF On
  <2>2. (RowSure(p)' <=> RowSure(p)) /\ (DetailSure(p)' <=> DetailSure(p))
    BY SameSure
  <2>3. Took(p)'
    BY <1>2, <2>0, <2>1, <2>2 DEF Took
  <2>4. \A flags : StarTrue(flags, p) =>
          /\ \A u \in On(p)' : u.kind = "star" =>
               /\ flags.starred = ~u.prev
               /\ kept[p].starred = IF u.at = "served" THEN ~u.prev ELSE u.prev
          /\ (\A u \in On(p)' : u.kind # "star") => flags.starred = kept[p].starred
    BY <1>2, <2>1 DEF StarTrue
  <2>5. \A flags : TagTrue(flags, p) =>
          ((\A u \in On(p)' : u.kind \in TagKinds => u.at # "served") => flags.tagged = kept[p].tagged)
    BY <1>2, <2>1 DEF TagTrue
  <2>6. RowTrue(p)'
    <3> SUFFICES ASSUME RowSure(p)', rows'[p] # Absent
                 PROVE  /\ StarTrue(rows[p], p)'
                        /\ \A u \in On(p)' : u.kind = "star" => u.row = listing'
                        /\ ~NewestOut' /\ ~TagGone' => TagTrue(rows[p], p)'
      BY DEF RowTrue
    <3>1. /\ StarTrue(rows[p], p) /\ \A u \in On(p) : u.kind = "star" => u.row = listing
          /\ ~NewestOut /\ ~TagGone => TagTrue(rows[p], p)
      BY <2>0, <2>2 DEF RowTrue
    <3>2. StarTrue(rows[p], p)'
      BY <2>4, <3>1 DEF StarTrue
    <3>3. TagTrue(rows[p], p) => TagTrue(rows[p], p)'
      BY <2>5 DEF TagTrue
    <3>4. \A u \in On(p)' : u.kind = "star" => u.row = listing'
      BY <1>2, <2>1, <3>1
    <3> QED
      BY <1>5, <3>1, <3>2, <3>3, <3>4
  <2>7. DetailTrue(p)'
    <3> SUFFICES ASSUME DetailSure(p)'
                 PROVE  StarTrue(details[p], p)' /\ TagTrue(details[p], p)'
      BY DEF DetailTrue
    <3>1. StarTrue(details[p], p) /\ TagTrue(details[p], p)
      BY <2>0, <2>2 DEF DetailTrue
    <3>2. StarTrue(details[p], p)'
      BY <2>4, <3>1 DEF StarTrue
    <3>3. TagTrue(details[p], p)'
      BY <2>5, <3>1 DEF TagTrue
    <3> QED
      BY <3>2, <3>3
  <2>8. ListTrue(p)'
    <3>1. FlagsOf(p)' = FlagsOf(p)
      BY DEF FlagsOf
    <3>2. Quiet(p)' => Quiet(p)
      BY <2>1 DEF Quiet
    <3> QED
      BY <1>5, <2>0, <2>2, <3>1, <3>2 DEF ListTrue
  <2> QED
    BY <1>2, <2>3, <2>6, <2>7, <2>8 DEF Sound
<1> QED
  BY <1>2, <1>4, <1>5, <1>6 DEF ViewInv

\* The server's papers once a write has been served.
LEMMA DoneGives ==
    ASSUME ViewType, NEW w \in writes,
           kept' = [p \in Listed |-> IF p \in w.papers THEN Done(w, kept[p]) ELSE kept[p]]
    PROVE  /\ kept' \in [Listed -> [live : BOOLEAN, starred : BOOLEAN, tagged : BOOLEAN]]
           /\ \A p \in Listed : p \notin w.papers => kept'[p] = kept[p]
           /\ \A p \in w.papers :
                /\ kept'[p].starred = IF w.kind = "star" THEN ~w.prev ELSE kept[p].starred
                /\ kept'[p].tagged = IF w.kind \in TagKinds THEN w.kind = "tag" ELSE kept[p].tagged
                /\ kept'[p].live = IF w.kind \in LiveKinds THEN w.kind = "undo" ELSE kept[p].live
<1>1. w \in WriteType /\ kept \in [Listed -> [live : BOOLEAN, starred : BOOLEAN, tagged : BOOLEAN]]
  BY DEF ViewType
<1>2. w.kind \in {"star"} \cup TagKinds \cup LiveKinds /\ w.prev \in BOOLEAN /\ w.papers \subseteq Listed
  BY <1>1 DEF WriteType
<1>3. ASSUME NEW p \in w.papers
      PROVE  /\ Done(w, kept[p]) \in [live : BOOLEAN, starred : BOOLEAN, tagged : BOOLEAN]
             /\ Done(w, kept[p]).starred = IF w.kind = "star" THEN ~w.prev ELSE kept[p].starred
             /\ Done(w, kept[p]).tagged
                  = IF w.kind \in TagKinds THEN w.kind = "tag" ELSE kept[p].tagged
             /\ Done(w, kept[p]).live
                  = IF w.kind \in LiveKinds THEN w.kind = "undo" ELSE kept[p].live
  <2>1. kept[p] \in [live : BOOLEAN, starred : BOOLEAN, tagged : BOOLEAN]
    BY <1>1, <1>2
  <2>2. CASE w.kind = "star"
    <3>1. Done(w, kept[p]) = [kept[p] EXCEPT !.starred = ~w.prev]
      BY <2>2 DEF Done
    <3> QED
      BY <1>2, <2>1, <2>2, <3>1 DEF TagKinds, LiveKinds
  <2>3. CASE w.kind \in TagKinds
    <3>1. Done(w, kept[p]) = [kept[p] EXCEPT !.tagged = w.kind = "tag"]
      BY <2>3 DEF Done, TagKinds
    <3> QED
      BY <1>2, <2>1, <2>3, <3>1 DEF TagKinds, LiveKinds
  <2>4. CASE w.kind \in LiveKinds
    <3>1. Done(w, kept[p]) = [kept[p] EXCEPT !.live = w.kind = "undo"]
      BY <2>4 DEF Done, LiveKinds
    <3> QED
      BY <1>2, <2>1, <2>4, <3>1 DEF TagKinds, LiveKinds
  <2> QED
    BY <1>2, <2>2, <2>3, <2>4
<1> QED
  BY <1>1, <1>2, <1>3

LEMMA ServedKeeps ==
    ASSUME ViewInv, NEW w \in writes, w.at = "sent",
           writes' = (writes \ {w}) \cup {[w EXCEPT !.at = "served"]},
           kept' = [p \in Listed |-> IF p \in w.papers THEN Done(w, kept[p]) ELSE kept[p]],
           UNCHANGED <<rows, listing, filter, details, seq, listLoads, gets, after, toasts,
                       doubt, gestures>>
    PROVE  ViewInv'
<1>0. ViewType /\ ReadsMixed /\ ReadsTrue /\ Newest /\ \A p \in Listed : Sound(p)
  BY DEF ViewInv
<1> DEFINE v == [w EXCEPT !.at = "served"]
<1>1. gestures' \in 0 .. MaxGestures /\ gestures <= gestures'
  BY <1>0, ViewAssumption DEF ViewType
<1>2. /\ v.at = "served" /\ v.n = w.n /\ v.kind = w.kind /\ v.papers = w.papers
      /\ v.prev = w.prev /\ v.row = w.row
      /\ writes' \subseteq WriteType /\ WritesWell' /\ ReadsMixed'
      /\ \A p \in Listed : OneAtATime(p)'
  BY <1>1, AnswerGives
<1>3. writes' = (writes \ {w}) \cup {v} /\ Active(v) /\ Active(w)
  BY <1>2 DEF Active
<1> HIDE DEF v
<1>4. /\ kept' \in [Listed -> [live : BOOLEAN, starred : BOOLEAN, tagged : BOOLEAN]]
      /\ \A p \in Listed : p \notin w.papers => kept'[p] = kept[p]
      /\ \A p \in w.papers :
           /\ kept'[p].starred = IF w.kind = "star" THEN ~w.prev ELSE kept[p].starred
           /\ kept'[p].tagged = IF w.kind \in TagKinds THEN w.kind = "tag" ELSE kept[p].tagged
           /\ kept'[p].live = IF w.kind \in LiveKinds THEN w.kind = "undo" ELSE kept[p].live
  BY <1>0, DoneGives
<1>5. ViewType'
  BY <1>0, <1>1, <1>2, <1>4 DEF ViewType
<1>6. Newest' /\ (NewestOut' <=> NewestOut) /\ (TagGone' <=> TagGone)
  BY <1>0 DEF Newest, NewestOut, TagGone
<1>7. ReadsTrue'
  <2>1. /\ \A l \in listLoads : w.papers \subseteq l.mixed
        /\ \A g \in gets : w.papers \subseteq g.mixed
    BY <1>0, <1>3 DEF ReadsMixed
  <2>2. \A p \in Listed \ w.papers : FlagsOf(p)' = FlagsOf(p) /\ \A f : RowsUnder(f)'[p] = RowsUnder(f)[p]
    BY <1>4 DEF FlagsOf, RowsUnder
  <2>3. \A g \in gets : g.paper \in Listed
    BY <1>0 DEF ViewType, GetType
  <2>4. \A l \in listLoads : l.answer # Absent =>
           \A p \in Listed \ l.mixed : l.answer[p] = RowsUnder(l.filter)'[p]
    BY <1>0, <2>1, <2>2 DEF ReadsTrue
  <2>5. \A g \in gets : g.answer # Absent /\ g.paper \notin g.mixed => g.answer = FlagsOf(g.paper)'
    BY <1>0, <2>1, <2>2, <2>3 DEF ReadsTrue
  <2> QED
    BY <2>4, <2>5 DEF ReadsTrue
<1>8. ASSUME NEW p \in Listed, p \notin w.papers
      PROVE  Sound(p)'
  <2>1. On(p)' = On(p)
    BY <1>2, <1>3, <1>8 DEF On
  <2>2. (RowSure(p)' <=> RowSure(p)) /\ (DetailSure(p)' <=> DetailSure(p))
    BY SameSure
  <2>3. Quiet(p)' => Quiet(p)
    BY <2>1 DEF Quiet
  <2>4. Framed(p)
    BY <1>2, <1>4, <1>6, <1>8, <2>1, <2>2, <2>3 DEF Framed
  <2> QED
    BY <1>0, <2>4, FrameKeeps
<1>9. ASSUME NEW p \in Listed, p \in w.papers
      PROVE  Sound(p)'
  <2>0. OneAtATime(p) /\ Took(p) /\ RowTrue(p) /\ DetailTrue(p) /\ ListTrue(p)
    BY <1>0 DEF Sound
  <2>1. /\ w \in On(p) /\ v \in On(p)'
        /\ \A u \in On(p) : u = w \/ u \in On(p)'
        /\ \A u \in On(p)' : u = v \/ (u # w /\ u \in On(p))
    BY <1>2, <1>3, <1>9 DEF On
  <2>2. (RowSure(p)' <=> RowSure(p)) /\ (DetailSure(p)' <=> DetailSure(p))
    BY SameSure
  <2>3. /\ kept'[p].starred = IF w.kind = "star" THEN ~w.prev ELSE kept[p].starred
        /\ kept'[p].tagged = IF w.kind \in TagKinds THEN w.kind = "tag" ELSE kept[p].tagged
        /\ kept'[p].live = IF w.kind \in LiveKinds THEN w.kind = "undo" ELSE kept[p].live
    BY <1>4, <1>9
  <2>4. ASSUME RowSure(p) \/ DetailSure(p)
        PROVE  /\ w.kind = "star" => \A u \in On(p) : u = w \/ u.kind # "star"
               /\ w.kind \in TagKinds => \A u \in On(p) : u = w \/ u.kind \notin TagKinds
               /\ w.kind \in LiveKinds => \A u \in On(p) : u = w \/ u.kind \notin LiveKinds
    BY <1>3, <2>0, <2>1, <2>4, TouchesOf DEF OneAtATime
  <2>5. w.kind \in {"star"} \cup TagKinds \cup LiveKinds
    BY <1>0 DEF ViewType, WriteType
  <2>6. Took(p)'
    <3> SUFFICES ASSUME NEW u \in On(p)', u.at = "served"
                 PROVE  /\ u.kind \in TagKinds /\ (RowSure(p) \/ DetailSure(p)) => kept'[p].tagged = (u.kind = "tag")
                        /\ u.kind = "drop" /\ RowSure(p) => ~kept'[p].live
      BY <2>2 DEF Took
    <3>1. CASE u = v
      BY <1>2, <2>3, <3>1 DEF LiveKinds
    <3>2. CASE u # v
      <4>1. u # w /\ u \in On(p)
        BY <2>1, <3>2
      <4>2. u.kind \in TagKinds /\ (RowSure(p) \/ DetailSure(p)) => kept'[p].tagged = (u.kind = "tag")
        BY <2>0, <2>3, <2>4, <4>1 DEF Took
      <4>3. u.kind = "drop" /\ RowSure(p) => ~kept'[p].live
        BY <2>0, <2>3, <2>4, <4>1 DEF Took, LiveKinds
      <4> QED
        BY <4>2, <4>3
    <3> QED
      BY <3>1, <3>2
  <2>7. ASSUME NEW flags, StarTrue(flags, p), RowSure(p) \/ DetailSure(p)
        PROVE  /\ \A u \in On(p)' : u.kind = "star" =>
                     /\ flags.starred = ~u.prev
                     /\ kept'[p].starred = IF u.at = "served" THEN ~u.prev ELSE u.prev
               /\ (\A u \in On(p)' : u.kind # "star") => flags.starred = kept'[p].starred
    <3>1. CASE w.kind = "star"
      <4>1. \A u \in On(p)' : u.kind = "star" => u = v
        BY <2>1, <2>4, <2>7, <3>1
      <4> QED
        BY <1>2, <2>1, <2>3, <2>7, <3>1, <4>1 DEF StarTrue
    <3>2. CASE w.kind # "star"
      BY <1>2, <2>1, <2>3, <2>7, <3>2 DEF StarTrue
    <3> QED
      BY <3>1, <3>2
  <2>8. ASSUME NEW flags, TagTrue(flags, p)
        PROVE  (\A u \in On(p)' : u.kind \in TagKinds => u.at # "served") => flags.tagged = kept'[p].tagged
    <3>1. CASE w.kind \in TagKinds
      BY <1>2, <2>1, <3>1
    <3>2. CASE w.kind \notin TagKinds
      BY <1>2, <2>1, <2>3, <2>8, <3>2 DEF TagTrue
    <3> QED
      BY <3>1, <3>2
  <2>9. RowTrue(p)'
    <3> SUFFICES ASSUME RowSure(p)', rows'[p] # Absent
                 PROVE  /\ StarTrue(rows[p], p)'
                        /\ \A u \in On(p)' : u.kind = "star" => u.row = listing'
                        /\ ~NewestOut' /\ ~TagGone' => TagTrue(rows[p], p)'
      BY DEF RowTrue
    <3>1. /\ StarTrue(rows[p], p) /\ \A u \in On(p) : u.kind = "star" => u.row = listing
          /\ ~NewestOut /\ ~TagGone => TagTrue(rows[p], p)
      BY <2>0, <2>2 DEF RowTrue
    <3>2. StarTrue(rows[p], p)'
      BY <2>2, <2>7, <3>1 DEF StarTrue
    <3>3. TagTrue(rows[p], p) => TagTrue(rows[p], p)'
      BY <2>8 DEF TagTrue
    <3>4. \A u \in On(p)' : u.kind = "star" => u.row = listing'
      BY <1>2, <2>1, <3>1
    <3> QED
      BY <1>6, <3>1, <3>2, <3>3, <3>4
  <2>10. DetailTrue(p)'
    <3> SUFFICES ASSUME DetailSure(p)'
                 PROVE  StarTrue(details[p], p)' /\ TagTrue(details[p], p)'
      BY DEF DetailTrue
    <3>1. StarTrue(details[p], p) /\ TagTrue(details[p], p)
      BY <2>0, <2>2 DEF DetailTrue
    <3>2. StarTrue(details[p], p)'
      BY <2>2, <2>7, <3>1 DEF StarTrue
    <3>3. TagTrue(details[p], p)'
      BY <2>8, <3>1 DEF TagTrue
    <3> QED
      BY <3>2, <3>3
  <2>11. ListTrue(p)'
    <3> SUFFICES ASSUME RowSure(p), ~NewestOut, ~TagGone, filter = "tagged" => after = {}, Quiet(p)'
                 PROVE  rows[p] # Absent <=> kept'[p].live /\ Passes(filter, FlagsOf(p)')
      BY <1>6, <2>2 DEF ListTrue, Passes
    <3>1. /\ w.kind \notin LiveKinds
          /\ filter = "starred" => w.kind # "star"
          /\ filter = "tagged" => w.kind \notin TagKinds
      BY <1>2, <2>1 DEF Quiet
    <3>2. Quiet(p)
      BY <2>1 DEF Quiet
    <3>3. rows[p] # Absent <=> kept[p].live /\ Passes(filter, FlagsOf(p))
      BY <2>0, <3>2 DEF ListTrue
    <3>4. /\ FlagsOf(p).starred = kept[p].starred /\ FlagsOf(p).tagged = kept[p].tagged
          /\ FlagsOf(p)'.starred = kept'[p].starred /\ FlagsOf(p)'.tagged = kept'[p].tagged
      BY DEF FlagsOf
    <3>5. Passes(filter, FlagsOf(p)') <=> Passes(filter, FlagsOf(p))
      BY <2>3, <3>1, <3>4 DEF Passes
    <3> QED
      BY <2>3, <3>1, <3>3, <3>5
  <2> QED
    BY <1>2, <2>6, <2>9, <2>10, <2>11 DEF Sound
<1> QED
  BY <1>2, <1>5, <1>6, <1>7, <1>8, <1>9 DEF ViewInv

LEMMA ServeWriteKeeps == ASSUME ViewInv, NEW w \in writes, ServeWrite(w) PROVE ViewInv'
<1>1. /\ w.at = "sent"
      /\ UNCHANGED <<rows, listing, filter, details, seq, listLoads, gets, after, toasts, doubt>>
      /\ \/ /\ writes' = (writes \ {w}) \cup {[w EXCEPT !.at = "served"]}
            /\ kept' = [p \in Listed |-> IF p \in w.papers THEN Done(w, kept[p]) ELSE kept[p]]
            /\ UNCHANGED gestures
         \/ Gesture /\ writes' = (writes \ {w}) \cup {[w EXCEPT !.at = "refused"]} /\ UNCHANGED kept
  BY DEF ServeWrite
<1>2. CASE /\ writes' = (writes \ {w}) \cup {[w EXCEPT !.at = "served"]}
           /\ kept' = [p \in Listed |-> IF p \in w.papers THEN Done(w, kept[p]) ELSE kept[p]]
           /\ UNCHANGED gestures
  BY <1>1, <1>2, ServedKeeps
<1>3. CASE Gesture /\ writes' = (writes \ {w}) \cup {[w EXCEPT !.at = "refused"]} /\ UNCHANGED kept
  BY <1>1, <1>3, RefusedKeeps
<1> QED
  BY <1>1, <1>2, <1>3

----------------------------------------------------------------------------
(* Writes that settle.                                                     *)

\* With a write less the rest still stands as it did.
LEMMA FewerGives ==
    ASSUME ViewInv, writes' \subseteq writes, UNCHANGED gestures
    PROVE  /\ writes' \subseteq WriteType /\ WritesWell'
           /\ \A p \in Listed : /\ On(p)' \subseteq On(p)
                                /\ ((RowSure(p)' => RowSure(p)) /\ (DetailSure(p)' => DetailSure(p)))
                                      => OneAtATime(p)'
<1>1. writes' \subseteq WriteType
  BY DEF ViewInv, ViewType
<1>2. WritesWell'
  BY DEF ViewInv, WritesWell
<1>3. \A p \in Listed : On(p)' \subseteq On(p) /\ OneAtATime(p)
  BY DEF ViewInv, Sound, On
<1>4. \A p \in Listed :
        ((RowSure(p)' => RowSure(p)) /\ (DetailSure(p)' => DetailSure(p))) => OneAtATime(p)'
  BY <1>3 DEF OneAtATime
<1> QED
  BY <1>1, <1>2, <1>3, <1>4

LEMMA StarGone ==
    ASSUME NEW p, Sound(p), NEW w \in On(p), w.kind = "star", w.at \in {"served", "refused"},
           On(p)' = On(p) \ {w}, kept'[p] = kept[p],
           UNCHANGED <<listing, filter, after, doubt>>, OneAtATime(p)',
           rows'[p] = Absent <=> rows[p] = Absent,
           rows[p] # Absent =>
               /\ rows'[p].tagged = rows[p].tagged
               /\ rows'[p].starred = IF w.at = "refused" /\ w.row = listing THEN w.prev
                                     ELSE rows[p].starred,
           details'[p] = Absent <=> details[p] = Absent,
           details[p] # Absent =>
               /\ details'[p].tagged = details[p].tagged
               /\ details'[p].starred = IF w.at = "refused" THEN w.prev ELSE details[p].starred,
           ~NewestOut' => ~NewestOut /\ ~(filter = "starred" /\ w.at = "served")
    PROVE  Sound(p)'
<1>0. OneAtATime(p) /\ Took(p) /\ RowTrue(p) /\ DetailTrue(p) /\ ListTrue(p)
  BY DEF Sound
<1>1. (RowSure(p)' <=> RowSure(p)) /\ (DetailSure(p)' <=> DetailSure(p)) /\ (TagGone' <=> TagGone)
  BY DEF RowSure, DetailSure, TagGone
<1>2. RowSure(p) \/ DetailSure(p) => \A u \in On(p)' : u.kind # "star"
  BY <1>0 DEF OneAtATime, Active
<1>3. Took(p)'
  BY <1>0, <1>1 DEF Took
<1>4. w.kind \notin TagKinds
  BY DEF TagKinds
<1>5. RowTrue(p)'
  <2> SUFFICES ASSUME RowSure(p)', rows'[p] # Absent
               PROVE  /\ StarTrue(rows[p], p)'
                      /\ \A u \in On(p)' : u.kind = "star" => u.row = listing'
                      /\ ~NewestOut' /\ ~TagGone' => TagTrue(rows[p], p)'
    BY DEF RowTrue
  <2>1. /\ StarTrue(rows[p], p) /\ \A u \in On(p) : u.kind = "star" => u.row = listing
        /\ ~NewestOut /\ ~TagGone => TagTrue(rows[p], p)
    BY <1>0, <1>1 DEF RowTrue
  <2>2. rows'[p].starred = kept[p].starred
    BY <2>1 DEF StarTrue
  <2>3. StarTrue(rows[p], p)'
    BY <1>1, <1>2, <2>2 DEF StarTrue
  <2>4. TagTrue(rows[p], p) => TagTrue(rows[p], p)'
    BY <1>4 DEF TagTrue
  <2> QED
    BY <1>1, <1>2, <2>1, <2>3, <2>4
<1>6. DetailTrue(p)'
  <2> SUFFICES ASSUME DetailSure(p)'
               PROVE  StarTrue(details[p], p)' /\ TagTrue(details[p], p)'
    BY DEF DetailTrue
  <2>1. StarTrue(details[p], p) /\ TagTrue(details[p], p) /\ details[p] # Absent
    BY <1>0, <1>1 DEF DetailTrue, DetailSure
  <2>2. details'[p].starred = kept[p].starred
    BY <2>1 DEF StarTrue
  <2>3. StarTrue(details[p], p)'
    BY <1>1, <1>2, <2>2 DEF StarTrue
  <2>4. TagTrue(details[p], p)'
    BY <1>4, <2>1 DEF TagTrue
  <2> QED
    BY <2>3, <2>4
<1>7. ListTrue(p)'
  <2>1. FlagsOf(p)' = FlagsOf(p)
    BY DEF FlagsOf
  <2>2. ~NewestOut' /\ Quiet(p)' => Quiet(p)
    BY <1>4 DEF Quiet, LiveKinds
  <2> QED
    BY <1>0, <1>1, <2>1, <2>2 DEF ListTrue
<1> QED
  BY <1>3, <1>5, <1>6, <1>7 DEF Sound

LEMMA StarSettlesKeeps == ASSUME ViewInv, NEW w \in writes, StarSettles(w) PROVE ViewInv'
<1>0. ViewType /\ WritesWell /\ ReadsMixed /\ ReadsTrue /\ Newest /\ \A p \in Listed : Sound(p)
  BY DEF ViewInv
<1>1. /\ w.kind = "star" /\ w.at \in {"served", "refused"} /\ writes' = writes \ {w}
      /\ UNCHANGED <<kept, listing, filter, gets, after, toasts, doubt, gestures>>
  BY DEF StarSettles
<1>2. /\ writes' \subseteq WriteType /\ WritesWell'
      /\ \A p \in Listed : ((RowSure(p)' => RowSure(p)) /\ (DetailSure(p)' => DetailSure(p)))
                              => OneAtATime(p)'
  BY <1>1, FewerGives
<1>3. PICK p \in Listed : w.papers = {p}
  BY <1>0, <1>1 DEF WritesWell
<1>4. /\ \A q \in Listed : q # p => On(q)' = On(q)
      /\ On(p)' = On(p) \ {w} /\ w \in On(p) /\ w.prev \in BOOLEAN
  BY <1>0, <1>1, <1>3 DEF On, ViewType, WriteType
<1>5. ASSUME ReadsMixed', listLoads' \subseteq ListLoadType, seq' \in Nat, ReadsTrue', Newest',
             ~NewestOut' => ~NewestOut /\ ~(filter = "starred" /\ w.at = "served"),
             rows' \in [Listed -> Shows], details' \in [Listed -> Shows],
             \A q \in Listed : q # p => rows'[q] = rows[q] /\ details'[q] = details[q],
             rows'[p] = Absent <=> rows[p] = Absent,
             rows[p] # Absent =>
                 /\ rows'[p].tagged = rows[p].tagged
                 /\ rows'[p].starred = IF w.at = "refused" /\ w.row = listing THEN w.prev
                                       ELSE rows[p].starred,
             details'[p] = Absent <=> details[p] = Absent,
             details[p] # Absent =>
                 /\ details'[p].tagged = details[p].tagged
                 /\ details'[p].starred = IF w.at = "refused" THEN w.prev ELSE details[p].starred
      PROVE  ViewInv'
  <2>1. ViewType'
    BY <1>0, <1>1, <1>2, <1>5 DEF ViewType
  <2>2. \A q \in Listed : (RowSure(q)' <=> RowSure(q)) /\ (DetailSure(q)' <=> DetailSure(q))
    BY <1>1, <1>5 DEF RowSure, DetailSure
  <2>3. ASSUME NEW q \in Listed
        PROVE  Sound(q)'
    <3>1. CASE q = p
      <4>1. OneAtATime(p)' /\ Sound(p)
        BY <1>0, <1>2, <2>2
      <4> QED
        BY <1>1, <1>4, <1>5, <3>1, <4>1, StarGone
    <3>2. CASE q # p
      <4>1. On(q)' = On(q) /\ OneAtATime(q)' /\ (TagGone' <=> TagGone)
        BY <1>1, <1>2, <1>4, <2>2, <3>2 DEF TagGone
      <4>2. Quiet(q)' => Quiet(q)
        BY <1>1, <4>1 DEF Quiet
      <4>3. Framed(q)
        BY <1>1, <1>5, <2>2, <3>2, <4>1, <4>2 DEF Framed
      <4> QED
        BY <1>0, <4>3, FrameKeeps
    <3> QED
      BY <3>1, <3>2
  <2> QED
    BY <1>2, <1>5, <2>1, <2>3 DEF ViewInv
<1>6. CASE w.at = "refused"
  <2>1. Patch(p, "starred", w.prev, w.row = listing) /\ UNCHANGED <<seq, listLoads>>
    BY <1>3, <1>6 DEF StarSettles, PutBack
  <2>2. /\ rows' \in [Listed -> Shows] /\ details' \in [Listed -> Shows]
        /\ \A q \in Listed : q # p => rows'[q] = rows[q] /\ details'[q] = details[q]
        /\ IF w.row = listing THEN Patched(rows[p], rows'[p], "starred", w.prev) ELSE rows'[p] = rows[p]
        /\ Patched(details[p], details'[p], "starred", w.prev)
    BY <1>0, <1>4, <2>1, PatchGives
  <2>3. ReadsMixed' /\ ReadsTrue' /\ Newest' /\ (NewestOut' <=> NewestOut)
    BY <1>0, <1>1, <2>1 DEF ReadsMixed, ReadsTrue, RowsUnder, FlagsOf, Newest, NewestOut
  <2>4. listLoads' \subseteq ListLoadType /\ seq' \in Nat
    BY <1>0, <2>1 DEF ViewType
  <2> QED
    BY <1>5, <1>6, <2>2, <2>3, <2>4 DEF Patched
<1>7. CASE w.at = "served"
  <2>0. UNCHANGED <<rows, details>> /\ rows \in [Listed -> Shows] /\ details \in [Listed -> Shows]
    BY <1>0, <1>7 DEF StarSettles, ViewType
  <2>1. CASE filter = "starred"
    <3> DEFINE amid == Writing(writes')
               new == [n |-> seq + 1, filter |-> filter, mixed |-> amid, answer |-> Absent]
    <3>1. LoadList(filter, amid) /\ filter \in Filters
      BY <1>0, <1>7, <2>1 DEF StarSettles, ViewType
    <3>2. amid \in SUBSET Listed
      BY <1>2 DEF Writing, WriteType
    <3> HIDE DEF amid
    <3>3. /\ listLoads' = listLoads \cup {new} /\ new \in ListLoadType
          /\ new.mixed = amid /\ new.answer = Absent
          /\ seq' \in Nat /\ NewestOut' /\ Newest'
      BY <1>0, <1>1, <3>1, <3>2, LoadListGives
    <3> HIDE DEF new
    <3>4. ReadsMixed'
      BY <1>0, <1>1, <3>3, MixedKeeps DEF amid
    <3>5. ReadsTrue'
      BY <1>0, <1>1, <3>3 DEF ReadsTrue, RowsUnder, FlagsOf
    <3>6. listLoads' \subseteq ListLoadType
      BY <1>0, <3>3 DEF ViewType
    <3> QED
      BY <1>5, <1>7, <2>0, <3>3, <3>4, <3>5, <3>6
  <2>2. CASE filter # "starred"
    <3>1. UNCHANGED <<seq, listLoads>>
      BY <1>7, <2>2 DEF StarSettles
    <3>2. ReadsMixed' /\ ReadsTrue' /\ Newest' /\ (NewestOut' <=> NewestOut)
      BY <1>0, <1>1, <3>1 DEF ReadsMixed, ReadsTrue, RowsUnder, FlagsOf, Newest, NewestOut
    <3>3. listLoads' \subseteq ListLoadType /\ seq' \in Nat
      BY <1>0, <3>1 DEF ViewType
    <3> QED
      BY <1>5, <1>7, <2>0, <2>2, <3>2, <3>3
  <2> QED
    BY <2>1, <2>2
<1> QED
  BY <1>1, <1>6, <1>7

\* A write that was refused leaves without a trace, if nothing was shown at once.
LEMMA RefusedGone ==
    ASSUME ViewInv, NEW w \in writes, w.kind \in TagKinds, w.at = "refused", writes' = writes \ {w},
           UNCHANGED <<kept, rows, listing, filter, details, seq, listLoads, gets, after, toasts,
                       doubt, gestures>>
    PROVE  ViewInv'
<1>0. ViewType /\ ReadsMixed /\ ReadsTrue /\ Newest /\ \A p \in Listed : Sound(p)
  BY DEF ViewInv
<1>1. (NewestOut' <=> NewestOut) /\ (TagGone' <=> TagGone)
  BY DEF NewestOut, TagGone
<1>2. /\ writes' \subseteq WriteType /\ WritesWell'
      /\ \A p \in Listed : ((RowSure(p)' => RowSure(p)) /\ (DetailSure(p)' => DetailSure(p)))
                              => OneAtATime(p)'
  BY FewerGives
<1>3. ViewType'
  BY <1>0, <1>2 DEF ViewType
<1>4. ReadsMixed' /\ ReadsTrue' /\ Newest'
  BY <1>0 DEF ReadsMixed, ReadsTrue, RowsUnder, FlagsOf, Newest
<1>5. w.kind # "star" /\ w.kind \notin LiveKinds
  BY DEF TagKinds, LiveKinds
<1>6. ASSUME NEW p \in Listed
      PROVE  Sound(p)'
  <2>1. (RowSure(p)' <=> RowSure(p)) /\ (DetailSure(p)' <=> DetailSure(p)) /\ OneAtATime(p)'
    BY <1>2, SameSure
  <2>2. On(p)' = On(p) \ {w}
    BY DEF On
  <2>3. Quiet(p)' => Quiet(p)
    BY <1>5, <2>2 DEF Quiet
  <2>4. Framed(p)
    BY <1>1, <1>5, <2>1, <2>2, <2>3 DEF Framed
  <2> QED
    BY <1>0, <2>4, FrameKeeps
<1> QED
  BY <1>2, <1>3, <1>4, <1>6 DEF ViewInv

LEMMA TagSettlesKeeps == ASSUME ViewInv, NEW w \in writes, TagSettles(w) PROVE ViewInv'
<1>0. ViewType /\ WritesWell /\ ReadsMixed /\ ReadsTrue /\ Newest /\ \A p \in Listed : Sound(p)
  BY DEF ViewInv
<1>1. /\ w.kind \in {"tag", "untag"} /\ w.at \in {"served", "refused"} /\ writes' = writes \ {w}
      /\ UNCHANGED <<kept, listing, filter, seq, listLoads, gets, toasts, doubt, gestures>>
  BY DEF TagSettles
<1>2. w.kind \in TagKinds /\ w.kind # "star" /\ w.kind \notin LiveKinds
  BY <1>1 DEF TagKinds, LiveKinds
<1>3. CASE w.at = "refused"
  <2>1. UNCHANGED <<rows, details, after>>
    BY <1>3 DEF TagSettles
  <2> QED
    BY <1>1, <1>2, <1>3, <2>1, RefusedGone
<1>4. CASE w.at = "served"
  <2>1. PICK p \in Listed : w.papers = {p}
    BY <1>0, <1>1 DEF WritesWell
  <2>2. /\ Patch(p, "tagged", w.kind = "tag", TRUE)
        /\ after' = after \cup {[n |-> w.n, why |-> "tagged"]}
    BY <1>4, <2>1 DEF TagSettles
  <2>3. /\ rows' \in [Listed -> Shows] /\ details' \in [Listed -> Shows]
        /\ \A q \in Listed : q # p => rows'[q] = rows[q] /\ details'[q] = details[q]
        /\ Patched(rows[p], rows'[p], "tagged", w.kind = "tag")
        /\ Patched(details[p], details'[p], "tagged", w.kind = "tag")
    BY <1>0, <2>2, PatchGives
  <2>4. /\ rows'[p] = Absent <=> rows[p] = Absent
        /\ rows[p] # Absent =>
             rows'[p].starred = rows[p].starred /\ rows'[p].tagged = (w.kind = "tag")
        /\ details'[p] = Absent <=> details[p] = Absent
        /\ details[p] # Absent =>
             details'[p].starred = details[p].starred /\ details'[p].tagged = (w.kind = "tag")
    BY <2>3 DEF Patched
  <2>5. /\ writes' \subseteq WriteType /\ WritesWell'
        /\ \A q \in Listed : ((RowSure(q)' => RowSure(q)) /\ (DetailSure(q)' => DetailSure(q)))
                                => OneAtATime(q)'
    BY <1>1, FewerGives
  <2>6. ViewType'
    BY <1>0, <1>1, <2>3, <2>5 DEF ViewType
  <2>7. ReadsMixed' /\ ReadsTrue' /\ Newest' /\ (NewestOut' <=> NewestOut)
    BY <1>0, <1>1 DEF ReadsMixed, ReadsTrue, RowsUnder, FlagsOf, Newest, NewestOut
  <2>8. (TagGone' <=> TagGone) /\ after' # {}
    <3> DEFINE new == [n |-> w.n, why |-> "tagged"]
    <3>1. after' = after \cup {new} /\ new.why = "tagged"
      BY <2>2
    <3> HIDE DEF new
    <3> QED
      BY <3>1 DEF TagGone
  <2>9. \A q \in Listed : (RowSure(q)' <=> RowSure(q)) /\ (DetailSure(q)' <=> DetailSure(q))
    BY <1>1, <2>3, <2>4 DEF RowSure, DetailSure
  <2>10. ASSUME NEW q \in Listed, q # p
         PROVE  Sound(q)'
    <3>1. On(q)' = On(q) /\ OneAtATime(q)'
      BY <1>1, <2>1, <2>5, <2>9, <2>10 DEF On
    <3>2. Quiet(q)' => Quiet(q)
      BY <1>1, <3>1 DEF Quiet
    <3>3. Framed(q)
      BY <1>1, <2>3, <2>7, <2>8, <2>9, <2>10, <3>1, <3>2 DEF Framed
    <3> QED
      BY <1>0, <3>3, FrameKeeps
  <2>11. Sound(p)'
    <3>0. OneAtATime(p) /\ Took(p) /\ RowTrue(p) /\ DetailTrue(p) /\ ListTrue(p)
      BY <1>0 DEF Sound
    <3>1. w \in On(p) /\ On(p)' = On(p) \ {w} /\ OneAtATime(p)'
      BY <1>1, <2>1, <2>5, <2>9 DEF On
    <3>2. Took(p)'
      BY <1>1, <2>9, <3>0, <3>1 DEF Took
    <3>3. RowSure(p) \/ DetailSure(p) => kept[p].tagged = (w.kind = "tag")
      BY <1>2, <1>4, <3>0, <3>1 DEF Took
    <3>4. RowTrue(p)'
      <4> SUFFICES ASSUME RowSure(p)', rows'[p] # Absent
                   PROVE  /\ StarTrue(rows[p], p)'
                          /\ \A u \in On(p)' : u.kind = "star" => u.row = listing'
                          /\ TagTrue(rows[p], p)'
        BY DEF RowTrue
      <4>1. StarTrue(rows[p], p) /\ \A u \in On(p) : u.kind = "star" => u.row = listing
        BY <2>4, <2>9, <3>0 DEF RowTrue
      <4>2. StarTrue(rows[p], p)'
        BY <1>1, <1>2, <2>4, <3>1, <4>1 DEF StarTrue
      <4>3. TagTrue(rows[p], p)'
        BY <1>1, <2>4, <2>9, <3>3 DEF TagTrue
      <4> QED
        BY <1>1, <3>1, <4>1, <4>2, <4>3
    <3>5. DetailTrue(p)'
      <4> SUFFICES ASSUME DetailSure(p)'
                   PROVE  StarTrue(details[p], p)' /\ TagTrue(details[p], p)'
        BY DEF DetailTrue
      <4>1. StarTrue(details[p], p) /\ details[p] # Absent
        BY <2>9, <3>0 DEF DetailTrue, DetailSure
      <4>2. StarTrue(details[p], p)'
        BY <1>1, <1>2, <2>4, <3>1, <4>1 DEF StarTrue
      <4>3. TagTrue(details[p], p)'
        BY <1>1, <2>4, <2>9, <3>3, <4>1 DEF TagTrue
      <4> QED
        BY <4>2, <4>3
    <3>6. ListTrue(p)'
      <4>1. FlagsOf(p)' = FlagsOf(p)
        BY <1>1 DEF FlagsOf
      <4>2. filter # "tagged" /\ Quiet(p)' => Quiet(p)
        BY <1>1, <1>2, <3>1 DEF Quiet
      <4> QED
        BY <1>1, <2>4, <2>7, <2>8, <2>9, <3>0, <4>1, <4>2 DEF ListTrue
    <3> QED
      BY <3>1, <3>2, <3>4, <3>5, <3>6 DEF Sound
  <2> QED
    BY <2>5, <2>6, <2>7, <2>10, <2>11 DEF ViewInv
<1> QED
  BY <1>1, <1>3, <1>4

LEMMA TagDeletionKeeps == ASSUME ViewInv, NEW w \in writes, TagDeletionSettles(w) PROVE ViewInv'
<1>0. ViewType /\ ReadsMixed /\ ReadsTrue /\ Newest /\ \A p \in Listed : Sound(p)
  BY DEF ViewInv
<1>1. /\ w.kind = "untag_all" /\ w.at \in {"served", "refused"} /\ writes' = writes \ {w}
      /\ UNCHANGED <<kept, rows, listing, filter, seq, listLoads, gets, toasts, gestures>>
  BY DEF TagDeletionSettles
<1>2. w.kind \in TagKinds /\ w.kind # "star" /\ w.kind \notin LiveKinds
  BY <1>1 DEF TagKinds, LiveKinds
<1>3. CASE w.at = "refused"
  <2>1. UNCHANGED <<details, doubt, after>>
    BY <1>3 DEF TagDeletionSettles
  <2> QED
    BY <1>1, <1>2, <1>3, <2>1, RefusedGone
<1>4. CASE w.at = "served"
  <2>1. /\ details' = [p \in Listed |-> Absent] /\ doubt' = {d \in doubt : d[2] = "row"}
        /\ after' = after \cup {[n |-> w.n, why |-> "deleted"]}
    BY <1>4 DEF TagDeletionSettles, Evicted
  <2>2. TagGone'
    <3> DEFINE new == [n |-> w.n, why |-> "deleted"]
    <3>1. after' = after \cup {new} /\ new.why = "deleted"
      BY <2>1
    <3> HIDE DEF new
    <3> QED
      BY <3>1 DEF TagGone
  <2>3. \A p \in Listed : (RowSure(p)' <=> RowSure(p)) /\ ~DetailSure(p)'
    BY <2>1 DEF RowSure, DetailSure
  <2>4. /\ writes' \subseteq WriteType /\ WritesWell'
        /\ \A p \in Listed : OneAtATime(p)' /\ On(p)' \subseteq On(p)
    BY <1>1, <2>3, FewerGives
  <2>5. ViewType'
    BY <1>0, <1>1, <2>1, <2>4 DEF ViewType, Shows
  <2>6. ReadsMixed' /\ ReadsTrue' /\ Newest'
    BY <1>0, <1>1 DEF ReadsMixed, ReadsTrue, RowsUnder, FlagsOf, Newest
  <2>7. ASSUME NEW p \in Listed
        PROVE  Sound(p)'
    <3>0. OneAtATime(p) /\ Took(p) /\ RowTrue(p) /\ DetailTrue(p) /\ ListTrue(p)
      BY <1>0 DEF Sound
    <3>1. /\ On(p)' \subseteq On(p) /\ \A u \in On(p) : u.kind = "star" => u \in On(p)'
      BY <1>1, <2>4 DEF On
    <3>2. Took(p)'
      BY <1>1, <2>3, <3>0, <3>1 DEF Took
    <3>3. DetailTrue(p)' /\ ListTrue(p)'
      BY <2>2, <2>3 DEF DetailTrue, ListTrue
    <3>4. RowTrue(p)'
      <4> SUFFICES ASSUME RowSure(p)', rows'[p] # Absent
                   PROVE  /\ StarTrue(rows[p], p)'
                          /\ \A u \in On(p)' : u.kind = "star" => u.row = listing'
        BY <2>2 DEF RowTrue
      <4>1. StarTrue(rows[p], p) /\ \A u \in On(p) : u.kind = "star" => u.row = listing
        BY <1>1, <2>3, <3>0 DEF RowTrue
      <4>2. StarTrue(rows[p], p)'
        BY <1>1, <3>1, <4>1 DEF StarTrue
      <4> QED
        BY <1>1, <3>1, <4>1, <4>2
    <3> QED
      BY <2>4, <3>2, <3>3, <3>4 DEF Sound
  <2> QED
    BY <2>4, <2>5, <2>6, <2>7 DEF ViewInv
<1> QED
  BY <1>1, <1>3, <1>4

\* A request of a batch, once it has settled.
Over(w) == [w EXCEPT !.at = IF w.at = "served" THEN "over" ELSE "failed"]

LEMMA SettledGives ==
    ASSUME ViewInv, NEW w \in writes, w.kind \in LiveKinds, w.at \in {"served", "refused"},
           writes' = Settled(w)
             \/ (Complete(BatchOf(w, Settled(w))) /\ writes' = Settled(w) \ BatchOf(w, Settled(w))),
           UNCHANGED gestures
    PROVE  /\ Over(w).at = (IF w.at = "served" THEN "over" ELSE "failed")
           /\ Over(w).kind = w.kind /\ Over(w).papers = w.papers /\ Over(w).n = w.n
           /\ Settled(w) = (writes \ {w}) \cup {Over(w)} /\ Settled(w) \subseteq WriteType
           /\ writes' \subseteq Settled(w) /\ WritesWell'
           /\ \A u \in writes' : Active(u) => u \in writes /\ u # w
           /\ \A u \in Settled(w) : u \in writes' \/ (u.kind = w.kind /\ u.at \in {"over", "failed"}
                                                      /\ u \in BatchOf(w, Settled(w)))
<1>0. ViewType /\ WritesWell
  BY DEF ViewInv
<1>1. w \in WriteType /\ writes \subseteq WriteType
  BY <1>0 DEF ViewType
<1>2. /\ Over(w).at = (IF w.at = "served" THEN "over" ELSE "failed")
      /\ Over(w).kind = w.kind /\ Over(w).papers = w.papers /\ Over(w).n = w.n
      /\ Over(w) \in WriteType
  BY <1>1 DEF Over, WriteType
<1>3. Settled(w) = (writes \ {w}) \cup {Over(w)}
  BY DEF Settled, Over
<1>4. ~Active(Over(w))
  BY <1>2 DEF Active
<1>5. writes' \subseteq Settled(w)
  OBVIOUS
<1>6. \A u \in Settled(w) : \E x \in writes : u.n = x.n /\ u.kind = x.kind /\ u.papers = x.papers
  BY <1>2, <1>3
<1>7. ASSUME NEW u \in Settled(w), NEW x \in Settled(w), u.n = x.n
      PROVE  u.kind = x.kind
  <2>1. PICK a \in writes : u.n = a.n /\ u.kind = a.kind
    BY <1>6
  <2>2. PICK b \in writes : x.n = b.n /\ x.kind = b.kind
    BY <1>6
  <2> QED
    BY <1>0, <1>7, <2>1, <2>2 DEF WritesWell
<1>8. WritesWell'
  <2>1. \A u \in Settled(w) : u.n <= gestures
    BY <1>0, <1>6 DEF WritesWell
  <2>2. \A u \in Settled(w) : Active(u) \/ u.kind \in LiveKinds
    BY <1>0, <1>2, <1>3 DEF WritesWell
  <2>3. \A u \in Settled(w) : u.kind \in {"star", "tag", "untag"} => \E p \in Listed : u.papers = {p}
    BY <1>0, <1>6 DEF WritesWell
  <2> QED
    BY <1>5, <1>7, <2>1, <2>2, <2>3 DEF WritesWell
<1>9. \A u \in writes' : Active(u) => u \in writes /\ u # w
  BY <1>3, <1>4, <1>5
<1>10. ASSUME NEW u \in Settled(w), u \notin writes'
       PROVE  u.kind = w.kind /\ u.at \in {"over", "failed"} /\ u \in BatchOf(w, Settled(w))
  <2>1. Complete(BatchOf(w, Settled(w))) /\ u \in BatchOf(w, Settled(w))
    BY <1>10
  <2>2. u.n = w.n /\ u.at \in {"over", "failed"}
    BY <2>1 DEF BatchOf, Complete
  <2>3. u.kind = Over(w).kind
    BY <1>2, <1>3, <1>7, <2>2
  <2> QED
    BY <1>2, <2>1, <2>2, <2>3
<1> QED
  BY <1>1, <1>2, <1>3, <1>5, <1>8, <1>9, <1>10

\* What it leaves of the writes on a paper.
LEMMA SettledOn ==
    ASSUME ViewInv, NEW w \in writes, w.kind \in LiveKinds, w.at \in {"served", "refused"},
           writes' = Settled(w)
             \/ (Complete(BatchOf(w, Settled(w))) /\ writes' = Settled(w) \ BatchOf(w, Settled(w))),
           UNCHANGED gestures, NEW p \in Listed
    PROVE  /\ w.kind # "star" /\ w.kind \notin TagKinds
           /\ \A u \in On(p)' : (u = Over(w) /\ p \in w.papers) \/ (u \in On(p) /\ u # w)
           /\ \A u \in On(p) : \/ u \in On(p)'
                               \/ u = w
                               \/ /\ u.kind = w.kind /\ u.at \in {"over", "failed"}
                                  /\ u \in BatchOf(w, Settled(w))
           /\ ((RowSure(p)' => RowSure(p)) /\ (DetailSure(p)' => DetailSure(p))) => OneAtATime(p)'
<1>1. /\ Over(w).at = (IF w.at = "served" THEN "over" ELSE "failed")
      /\ Over(w).kind = w.kind /\ Over(w).papers = w.papers
      /\ Settled(w) = (writes \ {w}) \cup {Over(w)} /\ writes' \subseteq Settled(w)
      /\ \A u \in writes' : Active(u) => u \in writes /\ u # w
      /\ \A u \in Settled(w) : u \in writes' \/ (u.kind = w.kind /\ u.at \in {"over", "failed"}
                                                 /\ u \in BatchOf(w, Settled(w)))
  BY SettledGives
<1>2. w.kind # "star" /\ w.kind \notin TagKinds
  BY DEF TagKinds, LiveKinds
<1>3. \A u \in On(p)' : (u = Over(w) /\ p \in w.papers) \/ (u \in On(p) /\ u # w)
  BY <1>1 DEF On
<1>4. \A u \in On(p) : u \in On(p)' \/ u = w \/ (u.kind = w.kind /\ u.at \in {"over", "failed"}
                                                 /\ u \in BatchOf(w, Settled(w)))
  BY <1>1 DEF On
<1>5. ASSUME RowSure(p)' => RowSure(p), DetailSure(p)' => DetailSure(p)
      PROVE  OneAtATime(p)'
  <2> SUFFICES ASSUME NEW a \in On(p)', NEW b \in On(p)', a # b, Active(a),
                      Touches(a.kind) = Touches(b.kind)
               PROVE  ~RowSure(p) /\ ~DetailSure(p)
    BY <1>5 DEF OneAtATime
  <2>1. a \in On(p) /\ a # w /\ OneAtATime(p)
    BY <1>1 DEF On, ViewInv, Sound
  <2>2. CASE b = Over(w) /\ p \in w.papers
    BY <1>1, <2>1, <2>2 DEF OneAtATime, On
  <2>3. CASE b \in On(p)
    BY <2>1, <2>3 DEF OneAtATime
  <2> QED
    BY <1>3, <2>2, <2>3
<1> QED
  BY <1>2, <1>3, <1>4, <1>5

LEMMA DropSettlesKeeps == ASSUME ViewInv, NEW w \in writes, DropSettles(w) PROVE ViewInv'
<1>0. ViewType /\ ReadsMixed /\ ReadsTrue /\ Newest /\ \A p \in Listed : Sound(p)
  BY DEF ViewInv
<1>1. /\ w.kind = "drop" /\ w.at \in {"served", "refused"} /\ w.kind \in LiveKinds
      /\ UNCHANGED <<kept, listing, filter, seq, listLoads, gets, after, gestures>>
      /\ writes' = Settled(w)
         \/ (Complete(BatchOf(w, Settled(w))) /\ writes' = Settled(w) \ BatchOf(w, Settled(w)))
      /\ toasts' \in {toasts, toasts \cup ({Achieved(BatchOf(w, Settled(w)))} \ {{}})}
  BY DEF DropSettles, LiveKinds
<1>2. /\ Settled(w) \subseteq WriteType /\ writes' \subseteq Settled(w) /\ WritesWell'
      /\ Over(w).at = (IF w.at = "served" THEN "over" ELSE "failed") /\ Over(w).kind = w.kind
      /\ \A u \in writes' : Active(u) => u \in writes /\ u # w
  BY <1>1, SettledGives
<1>3. rows' \in [Listed -> Shows] /\ details' \in [Listed -> Shows]
  BY <1>0 DEF DropSettles, ViewType, Evicted, Shows
<1>4. toasts' \subseteq SUBSET Listed
  <2>1. Achieved(BatchOf(w, Settled(w))) \in SUBSET Listed
    BY <1>2 DEF Achieved, BatchOf, WriteType
  <2> QED
    BY <1>0, <1>1, <2>1 DEF ViewType
<1>5. ViewType'
  BY <1>0, <1>1, <1>2, <1>3, <1>4 DEF ViewType
<1>6. ReadsMixed'
  BY <1>0, <1>1, <1>2, MixedKeeps
<1>7. ReadsTrue' /\ Newest' /\ (NewestOut' <=> NewestOut) /\ (TagGone' <=> TagGone)
  BY <1>0, <1>1 DEF ReadsTrue, RowsUnder, FlagsOf, Newest, NewestOut, TagGone
<1>8. ASSUME NEW p \in Listed
      PROVE  Sound(p)'
  <2>0. OneAtATime(p) /\ Took(p) /\ RowTrue(p) /\ DetailTrue(p) /\ ListTrue(p)
    BY <1>0 DEF Sound
  <2>1. /\ w.kind # "star" /\ w.kind \notin TagKinds
        /\ \A u \in On(p)' : (u = Over(w) /\ p \in w.papers) \/ (u \in On(p) /\ u # w)
        /\ \A u \in On(p) : u \in On(p)' \/ u = w \/ (u.kind = w.kind /\ u.at \in {"over", "failed"})
        /\ ((RowSure(p)' => RowSure(p)) /\ (DetailSure(p)' => DetailSure(p))) => OneAtATime(p)'
    BY <1>1, SettledOn
  <2>2. CASE w.at = "served" /\ p \in w.papers
    <3>1. /\ rows'[p] = Absent /\ details'[p] = Absent
          /\ doubt' = doubt \ (w.papers \X {"detail"})
      BY <2>2 DEF DropSettles, Evicted
    <3>2. (RowSure(p)' <=> RowSure(p)) /\ ~DetailSure(p)'
      BY <3>1 DEF RowSure, DetailSure
    <3>3. OneAtATime(p)' /\ RowTrue(p)' /\ DetailTrue(p)'
      BY <2>1, <3>1, <3>2 DEF RowTrue, DetailTrue
    <3>4. Took(p)'
      BY <1>1, <1>2, <2>0, <2>1, <2>2, <3>2 DEF Took
    <3>5. RowSure(p) => ~kept[p].live
      BY <1>1, <2>0, <2>2 DEF Took, On
    <3>6. ListTrue(p)'
      BY <1>1, <3>1, <3>2, <3>5 DEF ListTrue
    <3> QED
      BY <3>3, <3>4, <3>6 DEF Sound
  <2>3. CASE ~(w.at = "served" /\ p \in w.papers)
    <3>1. /\ rows'[p] = rows[p] /\ details'[p] = details[p]
          /\ (RowSure(p)' <=> RowSure(p)) /\ (DetailSure(p)' <=> DetailSure(p))
      <4>1. CASE w.at = "refused"
        BY <4>1, SameSure DEF DropSettles
      <4>2. CASE w.at = "served"
        <5>1. p \notin w.papers
          BY <2>3, <4>2
        <5>2. rows'[p] = rows[p] /\ details'[p] = details[p] /\ doubt' = doubt \ (w.papers \X {"detail"})
          BY <4>2, <5>1 DEF DropSettles, Evicted
        <5> QED
          BY <5>1, <5>2 DEF RowSure, DetailSure
      <4> QED
        BY <1>1, <4>1, <4>2
    <3>2. Quiet(p)' => Quiet(p)
      <4>1. \A u \in On(p) : u \in On(p)' \/ (u.kind = "drop" /\ u.at # "served")
        BY <1>1, <2>1, <2>3 DEF On
      <4> QED
        BY <1>1, <4>1 DEF Quiet, TagKinds
    <3>3. Framed(p)
      BY <1>1, <1>2, <1>7, <2>1, <3>1, <3>2 DEF Framed
    <3> QED
      BY <1>0, <3>3, FrameKeeps
  <2> QED
    BY <2>2, <2>3
<1> QED
  BY <1>2, <1>5, <1>6, <1>7, <1>8 DEF ViewInv

LEMMA UndoSettlesKeeps == ASSUME ViewInv, NEW w \in writes, UndoSettles(w) PROVE ViewInv'
<1>0. ViewType /\ ReadsMixed /\ ReadsTrue /\ Newest /\ \A p \in Listed : Sound(p)
  BY DEF ViewInv
<1> DEFINE batch == BatchOf(w, Settled(w))
<1>1. /\ w.kind = "undo" /\ w.at \in {"served", "refused"} /\ w.kind \in LiveKinds
      /\ UNCHANGED <<kept, rows, listing, filter, details, gets, after, toasts, gestures>>
      /\ writes' = Settled(w) \/ (Complete(batch) /\ writes' = Settled(w) \ batch)
  BY DEF UndoSettles, LiveKinds
<1>2. /\ Settled(w) \subseteq WriteType /\ writes' \subseteq Settled(w) /\ WritesWell'
      /\ Over(w).at = (IF w.at = "served" THEN "over" ELSE "failed") /\ Over(w).kind = w.kind
      /\ Over(w).n = w.n /\ Over(w).papers = w.papers
      /\ Settled(w) = (writes \ {w}) \cup {Over(w)}
      /\ \A u \in writes' : Active(u) => u \in writes /\ u # w
  BY <1>1, SettledGives
<1>3. \A p \in Listed :
        /\ w.kind # "star" /\ w.kind \notin TagKinds
        /\ \A u \in On(p)' : (u = Over(w) /\ p \in w.papers) \/ (u \in On(p) /\ u # w)
        /\ \A u \in On(p) : u \in On(p)' \/ u = w \/ (/\ u.kind = w.kind /\ u.at \in {"over", "failed"}
                                                      /\ u \in batch)
        /\ ((RowSure(p)' => RowSure(p)) /\ (DetailSure(p)' => DetailSure(p))) => OneAtATime(p)'
  BY <1>1, SettledOn
<1>4. \A p \in Listed : DetailSure(p)' <=> DetailSure(p)
  BY <1>1 DEF UndoSettles, DetailSure
<1>5. (TagGone' <=> TagGone) /\ Over(w) \in batch
  BY <1>1, <1>2 DEF TagGone, BatchOf
<1>6. \A p \in Listed : RowSure(p)' => RowSure(p)
  BY DEF UndoSettles, RowSure
<1> HIDE DEF batch
<1>7. ASSUME ReadsMixed', listLoads' \subseteq ListLoadType, seq' \in Nat, ReadsTrue', Newest',
             ~NewestOut' => ~NewestOut,
             \A p \in Listed : ~NewestOut' /\ RowSure(p)' /\ Quiet(p)' => Quiet(p)
      PROVE  ViewInv'
  <2>1. ViewType'
    BY <1>0, <1>1, <1>2, <1>7 DEF ViewType
  <2>2. ASSUME NEW p \in Listed
        PROVE  Sound(p)'
    <3>1. Framed(p)
      BY <1>1, <1>2, <1>3, <1>4, <1>5, <1>6, <1>7 DEF Framed
    <3> QED
      BY <1>0, <3>1, FrameKeeps
  <2> QED
    BY <1>2, <1>7, <2>1, <2>2 DEF ViewInv
<1>8. ASSUME UNCHANGED <<seq, listLoads>>
      PROVE  /\ ReadsMixed' /\ listLoads' \subseteq ListLoadType /\ seq' \in Nat /\ ReadsTrue'
             /\ Newest' /\ (~NewestOut' => ~NewestOut)
  <2>1. ReadsMixed'
    BY <1>0, <1>1, <1>2, <1>8, MixedKeeps
  <2>2. ReadsTrue' /\ Newest' /\ (NewestOut' <=> NewestOut)
    BY <1>0, <1>1, <1>8 DEF ReadsTrue, RowsUnder, FlagsOf, Newest, NewestOut
  <2>3. listLoads' \subseteq ListLoadType /\ seq' \in Nat
    BY <1>0, <1>8 DEF ViewType
  <2> QED
    BY <2>1, <2>2, <2>3
<1>9. CASE ~Complete(batch)
  <2>1. writes' = Settled(w) /\ UNCHANGED <<seq, listLoads>>
    BY <1>9 DEF UndoSettles, batch
  <2>2. ASSUME NEW p \in Listed, Quiet(p)'
        PROVE  Quiet(p)
    <3>1. \A u \in On(p) : u \in On(p)' \/ u = w
      BY <1>2, <2>1 DEF On
    <3>2. w \in On(p) => w.at # "served"
      <4>1. w \in On(p) => Over(w) \in On(p)'
        BY <1>2, <2>1 DEF On
      <4> QED
        BY <1>1, <1>2, <2>2, <4>1 DEF Quiet
    <3>3. w.kind # "star" /\ w.kind \notin TagKinds /\ w.at # "over"
      BY <1>1, <1>3
    <3> QED
      BY <1>1, <2>2, <3>1, <3>2, <3>3 DEF Quiet
  <2> QED
    BY <1>7, <1>8, <2>1, <2>2
<1>10. CASE Complete(batch) /\ \A v \in batch : v.at = "over"
  <2> DEFINE amid == Writing(writes')
             new == [n |-> seq + 1, filter |-> filter, mixed |-> amid, answer |-> Absent]
  <2>1. LoadList(filter, amid) /\ filter \in Filters
    BY <1>0, <1>10 DEF UndoSettles, ViewType, batch
  <2>2. amid \in SUBSET Listed
    BY <1>2 DEF Writing, WriteType
  <2> HIDE DEF amid
  <2>3. /\ listLoads' = listLoads \cup {new} /\ new \in ListLoadType
        /\ new.mixed = amid /\ new.answer = Absent
        /\ seq' \in Nat /\ NewestOut' /\ Newest'
    BY <1>0, <1>1, <2>1, <2>2, LoadListGives
  <2> HIDE DEF new
  <2>4. ReadsMixed'
    BY <1>0, <1>1, <1>2, <2>3, MixedKeeps DEF amid
  <2>5. ReadsTrue'
    BY <1>0, <1>1, <2>3 DEF ReadsTrue, RowsUnder, FlagsOf
  <2>6. listLoads' \subseteq ListLoadType
    BY <1>0, <2>3 DEF ViewType
  <2> QED
    BY <1>7, <2>3, <2>4, <2>5, <2>6
<1>11. CASE Complete(batch) /\ ~\A v \in batch : v.at = "over"
  <2>1. doubt' = doubt \cup (Achieved(batch) \X {"row"}) /\ UNCHANGED <<seq, listLoads>>
    BY <1>11 DEF UndoSettles, batch
  <2>2. ASSUME NEW p \in Listed, RowSure(p)', Quiet(p)'
        PROVE  Quiet(p)
    <3>1. \A u \in batch : u.at = "over" => p \notin u.papers
      BY <2>1, <2>2 DEF RowSure, Achieved
    <3>2. \A u \in On(p) : u \in On(p)' \/ (u.kind = "undo" /\ u.at \in {"failed", "refused"})
      BY <1>1, <1>2, <1>3, <1>5, <3>1 DEF On
    <3> QED
      BY <1>1, <2>2, <3>2 DEF Quiet, TagKinds
  <2> QED
    BY <1>7, <1>8, <2>1, <2>2
<1> QED
  BY <1>9, <1>10, <1>11

----------------------------------------------------------------------------

LEMMA ViewInvNext == ViewInv /\ [ViewNext]_viewVars => ViewInv'
<1> SUFFICES ASSUME ViewInv, [ViewNext]_viewVars
             PROVE  ViewInv'
  OBVIOUS
<1>1. CASE \E f \in Filters : SetFilter(f)
  BY <1>1, SetFilterKeeps
<1>2. CASE \E l \in listLoads : ServeList(l) \/ ListArrives(l) \/ ListFails(l)
  BY <1>2, ServeListKeeps, ListArrivesKeeps, ListFailsKeeps
<1>3. CASE \E g \in gets : ServeDetail(g) \/ DetailArrives(g)
  BY <1>3, ServeDetailKeeps, DetailArrivesKeeps
<1>4. CASE \E p \in Listed : OpenDetail(p) \/ ToggleStar(p)
  BY <1>4, OpenDetailKeeps, ToggleStarKeeps
<1>5. CASE \E p \in Listed, kind \in {"tag", "untag"} : TagPaper(p, kind)
  BY <1>5, TagPaperKeeps
<1>6. CASE DeleteTagEverywhere
  BY <1>6, DeleteTagKeeps
<1>7. CASE \E papers \in SUBSET Listed : RemovePapers(papers)
  BY <1>7, RemoveKeeps
<1>8. CASE \E papers \in toasts : UndoDelete(papers)
  BY <1>8, UndoKeeps
<1>9. CASE \E w \in writes : ServeWrite(w) \/ StarSettles(w) \/ TagSettles(w)
                            \/ TagDeletionSettles(w) \/ DropSettles(w) \/ UndoSettles(w)
  BY <1>9, ServeWriteKeeps, StarSettlesKeeps, TagSettlesKeeps, TagDeletionKeeps,
     DropSettlesKeeps, UndoSettlesKeeps
<1>10. CASE \E a \in after : TagsLoaded(a)
  BY <1>10, TagsLoadedKeeps
<1>11. CASE UNCHANGED viewVars
  <2>1. UNCHANGED <<kept, rows, listing, filter, details, seq, listLoads, gets, writes, after,
                    toasts, doubt, gestures>>
    BY <1>11 DEF viewVars
  <2>2. ViewType' /\ WritesWell' /\ ReadsMixed' /\ ReadsTrue' /\ Newest'
    BY <2>1 DEF ViewInv, ViewType, WritesWell, ReadsMixed, ReadsTrue, RowsUnder, FlagsOf, Newest
  <2>3. (NewestOut' <=> NewestOut) /\ (TagGone' <=> TagGone)
    BY <2>1 DEF NewestOut, TagGone
  <2>4. \A p \in Listed : Sound(p)'
    BY <2>1, <2>3, ReadFrame, SameSure DEF ViewInv
  <2> QED
    BY <2>2, <2>4 DEF ViewInv
<1> QED
  BY <1>1, <1>2, <1>3, <1>4, <1>5, <1>6, <1>7, <1>8, <1>9, <1>10, <1>11 DEF ViewNext

LEMMA ViewInvAgrees == ViewInv => ViewAgrees
<1> SUFFICES ASSUME ViewInv, NEW p \in Listed, \A w \in writes : p \notin w.papers
             PROVE  /\ details[p] \in {Absent, FlagsOf(p)} \/ <<p, "detail">> \in doubt
                    /\ listLoads = {} /\ after = {} =>
                           rows[p] = RowsUnder(filter)[p] \/ <<p, "row">> \in doubt
  BY DEF ViewAgrees
<1>0. ViewType /\ RowTrue(p) /\ DetailTrue(p) /\ ListTrue(p)
  BY DEF ViewInv, Sound
<1>1. On(p) = {} /\ Quiet(p)
  BY DEF On, Quiet
<1>2. \A flags \in Flags : StarTrue(flags, p) /\ TagTrue(flags, p) => flags = FlagsOf(p)
  BY <1>1 DEF StarTrue, TagTrue, Flags, FlagsOf
<1>3. rows[p] \in Flags \cup {Absent} /\ details[p] \in Flags \cup {Absent}
  BY <1>0 DEF ViewType, Shows
<1>4. details[p] \in {Absent, FlagsOf(p)} \/ <<p, "detail">> \in doubt
  BY <1>0, <1>2, <1>3 DEF DetailTrue, DetailSure
<1>5. ASSUME listLoads = {}, after = {}, RowSure(p)
      PROVE  rows[p] = RowsUnder(filter)[p]
  <2>1. ~NewestOut /\ ~TagGone
    BY <1>5 DEF NewestOut, TagGone
  <2>2. rows[p] # Absent <=> kept[p].live /\ Passes(filter, FlagsOf(p))
    BY <1>0, <1>1, <1>5, <2>1 DEF ListTrue
  <2>3. rows[p] # Absent => rows[p] = FlagsOf(p)
    BY <1>0, <1>2, <1>3, <1>5, <2>1 DEF RowTrue
  <2>4. RowsUnder(filter)[p] = IF kept[p].live /\ Passes(filter, FlagsOf(p)) THEN FlagsOf(p) ELSE Absent
    BY <1>0, KeptRows
  <2> QED
    BY <2>2, <2>3, <2>4
<1> QED
  BY <1>4, <1>5 DEF RowSure

----------------------------------------------------------------------------
(* The chat panel.                                                         *)

\* What is listed are exchanges of the paper, which the server has stored.
Stored(ss, list, p) ==
    \A i \in 1 .. Len(list) : ss[list[i]].turn = "stored" /\ ss[list[i]].paper = p

ChatType ==
    [paper : ChatPapers \cup {NoPaper}, session : 0 .. MaxMoves, messages : Seq(Sends),
     pending : 0 .. MaxSends, busy : BOOLEAN, draft : 0 .. MaxTexts]
SendType ==
    [text : 0 .. MaxTexts, paper : ChatPapers \cup {NoPaper}, session : 0 .. MaxMoves,
     turn : {"none", "runs", "stored", "failed"}, reader : {"none", "reads", "folded", "over"}]
LoadType == [session : 0 .. MaxMoves, paper : ChatPapers, rows : Seq(Sends) \cup {Unread}]
ClearType == [paper : ChatPapers, session : 0 .. MaxMoves, served : BOOLEAN]

PanelType ==
    /\ thread \in [ChatPapers -> Seq(Sends)] /\ chat \in ChatType /\ loads \subseteq LoadType
    /\ sends \in [Sends -> SendType] /\ clears \subseteq ClearType
    /\ typings \in 0 .. MaxTexts /\ moves \in 0 .. MaxMoves
    /\ apart \subseteq {"late", "load", "clear", "left", "overtyped"}
    /\ chat.session <= moves /\ chat.draft <= typings
    /\ \A s \in Sends : sends[s].text <= typings /\ sends[s].session <= chat.session

\* The threads and the lists on their way are of exchanges stored, and those on
\* their way to this session are of this paper.
ListsStored ==
    /\ \A p \in ChatPapers : Stored(sends, thread[p], p)
    /\ \A l \in loads :
         /\ l.rows # Unread => Stored(sends, l.rows, l.paper)
         /\ l.session <= chat.session
         /\ l.session = chat.session => chat.paper \in {l.paper, NoPaper}

ShownStored ==
    \A i \in 1 .. Len(chat.messages) :
        LET s == sends[chat.messages[i]]
        IN  s.turn = "stored" /\ s.paper \in ChatPapers /\ chat.paper \in {s.paper, NoPaper}

\* One that reads is the one pending; one whose reply is folded ends before the
\* next is sent.
Reading ==
    /\ \A s \in Sends :
         /\ sends[s].turn = "none" <=> sends[s].reader = "none"
         /\ sends[s].turn # "none" => sends[s].text # 0 /\ sends[s].paper \in ChatPapers
         /\ sends[s].reader = "reads" => s = chat.pending
         /\ sends[s].reader = "folded" => sends[s].turn = "stored"
         /\ sends[s].reader = "folded" /\ sends[s].session = chat.session =>
                chat.busy /\ chat.pending = 0
    /\ \A s, r \in Sends :
         (/\ sends[s].reader = "folded" /\ sends[s].session = chat.session
          /\ sends[r].reader = "folded" /\ sends[r].session = chat.session) => s = r

Pending ==
    chat.pending # 0 =>
        /\ chat.busy /\ sends[chat.pending].reader = "reads"
        /\ sends[chat.pending].session = chat.session
        /\ chat.paper \in {sends[chat.pending].paper, NoPaper}
        /\ sends[chat.pending].text # chat.draft

\* What the panel shows, with the reply it has still to fold, is the thread; but
\* not before the list of this session has come, nor while a clearing served
\* has not settled.
InStep ==
    (/\ "late" \notin apart /\ "load" \notin apart /\ "clear" \notin apart
     /\ chat.paper # NoPaper
     /\ \A l \in loads : l.session # chat.session
     /\ \A c \in clears : c.served => c.paper # chat.paper) =>
        thread[chat.paper] = IF Unfolded THEN Append(chat.messages, chat.pending)
                             ELSE chat.messages

\* The text of an exchange stored is not written, nor pending, once more.
Spent ==
    "late" \notin apart =>
        \A s \in Sends : sends[s].turn = "stored" /\ s # chat.pending =>
            /\ sends[s].text # chat.draft
            /\ chat.pending # 0 => sends[s].text # sends[chat.pending].text

\* The first half of TextKept.
NoneLost ==
    \A t \in 1 .. typings :
        \/ t = chat.draft
        \/ \E s \in Sends : sends[s].text = t /\ (s = chat.pending \/ sends[s].turn = "stored")
        \/ "left" \in apart \/ "overtyped" \in apart

PanelInv ==
    /\ PanelType /\ ListsStored /\ ShownStored /\ Reading /\ Pending
    /\ InStep /\ Spent /\ NoneLost

LEMMA StoredKeeps ==
    ASSUME NEW ss, NEW tt, NEW list \in Seq(Sends), NEW p, Stored(ss, list, p),
           \A s \in Sends : ss[s].turn = "stored" =>
               tt[s].turn = "stored" /\ tt[s].paper = ss[s].paper
    PROVE  Stored(tt, list, p)
<1>1. \A i \in 1 .. Len(list) : list[i] \in Sends
  OBVIOUS
<1> QED
  BY <1>1 DEF Stored

LEMMA PanelFacts ==
    ASSUME PanelType
    PROVE  /\ chat.paper \in ChatPapers \cup {NoPaper} /\ chat.session \in 0 .. MaxMoves
           /\ chat.messages \in Seq(Sends) /\ chat.pending \in Sends \cup {0}
           /\ chat.busy \in BOOLEAN /\ chat.draft \in 0 .. MaxTexts
           /\ \A s \in Sends :
                /\ sends[s].text \in 0 .. MaxTexts /\ sends[s].paper \in ChatPapers \cup {NoPaper}
                /\ sends[s].session \in 0 .. MaxMoves
                /\ sends[s].turn \in {"none", "runs", "stored", "failed"}
                /\ sends[s].reader \in {"none", "reads", "folded", "over"}
           /\ \A l \in loads : /\ l.session \in 0 .. MaxMoves /\ l.paper \in ChatPapers
                               /\ l.rows \in Seq(Sends) \cup {Unread}
           /\ \A c \in clears : /\ c.paper \in ChatPapers /\ c.session \in 0 .. MaxMoves
                                /\ c.served \in BOOLEAN
           /\ MaxTexts \in Nat /\ MaxSends \in Nat /\ MaxMoves \in Nat
           /\ Sends \subseteq Nat /\ 0 \notin Sends /\ NoPaper \notin ChatPapers
<1> USE ChatPanelAssumption DEF PanelType
<1>1. MaxTexts \in Nat /\ MaxSends \in Nat /\ MaxMoves \in Nat
  OBVIOUS
<1>2. Sends \subseteq Nat /\ 0 \notin Sends /\ \A n \in 0 .. MaxSends : n \in Sends \cup {0}
  BY <1>1 DEF Sends
<1>3. \A s \in Sends : sends[s] \in SendType
  OBVIOUS
<1>4. \A s \in Sends :
                /\ sends[s].text \in 0 .. MaxTexts /\ sends[s].paper \in ChatPapers \cup {NoPaper}
                /\ sends[s].session \in 0 .. MaxMoves
                /\ sends[s].turn \in {"none", "runs", "stored", "failed"}
                /\ sends[s].reader \in {"none", "reads", "folded", "over"}
  BY <1>3 DEF SendType
<1>5. \A l \in loads : l \in LoadType
  OBVIOUS
<1>6. \A c \in clears : c \in ClearType
  OBVIOUS
<1> QED
  BY <1>1, <1>2, <1>4, <1>5, <1>6 DEF ChatType, LoadType, ClearType

LEMMA PanelInvInit == ChatPanelInit => PanelInv
<1> SUFFICES ASSUME ChatPanelInit
             PROVE  PanelInv
  OBVIOUS
<1> USE ChatPanelAssumption
<1>1. /\ thread = [p \in ChatPapers |-> <<>>] /\ loads = {} /\ clears = {} /\ typings = 0
      /\ apart = {} /\ moves = 0 /\ sends = [s \in Sends |-> Unsent]
      /\ chat = [paper |-> NoPaper, session |-> 0, messages |-> <<>>,
                 pending |-> 0, busy |-> FALSE, draft |-> 0]
  BY DEF ChatPanelInit
<1>2. Unsent \in SendType /\ Unsent.turn = "none" /\ Unsent.reader = "none" /\ Unsent.text = 0
      /\ Unsent.session = 0
  BY DEF Unsent, SendType
<1>3. chat \in ChatType
  BY <1>1 DEF ChatType
<1>4. \A p \in ChatPapers : thread[p] = <<>> /\ Len(thread[p]) = 0
  BY <1>1
<1>5. \A s \in Sends : sends[s] = Unsent
  BY <1>1
<1>6. PanelType
  <2>1. thread \in [ChatPapers -> Seq(Sends)]
    BY <1>1
  <2>2. sends \in [Sends -> SendType]
    BY <1>1, <1>2
  <2> QED
    BY <1>1, <1>2, <1>3, <1>5, <2>1, <2>2 DEF PanelType
<1>7. ListsStored /\ ShownStored /\ Reading /\ Pending
  <2>1. ListsStored
    BY <1>1, <1>4 DEF ListsStored, Stored
  <2>2. ShownStored /\ Pending
    BY <1>1 DEF ShownStored, Pending
  <2>3. Reading
    BY <1>2, <1>5 DEF Reading
  <2> QED
    BY <2>1, <2>2, <2>3
<1>8. InStep /\ Spent /\ NoneLost
  BY <1>1, <1>2, <1>5 DEF InStep, Spent, NoneLost
<1> QED
  BY <1>6, <1>7, <1>8 DEF PanelInv

\* What has been stored stays so, and the threads and lists of it.
Grows == \A s \in Sends : sends[s].turn = "stored" =>
             sends'[s].turn = "stored" /\ sends'[s].paper = sends[s].paper

LEMMA ListsKeep ==
    ASSUME PanelType, ListsStored, Grows, UNCHANGED thread,
           \A l \in loads' : l \in loads /\ l.session <= chat'.session
                             /\ (l.session = chat'.session => chat'.paper \in {l.paper, NoPaper})
    PROVE  ListsStored'
<1>1. \A p \in ChatPapers : thread[p] \in Seq(Sends)
  BY DEF PanelType
<1>2. \A l \in loads : l.rows # Unread => l.rows \in Seq(Sends)
  BY PanelFacts
<1>3. \A p \in ChatPapers : Stored(sends', thread'[p], p)
  BY <1>1, StoredKeeps DEF ListsStored, Grows
<1>4. \A l \in loads' : l.rows # Unread => Stored(sends', l.rows, l.paper)
  BY <1>2, StoredKeeps DEF ListsStored, Grows
<1> QED
  BY <1>3, <1>4 DEF ListsStored

LEMMA OpenThreadKeeps ==
    ASSUME PanelInv, NEW p \in ChatPapers, OpenThread(p)
    PROVE  PanelInv'
<1>0. PanelType /\ ListsStored /\ ShownStored /\ Reading /\ Pending /\ InStep /\ Spent /\ NoneLost
  BY DEF PanelInv
<1> DEFINE new == [session |-> chat.session + 1, paper |-> p, rows |-> Unread]
<1>1. /\ chat' = [paper |-> p, session |-> chat.session + 1, messages |-> <<>>,
                  pending |-> 0, busy |-> FALSE, draft |-> chat.draft]
      /\ moves < MaxMoves /\ moves' = moves + 1
      /\ sends' = [s \in Sends |-> IF sends[s].reader = "reads"
                                   THEN [sends[s] EXCEPT !.reader = "over"] ELSE sends[s]]
      /\ apart' = (apart \ {"load", "clear"}) \cup (IF chat.pending # 0 THEN {"left"} ELSE {})
      /\ UNCHANGED <<thread, clears, typings>>
  BY DEF OpenThread, Move
<1>2. /\ chat'.paper = p /\ chat'.session = chat.session + 1 /\ chat'.messages = <<>>
      /\ chat'.pending = 0 /\ chat'.busy = FALSE /\ chat'.draft = chat.draft
  BY <1>1
<1>3. loads' = loads \cup {new} /\ new \in LoadType /\ new.session = chat'.session
      /\ new.paper = p /\ new.rows = Unread
  BY <1>0, <1>1, <1>2, PanelFacts, SMTT(30) DEF OpenThread, LoadType, PanelType
<1> HIDE DEF new
<1>4. \A s \in Sends :
        /\ sends'[s] \in SendType /\ sends'[s].text = sends[s].text /\ sends'[s].turn = sends[s].turn
        /\ sends'[s].paper = sends[s].paper /\ sends'[s].session = sends[s].session
        /\ sends'[s].reader = IF sends[s].reader = "reads" THEN "over" ELSE sends[s].reader
  <2>1. \A s \in Sends : sends[s] \in SendType
    BY <1>0 DEF PanelType
  <2> QED
    BY <1>1, <2>1 DEF SendType
<1>5. PanelType'
  <2>1. sends' \in [Sends -> SendType]
    BY <1>1, <1>4
  <2>2. chat' \in ChatType /\ chat'.session <= moves' /\ moves' \in 0 .. MaxMoves
    BY <1>0, <1>1, PanelFacts, SMTT(30) DEF PanelType, ChatType
  <2>3. apart' \subseteq {"late", "load", "clear", "left", "overtyped"}
    BY <1>0, <1>1 DEF PanelType
  <2>4. \A s \in Sends : sends'[s].text <= typings' /\ sends'[s].session <= chat'.session
    BY <1>0, <1>1, <1>2, <1>4, PanelFacts DEF PanelType
  <2> QED
    BY <1>0, <1>1, <1>2, <1>3, <2>1, <2>2, <2>3, <2>4 DEF PanelType
<1>6. ListsStored'
  <2>1. \A q \in ChatPapers : thread[q] \in Seq(Sends)
    BY <1>0 DEF PanelType
  <2>2. \A l \in loads : l.rows # Unread => l.rows \in Seq(Sends)
    BY <1>0, PanelFacts
  <2>3. \A q \in ChatPapers : Stored(sends', thread'[q], q)
    BY <1>0, <1>1, <1>4, <2>1, StoredKeeps DEF ListsStored
  <2>4. \A l \in loads' : l.rows # Unread => Stored(sends', l.rows, l.paper)
    BY <1>0, <1>3, <1>4, <2>2, StoredKeeps DEF ListsStored
  <2>5. \A l \in loads : l.session < chat'.session
    BY <1>0, <1>2, PanelFacts DEF ListsStored
  <2>6. \A l \in loads' : /\ l.session <= chat'.session
                          /\ l.session = chat'.session => chat'.paper \in {l.paper, NoPaper}
    BY <1>0, <1>2, <1>3, <2>5, PanelFacts DEF ListsStored
  <2> QED
    BY <2>3, <2>4, <2>6 DEF ListsStored
<1>7. ShownStored' /\ Pending' /\ InStep'
  BY <1>2, <1>3 DEF ShownStored, Pending, InStep
<1>8. Reading'
  <2>1. \A s \in Sends : sends'[s].session # chat'.session
    BY <1>0, <1>2, <1>4, PanelFacts DEF PanelType
  <2>2. \A s \in Sends : sends'[s].reader # "reads"
    BY <1>4
  <2>3. \A s \in Sends :
          /\ sends'[s].turn = "none" <=> sends'[s].reader = "none"
          /\ sends'[s].turn # "none" => sends'[s].text # 0 /\ sends'[s].paper \in ChatPapers
          /\ sends'[s].reader = "folded" => sends'[s].turn = "stored"
    BY <1>0, <1>4 DEF Reading
  <2> QED
    BY <2>1, <2>2, <2>3 DEF Reading
<1>9. Spent'
  <2>1. ASSUME "late" \notin apart', NEW s \in Sends, sends'[s].turn = "stored"
        PROVE  sends'[s].text # chat'.draft
    <3>1. CASE s = chat.pending
      BY <1>0, <1>2, <1>4, <3>1, PanelFacts DEF Pending
    <3>2. CASE s # chat.pending
      BY <1>0, <1>1, <1>2, <1>4, <2>1, <3>2 DEF Spent
    <3> QED
      BY <3>1, <3>2
  <2> QED
    BY <1>2, <2>1 DEF Spent
<1>10. NoneLost'
  BY <1>0, <1>1, <1>2, <1>4, PanelFacts DEF NoneLost
<1> QED
  BY <1>5, <1>6, <1>7, <1>8, <1>9, <1>10 DEF PanelInv

LEMMA LoadsMove ==
    ASSUME PanelInv, NEW l \in loads, ServeThread(l) \/ ThreadArrives(l) \/ ThreadFails(l)
    PROVE  PanelInv'
<1>0. PanelType /\ ListsStored /\ ShownStored /\ Reading /\ Pending /\ InStep /\ Spent /\ NoneLost
  BY DEF PanelInv
<1>1. CASE ServeThread(l)
  <2> DEFINE new == [l EXCEPT !.rows = thread[l.paper]]
  <2>1. UNCHANGED <<thread, chat, sends, clears, typings, apart, moves>>
    BY <1>1 DEF ServeThread
  <2>2. /\ loads' = (loads \ {l}) \cup {new} /\ new \in LoadType /\ new.session = l.session
        /\ new.paper = l.paper /\ new.rows = thread[l.paper]
    BY <1>0, <1>1 DEF ServeThread, PanelType, LoadType
  <2> HIDE DEF new
  <2>3. PanelType'
    BY <1>0, <2>1, <2>2 DEF PanelType
  <2>4. ListsStored'
    BY <1>0, <2>1, <2>2, PanelFacts DEF ListsStored
  <2>5. InStep'
    <3>1. (\A k \in loads' : k.session # chat.session) => \A k \in loads : k.session # chat.session
      BY <2>2
    <3> QED
      BY <1>0, <2>1, <3>1 DEF InStep, Unfolded
  <2> QED
    BY <1>0, <2>1, <2>3, <2>4, <2>5 DEF PanelInv, ShownStored, Reading, Pending, Spent, NoneLost
<1>2. CASE ThreadArrives(l)
  <2>1. /\ l.rows # Unread /\ loads' = loads \ {l}
        /\ UNCHANGED <<thread, sends, clears, typings, moves>>
    BY <1>2 DEF ThreadArrives
  <2>2. CASE Current(l.session)
    <3>1. /\ chat' = [chat EXCEPT !.messages = l.rows] /\ l.session = chat.session
          /\ IF OutOfStep(l) THEN apart' = apart \cup {"load"} ELSE apart' = apart
      BY <1>2, <2>2 DEF ThreadArrives, Current, Apart
    <3>2. /\ chat' \in ChatType /\ chat'.paper = chat.paper /\ chat'.session = chat.session
          /\ chat'.messages = l.rows /\ chat'.pending = chat.pending /\ chat'.busy = chat.busy
          /\ chat'.draft = chat.draft
      <4>1. l.rows \in Seq(Sends)
        BY <1>0, <2>1, PanelFacts
      <4> QED
        BY <1>0, <3>1, <4>1 DEF PanelType, ChatType
    <3>3. PanelType'
      BY <1>0, <2>1, <3>1, <3>2 DEF PanelType
    <3>4. ListsStored'
      BY <1>0, <2>1, <3>2, ListsKeep DEF Grows, ListsStored
    <3>5. ShownStored'
      <4>1. Stored(sends, l.rows, l.paper) /\ chat.paper \in {l.paper, NoPaper}
        BY <1>0, <2>1, <3>1 DEF ListsStored
      <4>2. l.paper \in ChatPapers
        BY <1>0, PanelFacts
      <4> QED
        BY <2>1, <3>2, <4>1, <4>2 DEF ShownStored, Stored
    <3>6. Reading' /\ Pending'
      <4>1. Reading'
        BY <1>0, <2>1, <3>2 DEF Reading
      <4>2. Pending'
        BY <1>0, <2>1, <3>2 DEF Pending
      <4> QED
        BY <4>1, <4>2
    <3>7. InStep'
      <4>1. CASE OutOfStep(l)
        BY <3>1, <4>1 DEF InStep
      <4>2. CASE ~OutOfStep(l)
        <5>1. l.rows = thread[l.paper] /\ ~Unfolded /\ ~Unfolded'
          BY <2>1, <3>2, <4>2 DEF OutOfStep, Unfolded
        <5>2. chat.paper \in {l.paper, NoPaper}
          BY <1>0, <3>1 DEF ListsStored
        <5> QED
          BY <2>1, <3>2, <5>1, <5>2 DEF InStep
      <4> QED
        BY <4>1, <4>2
    <3>8. Spent' /\ NoneLost'
      BY <1>0, <2>1, <3>1, <3>2 DEF Spent, NoneLost
    <3> QED
      BY <3>3, <3>4, <3>5, <3>6, <3>7, <3>8 DEF PanelInv
  <2>3. CASE ~Current(l.session)
    <3>1. UNCHANGED <<chat, apart>> /\ l.session # chat.session
      BY <1>2, <2>3 DEF ThreadArrives, Current, Apart
    <3>2. PanelType'
      BY <1>0, <2>1, <3>1 DEF PanelType
    <3>3. ListsStored'
      BY <1>0, <2>1, <3>1, ListsKeep DEF Grows, ListsStored
    <3>4. InStep'
      BY <1>0, <2>1, <3>1 DEF InStep, Unfolded
    <3> QED
      BY <1>0, <2>1, <3>1, <3>2, <3>3, <3>4
         DEF PanelInv, ShownStored, Reading, Pending, Spent, NoneLost
  <2> QED
    BY <2>2, <2>3
<1>3. CASE ThreadFails(l)
  <2>1. /\ loads' = loads \ {l} /\ UNCHANGED <<thread, sends, clears, typings, apart>>
        /\ moves < MaxMoves /\ moves' = moves + 1
    BY <1>3 DEF ThreadFails, Move
  <2>2. /\ chat' \in ChatType /\ chat'.session = chat.session
        /\ chat'.messages = chat.messages /\ chat'.pending = chat.pending
        /\ chat'.busy = chat.busy /\ chat'.draft = chat.draft
        /\ \/ chat'.paper = NoPaper
           \/ chat'.paper = chat.paper /\ l.session # chat.session
    <3>1. chat' = IF Current(l.session) THEN [chat EXCEPT !.paper = NoPaper] ELSE chat
      BY <1>3 DEF ThreadFails
    <3> QED
      BY <1>0, <3>1 DEF PanelType, ChatType, Current
  <2>3. PanelType'
    BY <1>0, <2>1, <2>2, PanelFacts DEF PanelType
  <2>4. ListsStored'
    BY <1>0, <2>1, <2>2, ListsKeep DEF Grows, ListsStored
  <2>5. ShownStored'
    BY <1>0, <2>1, <2>2 DEF ShownStored
  <2>6. Reading'
    BY <1>0, <2>1, <2>2 DEF Reading
  <2>7. Pending'
    BY <1>0, <2>1, <2>2 DEF Pending
  <2>8. InStep'
    BY <1>0, <2>1, <2>2 DEF InStep, Unfolded
  <2>9. Spent' /\ NoneLost'
    BY <1>0, <2>1, <2>2 DEF Spent, NoneLost
  <2> QED
    BY <2>3, <2>4, <2>5, <2>6, <2>7, <2>8, <2>9 DEF PanelInv
<1> QED
  BY <1>1, <1>2, <1>3

LEMMA TypeKeeps == ASSUME PanelInv, Type PROVE PanelInv'
<1>0. PanelType /\ ListsStored /\ ShownStored /\ Reading /\ Pending /\ InStep /\ Spent /\ NoneLost
  BY DEF PanelInv
<1>1. /\ typings < MaxTexts /\ typings' = typings + 1 /\ chat.draft = 0
      /\ chat' = [chat EXCEPT !.draft = typings']
      /\ UNCHANGED <<thread, loads, sends, clears, apart, moves>>
  BY DEF Type
<1>2. typings \in Nat /\ typings' \in 0 .. MaxTexts /\ typings < typings' /\ typings' # 0
  BY <1>0, <1>1, PanelFacts DEF PanelType
<1>3. /\ chat' \in ChatType /\ chat'.session = chat.session /\ chat'.paper = chat.paper
      /\ chat'.messages = chat.messages /\ chat'.pending = chat.pending
      /\ chat'.busy = chat.busy /\ chat'.draft = typings'
  BY <1>0, <1>1, <1>2 DEF PanelType, ChatType
<1>4. \A s \in Sends : sends[s].text \in Nat /\ sends[s].text < typings'
  BY <1>0, <1>2, PanelFacts DEF PanelType
<1>5. PanelType'
  <2>1. \A s \in Sends : sends[s].text <= typings'
    BY <1>2, <1>4
  <2> QED
    BY <1>0, <1>1, <1>2, <1>3, <2>1 DEF PanelType
<1>6. ListsStored'
  BY <1>0, <1>1, <1>3, ListsKeep DEF Grows, ListsStored
<1>7. ShownStored'
  BY <1>0, <1>1, <1>3 DEF ShownStored
<1>8. Reading'
  BY <1>0, <1>1, <1>3 DEF Reading
<1>9. Pending'
  BY <1>0, <1>1, <1>3, <1>4, PanelFacts DEF Pending
<1>10. InStep'
  BY <1>0, <1>1, <1>3 DEF InStep, Unfolded
<1>11. Spent'
  BY <1>0, <1>1, <1>3, <1>4 DEF Spent
<1>12. NoneLost'
  <2>1. \A t \in 1 .. typings' : t = typings' \/ (t \in 1 .. typings /\ t # chat.draft)
    BY <1>1, <1>2
  <2> QED
    BY <1>0, <1>1, <1>3, <2>1 DEF NoneLost
<1> QED
  BY <1>5, <1>6, <1>7, <1>8, <1>9, <1>10, <1>11, <1>12 DEF PanelInv

LEMMA SendMessageKeeps == ASSUME PanelInv, SendMessage PROVE PanelInv'
<1>0. PanelType /\ ListsStored /\ ShownStored /\ Reading /\ Pending /\ InStep /\ Spent /\ NoneLost
  BY DEF PanelInv
<1>1. /\ chat.draft # 0 /\ ~chat.busy /\ chat.paper # NoPaper
      /\ UNCHANGED <<thread, loads, clears, typings, apart, moves>>
  BY DEF SendMessage
<1>2. PICK s \in Sends :
         /\ sends[s] = Unsent
         /\ sends' = [sends EXCEPT ![s] = [text |-> chat.draft, paper |-> chat.paper,
                            session |-> chat.session, turn |-> "runs", reader |-> "reads"]]
         /\ chat' = [chat EXCEPT !.pending = s, !.draft = 0, !.busy = TRUE]
  BY DEF SendMessage
<1>3. /\ chat' \in ChatType /\ chat'.session = chat.session /\ chat'.paper = chat.paper
      /\ chat'.messages = chat.messages /\ chat'.pending = s /\ s # 0
      /\ chat'.busy = TRUE /\ chat'.draft = 0
  <2>1. chat \in ChatType /\ s \in 0 .. MaxSends /\ s # 0 /\ 0 \in 0 .. MaxTexts
    BY <1>0, PanelFacts DEF PanelType, Sends
  <2> QED
    BY <1>2, <2>1 DEF ChatType
<1>4. chat.pending = 0 /\ chat.paper \in ChatPapers /\ chat.draft <= typings
  BY <1>0, <1>1, PanelFacts DEF Pending, PanelType
<1>5. /\ sends'[s] \in SendType /\ sends'[s].text = chat.draft /\ sends'[s].paper = chat.paper
      /\ sends'[s].session = chat.session /\ sends'[s].turn = "runs"
      /\ sends'[s].reader = "reads" /\ sends[s].turn = "none"
      /\ \A r \in Sends : r # s => sends'[r] = sends[r]
  BY <1>0, <1>2, <1>4, PanelFacts DEF PanelType, SendType, Unsent
<1>6. \A r \in Sends : sends[r].reader # "reads" /\
                       (sends[r].reader = "folded" => sends[r].session # chat.session)
  BY <1>0, <1>1, <1>4, PanelFacts DEF Reading
<1>7. PanelType'
  <2>1. sends' \in [Sends -> SendType]
    BY <1>0, <1>2, <1>5 DEF PanelType
  <2>2. \A r \in Sends : sends'[r].text <= typings /\ sends'[r].session <= chat.session
    <3>1. \A r \in Sends : sends[r].text <= typings /\ sends[r].session <= chat.session
      BY <1>0 DEF PanelType
    <3>2. chat.session <= chat.session
      BY <1>0, PanelFacts
    <3> QED
      BY <1>4, <1>5, <3>1, <3>2
  <2>3. 0 <= typings /\ chat.session <= moves
    BY <1>0 DEF PanelType
  <2> QED
    BY <1>0, <1>1, <1>3, <2>1, <2>2, <2>3 DEF PanelType
<1>8. ListsStored'
  BY <1>0, <1>1, <1>3, <1>5, ListsKeep DEF Grows, ListsStored
<1>9. ShownStored'
  <2>1. \A i \in 1 .. Len(chat.messages) : chat.messages[i] \in Sends /\ chat.messages[i] # s
    BY <1>0, <1>5, PanelFacts DEF ShownStored
  <2> QED
    BY <1>0, <1>3, <1>5, <2>1 DEF ShownStored
<1>10. Reading'
  <2>1. \A r \in Sends :
         /\ sends'[r].turn = "none" <=> sends'[r].reader = "none"
         /\ sends'[r].turn # "none" => sends'[r].text # 0 /\ sends'[r].paper \in ChatPapers
         /\ sends'[r].reader = "reads" => r = s
         /\ sends'[r].reader = "folded" => sends'[r].turn = "stored"
         /\ sends'[r].reader = "folded" => sends'[r].session # chat.session
    <3> SUFFICES ASSUME NEW r \in Sends
                 PROVE  /\ sends'[r].turn = "none" <=> sends'[r].reader = "none"
                        /\ sends'[r].turn # "none" =>
                               sends'[r].text # 0 /\ sends'[r].paper \in ChatPapers
                        /\ sends'[r].reader = "reads" => r = s
                        /\ sends'[r].reader = "folded" => sends'[r].turn = "stored"
                        /\ sends'[r].reader = "folded" => sends'[r].session # chat.session
      OBVIOUS
    <3>1. CASE r = s
      BY <1>1, <1>4, <1>5, <3>1
    <3>2. CASE r # s
      BY <1>0, <1>5, <1>6, <3>2 DEF Reading
    <3> QED
      BY <3>1, <3>2
  <2> QED
    BY <1>3, <2>1 DEF Reading
<1>11. Pending'
  BY <1>1, <1>3, <1>5 DEF Pending
<1>12. InStep'
  <2>1. ~Unfolded /\ ~Unfolded'
    BY <1>3, <1>4, <1>5, PanelFacts, <1>0 DEF Unfolded
  <2> QED
    BY <1>0, <1>1, <1>3, <2>1 DEF InStep
<1>13. Spent'
  <2>1. ASSUME "late" \notin apart, NEW r \in Sends, sends'[r].turn = "stored"
        PROVE  r # s /\ sends[r].text # chat.draft /\ sends[r].text # 0
    <3>1. r # s /\ sends[r].turn = "stored" /\ r # 0
      BY <1>0, <1>5, <2>1, PanelFacts
    <3> QED
      BY <1>0, <1>4, <2>1, <3>1 DEF Spent, Reading
  <2> QED
    BY <1>1, <1>3, <1>5, <2>1 DEF Spent
<1>14. NoneLost'
  <2>1. ASSUME NEW t \in 1 .. typings', "left" \notin apart', "overtyped" \notin apart'
        PROVE  \E r \in Sends : sends'[r].text = t /\ (r = s \/ sends'[r].turn = "stored")
    <3>1. CASE t = chat.draft
      BY <1>5, <3>1
    <3>2. CASE t # chat.draft
      <4>1. PICK r \in Sends : sends[r].text = t /\ sends[r].turn = "stored"
        BY <1>0, <1>1, <1>4, <2>1, <3>2, PanelFacts, SMTT(30) DEF NoneLost
      <4> QED
        BY <1>5, <4>1
    <3> QED
      BY <3>1, <3>2
  <2> QED
    BY <1>3, <2>1 DEF NoneLost
<1> QED
  BY <1>7, <1>8, <1>9, <1>10, <1>11, <1>12, <1>13, <1>14 DEF PanelInv

LEMMA TurnSettlesKeeps == ASSUME PanelInv, NEW s \in Sends, TurnSettles(s) PROVE PanelInv'
<1>0. PanelType /\ ListsStored /\ ShownStored /\ Reading /\ Pending /\ InStep /\ Spent /\ NoneLost
  BY DEF PanelInv
<1>1. sends[s].turn = "runs" /\ UNCHANGED <<chat, loads, clears, typings, moves>>
  BY DEF TurnSettles
<1>2. PICK a \in {"stored", "failed"} :
        /\ sends' = [sends EXCEPT ![s].turn = a]
        /\ IF a = "stored"
           THEN /\ thread' = [thread EXCEPT ![sends[s].paper] = Append(@, s)]
                /\ Apart("late", sends[s].reader = "over")
           ELSE UNCHANGED <<thread, apart>>
  BY DEF TurnSettles
<1>3. /\ sends'[s] \in SendType /\ sends'[s].text = sends[s].text
      /\ sends'[s].paper = sends[s].paper /\ sends'[s].session = sends[s].session
      /\ sends'[s].reader = sends[s].reader /\ sends'[s].turn = a
      /\ \A r \in Sends : r # s => sends'[r] = sends[r]
  <2>1. sends[s] \in SendType
    BY <1>0 DEF PanelType
  <2>2. sends'[s] = [sends[s] EXCEPT !.turn = a]
    BY <1>0, <1>2 DEF PanelType
  <2> QED
    BY <1>0, <1>2, <2>1, <2>2 DEF PanelType, SendType
<1>4. /\ sends[s].paper \in ChatPapers /\ sends[s].reader \in {"reads", "over"}
      /\ sends[s].reader = "reads" => s = chat.pending
  BY <1>0, <1>1, PanelFacts DEF Reading
<1>5. "late" \notin apart' => "late" \notin apart /\ (a = "stored" => s = chat.pending)
  BY <1>2, <1>4 DEF Apart
<1>6. apart \subseteq apart' /\ apart' \subseteq apart \cup {"late"}
  BY <1>2 DEF Apart
<1>7. /\ thread' \in [ChatPapers -> Seq(Sends)]
      /\ \A p \in ChatPapers : thread'[p] = IF a = "stored" /\ p = sends[s].paper
                                            THEN Append(thread[p], s) ELSE thread[p]
  <2>1. CASE a = "stored"
    <3> DEFINE longer == Append(thread[sends[s].paper], s)
    <3>1. thread \in [ChatPapers -> Seq(Sends)] /\ longer \in Seq(Sends)
      BY <1>0, <1>4 DEF PanelType
    <3>2. thread' = [thread EXCEPT ![sends[s].paper] = longer]
      BY <1>2, <2>1
    <3> HIDE DEF longer
    <3>3. /\ thread' \in [ChatPapers -> Seq(Sends)]
          /\ \A p \in ChatPapers : thread'[p] = IF p = sends[s].paper THEN longer ELSE thread[p]
      BY <1>4, <3>1, <3>2
    <3> QED
      BY <2>1, <3>3 DEF longer
  <2>2. CASE a # "stored"
    BY <1>0, <1>2, <2>2 DEF PanelType
  <2> QED
    BY <2>1, <2>2
<1>8. PanelType'
  <2>1. sends' \in [Sends -> SendType]
    BY <1>0, <1>2, <1>3 DEF PanelType
  <2>2. \A r \in Sends : sends'[r].text <= typings /\ sends'[r].session <= chat.session
    BY <1>0, <1>3 DEF PanelType
  <2>3. apart' \subseteq {"late", "load", "clear", "left", "overtyped"}
    BY <1>0, <1>6 DEF PanelType
  <2> QED
    BY <1>0, <1>1, <1>7, <2>1, <2>2, <2>3 DEF PanelType
<1>9. ListsStored'
  <2>1. Grows
    BY <1>1, <1>3 DEF Grows
  <2>2. \A p \in ChatPapers : Stored(sends', thread[p], p)
    BY <1>0, <2>1, StoredKeeps DEF ListsStored, Grows, PanelType
  <2>3. ASSUME NEW p \in ChatPapers
        PROVE  Stored(sends', thread'[p], p)
    <3>1. CASE a = "stored" /\ p = sends[s].paper
      <4>1. thread[p] \in Seq(Sends) /\ thread'[p] = Append(thread[p], s)
        BY <1>0, <1>7, <3>1 DEF PanelType
      <4> QED
        BY <1>3, <2>2, <3>1, <4>1 DEF Stored
    <3>2. CASE ~(a = "stored" /\ p = sends[s].paper)
      <4>1. thread'[p] = thread[p]
        BY <1>7, <3>2
      <4> QED
        BY <2>2, <4>1
    <3> QED
      BY <3>1, <3>2
  <2>4. \A l \in loads : l.rows # Unread => Stored(sends', l.rows, l.paper)
    BY <1>0, <2>1, StoredKeeps, PanelFacts DEF ListsStored, Grows
  <2> QED
    BY <1>0, <1>1, <2>3, <2>4 DEF ListsStored
<1>10. ShownStored'
  <2>1. \A i \in 1 .. Len(chat.messages) : chat.messages[i] \in Sends /\ chat.messages[i] # s
    BY <1>0, <1>1, PanelFacts DEF ShownStored
  <2> QED
    BY <1>0, <1>1, <1>3, <2>1 DEF ShownStored
<1>11. Reading'
  <2>1. \A r \in Sends : /\ sends'[r].reader = sends[r].reader /\ sends'[r].session = sends[r].session
                         /\ sends'[r].paper = sends[r].paper /\ sends'[r].text = sends[r].text
                         /\ sends'[r].turn = sends[r].turn \/ (r = s /\ sends'[r].turn = a)
    BY <1>3
  <2> QED
    BY <1>0, <1>1, <1>4, <2>1 DEF Reading
<1>12. Pending'
  BY <1>0, <1>1, <1>3, PanelFacts, SMTT(30) DEF Pending
<1>13. InStep'
  <2> SUFFICES ASSUME "late" \notin apart', "load" \notin apart', "clear" \notin apart',
                      chat.paper # NoPaper, \A l \in loads : l.session # chat.session,
                      \A c \in clears : c.served => c.paper # chat.paper
               PROVE  thread'[chat.paper] = IF Unfolded' THEN Append(chat.messages, chat.pending)
                                            ELSE chat.messages
    BY <1>1 DEF InStep
  <2>1. /\ thread[chat.paper] = IF Unfolded THEN Append(chat.messages, chat.pending)
                                ELSE chat.messages
        /\ chat.paper \in ChatPapers
    BY <1>0, <1>5, <1>6, PanelFacts DEF InStep
  <2>2. CASE a = "stored" /\ s = chat.pending
    <3>1. chat.pending # 0 /\ sends[s].paper = chat.paper
      BY <1>0, <1>4, <2>2, PanelFacts DEF Pending
    <3>2. ~Unfolded /\ Unfolded'
      BY <1>1, <1>3, <2>2 DEF Unfolded
    <3> QED
      BY <1>7, <2>1, <2>2, <3>1, <3>2
  <2>3. CASE a = "failed"
    <3>1. Unfolded' <=> Unfolded
      BY <1>1, <1>3, <2>3 DEF Unfolded
    <3> QED
      BY <1>7, <2>1, <2>3, <3>1
  <2> QED
    BY <1>5, <2>2, <2>3
<1>14. Spent'
  <2>1. ASSUME "late" \notin apart', NEW r \in Sends, sends'[r].turn = "stored", r # chat.pending
        PROVE  sends'[r].text = sends[r].text /\ sends[r].turn = "stored"
    BY <1>3, <1>5, <2>1
  <2>2. chat.pending # 0 => sends'[chat.pending].text = sends[chat.pending].text
    BY <1>0, <1>3, PanelFacts
  <2> QED
    BY <1>0, <1>1, <1>5, <2>1, <2>2 DEF Spent
<1>15. NoneLost'
  <2>1. \A r \in Sends : sends'[r].text = sends[r].text /\
                         (sends[r].turn = "stored" => sends'[r].turn = "stored")
    BY <1>1, <1>3
  <2> QED
    BY <1>0, <1>1, <1>6, <2>1 DEF NoneLost
<1> QED
  BY <1>8, <1>9, <1>10, <1>11, <1>12, <1>13, <1>14, <1>15 DEF PanelInv

LEMMA FoldKeeps == ASSUME PanelInv, NEW s \in Sends, Fold(s) PROVE PanelInv'
<1>0. PanelType /\ ListsStored /\ ShownStored /\ Reading /\ Pending /\ InStep /\ Spent /\ NoneLost
  BY DEF PanelInv
<1>1. /\ sends[s].reader = "reads" /\ sends[s].turn = "stored"
      /\ sends' = [sends EXCEPT ![s].reader = "folded"]
      /\ chat' = [chat EXCEPT !.messages = Append(@, s), !.pending = 0]
      /\ UNCHANGED <<thread, loads, clears, typings, apart, moves>>
  BY DEF Fold
<1>2. /\ s = chat.pending /\ s # 0 /\ chat.busy /\ sends[s].session = chat.session
      /\ chat.paper \in {sends[s].paper, NoPaper} /\ sends[s].text # chat.draft
      /\ sends[s].paper \in ChatPapers
  BY <1>0, <1>1, PanelFacts DEF Reading, Pending
<1>3. /\ sends'[s] \in SendType /\ sends'[s].text = sends[s].text
      /\ sends'[s].paper = sends[s].paper /\ sends'[s].session = sends[s].session
      /\ sends'[s].reader = "folded" /\ sends'[s].turn = "stored"
      /\ \A r \in Sends : r # s => sends'[r] = sends[r]
  <2>1. sends[s] \in SendType
    BY <1>0 DEF PanelType
  <2>2. sends'[s] = [sends[s] EXCEPT !.reader = "folded"]
    BY <1>0, <1>1 DEF PanelType
  <2> QED
    BY <1>0, <1>1, <2>1, <2>2 DEF PanelType, SendType
<1>4. /\ chat' \in ChatType /\ chat'.session = chat.session /\ chat'.paper = chat.paper
      /\ chat'.messages = Append(chat.messages, s) /\ chat'.pending = 0
      /\ chat'.busy = chat.busy /\ chat'.draft = chat.draft
  <2>1. chat \in ChatType /\ Append(chat.messages, s) \in Seq(Sends) /\ 0 \in 0 .. MaxSends
    BY <1>0, PanelFacts DEF PanelType
  <2> QED
    BY <1>1, <2>1 DEF ChatType
<1>5. PanelType'
  <2>1. sends' \in [Sends -> SendType]
    BY <1>0, <1>1, <1>3 DEF PanelType
  <2>2. \A r \in Sends : sends'[r].text <= typings /\ sends'[r].session <= chat.session
    BY <1>0, <1>3 DEF PanelType
  <2> QED
    BY <1>0, <1>1, <1>4, <2>1, <2>2 DEF PanelType
<1>6. ListsStored'
  BY <1>0, <1>1, <1>3, <1>4, ListsKeep DEF Grows, ListsStored
<1>7. ShownStored'
  <2>1. \A i \in 1 .. Len(chat.messages) : chat.messages[i] \in Sends
    BY <1>0, PanelFacts
  <2>2. ASSUME NEW i \in 1 .. Len(chat'.messages)
        PROVE  \/ i \in 1 .. Len(chat.messages) /\ chat'.messages[i] = chat.messages[i]
               \/ chat'.messages[i] = s
    BY <1>0, <1>4, <2>2, PanelFacts
  <2>3. \A r \in Sends : sends'[r].turn = sends[r].turn /\ sends'[r].paper = sends[r].paper
    BY <1>1, <1>3
  <2> QED
    BY <1>0, <1>1, <1>2, <1>4, <2>1, <2>2, <2>3 DEF ShownStored
<1>8. Reading'
  <2>1. \A r \in Sends : r # s => /\ sends[r].reader # "reads"
                                  /\ sends[r].reader = "folded" => sends[r].session # chat.session
    BY <1>0, <1>2 DEF Reading
  <2>2. \A r \in Sends :
         /\ sends'[r].turn = "none" <=> sends'[r].reader = "none"
         /\ sends'[r].turn # "none" => sends'[r].text # 0 /\ sends'[r].paper \in ChatPapers
         /\ sends'[r].reader # "reads"
         /\ sends'[r].reader = "folded" => sends'[r].turn = "stored"
         /\ sends'[r].reader = "folded" /\ sends'[r].session = chat.session => r = s
    <3> SUFFICES ASSUME NEW r \in Sends
                 PROVE  /\ sends'[r].turn = "none" <=> sends'[r].reader = "none"
                        /\ sends'[r].turn # "none" =>
                               sends'[r].text # 0 /\ sends'[r].paper \in ChatPapers
                        /\ sends'[r].reader # "reads"
                        /\ sends'[r].reader = "folded" => sends'[r].turn = "stored"
                        /\ sends'[r].reader = "folded" /\ sends'[r].session = chat.session => r = s
      OBVIOUS
    <3>1. CASE r = s
      BY <1>0, <1>1, <1>2, <1>3, <3>1 DEF Reading
    <3>2. CASE r # s
      BY <1>0, <1>3, <2>1, <3>2 DEF Reading
    <3> QED
      BY <3>1, <3>2
  <2> QED
    BY <1>2, <1>4, <2>2 DEF Reading
<1>9. Pending'
  BY <1>4 DEF Pending
<1>10. InStep'
  <2>1. Unfolded /\ ~Unfolded'
    <3>1. Unfolded
      BY <1>1, <1>2 DEF Unfolded
    <3>2. ~Unfolded'
      BY <1>0, <1>4, PanelFacts DEF Unfolded
    <3> QED
      BY <3>1, <3>2
  <2> QED
    BY <1>0, <1>1, <1>2, <1>4, <2>1 DEF InStep
<1>11. Spent'
  BY <1>0, <1>1, <1>2, <1>3, <1>4 DEF Spent
<1>12. NoneLost'
  <2>1. \A r \in Sends : sends'[r].text = sends[r].text /\ sends'[r].turn = sends[r].turn
    BY <1>1, <1>3
  <2> QED
    BY <1>0, <1>1, <1>2, <1>4, <2>1 DEF NoneLost
<1> QED
  BY <1>5, <1>6, <1>7, <1>8, <1>9, <1>10, <1>11, <1>12 DEF PanelInv

LEMMA StreamEndsKeeps == ASSUME PanelInv, NEW s \in Sends, StreamEnds(s) PROVE PanelInv'
<1>0. PanelType /\ ListsStored /\ ShownStored /\ Reading /\ Pending /\ InStep /\ Spent /\ NoneLost
  BY DEF PanelInv
<1>1. /\ sends[s].reader \in {"reads", "folded"}
      /\ sends' = [sends EXCEPT ![s].reader = "over"]
      /\ UNCHANGED <<thread, loads, clears, typings>>
  BY DEF StreamEnds
<1>2. moves' \in 0 .. MaxMoves /\ moves <= moves'
  BY <1>0, PanelFacts, SMTT(30) DEF StreamEnds, Move, PanelType
<1>3. /\ sends'[s] \in SendType /\ sends'[s].text = sends[s].text
      /\ sends'[s].paper = sends[s].paper /\ sends'[s].session = sends[s].session
      /\ sends'[s].reader = "over" /\ sends'[s].turn = sends[s].turn
      /\ \A r \in Sends : r # s => sends'[r] = sends[r]
  <2>1. sends[s] \in SendType
    BY <1>0 DEF PanelType
  <2>2. sends'[s] = [sends[s] EXCEPT !.reader = "over"]
    BY <1>0, <1>1 DEF PanelType
  <2> QED
    BY <1>0, <1>1, <2>1, <2>2 DEF PanelType, SendType
<1>4. \A r \in Sends : /\ sends'[r].text = sends[r].text /\ sends'[r].turn = sends[r].turn
                       /\ sends'[r].paper = sends[r].paper /\ sends'[r].session = sends[r].session
                       /\ sends'[r].reader = IF r = s THEN "over" ELSE sends[r].reader
  BY <1>3
<1>5. sends' \in [Sends -> SendType]
  BY <1>0, <1>1, <1>3 DEF PanelType
<1>6. Grows
  BY <1>4 DEF Grows
<1>7. CASE sends[s].reader = "reads"
  <2>1. /\ s = chat.pending /\ s # 0 /\ sends[s].session = chat.session /\ chat.busy
        /\ sends[s].text # chat.draft /\ sends[s].text # 0 /\ sends[s].turn # "none"
    BY <1>0, <1>7, PanelFacts DEF Reading, Pending
  <2>2. /\ chat' = [chat EXCEPT !.busy = FALSE, !.pending = 0, !.draft = sends[s].text]
        /\ apart' = apart \cup (IF chat.draft # 0 THEN {"overtyped"} ELSE {})
                          \cup (IF Unfolded THEN {"late"} ELSE {})
    BY <1>7, <2>1 DEF StreamEnds, Current, GivenBack
  <2>3. /\ chat' \in ChatType /\ chat'.session = chat.session /\ chat'.paper = chat.paper
        /\ chat'.messages = chat.messages /\ chat'.pending = 0
        /\ chat'.busy = FALSE /\ chat'.draft = sends[s].text
    <3>1. chat \in ChatType /\ sends[s].text \in 0 .. MaxTexts /\ 0 \in 0 .. MaxSends
      BY <1>0, PanelFacts DEF PanelType
    <3> QED
      BY <2>2, <3>1 DEF ChatType
  <2>4. PanelType'
    <3>1. \A r \in Sends : sends'[r].text <= typings /\ sends'[r].session <= chat.session
      BY <1>0, <1>4 DEF PanelType
    <3>2. apart' \subseteq {"late", "load", "clear", "left", "overtyped"}
      BY <1>0, <2>2 DEF PanelType
    <3>3. chat.session <= moves'
      BY <1>0, <1>2, PanelFacts DEF PanelType
    <3>4. chat'.draft <= typings
      BY <1>0, <2>3 DEF PanelType
    <3> QED
      BY <1>0, <1>1, <1>2, <1>5, <2>3, <3>1, <3>2, <3>3, <3>4 DEF PanelType
  <2>5. ListsStored'
    BY <1>0, <1>1, <1>6, <2>3, ListsKeep DEF ListsStored
  <2>6. ShownStored'
    <3>1. \A i \in 1 .. Len(chat.messages) : chat.messages[i] \in Sends
      BY <1>0, PanelFacts
    <3> QED
      BY <1>0, <1>4, <2>3, <3>1 DEF ShownStored
  <2>7. Reading'
    <3>1. \A r \in Sends : sends'[r].reader # "reads" /\
                           (sends'[r].reader = "folded" => sends'[r].session # chat.session)
      BY <1>0, <1>4, <2>1 DEF Reading
    <3>2. \A r \in Sends :
           /\ sends'[r].turn = "none" <=> sends'[r].reader = "none"
           /\ sends'[r].turn # "none" => sends'[r].text # 0 /\ sends'[r].paper \in ChatPapers
           /\ sends'[r].reader = "folded" => sends'[r].turn = "stored"
      BY <1>0, <1>4, <2>1 DEF Reading
    <3> QED
      BY <2>3, <3>1, <3>2 DEF Reading
  <2>8. Pending'
    BY <2>3 DEF Pending
  <2>9. InStep'
    <3>1. ~Unfolded'
      BY <1>0, <2>3, PanelFacts DEF Unfolded
    <3> QED
      BY <1>0, <1>1, <2>2, <2>3, <3>1 DEF InStep
  <2>10. Spent'
    <3>1. ASSUME "late" \notin apart', NEW r \in Sends, sends[r].turn = "stored"
          PROVE  sends[r].text # sends[s].text
      <4>1. "late" \notin apart /\ sends[s].turn # "stored"
        BY <2>1, <2>2, <3>1 DEF Unfolded
      <4> QED
        BY <1>0, <2>1, <3>1, <4>1 DEF Spent
    <3> QED
      BY <1>4, <2>3, <3>1 DEF Spent
  <2>11. NoneLost'
    <3>1. ASSUME NEW t \in 1 .. typings, "left" \notin apart', "overtyped" \notin apart',
                 t # sends[s].text
          PROVE  \E r \in Sends : sends[r].text = t /\ sends[r].turn = "stored"
      <4>1. t # chat.draft /\ "left" \notin apart /\ "overtyped" \notin apart
        BY <2>2, <3>1
      <4> QED
        BY <1>0, <2>1, <3>1, <4>1 DEF NoneLost
    <3> QED
      BY <1>1, <1>4, <2>3, <3>1 DEF NoneLost
  <2> QED
    BY <2>4, <2>5, <2>6, <2>7, <2>8, <2>9, <2>10, <2>11 DEF PanelInv
<1>8. CASE sends[s].reader = "folded"
  <2>1. s # chat.pending
    BY <1>0, <1>8, PanelFacts DEF Pending
  <2>2. /\ chat' \in ChatType /\ chat'.session = chat.session /\ chat'.paper = chat.paper
        /\ chat'.messages = chat.messages /\ chat'.pending = chat.pending
        /\ chat'.draft = chat.draft /\ apart' = apart
        /\ chat'.busy = IF sends[s].session = chat.session THEN FALSE ELSE chat.busy
    BY <1>0, <1>8 DEF StreamEnds, Current, GivenBack, PanelType, ChatType
  <2>3. PanelType'
    <3>1. \A r \in Sends : sends'[r].text <= typings /\ sends'[r].session <= chat.session
      BY <1>0, <1>4 DEF PanelType
    <3>2. chat.session <= moves'
      BY <1>0, <1>2, PanelFacts DEF PanelType
    <3> QED
      BY <1>0, <1>1, <1>2, <1>5, <2>2, <3>1, <3>2 DEF PanelType
  <2>4. ListsStored'
    BY <1>0, <1>1, <1>6, <2>2, ListsKeep DEF ListsStored
  <2>5. ShownStored'
    <3>1. \A i \in 1 .. Len(chat.messages) : chat.messages[i] \in Sends
      BY <1>0, PanelFacts
    <3> QED
      BY <1>0, <1>4, <2>2, <3>1 DEF ShownStored
  <2>6. Reading'
    <3>1. \A r \in Sends :
           /\ sends'[r].turn = "none" <=> sends'[r].reader = "none"
           /\ sends'[r].turn # "none" => sends'[r].text # 0 /\ sends'[r].paper \in ChatPapers
           /\ sends'[r].reader = "reads" => r = chat.pending
           /\ sends'[r].reader = "folded" => sends'[r].turn = "stored" /\ r # s
      BY <1>0, <1>4, <1>8 DEF Reading
    <3>2. ASSUME NEW r \in Sends, sends'[r].reader = "folded", sends'[r].session = chat.session
          PROVE  chat'.busy /\ chat.pending = 0
      BY <1>0, <1>4, <1>8, <2>2, <3>1, <3>2 DEF Reading
    <3>3. \A r, q \in Sends :
           (/\ sends'[r].reader = "folded" /\ sends'[r].session = chat.session
            /\ sends'[q].reader = "folded" /\ sends'[q].session = chat.session) => r = q
      BY <1>0, <1>4, <3>1 DEF Reading
    <3> QED
      BY <2>2, <3>1, <3>2, <3>3 DEF Reading
  <2>7. Pending'
    <3>1. chat.pending # 0 => sends[s].session # chat.session
      BY <1>0, <1>8 DEF Reading
    <3> QED
      BY <1>0, <1>4, <2>1, <2>2, <3>1, PanelFacts DEF Pending
  <2>8. InStep'
    <3>1. Unfolded' <=> Unfolded
      BY <1>4, <2>2 DEF Unfolded
    <3> QED
      BY <1>0, <1>1, <2>2, <3>1 DEF InStep
  <2>9. Spent' /\ NoneLost'
    <3>1. Spent'
      BY <1>0, <1>4, <2>2, PanelFacts, SMTT(30) DEF Spent
    <3>2. NoneLost'
      BY <1>0, <1>1, <1>4, <2>2 DEF NoneLost
    <3> QED
      BY <3>1, <3>2
  <2> QED
    BY <2>3, <2>4, <2>5, <2>6, <2>7, <2>8, <2>9 DEF PanelInv
<1> QED
  BY <1>1, <1>7, <1>8

LEMMA ClearKeeps == ASSUME PanelInv, Clear PROVE PanelInv'
<1>0. PanelType /\ ListsStored /\ ShownStored /\ Reading /\ Pending /\ InStep /\ Spent /\ NoneLost
  BY DEF PanelInv
<1> DEFINE new == [paper |-> chat.paper, session |-> chat.session, served |-> FALSE]
<1>1. /\ clears' = clears \cup {new} /\ new \in ClearType /\ new.served = FALSE
      /\ moves < MaxMoves /\ moves' = moves + 1
      /\ UNCHANGED <<thread, chat, loads, sends, typings, apart>>
  BY <1>0, PanelFacts DEF Clear, Move, ClearType
<1> HIDE DEF new
<1>2. PanelType'
  BY <1>0, <1>1, PanelFacts DEF PanelType
<1>3. InStep'
  BY <1>0, <1>1 DEF InStep, Unfolded
<1> QED
  BY <1>0, <1>1, <1>2, <1>3
     DEF PanelInv, ListsStored, ShownStored, Reading, Pending, Spent, NoneLost

LEMMA ServeClearKeeps == ASSUME PanelInv, NEW c \in clears, ServeClear(c) PROVE PanelInv'
<1>0. PanelType /\ ListsStored /\ ShownStored /\ Reading /\ Pending /\ InStep /\ Spent /\ NoneLost
  BY DEF PanelInv
<1> DEFINE new == [c EXCEPT !.served = TRUE]
<1>1. /\ ~c.served /\ clears' = (clears \ {c}) \cup {new}
      /\ new \in ClearType /\ new.served = TRUE /\ new.paper = c.paper /\ c.paper \in ChatPapers
      /\ thread' = [thread EXCEPT ![c.paper] = <<>>]
      /\ UNCHANGED <<chat, loads, sends, typings, apart, moves>>
  BY <1>0 DEF ServeClear, ClearType, PanelType
<1> HIDE DEF new
<1>2. /\ thread' \in [ChatPapers -> Seq(Sends)] /\ thread'[c.paper] = <<>>
      /\ \A p \in ChatPapers : p # c.paper => thread'[p] = thread[p]
  BY <1>0, <1>1 DEF PanelType
<1>3. PanelType'
  BY <1>0, <1>1, <1>2 DEF PanelType
<1>4. ListsStored'
  <2>1. \A p \in ChatPapers : Stored(sends, thread'[p], p)
    BY <1>0, <1>2 DEF ListsStored, Stored
  <2> QED
    BY <1>0, <1>1, <2>1 DEF ListsStored
<1>5. InStep'
  <2>1. (\A d \in clears' : d.served => d.paper # chat.paper) =>
            /\ \A d \in clears : d.served => d.paper # chat.paper
            /\ chat.paper # c.paper
    BY <1>1
  <2>2. Unfolded' <=> Unfolded
    BY <1>1 DEF Unfolded
  <2> QED
    BY <1>0, <1>1, <1>2, <2>1, <2>2, PanelFacts DEF InStep
<1> QED
  BY <1>0, <1>1, <1>3, <1>4, <1>5
     DEF PanelInv, ShownStored, Reading, Pending, Spent, NoneLost

LEMMA ClearSettlesKeeps == ASSUME PanelInv, NEW c \in clears, ClearSettles(c) PROVE PanelInv'
<1>0. PanelType /\ ListsStored /\ ShownStored /\ Reading /\ Pending /\ InStep /\ Spent /\ NoneLost
  BY DEF PanelInv
<1>1. clears' = clears \ {c} /\ UNCHANGED <<thread, loads, sends, typings, moves>>
  BY DEF ClearSettles
<1>2. CASE /\ c.served /\ chat' = [chat EXCEPT !.messages = <<>>]
           /\ Apart("clear", chat.paper = NoPaper \/ thread[chat.paper] # <<>> \/ Unfolded)
  <2>1. /\ chat' \in ChatType /\ chat'.paper = chat.paper /\ chat'.session = chat.session
        /\ chat'.messages = <<>> /\ chat'.pending = chat.pending /\ chat'.busy = chat.busy
        /\ chat'.draft = chat.draft
    <3>1. chat \in ChatType /\ <<>> \in Seq(Sends)
      BY <1>0 DEF PanelType
    <3> QED
      BY <1>2, <3>1 DEF ChatType
  <2>2. apart' = apart \/ apart' = apart \cup {"clear"}
    BY <1>2 DEF Apart
  <2>3. PanelType'
    BY <1>0, <1>1, <2>1, <2>2 DEF PanelType
  <2>4. ListsStored'
    BY <1>0, <1>1, <2>1, ListsKeep DEF Grows, ListsStored
  <2>5. ShownStored'
    BY <2>1 DEF ShownStored
  <2>6. Reading'
    BY <1>0, <1>1, <2>1 DEF Reading
  <2>7. Pending'
    BY <1>0, <1>1, <2>1 DEF Pending
  <2>8. InStep'
    <3>1. "clear" \notin apart' => thread[chat.paper] = <<>> /\ ~Unfolded
      BY <1>2 DEF Apart
    <3>2. Unfolded' <=> Unfolded
      BY <1>1, <2>1 DEF Unfolded
    <3> QED
      BY <1>1, <2>1, <3>1, <3>2 DEF InStep
  <2>9. Spent' /\ NoneLost'
    <3>1. Spent'
      BY <1>0, <1>1, <2>1, <2>2 DEF Spent
    <3>2. NoneLost'
      BY <1>0, <1>1, <2>1, <2>2 DEF NoneLost
    <3> QED
      BY <3>1, <3>2
  <2> QED
    BY <2>3, <2>4, <2>5, <2>6, <2>7, <2>8, <2>9 DEF PanelInv
<1>3. CASE UNCHANGED chat /\ Apart("clear", c.served)
  <2>1. IF c.served THEN apart' = apart \cup {"clear"} ELSE apart' = apart
    BY <1>3 DEF Apart
  <2>2. PanelType'
    BY <1>0, <1>1, <1>3, <2>1 DEF PanelType
  <2>3. InStep'
    BY <1>0, <1>1, <1>3, <2>1 DEF InStep, Unfolded
  <2>4. Spent' /\ NoneLost'
    BY <1>0, <1>1, <1>3, <2>1 DEF Spent, NoneLost
  <2> QED
    BY <1>0, <1>1, <1>3, <2>2, <2>3, <2>4 DEF PanelInv, ListsStored, ShownStored, Reading, Pending
<1> QED
  BY <1>2, <1>3 DEF ClearSettles

LEMMA PanelInvNext == PanelInv /\ [ChatPanelNext]_panelVars => PanelInv'
<1> SUFFICES ASSUME PanelInv, [ChatPanelNext]_panelVars
             PROVE  PanelInv'
  OBVIOUS
<1>1. CASE UNCHANGED panelVars
  <2>1. PanelType' /\ ListsStored' /\ ShownStored'
    BY <1>1 DEF panelVars, PanelInv, PanelType, ListsStored, ShownStored
  <2>2. Reading' /\ Pending' /\ InStep' /\ Spent' /\ NoneLost'
    BY <1>1 DEF panelVars, PanelInv, Reading, Pending, InStep, Unfolded, Spent, NoneLost
  <2> QED
    BY <2>1, <2>2 DEF PanelInv
<1>2. CASE ChatPanelNext
  BY <1>2, OpenThreadKeeps, LoadsMove, TypeKeeps, SendMessageKeeps, ClearKeeps,
     TurnSettlesKeeps, FoldKeeps, StreamEndsKeeps, ServeClearKeeps, ClearSettlesKeeps
     DEF ChatPanelNext
<1> QED
  BY <1>1, <1>2

LEMMA PanelInvHolds == PanelInv => PanelHolds
<1> SUFFICES ASSUME PanelInv
             PROVE  PanelHolds
  OBVIOUS
<1>0. /\ PanelType /\ ShownStored /\ Reading /\ Pending /\ InStep /\ Spent /\ NoneLost
      /\ chat.messages \in Seq(Sends)
      /\ \A i \in DOMAIN chat.messages : i \in 1 .. Len(chat.messages) /\ chat.messages[i] \in Sends
  BY PanelFacts DEF PanelInv
<1>1. OwnThread
  BY <1>0, PanelFacts DEF OwnThread, ShownStored, Pending
<1>2. ShowsThread
  <2>1. ~chat.busy => ~Unfolded
    BY <1>0, PanelFacts DEF Pending, Unfolded
  <2> QED
    BY <1>0, <2>1 DEF ShowsThread, InStep
<1>3. TextKept
  <2>1. ASSUME NEW i \in DOMAIN chat.messages, "late" \notin apart
        PROVE  sends[chat.messages[i]].text # chat.draft
    <3>1. CASE chat.messages[i] = chat.pending
      BY <1>0, <3>1, PanelFacts DEF Pending
    <3>2. CASE chat.messages[i] # chat.pending
      BY <1>0, <2>1, <3>2 DEF ShownStored, Spent
    <3> QED
      BY <3>1, <3>2
  <2> QED
    BY <1>0, <2>1 DEF NoneLost, TextKept
<1> QED
  BY <1>1, <1>2, <1>3 DEF PanelHolds

----------------------------------------------------------------------------
(* What the invariants leave out of the types.                             *)

\* What ViewInv leaves out of the type of the library in the browser.
ListNumbered == listing <= seq
AfterTyped == after \subseteq [n : 1 .. MaxGestures, why : {"tagged", "deleted"}]
DoubtTyped == doubt \subseteq Listed \X {"row", "detail"}
ViewTyped == ListNumbered /\ AfterTyped /\ DoubtTyped

LEMMA ViewTypedFacts ==
    ASSUME ViewInv
    PROVE  /\ listing \in Nat /\ seq \in Nat
           /\ \A l \in listLoads : l.n \in Nat /\ l.mixed \subseteq Listed
           /\ \A g \in gets : g.paper \in Listed /\ g.mixed \subseteq Listed
           /\ \A w \in writes : w.n \in 1 .. MaxGestures /\ w.papers \subseteq Listed
<1>1. /\ listing \in Nat /\ seq \in Nat
      /\ listLoads \subseteq ListLoadType /\ gets \subseteq GetType /\ writes \subseteq WriteType
  BY DEF ViewInv, ViewType
<1> QED
  BY <1>1 DEF ListLoadType, GetType, WriteType

LEMMA StartTyped ==
    ASSUME ViewInv, DoubtTyped, NEW ws, \A w \in ws : w.papers \subseteq Listed, Start(ws)
    PROVE  DoubtTyped'
<1>1. \A w \in ws : Crossed(w) \cup Misread(w) \subseteq Listed
  BY DEF Crossed, Misread
<1>2. doubt' = doubt \cup Spoilt(UNION {Crossed(w) \cup Misread(w) : w \in ws})
  BY DEF Start
<1> QED
  BY <1>1, <1>2 DEF DoubtTyped, Spoilt

LEMMA WritePapers == \A kind, papers : Write(kind, papers).papers = papers
BY DEF Write

LEMMA ReadsTyped ==
    ASSUME ViewInv, ViewTyped,
           \/ \E f \in Filters : SetFilter(f)
           \/ \E l \in listLoads : ServeList(l) \/ ListArrives(l) \/ ListFails(l)
           \/ \E g \in gets : ServeDetail(g) \/ DetailArrives(g)
           \/ \E p \in Listed : OpenDetail(p)
           \/ \E a \in after : TagsLoaded(a)
    PROVE  ViewTyped'
<1>0. ListNumbered /\ AfterTyped /\ DoubtTyped
  BY DEF ViewTyped
<1>1. ASSUME NEW f \in Filters, SetFilter(f) PROVE ViewTyped'
  BY <1>0, <1>1, ViewTypedFacts DEF SetFilter, LoadList, ViewTyped, ListNumbered, AfterTyped, DoubtTyped
<1>2. ASSUME NEW l \in listLoads, ServeList(l) PROVE ViewTyped'
  BY <1>0, <1>2 DEF ServeList, ViewTyped, ListNumbered, AfterTyped, DoubtTyped
<1>3. ASSUME NEW l \in listLoads, ListArrives(l) PROVE ViewTyped'
  BY <1>0, <1>3, ViewTypedFacts
     DEF ListArrives, Superseded, ViewTyped, ListNumbered, AfterTyped, DoubtTyped
<1>4. ASSUME NEW l \in listLoads, ListFails(l) PROVE ViewTyped'
  BY <1>0, <1>4 DEF ListFails, ViewTyped, ListNumbered, AfterTyped, DoubtTyped
<1>5. ASSUME NEW g \in gets, ServeDetail(g) PROVE ViewTyped'
  BY <1>0, <1>5 DEF ServeDetail, ViewTyped, ListNumbered, AfterTyped, DoubtTyped
<1>6. ASSUME NEW g \in gets, DetailArrives(g) PROVE ViewTyped'
  BY <1>0, <1>6, ViewTypedFacts DEF DetailArrives, ViewTyped, ListNumbered, AfterTyped, DoubtTyped
<1>7. ASSUME NEW p \in Listed, OpenDetail(p) PROVE ViewTyped'
  BY <1>0, <1>7 DEF OpenDetail, ViewTyped, ListNumbered, AfterTyped, DoubtTyped
<1>8. ASSUME NEW a \in after, TagsLoaded(a) PROVE ViewTyped'
  BY <1>0, <1>8, ViewTypedFacts
     DEF TagsLoaded, LoadList, ViewTyped, ListNumbered, AfterTyped, DoubtTyped
<1> QED
  BY <1>1, <1>2, <1>3, <1>4, <1>5, <1>6, <1>7, <1>8

\* Writes, as they start.
LEMMA StartsTyped ==
    ASSUME ViewInv, ViewTyped,
           \/ \E p \in Listed : ToggleStar(p)
           \/ \E p \in Listed, kind \in {"tag", "untag"} : TagPaper(p, kind)
           \/ DeleteTagEverywhere
           \/ \E papers \in SUBSET Listed : RemovePapers(papers)
           \/ \E papers \in toasts : UndoDelete(papers)
    PROVE  ViewTyped'
<1>0. ListNumbered /\ AfterTyped /\ DoubtTyped
  BY DEF ViewTyped
<1>1. \A papers \in toasts : papers \subseteq Listed
  BY DEF ViewInv, ViewType
<1>2. UNCHANGED <<listing, seq, after>>
  BY DEF ToggleStar, TagPaper, DeleteTagEverywhere, RemovePapers, UndoDelete
<1>3. \E ws : (\A w \in ws : w.papers \subseteq Listed) /\ Start(ws)
  <2>1. ASSUME NEW p \in Listed, ToggleStar(p)
        PROVE  \E ws : (\A w \in ws : w.papers \subseteq Listed) /\ Start(ws)
    <3> DEFINE prev == IF rows[p] # Absent THEN rows[p].starred ELSE details[p].starred
               w == [Write("star", {p}) EXCEPT !.prev = prev]
    <3>1. Start({w})
      BY <2>1 DEF ToggleStar
    <3>2. w.papers = {p}
      BY DEF Write
    <3> HIDE DEF w
    <3> QED
      BY <3>1, <3>2
  <2>2. ASSUME NEW p \in Listed, NEW kind \in {"tag", "untag"}, TagPaper(p, kind)
        PROVE  \E ws : (\A w \in ws : w.papers \subseteq Listed) /\ Start(ws)
    BY <2>2, WritePapers DEF TagPaper
  <2>3. CASE DeleteTagEverywhere
    BY <2>3, WritePapers DEF DeleteTagEverywhere
  <2>4. ASSUME NEW papers \in SUBSET Listed, Start({Write("drop", {p}) : p \in papers})
        PROVE  \E ws : (\A w \in ws : w.papers \subseteq Listed) /\ Start(ws)
    <3> DEFINE ws == {Write("drop", {p}) : p \in papers}
    <3>1. ASSUME NEW w \in ws PROVE w.papers \subseteq Listed
      <4>1. PICK p \in papers : w = Write("drop", {p})
        OBVIOUS
      <4>2. w.papers = {p} /\ p \in Listed
        BY <4>1 DEF Write
      <4> QED
        BY <4>2
    <3>2. Start(ws)
      BY <2>4
    <3> HIDE DEF ws
    <3> QED
      BY <3>1, <3>2
  <2>5. ASSUME NEW papers \in SUBSET Listed, Start({Write("undo", {p}) : p \in papers})
        PROVE  \E ws : (\A w \in ws : w.papers \subseteq Listed) /\ Start(ws)
    <3> DEFINE ws == {Write("undo", {p}) : p \in papers}
    <3>1. ASSUME NEW w \in ws PROVE w.papers \subseteq Listed
      <4>1. PICK p \in papers : w = Write("undo", {p})
        OBVIOUS
      <4>2. w.papers = {p} /\ p \in Listed
        BY <4>1 DEF Write
      <4> QED
        BY <4>2
    <3>2. Start(ws)
      BY <2>5
    <3> HIDE DEF ws
    <3> QED
      BY <3>1, <3>2
  <2> QED
    BY <1>1, <2>1, <2>2, <2>3, <2>4, <2>5 DEF RemovePapers, UndoDelete
<1>4. DoubtTyped'
  BY <1>0, <1>3, StartTyped
<1> QED
  BY <1>0, <1>2, <1>4 DEF ViewTyped, ListNumbered, AfterTyped

\* Writes, as they settle.
LEMMA SettlesTyped ==
    ASSUME ViewInv, ViewTyped, NEW w \in writes,
           \/ ServeWrite(w) \/ StarSettles(w) \/ TagSettles(w)
           \/ TagDeletionSettles(w) \/ DropSettles(w) \/ UndoSettles(w)
    PROVE  ViewTyped'
<1>0. ListNumbered /\ AfterTyped /\ DoubtTyped
  BY DEF ViewTyped
<1>1. CASE ServeWrite(w)
  BY <1>0, <1>1 DEF ServeWrite, ViewTyped, ListNumbered, AfterTyped, DoubtTyped
<1>2. CASE StarSettles(w)
  <2>1. UNCHANGED <<listing, after, doubt>> /\ seq' \in {seq, seq + 1}
    BY <1>2 DEF StarSettles, LoadList
  <2> QED
    BY <1>0, <2>1, ViewTypedFacts DEF ViewTyped, ListNumbered, AfterTyped, DoubtTyped
<1>3. CASE TagSettles(w)
  <2>1. UNCHANGED <<listing, seq, doubt>> /\ after' \subseteq after \cup {[n |-> w.n, why |-> "tagged"]}
    BY <1>3 DEF TagSettles
  <2> QED
    BY <1>0, <2>1, ViewTypedFacts DEF ViewTyped, ListNumbered, AfterTyped, DoubtTyped
<1>4. CASE TagDeletionSettles(w)
  <2>1. /\ UNCHANGED <<listing, seq>> /\ doubt' \subseteq doubt
        /\ after' \subseteq after \cup {[n |-> w.n, why |-> "deleted"]}
    BY <1>4 DEF TagDeletionSettles
  <2> QED
    BY <1>0, <2>1, ViewTypedFacts DEF ViewTyped, ListNumbered, AfterTyped, DoubtTyped
<1>5. CASE DropSettles(w)
  <2>1. UNCHANGED <<listing, seq, after>> /\ doubt' \subseteq doubt
    BY <1>5 DEF DropSettles
  <2> QED
    BY <1>0, <2>1 DEF ViewTyped, ListNumbered, AfterTyped, DoubtTyped
<1>6. CASE UndoSettles(w)
  <2>1. /\ UNCHANGED <<listing, after>> /\ seq' \in {seq, seq + 1}
        /\ doubt' \subseteq doubt \cup (Achieved(BatchOf(w, Settled(w))) \X {"row"})
    BY <1>6 DEF UndoSettles, LoadList
  <2>2. \A v \in Settled(w) : v.papers \subseteq Listed
    <3>1. \A v \in writes : v.papers \subseteq Listed
      BY ViewTypedFacts
    <3>2. w \in WriteType
      BY DEF ViewInv, ViewType
    <3>3. [w EXCEPT !.at = IF w.at = "served" THEN "over" ELSE "failed"].papers = w.papers
      BY <3>2 DEF WriteType
    <3> QED
      BY <3>1, <3>3 DEF Settled
  <2>3. Achieved(BatchOf(w, Settled(w))) \subseteq Listed
    BY <2>2 DEF Achieved, BatchOf
  <2> QED
    BY <1>0, <2>1, <2>3, ViewTypedFacts DEF ViewTyped, ListNumbered, AfterTyped, DoubtTyped
<1> QED
  BY <1>1, <1>2, <1>3, <1>4, <1>5, <1>6

LEMMA ViewTypedInit == ViewInit => ViewTyped
BY DEF ViewInit, ViewTyped, ListNumbered, AfterTyped, DoubtTyped

LEMMA ViewTypedNext == ViewInv /\ ViewTyped /\ [ViewNext]_viewVars => ViewTyped'
<1> SUFFICES ASSUME ViewInv, ViewTyped, [ViewNext]_viewVars
             PROVE  ViewTyped'
  OBVIOUS
<1>1. CASE UNCHANGED viewVars
  BY <1>1 DEF viewVars, ViewTyped, ListNumbered, AfterTyped, DoubtTyped
<1>2. CASE ViewNext
  BY <1>2, ReadsTyped, StartsTyped, SettlesTyped DEF ViewNext
<1> QED
  BY <1>1, <1>2

LEMMA ViewIsTyped == ViewInv /\ ViewTyped => ViewTypeOK
<1> SUFFICES ASSUME ViewInv, ViewTyped
             PROVE  ViewTypeOK
  OBVIOUS
<1>1. ViewType
  BY DEF ViewInv
<1>2. \A w \in writes : w.kind \in {"star", "tag", "untag", "drop", "undo", "untag_all"}
                         /\ w.at \in {"sent", "served", "refused", "over", "failed"}
  BY <1>1 DEF ViewType, WriteType, TagKinds, LiveKinds
<1>3. listing \in 0 .. seq
  BY <1>1 DEF ViewType, ViewTyped, ListNumbered
<1> QED
  BY <1>1, <1>2, <1>3 DEF ViewType, ViewTypeOK, ViewTyped, AfterTyped, DoubtTyped, Shows

LEMMA PanelIsTyped == PanelInv => ChatPanelTypeOK
<1> SUFFICES ASSUME PanelInv
             PROVE  ChatPanelTypeOK
  OBVIOUS
<1>1. PanelType
  BY DEF PanelInv
<1>2. \A s \in Sends : sends[s] \in SendType
  BY <1>1 DEF PanelType
<1> QED
  BY <1>1, <1>2 DEF PanelType, ChatPanelTypeOK, ChatType, SendType

=============================================================================
