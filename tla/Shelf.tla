------------------------------- MODULE Shelf -------------------------------
(***************************************************************************)
(* What the user puts on papers (db.rs, and the handlers of web/api.rs and *)
(* commands of main.rs over it): tags that come into being with their first *)
(* use and go with their last, projects, a name and a star; and the lists  *)
(* and counts that show them.  Requests overlap between two statements.    *)
(***************************************************************************)
EXTENDS Naturals, FiniteSets

CONSTANTS
    Cards,         \* the papers
    TagNames,      \* names of tags, as normalize_tag_name and NOCASE tell them apart
    Child,         \* <<"ml/nlp", "ml">>: the names below a name
    ProjectNames,
    MaxTags,       \* bound: tags created
    MaxProjects,   \* bound: projects created
    MaxChanges     \* bound: names set, papers trashed, refreshes

ASSUME ShelfAssumption ==
    /\ IsFiniteSet(Cards) /\ Child \subseteq TagNames \X TagNames
    /\ {MaxTags, MaxProjects, MaxChanges} \subseteq Nat

VARIABLES
    card,       \* a paper: its row, and what is written by hand (name, starred)
    tags,       \* tags: id and name
    links,      \* paper_tags
    projects, members,
    minted,     \* ids given to tags and to projects
    adding,     \* the request between creating a tag and linking it
    removing,   \* the request between unlinking a tag and collecting it
    refreshing, \* the row a refresh or identify has read
    changes,
    given,      \* history: links whose request was answered, until taken back
    stranded,   \* history: tags whose paper was purged, or whose second statement failed
    written     \* history: what the user wrote last

shelfVars == <<card, tags, links, projects, members, minted, adding, removing, refreshing,
               changes, given, stranded, written>>

tagging == <<tags, links, adding, removing, given, stranded>>
projecting == <<projects, members>>
byHand == <<refreshing, changes, written>>

TagIds == 1 .. MaxTags
ProjectIds == 1 .. MaxProjects
ByHand == {"unset", "set"}
NoLink == [card |-> "none", tag |-> 0]

ShelfTypeOK ==
    /\ card \in [Cards -> [at : {"live", "trashed", "purged"}, byHand : ByHand]]
    /\ tags \subseteq [id : TagIds, name : TagNames]
    /\ \A t, u \in tags : t.id = u.id \/ t.name = u.name => t = u
    /\ links \subseteq {p \in Cards : card[p].at # "purged"} \X {t.id : t \in tags}
    /\ projects \subseteq [id : ProjectIds, name : ProjectNames]
    /\ \A x, y \in projects : x.id = y.id \/ x.name = y.name => x = y
    /\ members \subseteq {p \in Cards : card[p].at # "purged"} \X {x.id : x \in projects}
    /\ minted \in [tags : 0 .. MaxTags, projects : 0 .. MaxProjects]
    /\ adding = NoLink \/ adding \in [card : Cards, tag : TagIds]
    /\ removing \in TagIds \cup {0}
    /\ refreshing = NoLink \/ refreshing \in [card : Cards, byHand : ByHand]
    /\ changes \in 0 .. MaxChanges
    /\ given \subseteq Cards \X TagIds /\ stranded \subseteq TagIds /\ written \in [Cards -> ByHand]

ShelfInit ==
    /\ card = [p \in Cards |-> [at |-> "live", byHand |-> "unset"]]
    /\ tags = {} /\ links = {} /\ projects = {} /\ members = {}
    /\ minted = [tags |-> 0, projects |-> 0]
    /\ adding = NoLink /\ removing = 0 /\ refreshing = NoLink /\ changes = 0
    /\ given = {} /\ stranded = {} /\ written = [p \in Cards |-> "unset"]

There(p) == card[p].at # "purged"

----------------------------------------------------------------------------
(* Tags.                                                                   *)

\* add_paper_tag, its first statement: the tag of that name, or a new one.
GetOrCreate(p, n) ==
    /\ adding = NoLink /\ There(p)
    /\ \/ \E t \in tags : t.name = n /\ adding' = [card |-> p, tag |-> t.id]
                          /\ UNCHANGED <<tags, minted>>
       \/ /\ minted.tags < MaxTags /\ \A t \in tags : t.name # n
          /\ minted' = [minted EXCEPT !.tags = @ + 1]
          /\ tags' = tags \cup {[id |-> minted'.tags, name |-> n]}
          /\ adding' = [card |-> p, tag |-> minted'.tags]
    /\ UNCHANGED <<card, links, removing, given, stranded, projecting, byHand>>

\* Mutant of Collectable: no collection of tags.
Collectable_Never(t) == FALSE

\* NOT EXISTS: nobody carries the tag.
Collectable(t) == \A l \in links : l[2] # t

\* The tag of a second statement that failed, or of a request dropped before it.
Strands(t) == stranded' = IF Collectable(t) THEN stranded \cup {t} ELSE stranded

\* Its second: the link, for which the tag and the paper must still be there.
\* It may fail, or never be reached; nothing takes the tag back then.
LinkTag ==
    /\ adding # NoLink
    /\ LET link == <<adding.card, adding.tag>>
       IN  \/ /\ There(adding.card) /\ \E t \in tags : t.id = adding.tag
              /\ links' = links \cup {link} /\ given' = given \cup {link}
              /\ stranded' = stranded \ {adding.tag}
           \/ Strands(adding.tag) /\ UNCHANGED <<links, given>>
    /\ adding' = NoLink
    /\ UNCHANGED <<card, tags, removing, projecting, minted, byHand>>

\* remove_paper_tag, its first statement: the link.
Unlink(p, t) ==
    /\ removing = 0 /\ There(p)
    /\ links' = links \ {<<p, t>>} /\ given' = given \ {<<p, t>>}
    /\ removing' = t
    /\ UNCHANGED <<card, tags, adding, stranded, projecting, minted, byHand>>

\* Mutant of Drops: the tag goes although it has been linked again.
Drops_Anyway(t) == tags' = {x \in tags : x.id # t} /\ links' = {l \in links : l[2] # t}

\* The DELETE of a tag nobody carries, in one statement.
Drops(t) ==
    /\ tags' = IF Collectable(t) THEN {x \in tags : x.id # t} ELSE tags
    /\ UNCHANGED links

\* Its second statement, which may fail, or never be reached, as well.
Collect ==
    /\ removing # 0
    /\ \/ Drops(removing) /\ UNCHANGED stranded
       \/ Strands(removing) /\ UNCHANGED <<tags, links>>
    /\ removing' = 0
    /\ UNCHANGED <<card, adding, given, projecting, minted, byHand>>

\* Mutant of RenameTag: the names of tags are not unique.
RenameTag_Unasked(t, n) ==
    /\ tags' = (tags \ {t}) \cup {[t EXCEPT !.name = n]}
    /\ UNCHANGED <<card, links, adding, removing, given, stranded, projecting, minted, byHand>>

\* The column is UNIQUE: a name somebody has is refused.  The names below
\* the old one stay as they are.
RenameTag(t, n) ==
    /\ \A u \in tags \ {t} : u.name # n
    /\ tags' = (tags \ {t}) \cup {[t EXCEPT !.name = n]}
    /\ UNCHANGED <<card, links, adding, removing, given, stranded, projecting, minted, byHand>>

\* The links of a deleted tag go with it.
DeleteTag(t) ==
    /\ tags' = tags \ {t}
    /\ links' = {l \in links : l[2] # t.id} /\ given' = {l \in given : l[2] # t.id}
    /\ UNCHANGED <<card, adding, removing, stranded, projecting, minted, byHand>>

----------------------------------------------------------------------------
(* Projects.                                                               *)

CreateProject(n) ==
    /\ minted.projects < MaxProjects /\ \A x \in projects : x.name # n
    /\ minted' = [minted EXCEPT !.projects = @ + 1]
    /\ projects' = projects \cup {[id |-> minted'.projects, name |-> n]}
    /\ UNCHANGED <<card, tagging, members, byHand>>

\* A blank name keeps the old one; another project's is refused.
UpdateProject(x, n) ==
    /\ \A y \in projects \ {x} : y.name # n
    /\ projects' = (projects \ {x}) \cup {[x EXCEPT !.name = n]}
    /\ UNCHANGED <<card, tagging, members, minted, byHand>>

DeleteProject(x) ==
    /\ projects' = projects \ {x} /\ members' = {m \in members : m[2] # x.id}
    /\ UNCHANGED <<card, tagging, minted, byHand>>

AddMember(p, x) ==
    /\ There(p) /\ members' = members \cup {<<p, x.id>>}
    /\ UNCHANGED <<card, tagging, projects, minted, byHand>>

RemoveMember(m) ==
    /\ members' = members \ {m}
    /\ UNCHANGED <<card, tagging, projects, minted, byHand>>

----------------------------------------------------------------------------
(* The paper's row.                                                        *)

Change == changes < MaxChanges /\ changes' = changes + 1

\* set_paper_name, set_paper_starred.
WriteByHand(p, v) ==
    /\ There(p) /\ v # card[p].byHand /\ Change
    /\ card' = [card EXCEPT ![p].byHand = v] /\ written' = [written EXCEPT ![p] = v]
    /\ UNCHANGED <<tagging, projecting, minted, refreshing>>

\* A refresh or identify reads the row, and asks the network.
ReadRow(p) ==
    /\ refreshing = NoLink /\ There(p) /\ Change
    /\ refreshing' = [card |-> p, byHand |-> card[p].byHand]
    /\ UNCHANGED <<card, tagging, projecting, minted, written>>

\* Mutant of UpdatePaper: every column is written back.
UpdatePaper_AllColumns ==
    /\ refreshing # NoLink
    /\ card' = [card EXCEPT ![refreshing.card].byHand = refreshing.byHand]
    /\ refreshing' = NoLink
    /\ UNCHANGED <<tagging, projecting, minted, changes, written>>

\* update_paper leaves starred and name alone.  (What it writes: see Refile.)
UpdatePaper ==
    /\ refreshing # NoLink
    /\ refreshing' = NoLink
    /\ UNCHANGED <<card, tagging, projecting, minted, changes, written>>

TrashCard(p) ==
    /\ card[p].at = "live" /\ Change
    /\ card' = [card EXCEPT ![p].at = "trashed"]
    /\ UNCHANGED <<tagging, projecting, minted, refreshing, written>>

RestoreCard(p) ==
    /\ card[p].at = "trashed"
    /\ card' = [card EXCEPT ![p].at = "live"]
    /\ UNCHANGED <<tagging, projecting, minted, byHand>>

\* delete_row: the links and memberships of the paper go with it.
DeleteCard(p) ==
    /\ card[p].at = "trashed"
    /\ card' = [card EXCEPT ![p].at = "purged"]
    /\ links' = {l \in links : l[1] # p} /\ given' = {l \in given : l[1] # p}
    /\ members' = {m \in members : m[1] # p}
    /\ stranded' = stranded \cup {l[2] : l \in links \ links'}
    /\ UNCHANGED <<tags, adding, removing, projects, minted, byHand>>

ShelfNext ==
    \/ \E p \in Cards :
         \/ \E n \in TagNames : GetOrCreate(p, n)
         \/ \E t \in TagIds : Unlink(p, t)
         \/ \E x \in projects : AddMember(p, x)
         \/ \E v \in ByHand : WriteByHand(p, v)
         \/ ReadRow(p) \/ TrashCard(p) \/ RestoreCard(p) \/ DeleteCard(p)
    \/ LinkTag \/ Collect \/ UpdatePaper
    \/ \E t \in tags : DeleteTag(t) \/ \E n \in TagNames : RenameTag(t, n)
    \/ \E x \in projects : DeleteProject(x) \/ \E n \in ProjectNames : UpdateProject(x, n)
    \/ \E n \in ProjectNames : CreateProject(n)
    \/ \E m \in members : RemoveMember(m)

ShelfSpec == ShelfInit /\ [][ShelfNext]_shelfVars

----------------------------------------------------------------------------
(* The lists.                                                              *)

Live == {p \in Cards : card[p].at = "live"}

Below(n) == {n} \cup {c \in TagNames : <<c, n>> \in Child}

TagsNamed(names) == {t.id : t \in {x \in tags : x.name \in names}}

\* push_paper_filters under list_papers: a tag with what is below it, a project.
ListedByTag(n) == {p \in Live : \E l \in links : l[1] = p /\ l[2] \in TagsNamed(Below(n))}
ListedByProject(x) == {p \in Live : <<p, x.id>> \in members}

\* list_tags_with_counts
TagCount(t) == Cardinality({l[1] : l \in {m \in links : m[2] \in TagsNamed(Below(t.name))}})

\* Mutant of ProjectCount: the memberships are counted.
ProjectCount_Memberships(x) == Cardinality({m \in members : m[2] = x.id})

\* list_projects
ProjectCount(x) == Cardinality({m \in members : m[2] = x.id /\ m[1] \in Live})

----------------------------------------------------------------------------
(* Properties.                                                             *)

\* A tag, name or star somebody was told is on a paper is there until somebody
\* takes it off: a collection, a rename or a refresh of the same moment, or a
\* project's end, leaves it alone.
AnswersHold ==
    /\ given \subseteq links
    /\ \A p \in Cards : There(p) => card[p].byHand = written[p]

\* A tag nobody carries is about to be linked or collected; or its paper was
\* purged under it; or the second statement of the request that created or
\* unlinked it failed or was never reached: the two are no transaction.
TagsAreUsed ==
    \A t \in tags :
        \/ \E l \in links : l[2] = t.id
        \/ t.id \in {adding.tag, removing} \cup stranded

\* The number beside a project is the number of papers it lists; beside a tag it
\* is too, children included, while none of the tagged papers is in the trash.
CountsMatch ==
    /\ \A x \in projects : ProjectCount(x) = Cardinality(ListedByProject(x))
    /\ \A t \in tags : (\A l \in links : l[1] \in Live)
                        => TagCount(t) = Cardinality(ListedByTag(t.name))

\* Answers, collections and counts agree with the tables.
ShelfHolds == AnswersHold /\ TagsAreUsed /\ CountsMatch

=============================================================================
