------------------------------ MODULE Commands ------------------------------
(***************************************************************************)
(* The commands of main.rs that destroy or overwrite, beside a server that *)
(* serves: delete, restore, purge, `annotation clear` and identify.  A      *)
(* command selects its papers, asks, and then does what it was told to the *)
(* papers as it had read them; the server trashes, restores, moves, adds   *)
(* and annotates papers meanwhile.  A restored paper that moves is one step *)
(* here, many in module Refile.                                            *)
(***************************************************************************)
EXTENDS Naturals, Sequences, FiniteSets

CONSTANTS
    Ids,           \* ids of papers
    Selectors,     \* [selector |-> the ids it begins]; an id selects itself
    Paths,         \* places of files in the library
    Lists,         \* what the sources answer to one title: sequences of matches
    MaxMeddling,   \* bound: what the server does
    MaxSnags,      \* bound: requests of the command that fail, and interruptions
    MaxCommands    \* bound: commands run

ASSUME CommandsAssumption ==
    /\ "none" \notin Ids \cup Paths
    /\ \A p \in Ids : Selectors[p] = {p}
    /\ {MaxMeddling, MaxSnags, MaxCommands} \subseteq Nat

VARIABLES
    row,       \* papers: at, path, notes (its annotations), match (its metadata)
    disk,      \* the library: whose file is at a path
    cmd,       \* the command that runs
    listed,    \* the candidates the last `identify --title` printed
    budget,
    history    \* of the command that runs, and, in stuck, of all before

commandsVars == <<row, disk, cmd, listed, budget, history>>

NoCommand == [op |-> "none", at |-> "idle", targets |-> {}, left |-> {}, cur |-> "none",
              failed |-> {}, match |-> "none"]

\* agreed: what the user said yes to; harmed: what was destroyed; restored: since they
\* were read; robbed: who lost a file, to whose purge; snags: failures counted; stuck:
\* whose file a purge left behind; meant: the candidate that had the number in the list
\* printed, if the list is as it was.
Nothing == [agreed |-> {}, harmed |-> {}, restored |-> {}, robbed |-> {}, snags |-> 0,
            stuck |-> {}, meant |-> "none"]

CommandsInit ==
    /\ \E p \in Ids, path \in Paths :
         /\ row = [q \in Ids |->
                      [at |-> IF q = p THEN "live" ELSE "absent",
                       path |-> IF q = p THEN path ELSE "none",
                       notes |-> IF q = p THEN 1 ELSE 0, match |-> "old"]]
         /\ disk = [x \in Paths |-> IF x = path THEN p ELSE "none"]
    /\ cmd = NoCommand /\ listed = <<>> /\ history = Nothing
    /\ budget = [meddling |-> 0, snags |-> 0, commands |-> 0]

OnRecord == {p \in Ids : row[p].at \in {"live", "trashed"}}
Trashed == {p \in Ids : row[p].at = "trashed"}

Meddle == budget.meddling < MaxMeddling /\ budget' = [budget EXCEPT !.meddling = @ + 1]
Snag == budget.snags < MaxSnags /\ budget' = [budget EXCEPT !.snags = @ + 1]

----------------------------------------------------------------------------
(* Selecting and asking.                                                   *)

\* find_one: the id, or the only one that begins so; the empty set is the error.
FindOne(s) ==
    IF s \in OnRecord THEN {s}
    ELSE LET found == Selectors[s] \cap OnRecord IN IF Cardinality(found) = 1 THEN found ELSE {}

\* Mutant of Accepts: any paper can be purged.
Accepts_AnyPurge(op, p) ==
    CASE op \in {"delete", "identify"} -> row[p].at = "live"
      [] op = "restore" -> row[p].at = "trashed"
      [] op = "purge" -> TRUE
      [] op = "clear" -> row[p].notes > 0

\* What a command says no to before it asks.
Accepts(op, p) ==
    CASE op \in {"delete", "identify"} -> row[p].at = "live"
      [] op \in {"restore", "purge"} -> row[p].at = "trashed"
      [] op = "clear" -> row[p].notes > 0

Snapshot(ids) == {[id |-> p, path |-> row[p].path] : p \in ids}

\* The command on the papers `ids`; --yes, and restore, do not ask.
Starts(op, ids, yes, match, meant) ==
    /\ cmd.at = "idle" /\ budget.commands < MaxCommands
    /\ cmd' = [NoCommand EXCEPT
                 !.op = op, !.targets = Snapshot(ids), !.left = Snapshot(ids), !.match = match,
                 !.at = IF yes \/ op = "restore" THEN "act" ELSE "ask"]
    /\ budget' = [budget EXCEPT !.commands = @ + 1]
    /\ history' = [Nothing EXCEPT !.agreed = IF yes THEN ids ELSE {}, !.meant = meant,
                                  !.stuck = history.stuck]
    /\ UNCHANGED <<row, disk>>

RunOne(op, s, yes) ==
    /\ op # "identify" /\ FindOne(s) # {} /\ \A p \in FindOne(s) : Accepts(op, p)
    /\ Starts(op, FindOne(s), yes, "none", "none")
    /\ UNCHANGED listed

\* Mutant of InTrash: every paper there is.
InTrash_All == OnRecord

\* trashed_papers.
InTrash == Trashed

RunPurgeAll(yes) ==
    /\ InTrash # {} /\ Starts("purge", InTrash, yes, "none", "none")
    /\ UNCHANGED listed

\* `identify --title` without --pick prints the candidates.
ListCandidates(list) ==
    /\ cmd.at = "idle" /\ list # <<>> /\ listed' = list
    /\ UNCHANGED <<row, disk, cmd, budget, history>>

\* Mutant of Pick: counted from nought.
Pick_FromNought(list, n) == IF n + 1 \in DOMAIN list THEN list[n + 1] ELSE "none"

\* nth(n - 1), of a list counted from one; a number that is not of it is refused.
Pick(list, n) == IF n \in DOMAIN list THEN list[n] ELSE "none"

\* The candidates are searched again before one is picked.
RunIdentify(s, n, list, yes) ==
    /\ FindOne(s) # {} /\ \A p \in FindOne(s) : Accepts("identify", p)
    /\ Pick(list, n) # "none"
    /\ Starts("identify", FindOne(s), yes, Pick(list, n),
              IF listed = list /\ n \in DOMAIN listed THEN listed[n] ELSE "none")
    /\ UNCHANGED listed

\* Mutant of Affirmed: an empty line is a yes.
Affirmed_Empty(line) == line # "no"

\* confirm: nothing but y or yes, in any case.
Affirmed(line) == line \in {"y", "yes"}

\* The line typed; the empty one is also the end of the input.
TypeLine(line) ==
    /\ cmd.at = "ask"
    /\ IF Affirmed(line) THEN cmd' = [cmd EXCEPT !.at = "act"] ELSE cmd' = NoCommand
    /\ history' = [history EXCEPT !.agreed =
                     IF line \in {"y", "yes"} THEN {t.id : t \in cmd.targets} ELSE {}]
    /\ UNCHANGED <<row, disk, listed, budget>>

----------------------------------------------------------------------------
(* Doing.                                                                  *)

Harms(ids) == history' = [history EXCEPT !.harmed = @ \cup ids]

\* soft_delete, restore and delete_all look at the row again.
SoftDelete(p) == [row EXCEPT ![p].at = IF @ = "live" THEN "trashed" ELSE @]
Restored(p) == [row EXCEPT ![p].at = IF @ = "trashed" THEN "live" ELSE @]
Cleared(p) == [row EXCEPT ![p].notes = 0]

\* apply_match does not: whether the paper is in the trash it asks of the paper read.
Matched(p) == [row EXCEPT ![p].match = IF p \in OnRecord THEN cmd.match ELSE @]

ActOnce(t) ==
    /\ cmd.at = "act" /\ t \in cmd.left
    /\ \/ cmd.op = "delete" /\ row' = SoftDelete(t.id) /\ Harms({t.id})
       \/ cmd.op = "restore" /\ row' = Restored(t.id) /\ UNCHANGED history
       \/ cmd.op = "clear" /\ row' = Cleared(t.id) /\ Harms({t.id})
       \/ cmd.op = "identify" /\ row' = Matched(t.id) /\ Harms({t.id})
    /\ cmd' = [cmd EXCEPT !.left = {}, !.at = "report"]
    /\ UNCHANGED <<disk, listed, budget>>

\* purge_paper: the file at the path that was read, whosever it is by now.  One that
\* is not there is no error, nor is one that cannot be removed.
PurgeTheFile(t) ==
    /\ cmd.at = "act" /\ cmd.op = "purge" /\ t \in cmd.left
    /\ cmd' = [cmd EXCEPT !.at = "row", !.cur = t.id, !.left = @ \ {t}]
    /\ LET owner == disk[t.path]
           robbed == IF owner \in Ids /\ (owner # t.id \/ row[owner].at = "live")
                     THEN {[owner |-> owner, by |-> t.id]} ELSE {}
       IN \/ /\ disk' = [disk EXCEPT ![t.path] = "none"]
             /\ history' = [history EXCEPT !.harmed = @ \cup {t.id}, !.robbed = @ \cup robbed]
             /\ UNCHANGED budget
          \/ /\ owner # "none" /\ Snag
             /\ history' = [history EXCEPT !.stuck = @ \cup {owner}]
             /\ UNCHANGED disk
    /\ UNCHANGED <<row, listed>>

\* Mutant of Onward: the first failure is the last paper.
Onward_StopsAtFailure(c) ==
    [c EXCEPT !.cur = "none", !.at = IF c.left = {} \/ c.failed # {} THEN "report" ELSE "act"]

\* One paper's failure does not keep the others.
Onward(c) == [c EXCEPT !.cur = "none", !.at = IF c.left = {} THEN "report" ELSE "act"]

\* The thread and the record of code, any of which may fail; the row, and what refers
\* to it.
PurgeTheRow ==
    /\ cmd.at = "row"
    /\ \/ /\ row' = [row EXCEPT ![cmd.cur].at = "purged", ![cmd.cur].notes = 0]
          /\ cmd' = Onward(cmd) /\ UNCHANGED budget
          /\ history' = [history EXCEPT !.harmed = @ \cup {cmd.cur},
                                        !.stuck = @ \cup ({cmd.cur} \cap history.restored)]
       \/ /\ Snag /\ UNCHANGED row
          /\ cmd' = Onward([cmd EXCEPT !.failed = @ \cup {cmd.cur}])
          /\ history' = [history EXCEPT !.snags = @ + 1]
    /\ UNCHANGED <<disk, listed>>

\* "purged n paper(s)", and how many could not be.
Report ==
    /\ cmd.at = "report" /\ cmd' = NoCommand
    /\ UNCHANGED <<row, disk, listed, budget, history>>

Interrupt ==
    /\ cmd.at # "idle" /\ Snag /\ cmd' = NoCommand
    /\ UNCHANGED <<row, disk, listed, history>>

----------------------------------------------------------------------------
(* The server meanwhile.                                                   *)

TrashIt(p) ==
    /\ row[p].at = "live" /\ Meddle /\ row' = [row EXCEPT ![p].at = "trashed"]
    /\ UNCHANGED <<disk, cmd, listed, history>>

RestoreIt(p) ==
    /\ row[p].at = "trashed" /\ Meddle /\ row' = [row EXCEPT ![p].at = "live"]
    /\ history' = [history EXCEPT !.restored = @ \cup {p}]
    /\ UNCHANGED <<disk, cmd, listed>>

\* Mutant of FreeFor: the keys of trashed papers are free.
FreeFor_OverTrash(p, x) ==
    disk[x] = "none" /\ \A q \in OnRecord \ (Trashed \cup {p}) : row[q].path # x

\* cite_keys_with_base, and the exclusive copy: no other paper has the key, whether
\* live or in the trash, and no file the place.
FreeFor(p, x) == disk[x] = "none" /\ \A q \in OnRecord \ {p} : row[q].path # x

\* A paper is added, or one that is there moves.
Place(p, x) ==
    /\ FreeFor(p, x) /\ Meddle
    /\ \/ /\ row[p].at = "absent"
          /\ row' = [row EXCEPT ![p].at = "live", ![p].path = x]
          /\ disk' = [disk EXCEPT ![x] = p]
       \/ /\ row[p].at = "live" /\ disk[row[p].path] = p
          /\ row' = [row EXCEPT ![p].path = x]
          /\ disk' = [disk EXCEPT ![x] = p, ![row[p].path] = "none"]
    /\ UNCHANGED <<cmd, listed, history>>

Annotate(p) ==
    /\ row[p].at = "live" /\ row[p].notes = 0 /\ Meddle
    /\ row' = [row EXCEPT ![p].notes = 1]
    /\ UNCHANGED <<disk, cmd, listed, history>>

CommandsNext ==
    \/ \E s \in DOMAIN Selectors, yes \in BOOLEAN :
         \/ \E op \in {"delete", "restore", "purge", "clear"} : RunOne(op, s, yes)
         \/ \E list \in Lists, n \in 0 .. 2 : RunIdentify(s, n, list, yes)
    \/ \E yes \in BOOLEAN : RunPurgeAll(yes)
    \/ \E list \in Lists : ListCandidates(list)
    \/ \E line \in {"y", "yes", "no", ""} : TypeLine(line)
    \/ \E t \in cmd.left : ActOnce(t) \/ PurgeTheFile(t)
    \/ PurgeTheRow \/ Report \/ Interrupt
    \/ \E p \in Ids : TrashIt(p) \/ RestoreIt(p) \/ Annotate(p) \/ \E x \in Paths : Place(p, x)

CommandsSpec == CommandsInit /\ [][CommandsNext]_commandsVars

----------------------------------------------------------------------------
(* Properties.                                                             *)

CommandsTypeOK ==
    /\ row \in [Ids -> [at : {"absent", "live", "trashed", "purged"}, path : Paths \cup {"none"},
                        notes : 0 .. 1,
                        match : {"old"} \cup UNION {{l[n] : n \in DOMAIN l} : l \in Lists}]]
    /\ disk \in [Paths -> Ids \cup {"none"}]
    /\ cmd.left \subseteq cmd.targets /\ cmd.targets \subseteq [id : Ids, path : Paths]
    /\ cmd.failed \subseteq {t.id : t \in cmd.targets}
    /\ cmd.at = "idle" <=> cmd = NoCommand
    /\ history.harmed \cup history.agreed \subseteq Ids

\* Nothing is trashed, purged, cleared or identified anew without a yes, typed or
\* given as --yes, to this command.
Consented == history.harmed \subseteq history.agreed

\* A purge removes the file of no paper that was not in the trash when the purge
\* read it, except what comes of a target restored meanwhile: its own file, or that
\* of a paper which has taken its place.
RobsNoOne ==
    \A r \in history.robbed : r.by \in history.restored

\* A purge says what it did: when it reports, each paper it was to purge is gone
\* or counted among the failures, and a file that an earlier attempt has removed
\* is no failure.
Accounted ==
    cmd.at = "report" /\ cmd.op = "purge" =>
      /\ \A t \in cmd.targets : t.id \in cmd.failed \/ row[t.id].at = "purged"
      /\ Cardinality(cmd.failed) <= history.snags

\* A purge leaves no file of a paper that is gone, except one that could not be
\* removed, and that of a paper which was restored meanwhile and has moved.
LeavesNothing ==
    \A x \in Paths : disk[x] # "none" /\ row[disk[x]].at = "purged" => disk[x] \in history.stuck

\* identify gives the paper the candidate that had the number in the list printed, if
\* the sources still answer the same.
AsListed ==
    cmd.op = "identify" /\ history.meant # "none" => cmd.match = history.meant

\* The commands do what was agreed to, and say so.
CommandsHold == Consented /\ RobsNoOne /\ Accounted /\ LeavesNothing /\ AsListed
=============================================================================
