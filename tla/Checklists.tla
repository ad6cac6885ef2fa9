----------------------------- MODULE Checklists -----------------------------
(***************************************************************************)
(* One checklist - the template that runs are started from - and the       *)
(* requests that work on it: services/checklist_service.py, and the part   *)
(* of start_run (services/checklist_run_service.py) that reads it.         *)
(*                                                                         *)
(* A save replaces the whole tree of sections and items: one DELETE of all *)
(* nodes, then INSERTs.  The DELETE removes the nodes that were committed  *)
(* when it began.  Those which another save commits afterwards it does not *)
(* see, not even if it has to wait for that save to end.  The columns of   *)
(* the row are written as UnitOfWork says.                                 *)
(*                                                                         *)
(* The nodes of one save stay together, so a tree is a name for the nodes  *)
(* of one save.  Left out: titles, the insides of a tree, audit rows.      *)
(***************************************************************************)
EXTENDS UnitOfWork, Naturals, FiniteSets

CONSTANTS
    Editors,        \* those who may edit: owners and superusers (_is_owner)
    Admins,         \* the superusers among them
    Trees,          \* saves of a tree of items, each made once
    Visits,         \* slots for requests under way at the same time
    MaxRuns         \* bound: runs that are started

ASSUME ChecklistAssumption ==
    /\ Admins \subseteq Editors
    /\ IsFiniteSet(Trees)
    /\ IsFiniteSet(Visits) /\ Visits # {}
    /\ MaxRuns \in Nat

VARIABLES
    checklist,  \* the row of checklists
    standing,   \* has it been inserted, has it been deleted?
    trees,      \* the trees whose nodes are in checklist_items
    visit,      \* what each request is doing
    made,       \* the trees that some save has been made with
    begun       \* history: runs that were started

clvars == <<checklist, standing, trees, visit, made, begun>>

-----------------------------------------------------------------------------
ChecklistStatus == {"draft", "published", "archived"}
ChecklistVisibility == {"org", "public"}

ChecklistRow ==
    [author_id : Editors, status : ChecklistStatus, visibility : ChecklistVisibility,
     runs_count : Nat]

NewChecklist(u, status, visibility) ==
    [author_id |-> u, status |-> status, visibility |-> visibility, runs_count |-> 0]

NoVisit == [stage |-> "idle"]

Go(r, next) ==
    /\ visit' = [visit EXCEPT ![r] = next]
    /\ UNCHANGED <<checklist, standing, trees, begun>>

(* Mutant: a save writes the columns it leaves alone as it has read them.  *)
SavingWhole(u, row, patch, seen, inserted) ==
    [stage |-> "saving", by |-> u, writes |-> WholeRow(row, patch), found |-> row,
     seen |-> seen, inserted |-> inserted]

(* A save that has been flushed: the columns that differ from the row it   *)
(* has read, the nodes its DELETE has found, and the tree it has inserted; *)
(* and, for the properties, whose it is and what it has read in the        *)
(* columns it writes.                                                      *)
Saving(u, row, patch, seen, inserted) ==
    LET writes == Net(row, patch)
    IN  [stage |-> "saving", by |-> u, writes |-> writes,
         found |-> [c \in DOMAIN writes |-> row[c]],
         seen |-> seen, inserted |-> inserted]

(* Mutant: creation does not ask who may make a checklist public.          *)
CreateChecklistUnasked(u, status, visibility, new) ==
    /\ standing = "absent"
    /\ standing' = "live"
    /\ checklist' = NewChecklist(u, status, visibility)
    /\ trees' = new
    /\ made' = made \cup new
    /\ UNCHANGED <<visit, begun>>

(* `create_checklist`, with a tree or an empty one.                        *)
CreateChecklist(u, status, visibility, new) ==
    /\ standing = "absent"
    /\ visibility = "public" => u \in Admins
    /\ standing' = "live"
    /\ checklist' = NewChecklist(u, status, visibility)
    /\ trees' = new
    /\ made' = made \cup new
    /\ UNCHANGED <<visit, begun>>

(* `get_with_items`: the row.                                              *)
LoadChecklist(r) ==
    /\ visit[r] = NoVisit
    /\ standing = "live"
    /\ Go(r, [stage |-> "loaded", row |-> checklist])
    /\ UNCHANGED made

MaySetVisibility(u, seen, patch) ==
    "visibility" \in DOMAIN patch =>
        (patch.visibility = "public" /\ seen.visibility # "public" => u \in Admins)

(* `update_checklist`.  A request replaces the tree, by an empty one if it *)
(* likes, or leaves it alone.                                              *)
UpdateChecklist(r, u, patch, replace, tree) ==
    /\ visit[r].stage = "loaded"
    /\ MaySetVisibility(u, visit[r].row, patch)
    /\ tree # {} => replace
    /\ tree \cap made = {}
    /\ Go(r, Saving(u, visit[r].row, patch, IF replace THEN trees ELSE {}, tree))
    /\ made' = made \cup tree

(* `publish_checklist`, `archive_checklist`: from any status.              *)
SetStatus(r, u, status) ==
    /\ visit[r].stage = "loaded"
    /\ status \in {"published", "archived"}
    /\ Go(r, Saving(u, visit[r].row, [status |-> status], {}, {}))
    /\ UNCHANGED made

(* Somebody holds the row against a deletion: he has written it, or rows   *)
(* that refer to it.                                                       *)
Holds(v) ==
    \/ v.stage = "saving" /\ (v.writes # NoWrites \/ v.seen # {} \/ v.inserted # {})
    \/ v.stage = "starting"

(* `delete_checklist`, with its commit; the cascade takes the nodes along, *)
(* and runs forget where they came from.                                   *)
DeleteChecklist(r) ==
    /\ visit[r].stage = "loaded"
    /\ standing = "live"
    /\ \A s \in Visits : ~Holds(visit[s])
    /\ standing' = "deleted"
    /\ trees' = {}
    /\ visit' = [visit EXCEPT ![r] = NoVisit]
    /\ UNCHANGED <<checklist, made, begun>>

(* The save commits.  It fails if the checklist has been deleted.          *)
CommitSave(r) ==
    /\ visit[r].stage = "saving"
    /\ standing = "live"
    /\ checklist' = Apply(checklist, visit[r].writes)
    /\ trees' = (trees \ visit[r].seen) \cup visit[r].inserted
    /\ visit' = [visit EXCEPT ![r] = NoVisit]
    /\ UNCHANGED <<standing, made, begun>>

(* `start_run`: the items are read after the row, and may be of a later    *)
(* save.  Then the run and its answers are inserted ...                    *)
StartRun(r) ==
    /\ visit[r].stage = "loaded"
    /\ visit[r].row.status = "published"
    /\ trees # {}
    /\ standing = "live"
    /\ Go(r, [stage |-> "starting", row |-> visit[r].row])
    /\ UNCHANGED made

(* Mutant: the counter of the object that was read is increased.           *)
IncrementLoaded(r) ==
    /\ visit[r].stage = "starting"
    /\ checklist' = [checklist EXCEPT !.runs_count = visit[r].row.runs_count + 1]
    /\ begun' = begun + 1
    /\ visit' = [visit EXCEPT ![r] = NoVisit]
    /\ UNCHANGED <<standing, trees, made>>

(* ... and `increment_runs` counts it, in the UPDATE itself; commit.       *)
IncrementRuns(r) ==
    /\ visit[r].stage = "starting"
    /\ checklist' = [checklist EXCEPT !.runs_count = @ + 1]
    /\ begun' = begun + 1
    /\ visit' = [visit EXCEPT ![r] = NoVisit]
    /\ UNCHANGED <<standing, trees, made>>

Leave(r) ==
    /\ visit[r] # NoVisit
    /\ Go(r, NoVisit)
    /\ UNCHANGED made

-----------------------------------------------------------------------------
(* Reading.                                                                *)

(* A member of this organization or of another one, owner there or not.    *)
ChecklistReaders == [own : BOOLEAN, owner : BOOLEAN]

(* `get_checklist`.                                                        *)
Readable(reader) ==
    IF reader.own THEN checklist.status = "published" \/ reader.owner
    ELSE checklist.status = "published" /\ checklist.visibility = "public"

(* The statuses that `list_checklists` asks the repository for.            *)
StatusesFor(reader, filter) == IF reader.owner THEN filter ELSE {"published"}

(* Mutant: what is public is listed in every status that is asked for.     *)
ListedInAnyStatus(reader, filter) ==
    /\ checklist.status \in StatusesFor(reader, filter)
    /\ reader.own \/ checklist.visibility = "public"

(* `list_for_org`.                                                         *)
Listed(reader, filter) ==
    LET statuses == StatusesFor(reader, filter)
    IN  \/ reader.own /\ checklist.status \in statuses
        \/ /\ "published" \in statuses
           /\ checklist.visibility = "public" /\ checklist.status = "published"

(* No status, or one.                                                      *)
Filters == {ChecklistStatus} \cup {{status} : status \in ChecklistStatus}

-----------------------------------------------------------------------------
ClInit ==
    /\ checklist \in {NewChecklist(u, "draft", "org") : u \in Editors}
    /\ standing = "absent"
    /\ trees = {}
    /\ visit = [r \in Visits |-> NoVisit]
    /\ made = {}
    /\ begun = 0

SmallTrees == {{}} \cup {{t} : t \in Trees}

ChecklistPatches ==
    {NoWrites} \cup [{"status"} -> ChecklistStatus] \cup [{"visibility"} -> ChecklistVisibility]

(* How many runs there will be if all that are being started are.          *)
RunsUnderWay == Cardinality({r \in Visits : visit[r].stage = "starting"})

ClNext ==
    \/ \E u \in Editors, status \in ChecklistStatus, visibility \in ChecklistVisibility,
          new \in SmallTrees : CreateChecklist(u, status, visibility, new)
    \/ \E r \in Visits :
        \/ LoadChecklist(r) \/ DeleteChecklist(r) \/ CommitSave(r) \/ Leave(r)
        \/ \E u \in Editors, patch \in ChecklistPatches, replace \in BOOLEAN, tree \in SmallTrees :
            UpdateChecklist(r, u, patch, replace, tree)
        \/ \E u \in Editors, status \in ChecklistStatus : SetStatus(r, u, status)
        \/ begun + RunsUnderWay < MaxRuns /\ StartRun(r)
        \/ IncrementRuns(r)

ClSpec == ClInit /\ [][ClNext]_clvars

-----------------------------------------------------------------------------
ClTypeOK ==
    /\ checklist \in ChecklistRow
    /\ standing \in {"absent", "live", "deleted"}
    /\ trees \subseteq made /\ made \subseteq Trees
    /\ \A r \in Visits : visit[r].stage \in {"idle", "loaded", "saving", "starting"}
    /\ begun \in 0..MaxRuns

(* Saves that overlap leave their trees side by side, each at most one.    *)
TreesArePerRequest == Cardinality(trees) <= Cardinality(Visits)

(* A save replaces the whole tree: whatever is saved, there is one tree at *)
(* most ("Заменяем всё дерево: удаляем старые узлы, вставляем новые",      *)
(* update_checklist).  Saves that overlap break it.                        *)
OneTree == \A s, t \in trees : s = t

(* The save a step makes visible, if it does.                              *)
CommitsSave(r) == visit[r].stage = "saving" /\ visit'[r] = NoVisit

(* A new checklist is public only if its author is a superuser             *)
(* (`_ensure_public_allowed`).  Afterwards its visibility changes only     *)
(* with the commit of a save that has read the other value, and becomes    *)
(* public only with a superuser's (`update_checklist`): a save that        *)
(* repeats what it has read undoes nothing that was committed meanwhile.   *)
ChecklistVisibilityGuarded ==
    /\ standing = "absent" /\ standing' = "live" /\ checklist'.visibility = "public"
           => checklist'.author_id \in Admins
    /\ standing = "live" /\ checklist'.visibility # checklist.visibility
           => \E r \in Visits :
                 /\ CommitsSave(r)
                 /\ visit[r].found.visibility # checklist'.visibility
                 /\ checklist'.visibility = "public" => visit[r].by \in Admins

ChecklistPublicBySuperuser == [][ChecklistVisibilityGuarded]_clvars

(* Every run that was started is counted, whatever is saved or started     *)
(* meanwhile, and the count never falls.                                   *)
RunsAreCounted == checklist.runs_count = begun

(* What a list offers somebody, he can open.                               *)
ListedIsReadable ==
    \A reader \in ChecklistReaders, filter \in Filters :
        Listed(reader, filter) => Readable(reader)
=============================================================================
