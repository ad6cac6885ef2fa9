---------------------------- MODULE ChecklistRun ----------------------------
(***************************************************************************)
(* One checklist run ("проверка") and the requests that work on it:        *)
(* services/checklist_run_service.py behind                                *)
(* api/v1/endpoints/checklist_runs.py.                                     *)
(*                                                                         *)
(* The database holds one row of checklist_runs, its answer rows and its   *)
(* assignee links.  A request is one transaction in three steps:           *)
(*                                                                         *)
(*   Load            reads the run's row;                                  *)
(*   Update, ...     reads the answers and assignees (separate SELECTs, so *)
(*                   possibly of a later state than the row), checks its   *)
(*                   guards against what it has read, and assigns          *)
(*                   attributes;                                           *)
(*   Commit          flushes what changed against what was LOADED and      *)
(*                   makes it visible.                                     *)
(*                                                                         *)
(* Any step of another request may come in between.  A handler that        *)
(* notifies people commits with its first notification and delivers the    *)
(* others one by one, each in a transaction of its own.                    *)
(*                                                                         *)
(* Left out: titles, notes and comments (no guard reads them), audit rows, *)
(* and the organization check (all users here are active members of the    *)
(* run's organization with a live subscription).                           *)
(***************************************************************************)
EXTENDS UnitOfWork, Naturals, FiniteSets

CONSTANTS
    Users,          \* active members of the run's organization
    Owners,         \* those who are ORG_OWNER or superuser (_is_owner)
    Items,          \* the answers of the run, one per item of the template
    GradableItems,  \* those of answer type COMPLIANCE
    AnswerValues,   \* values an update may carry
    DueTimes,       \* deadlines a request may carry
    MaxTime,        \* bound: the clock stops here
    Delay,          \* bound: ticks between two clock readings of a handler
    Requests,       \* slots for requests under way at the same time
    Null            \* None

(* The clock starts at 1, so that 0 can stand for "no time".               *)
NoTime == 0
Times == 0..MaxTime

ASSUME RunAssumption ==
    /\ Owners \subseteq Users
    /\ GradableItems \subseteq Items
    /\ IsFiniteSet(Items)
    /\ MaxTime \in Nat \ {0}
    /\ Delay \in Nat
    /\ DueTimes \subseteq Nat
    /\ Null \notin Users
    /\ Null \notin {"passed", "has_issues"}

VARIABLES
    life,       \* has the run's row been inserted, has it been deleted?
    row,        \* the columns of checklist_runs
    values,     \* checklist_run_answers.value
    correctors, \* checklist_run_answers.corrected_by_id
    assignees,  \* checklist_run_assignees
    tx,         \* what each request is doing
    now         \* utcnow()

db == <<life, row, values, correctors, assignees>>
vars == <<db, tx, now>>

-----------------------------------------------------------------------------
(* The rows.                                                               *)

RunStatus == {"in_progress", "completed"}
RunResult == {"passed", "has_issues"}

(* The columns and what each may hold.                                     *)
ColumnType ==
    [status                |-> RunStatus,
     result                |-> RunResult \cup {Null},
     gradable_count        |-> Nat,
     compliant_count       |-> Nat,
     non_compliant_count   |-> Nat,
     not_applicable_count  |-> Nat,
     completed_at          |-> Nat,
     due_at                |-> Nat,
     deadline_reminded_at  |-> Nat,
     corrected_at          |-> Nat,
     corrected_by_id       |-> Users \cup {Null},
     conducted_by_id       |-> Users \cup {Null}]

Columns == DOMAIN ColumnType

IsRow(x) == DOMAIN x = Columns /\ \A c \in Columns : x[c] \in ColumnType[c]

(* The row `start_run` inserts.                                            *)
NewRow(creator, due) ==
    [status                |-> "in_progress",
     result                |-> Null,
     gradable_count        |-> 0,
     compliant_count       |-> 0,
     non_compliant_count   |-> 0,
     not_applicable_count  |-> 0,
     completed_at          |-> NoTime,
     due_at                |-> due,
     deadline_reminded_at  |-> NoTime,
     corrected_at          |-> NoTime,
     corrected_by_id       |-> Null,
     conducted_by_id       |-> creator]

(* Stands for the row while there is none.                                 *)
NoRow == NewRow(Null, NoTime)

(* Items nobody has answered, or nobody has corrected.                     *)
Unanswered == [i \in Items |-> Null]

-----------------------------------------------------------------------------
(* Grading.                                                                *)

Graded(vals, verdict) == Cardinality({i \in GradableItems : vals[i] = verdict})

(* The counters of the run, over the COMPLIANCE items only.                *)
Counts(vals) ==
    [gradable_count       |-> Cardinality(GradableItems),
     compliant_count      |-> Graded(vals, "compliant"),
     non_compliant_count  |-> Graded(vals, "non_compliant"),
     not_applicable_count |-> Graded(vals, "not_applicable")]

Result(vals) == IF Graded(vals, "non_compliant") > 0 THEN "has_issues" ELSE "passed"

(* Mutant: one tick of grace after the deadline.                           *)
OverdueWithGrace(seen) ==
    /\ seen.status = "in_progress"
    /\ seen.due_at # NoTime
    /\ seen.due_at + 1 < now

(* The deadline is in the past; one that is exactly now is still met.      *)
Overdue(seen) ==
    /\ seen.status = "in_progress"
    /\ seen.due_at # NoTime
    /\ seen.due_at < now

-----------------------------------------------------------------------------
(* Requests.                                                               *)

Idle == [stage |-> "idle"]
Loaded(seen) == [stage |-> "loaded", row |-> seen]

(* Mutant: somebody is always left to notify.                              *)
AlwaysNotifying(left) == [stage |-> "notifying", notices |-> left]

(* After a commit the handler is done, or has people left to notify.       *)
AfterCommit(left) ==
    IF left = {} THEN Idle ELSE [stage |-> "notifying", notices |-> left]

NoticeKind == {"assigned", "unassigned", "deadline", "completed"}
Notice == [to : Users \cup {Null}, about : NoticeKind]

(* The notifications one call of _notify sends: none to nobody.            *)
Notices(people, kind) == [to : people, about : {kind}]

(* A handler that has made its assignments for its user.                   *)
Flushed(op, by, writes, vals, corrs, links, notices) ==
    [stage |-> "flushed", op |-> op, by |-> by, writes |-> writes, values |-> vals,
     correctors |-> corrs, links |-> links, notices |-> notices]

(* The assignments that leave the answers and the assignees alone.         *)
RowOnly(op, by, writes, notices) ==
    Flushed(op, by, writes, NoWrites, NoWrites, NoLinks, notices)

(* Creator and assignees: those a handler tells about the run.             *)
Audience(seen) == {seen.conducted_by_id} \cup assignees

CanEdit(u, seen) == u \in Audience(seen) \cup Owners

CanManage(u, seen) == u = seen.conducted_by_id \/ u \in Owners

(* The transaction a handler leaves behind when it has made assignments,   *)
(* the last of them at `time`.                                             *)
AssignAt(r, pending, time) ==
    /\ tx' = [tx EXCEPT ![r] = pending]
    /\ now' = time
    /\ UNCHANGED db

Assign(r, pending) == AssignAt(r, pending, now)

(* What a handler that has read the clock may find on reading it again.    *)
Moments == {t \in now..(now + Delay) : t <= MaxTime}

(* The transaction commits with the first notification that is stored, in  *)
(* any order of the recipients; without recipients it just commits.        *)
CommitWith(r, notices) ==
    \E left \in IF notices = {} THEN {{}} ELSE {notices \ {n} : n \in notices} :
        tx' = [tx EXCEPT ![r] = AfterCommit(left)]

-----------------------------------------------------------------------------
(* Starting a run.                                                         *)

(* `start_run`: insert the row, one answer per item of the template, and   *)
(* the assignees, the creator never among them.  Nobody else can see the   *)
(* run before the commit, so this is one step.                             *)
Start(r, u, team, due) ==
    /\ life = "absent"
    /\ tx[r] = Idle
    /\ Items # {}
    /\ life' = "live"
    /\ row' = NewRow(u, due)
    /\ values' = Unanswered
    /\ correctors' = Unanswered
    /\ assignees' = team \ {u}
    /\ CommitWith(r, Notices(team \ {u}, "assigned"))
    /\ UNCHANGED now

(* A handler reads the run's row.                                          *)
Load(r) ==
    /\ tx[r] = Idle
    /\ life = "live"
    /\ tx' = [tx EXCEPT ![r] = Loaded(row)]
    /\ UNCHANGED <<db, now>>

-----------------------------------------------------------------------------
(* The handlers, from the guards to the last assignment.                   *)

(* Mutant: the status is not looked at.                                    *)
UpdateAnytime(r, u, patch) ==
    /\ tx[r].stage = "loaded"
    /\ CanEdit(u, tx[r].row)
    /\ Assign(r, Flushed("update", u, Net(tx[r].row, Counts(Apply(values, patch))),
                         Net(values, patch), NoWrites, NoLinks, {}))

(* Mutant: every change is marked as a correction.                         *)
UpdateSigningAlways(r, u, patch) ==
    /\ tx[r].stage = "loaded"
    /\ tx[r].row.status = "in_progress"
    /\ CanEdit(u, tx[r].row)
    /\ Assign(r, Flushed("update", u, Net(tx[r].row, Counts(Apply(values, patch))),
                         Net(values, patch),
                         Net(correctors, [i \in Changed(values, patch) |-> u]),
                         NoLinks, {}))

(* Mutant: the first corrector of an answer stays.                         *)
UpdateKeepingCorrectors(r, u, patch) ==
    /\ tx[r].stage = "loaded"
    /\ LET seen == tx[r].row
           unsigned == {i \in Changed(values, patch) : correctors[i] = Null}
       IN  /\ seen.status = "in_progress"
           /\ CanEdit(u, seen)
           /\ Assign(r, Flushed("update", u,
                                Net(seen, Counts(Apply(values, patch))),
                                Net(values, patch),
                                IF seen.corrected_at # NoTime
                                  THEN [i \in unsigned |-> u]
                                  ELSE NoWrites,
                                NoLinks,
                                {}))

(* Mutant: a save withdraws the result until the next completion.          *)
UpdateWithdrawing(r, u, patch) ==
    /\ tx[r].stage = "loaded"
    /\ tx[r].row.status = "in_progress"
    /\ CanEdit(u, tx[r].row)
    /\ Assign(r, Flushed("update", u,
                         Net(tx[r].row, Then(Counts(Apply(values, patch)),
                                             [result |-> Null])),
                         Net(values, patch), NoWrites, NoLinks, {}))

(* `update_run`: save some answers and recount.  A change made after the   *)
(* run has been reopened is marked with its author.                        *)
Update(r, u, patch) ==
    /\ tx[r].stage = "loaded"
    /\ LET seen == tx[r].row
           correcting == seen.corrected_at # NoTime
           changed == Changed(values, patch)
           counted == Counts(Apply(values, patch))
       IN  /\ seen.status = "in_progress"
           /\ CanEdit(u, seen)
           /\ Assign(r, Flushed("update", u,
                                Net(seen, counted),
                                Net(values, patch),
                                IF correcting
                                  THEN Net(correctors, [i \in changed |-> u])
                                  ELSE NoWrites,
                                NoLinks,
                                {}))

(* Mutant: only the assignees are told.                                    *)
CompleteTellingAssignees(r, u) ==
    /\ tx[r].stage = "loaded"
    /\ tx[r].row.status = "in_progress"
    /\ CanEdit(u, tx[r].row)
    /\ ~Overdue(tx[r].row)
    /\ \E later \in Moments :
          AssignAt(r, RowOnly("complete", u,
                              Then(Counts(values), [result |-> Result(values),
                                                    status |-> "completed",
                                                    completed_at |-> later]),
                              Notices(assignees \ {u}, "completed")),
                   later)

(* `complete_run`: count, give the verdict, close.  The clock is read for  *)
(* `_is_overdue` and again for `completed_at`: the deadline may pass in    *)
(* between.                                                                *)
Complete(r, u) ==
    /\ tx[r].stage = "loaded"
    /\ LET seen == tx[r].row
           closing == [result |-> Result(values), status |-> "completed"]
       IN  /\ seen.status = "in_progress"
           /\ CanEdit(u, seen)
           /\ ~Overdue(seen)
           /\ \E later \in Moments :
                 AssignAt(r, RowOnly("complete", u,
                                     Then(Net(seen, Then(Counts(values), closing)),
                                          [completed_at |-> later]),
                                     Notices(Audience(seen) \ {u}, "completed")),
                          later)

(* Mutant: the run is not marked as corrected.                             *)
ReopenUnmarked(r, u) ==
    /\ tx[r].stage = "loaded"
    /\ tx[r].row.status = "completed"
    /\ CanEdit(u, tx[r].row)
    /\ Assign(r, RowOnly("reopen", u, [status |-> "in_progress"], {}))

(* `reopen_run`: back to work on a completed run; result and completion    *)
(* date stay, nobody is notified.                                          *)
Reopen(r, u) ==
    /\ tx[r].stage = "loaded"
    /\ LET seen == tx[r].row
           reopening == [status |-> "in_progress", corrected_by_id |-> u]
       IN  /\ seen.status = "completed"
           /\ CanEdit(u, seen)
           /\ Assign(r, RowOnly("reopen", u,
                                Then(Net(seen, reopening), [corrected_at |-> now]),
                                {}))

(* `set_deadline`: a new deadline, or none; past ones are accepted.        *)
SetDeadline(r, u, due) ==
    /\ tx[r].stage = "loaded"
    /\ LET seen == tx[r].row
           rescheduling == [due_at |-> due, deadline_reminded_at |-> NoTime]
       IN  /\ seen.status = "in_progress"
           /\ CanEdit(u, seen)
           /\ Assign(r, RowOnly("set_deadline", u,
                                Net(seen, rescheduling),
                                Notices(Audience(seen) \ {u}, "deadline")))

(* `set_assignees`: replace the team.                                      *)
SetAssignees(r, u, team) ==
    /\ tx[r].stage = "loaded"
    /\ LET seen == tx[r].row
           diff == NetLinks(assignees, team \ {seen.conducted_by_id})
       IN  /\ CanManage(u, seen)
           /\ seen.status = "in_progress"
           /\ Assign(r, Flushed("set_assignees", u, NoWrites, NoWrites, NoWrites, diff,
                                Notices(diff.added \ {u}, "assigned")
                                  \cup Notices(diff.removed \ {u}, "unassigned")))

(* `delete_run`: whatever the status.                                      *)
Delete(r, u) ==
    /\ tx[r].stage = "loaded"
    /\ CanManage(u, tx[r].row)
    /\ Assign(r, RowOnly("delete", u, NoWrites, {}))

-----------------------------------------------------------------------------
(* The end of a request.                                                   *)

(* The assignments become visible, together with the first notification.   *)
(* A request whose row is gone fails instead: the UPDATE matches no row,   *)
(* or the run is not found when it is read again for the response.         *)
MakeVisible(r) ==
    /\ tx[r].stage = "flushed"
    /\ life = "live"
    /\ LinksFit(assignees, tx[r].links)
    /\ row' = Apply(row, tx[r].writes)
    /\ values' = Apply(values, tx[r].values)
    /\ correctors' = Apply(correctors, tx[r].correctors)
    /\ assignees' = ApplyLinks(assignees, tx[r].links)
    /\ CommitWith(r, tx[r].notices)
    /\ UNCHANGED <<life, now>>

CommitDeadline(r) == MakeVisible(r) /\ tx[r].op = "set_deadline"

Commit(r) == MakeVisible(r) /\ tx[r].op \notin {"set_deadline", "delete"}

(* The row goes, its answers and links with it.                            *)
CommitDelete(r) ==
    /\ tx[r].stage = "flushed"
    /\ tx[r].op = "delete"
    /\ life' = "deleted"
    /\ row' = NoRow
    /\ values' = Unanswered
    /\ correctors' = Unanswered
    /\ assignees' = {}
    /\ tx' = [tx EXCEPT ![r] = Idle]
    /\ UNCHANGED now

(* The next notification is stored and published.                          *)
Notify(r) ==
    /\ tx[r].stage = "notifying"
    /\ CommitWith(r, tx[r].notices)
    /\ UNCHANGED <<db, now>>

(* A guard refuses, an input is invalid, a statement fails, the connection *)
(* or the process dies: what is not committed is rolled back, what is not  *)
(* delivered never will be.                                                *)
Abort(r) ==
    /\ tx[r].stage # "idle"
    /\ tx' = [tx EXCEPT ![r] = Idle]
    /\ UNCHANGED <<db, now>>

Tick ==
    /\ now < MaxTime
    /\ now' = now + 1
    /\ UNCHANGED <<db, tx>>

-----------------------------------------------------------------------------
Init ==
    /\ life = "absent"
    /\ row = NoRow
    /\ values = Unanswered
    /\ correctors = Unanswered
    /\ assignees = {}
    /\ tx = [r \in Requests |-> Idle]
    /\ now = 1

(* The answers an update may carry: those of any set of items.             *)
Patches == UNION {[S -> AnswerValues] : S \in SUBSET Items}

Handle(r, u) ==
    \/ \E patch \in Patches : Update(r, u, patch)
    \/ Complete(r, u)
    \/ Reopen(r, u)
    \/ \E due \in DueTimes : SetDeadline(r, u, due)
    \/ \E team \in SUBSET Users : SetAssignees(r, u, team)
    \/ Delete(r, u)

(* Everything but the commit of a new deadline, which DeadlineReminders    *)
(* has to tell apart.                                                      *)
OtherStep ==
    \/ \E r \in Requests :
        \/ \E u \in Users, team \in SUBSET Users, due \in DueTimes : Start(r, u, team, due)
        \/ Load(r)
        \/ \E u \in Users : Handle(r, u)
        \/ Commit(r)
        \/ CommitDelete(r)
        \/ Notify(r)
        \/ Abort(r)
    \/ Tick

Next == OtherStep \/ \E r \in Requests : CommitDeadline(r)

Spec == Init /\ [][Next]_vars

-----------------------------------------------------------------------------
(* Type correctness.                                                       *)

WritesTypeOK(w) == \A c \in DOMAIN w : c \in Columns /\ w[c] \in ColumnType[c]

ItemWritesTypeOK(w, T) == \A i \in DOMAIN w : i \in Items /\ w[i] \in T

FlushedTypeOK(t) ==
    /\ t.op \in {"update", "complete", "reopen", "set_deadline", "set_assignees", "delete"}
    /\ t.by \in Users
    /\ WritesTypeOK(t.writes)
    /\ ItemWritesTypeOK(t.values, AnswerValues)
    /\ ItemWritesTypeOK(t.correctors, Users)
    /\ t.links.added \subseteq Users
    /\ t.links.removed \subseteq Users
    /\ t.notices \subseteq Notice

TxTypeOK(t) ==
    /\ t.stage \in {"idle", "loaded", "flushed", "notifying"}
    /\ t.stage = "loaded" => IsRow(t.row)
    /\ t.stage = "flushed" => FlushedTypeOK(t)
    /\ t.stage = "notifying" => t.notices # {} /\ t.notices \subseteq Notice

(* Every column, answer, link and pending write is of the type its         *)
(* PostgreSQL column declares.                                             *)
TypeOK ==
    /\ life \in {"absent", "live", "deleted"}
    /\ IsRow(row)
    /\ values \in [Items -> AnswerValues \cup {Null}]
    /\ correctors \in [Items -> Users \cup {Null}]
    /\ assignees \subseteq Users
    /\ DOMAIN tx = Requests
    /\ \A r \in Requests : TxTypeOK(tx[r])
    /\ now \in 1..MaxTime

-----------------------------------------------------------------------------
(* What holds however the requests interleave.                             *)

(* A completed run carries its verdict: a result and a completion date.    *)
(* `complete_run` writes the result only if it differs from the one it has *)
(* loaded, so this rests on no other handler ever clearing it.             *)
CompletedHasVerdict ==
    life = "live" /\ row.status = "completed"
        => row.result # Null /\ row.completed_at # NoTime

(* A run that was completed once and is in progress again is marked as     *)
(* corrected: `reopen_run` is the only way back, and no save that was      *)
(* under way when the run was completed puts it back in progress.          *)
ReopenedIsMarked ==
    life = "live" /\ row.status = "in_progress" /\ row.completed_at # NoTime
        => row.corrected_at # NoTime

(* An answer shows a corrector only on a run that has been reopened        *)
(* (`update_run` marks answers while correcting).                          *)
MarkedOnlyAfterReopening ==
    (\E i \in Items : correctors[i] # Null) => row.corrected_at # NoTime

(* What a request that has loaded `seen` can rely on: what was set then is *)
(* still set.                                                              *)
StillSet(seen) ==
    /\ seen.result # Null => row.result # Null
    /\ seen.completed_at # NoTime => row.completed_at # NoTime
    /\ seen.corrected_at # NoTime => row.corrected_at # NoTime

(* What a pending write of the run's columns may do to the verdict and to  *)
(* the mark.  A completion may leave the result out, if there is one.      *)
SafeWrites(w) ==
    /\ "result" \in DOMAIN w => w.result # Null
    /\ "completed_at" \in DOMAIN w => w.completed_at # NoTime
    /\ "corrected_at" \in DOMAIN w => w.corrected_at # NoTime
    /\ "result" \in DOMAIN w \/ "completed_at" \in DOMAIN w
          => "status" \in DOMAIN w /\ w.status = "completed"
    /\ "corrected_at" \in DOMAIN w
          => "status" \in DOMAIN w /\ w.status = "in_progress"
    /\ "status" \in DOMAIN w =>
          \/ /\ w.status = "completed"
             /\ "completed_at" \in DOMAIN w
             /\ "result" \in DOMAIN w \/ row.result # Null
          \/ /\ w.status = "in_progress"
             /\ "corrected_at" \in DOMAIN w
             /\ row.completed_at # NoTime

SafeTx(t) ==
    /\ t.stage = "loaded" =>
          /\ StillSet(t.row)
          /\ t.row.status = "completed" => t.row.completed_at # NoTime
    /\ t.stage = "flushed" =>
          /\ SafeWrites(t.writes)
          /\ DOMAIN t.correctors # {} => row.corrected_at # NoTime

(* The inductive invariant behind the three invariants above: besides the  *)
(* run itself it speaks about every request under way, whose pending       *)
(* writes were computed from a state that may be gone.  A reopening is     *)
(* under way only on a run that has been completed.                        *)
RunInvariant ==
    /\ CompletedHasVerdict
    /\ ReopenedIsMarked
    /\ MarkedOnlyAfterReopening
    /\ life # "live" => row = NoRow
    /\ life = "absent" => \A r \in Requests : tx[r].stage = "idle"
    /\ life = "live" =>
          /\ row.completed_at # NoTime => row.result # Null
          /\ \A r \in Requests : SafeTx(tx[r])

(* The run goes through the stages of RunLifecycle and no others.          *)
Lifecycle == INSTANCE RunLifecycle WITH
    phase   <- IF life = "live" THEN row.status ELSE life,
    verdict <- row.result # Null /\ row.completed_at # NoTime,
    marked  <- row.corrected_at # NoTime

ImplementsLifecycle == Lifecycle!Spec

-----------------------------------------------------------------------------
(* What holds when no two requests work on the run at the same time, from  *)
(* the load to the commit: the handlers are right one after the other.     *)

Working(r) == tx[r].stage \in {"loaded", "flushed"}

TakeTurns == \A p, q \in Requests : Working(p) /\ Working(q) => p = q

(* The result and the counters of a completed run are those of its         *)
(* answers: `complete_run` counts what it has loaded, and nothing changes  *)
(* an answer afterwards.                                                   *)
ResultMatchesAnswers ==
    life = "live" /\ row.status = "completed" =>
        /\ row.result = Result(values)
        /\ \A c \in DOMAIN Counts(values) : row[c] = Counts(values)[c]

(* The request whose assignments a step makes visible, if it does.         *)
Commits(r) == tx[r].stage = "flushed" /\ tx'[r].stage # "flushed"

(* Once the run has been completed, an answer changes only with a save     *)
(* that leaves the name of its own user on the answer, whoever corrected   *)
(* it before (`update_run`, `correcting`).                                 *)
SignsCorrections ==
    life = "live" /\ life' = "live" /\ row.completed_at # NoTime =>
        \A i \in Items : values'[i] # values[i] =>
            \E r \in Requests : Commits(r) /\ correctors'[i] = tx[r].by

CorrectionsAreSigned == [][SignsCorrections]_vars

(* A run with a deadline was completed before the deadline passed, or in   *)
(* the time one handler takes from its check of the deadline to its        *)
(* reading of the completion date (`complete_run`, `_is_overdue`): nobody  *)
(* can complete an overdue run, nor move the deadline of a completed one.  *)
CompletedInTime ==
    life = "live" /\ row.status = "completed" /\ row.due_at # NoTime
        => row.completed_at <= row.due_at + Delay

(* The people given to the notification service when the run is completed  *)
(* are the creator and the assignees at that moment, save the very user    *)
(* who completes it (`complete_run`, `_run_audience`).  Whether each of    *)
(* them gets the notification is another matter: they are delivered one    *)
(* by one afterwards, and Abort may end that.                              *)
AnnouncesCompletion ==
    \A r \in Requests :
        life' = "live" /\ row.status = "in_progress" /\ row'.status = "completed"
          /\ Commits(r)
        => Audience(row) \ {tx[r].by} = {n.to : n \in tx[r].notices}

CompletionIsAnnounced == [][AnnouncesCompletion]_vars

(* The inductive invariant behind these four: a request that nobody        *)
(* disturbs works on the run as it is, and what it is about to write       *)
(* leaves the run with the verdict of its answers, given in time, signed   *)
(* by its user and announced to the others.  Whether the run has been      *)
(* reminded of is left open: DeadlineReminders marks it while a request is *)
(* under way.                                                              *)
VerdictFits(x, vals) ==
    x.status = "completed" =>
        /\ x.result = Result(vals)
        /\ \A c \in DOMAIN Counts(vals) : x[c] = Counts(vals)[c]
        /\ x.due_at # NoTime => x.completed_at <= x.due_at + Delay

Signs(t) ==
    row.completed_at # NoTime =>
        \A i \in DOMAIN t.values : Apply(correctors, t.correctors)[i] = t.by

Announces(t) ==
    row.status = "in_progress" /\ Apply(row, t.writes).status = "completed" =>
        Audience(row) \ {t.by} = {n.to : n \in t.notices}

WritesAnswers(t) == DOMAIN t.values # {}

UpToDate(seen) == \A c \in Columns \ {"deadline_reminded_at"} : seen[c] = row[c]

Undisturbed(t) ==
    /\ t.stage = "loaded" => UpToDate(t.row)
    /\ t.stage = "flushed" /\ t.op # "delete" =>
          /\ VerdictFits(Apply(row, t.writes), Apply(values, t.values))
          /\ Signs(t)
          /\ Announces(t)
          /\ WritesAnswers(t) => row.status = "in_progress"

SerialInvariant ==
    life = "live" =>
        /\ VerdictFits(row, values)
        /\ \A r \in Requests : Undisturbed(tx[r])

(* A completed run is read-only until it is reopened.                      *)
KeepsAnswers ==
    /\ life = "live" /\ row.status = "completed"
    /\ life' = "live" /\ row'.status = "completed"
    => values' = values

ReadOnlyWhenCompleted == [][KeepsAnswers]_vars
=============================================================================
