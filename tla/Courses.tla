------------------------------- MODULE Courses -------------------------------
(***************************************************************************)
(* One course and its assignments: services/course_service.py and          *)
(* db/repositories/course_repository.py.                                   *)
(*                                                                         *)
(* An owner assigns the course to a list of users in one transaction: for  *)
(* each of them a SELECT and, if there is no assignment, an INSERT.  The   *)
(* constraint uq_course_assignment makes an INSERT wait for another        *)
(* transaction that has inserted the same row and not committed: it fails  *)
(* if that one commits, and goes on if that one rolls back.  Two batches   *)
(* that wait for each other are a deadlock, and PostgreSQL ends one.       *)
(*                                                                         *)
(* A report of progress reads the user's assignment and writes what it has *)
(* changed as UnitOfWork says.  No code deletes a course or an assignment. *)
(***************************************************************************)
EXTENDS UnitOfWork, Integers, Sequences, FiniteSets

CONSTANTS
    Learners,       \* users the course is assigned to
    Percents,       \* values a report of progress may carry
    Batches         \* slots for requests under way at the same time

ASSUME CourseAssumption == Percents \subseteq 0..100

VARIABLES
    is_published,   \* courses.is_published
    assignment,     \* per user: NotAssigned, or the row of course_assignments
    batch,          \* what each request is doing
    answered        \* history: the users of all the batches that succeeded

covars == <<is_published, assignment, batch, answered>>

-----------------------------------------------------------------------------
AssignmentStatus == {"assigned", "in_progress", "completed"}

NotAssigned == [status |-> "none"]

(* The row that assign_course inserts.  completed_at: is there a date?     *)
NewAssignment == [status |-> "assigned", progress_percent |-> 0, completed_at |-> FALSE]

Assigned(u) == assignment[u] # NotAssigned

NoBatch == [stage |-> "idle"]

Step(r, next) ==
    /\ batch' = [batch EXCEPT ![r] = next]
    /\ UNCHANGED <<is_published, assignment, answered>>

(* A batch: the users it was given, those still to be looked at, and those *)
(* whose assignment it has inserted and not committed.                     *)
Batch(stage, given, left, added) ==
    [stage |-> stage, given |-> given, left |-> left, added |-> added]

Given(users) == {users[i] : i \in DOMAIN users}

(* The other requests that have inserted an assignment of this user.       *)
Inserters(r, u) ==
    {s \in Batches \ {r} : batch[s].stage \in {"looking", "inserting"} /\ u \in batch[s].added}

(* r waits for s to end: the constraint is all a batch can wait for.       *)
WaitsFor(r, s) == batch[r].stage = "inserting" /\ s \in Inserters(r, Head(batch[r].left))

(* `create_course`, `update_course`, `publish_course`.                     *)
SetPublished(published) ==
    /\ is_published' = published
    /\ UNCHANGED <<assignment, batch, answered>>

(* `assign_course`: the course must be published.                          *)
Assign(r, users) ==
    /\ batch[r] = NoBatch
    /\ is_published
    /\ Step(r, Batch("looking", Given(users), users, {}))

(* Mutant: the list does not go on past a user who has the course.         *)
LookUpAgain(r) ==
    LET b == batch[r]
    IN  /\ b.stage = "looking"
        /\ b.left # <<>>
        /\ IF Assigned(Head(b.left)) \/ Head(b.left) \in b.added
           THEN Step(r, b)
           ELSE Step(r, Batch("inserting", b.given, b.left, b.added))

(* `get_for_user` for the next of the users: nothing to do if he has the   *)
(* course, also if it is this batch that has given it to him.              *)
LookUp(r) ==
    LET b == batch[r]
    IN  /\ b.stage = "looking"
        /\ b.left # <<>>
        /\ IF Assigned(Head(b.left)) \/ Head(b.left) \in b.added
           THEN Step(r, Batch("looking", b.given, Tail(b.left), b.added))
           ELSE Step(r, Batch("inserting", b.given, b.left, b.added))

(* Mutant: the user is left out if somebody else is assigning him.         *)
AssignOrSkip(r) ==
    LET b == batch[r]
    IN  /\ b.stage = "inserting"
        /\ ~Assigned(Head(b.left))
        /\ IF Inserters(r, Head(b.left)) = {}
           THEN Step(r, Batch("looking", b.given, Tail(b.left), b.added \cup {Head(b.left)}))
           ELSE Step(r, Batch("looking", b.given, Tail(b.left), b.added))

(* Mutant: no constraint.                                                  *)
AssignTwice(r) ==
    LET b == batch[r]
    IN  /\ b.stage = "inserting"
        /\ Step(r, Batch("looking", b.given, Tail(b.left), b.added \cup {Head(b.left)}))

(* The INSERT.                                                             *)
InsertAssignment(r) ==
    LET b == batch[r]
    IN  /\ b.stage = "inserting"
        /\ ~Assigned(Head(b.left))
        /\ Inserters(r, Head(b.left)) = {}
        /\ Step(r, Batch("looking", b.given, Tail(b.left), b.added \cup {Head(b.left)}))

(* The INSERT fails on the constraint.                                     *)
DuplicateAssignment(r) ==
    /\ batch[r].stage = "inserting"
    /\ Assigned(Head(batch[r].left))
    /\ Step(r, NoBatch)

(* PostgreSQL ends one of the transactions that wait in a circle.          *)
Deadlock(r) ==
    /\ \E circle \in SUBSET Batches :
        r \in circle /\ \A s \in circle : \E t \in circle : WaitsFor(s, t)
    /\ Step(r, NoBatch)

CommitBatch(r) ==
    LET b == batch[r]
    IN  /\ b.stage = "looking"
        /\ b.left = <<>>
        /\ assignment' = [u \in Learners |-> IF u \in b.added THEN NewAssignment ELSE assignment[u]]
        /\ answered' = answered \cup b.given
        /\ batch' = [batch EXCEPT ![r] = NoBatch]
        /\ UNCHANGED is_published

(* Mutant: any progress keeps the status, as no progress does.             *)
StatusKept(seen, percent) == IF percent >= 100 THEN "completed" ELSE seen.status

(* The status of an assignment that a report finds.                        *)
StatusAfter(seen, percent) ==
    CASE percent >= 100                 -> "completed"
      [] percent > 0 /\ percent < 100   -> "in_progress"
      [] percent = 0                    -> seen.status

(* `update_progress`, in the service and in the repository.  A status that *)
(* says completed, new or not, gets the date of now, which is never the    *)
(* one that was read: it is always written.                                *)
Progress(seen, percent) ==
    LET status == StatusAfter(seen, percent)
        changed == Net(seen, [status |-> status, progress_percent |-> percent])
    IN  IF status = "completed" THEN Then(changed, [completed_at |-> TRUE]) ELSE changed

LoadAssignment(r, u) ==
    /\ batch[r] = NoBatch
    /\ Assigned(u)
    /\ Step(r, [stage |-> "reporting", user |-> u, seen |-> assignment[u]])

(* The flush and the commit.                                               *)
Report(r, percent) ==
    LET b == batch[r]
    IN  /\ b.stage = "reporting"
        /\ assignment' = [assignment EXCEPT ![b.user] = Apply(@, Progress(b.seen, percent))]
        /\ batch' = [batch EXCEPT ![r] = NoBatch]
        /\ UNCHANGED <<is_published, answered>>

(* An error or a crash: nothing of the request is left.                    *)
Drop(r) ==
    /\ batch[r] # NoBatch
    /\ Step(r, NoBatch)

-----------------------------------------------------------------------------
CoInit ==
    /\ is_published \in BOOLEAN
    /\ assignment = [u \in Learners |-> NotAssigned]
    /\ batch = [r \in Batches |-> NoBatch]
    /\ answered = {}

(* The lists a client may send: two users in either order, or one of them, *)
(* named twice.                                                            *)
Lists == {<<u, v>> : u, v \in Learners}

CoNext ==
    \/ \E published \in BOOLEAN : SetPublished(published)
    \/ \E r \in Batches :
        \/ \E users \in Lists : Assign(r, users)
        \/ LookUp(r) \/ InsertAssignment(r) \/ DuplicateAssignment(r) \/ Deadlock(r)
        \/ CommitBatch(r) \/ Drop(r)
        \/ \E u \in Learners : LoadAssignment(r, u)
        \/ \E percent \in Percents : Report(r, percent)

CoSpec == CoInit /\ [][CoNext]_covars

(* A handler goes on as long as it can.  PostgreSQL wakes an INSERT that   *)
(* waits whenever the transaction in its way ends, and looks for deadlocks *)
(* after deadlock_timeout; a new batch does not come first for ever.       *)
(* Nobody has to begin anything.                                           *)
CoFairness ==
    \A r \in Batches :
        /\ WF_covars(LookUp(r) \/ CommitBatch(r))
        /\ SF_covars(InsertAssignment(r) \/ DuplicateAssignment(r) \/ Deadlock(r))

FairCoSpec == CoSpec /\ CoFairness

-----------------------------------------------------------------------------
CoTypeOK ==
    /\ is_published \in BOOLEAN
    /\ \A u \in Learners :
        Assigned(u) => assignment[u] \in [status : AssignmentStatus, progress_percent : 0..100,
                                          completed_at : BOOLEAN]
    /\ \A r \in Batches : batch[r].stage \in {"idle", "looking", "inserting", "reporting"}
    /\ answered \subseteq Learners

(* A batch that succeeds has given the course to all its users, and one    *)
(* that fails - on the constraint, in a deadlock, anywhere - to none.      *)
BatchesAreWhole == {u \in Learners : Assigned(u)} = answered

(* A completed assignment has its date, and shows all of the progress      *)
(* unless it was reported to have none.  Only the commit of a report that  *)
(* worked on a row which has been changed since can leave some of it.      *)
CompletedIsDated ==
    \A u \in Learners : assignment[u].status = "completed" => assignment[u].completed_at

CompletedIsComplete ==
    [][ \A u \in Learners :
          assignment'[u].status = "completed" /\ assignment'[u].progress_percent \notin {0, 100} =>
            \/ assignment'[u] = assignment[u]
            \/ \E r \in Batches :
                /\ batch[r].stage = "reporting" /\ batch'[r] = NoBatch
                /\ batch[r].user = u
                /\ batch[r].seen # assignment[u] ]_covars

(* Batches and reports that overlap do to the assignments what whole       *)
(* batches and single reports may do: a batch never resets the progress of *)
(* somebody whom another batch has given the course in the meantime, and a *)
(* report never takes away a date.                                         *)
Roster == INSTANCE CourseRoster WITH roster <- answered, record <- assignment

ImplementsRoster == Roster!Spec

(* Every batch ends, also if two of them assign the same users in opposite *)
(* orders.                                                                 *)
BatchesEnd ==
    \A r \in Batches : batch[r].stage \in {"looking", "inserting"} ~> batch[r] = NoBatch
=============================================================================
