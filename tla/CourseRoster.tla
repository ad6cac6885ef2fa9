---------------------------- MODULE CourseRoster ----------------------------
(***************************************************************************)
(* What course_service.py promises about the assignments of one course,    *)
(* however many batches and reports of progress are under way:             *)
(*                                                                         *)
(*   - a list of users is accepted as a whole: those who did not have the  *)
(*     course get a new assignment, and the progress of those who did is   *)
(*     left alone;                                                         *)
(*   - nobody loses the course, nor the date on which he completed it, and *)
(*     an assignment that has been begun is never one that has not;        *)
(*   - a progress that is shown is one that was reported.                  *)
(*                                                                         *)
(* Courses.tla implements this specification.                              *)
(***************************************************************************)
CONSTANTS Learners, Percents

VARIABLES
    roster,     \* the users of the lists that have been accepted
    record      \* per user: his assignment

vars == <<roster, record>>

None == [status |-> "none"]

Row(status, percent, dated) ==
    [status |-> status, progress_percent |-> percent, completed_at |-> dated]

Init ==
    /\ roster = {}
    /\ record = [u \in Learners |-> None]

Give(users) ==
    /\ roster' = roster \cup users
    /\ record' = [u \in Learners |->
                    IF u \in users \ roster THEN Row("assigned", 0, FALSE) ELSE record[u]]

(* Reports that overlap may leave the status of one beside the percentage  *)
(* of another.                                                             *)
Show(u, status, percent, dated) ==
    /\ status = "assigned" => record[u].status = "assigned"
    /\ status = "completed" \/ record[u].completed_at => dated
    /\ record' = [record EXCEPT ![u] = Row(status, percent, dated)]
    /\ UNCHANGED roster

Next ==
    \/ \E users \in SUBSET Learners : Give(users)
    \/ \E u \in roster, status \in {"assigned", "in_progress", "completed"}, dated \in BOOLEAN :
        \E percent \in Percents \cup {record[u].progress_percent} : Show(u, status, percent, dated)

Spec == Init /\ [][Next]_vars
=============================================================================
