-------------------------- MODULE DeadlineReminders --------------------------
(***************************************************************************)
(* The reminder loop of tasks/deadline_reminders.py beside the requests of *)
(* ChecklistRun.  Every instance of the application starts one loop        *)
(* (main.py, lifespan); each pass over the runs is a scan:                 *)
(*                                                                         *)
(*   Select     finds the run due within the threshold and not yet         *)
(*              reminded of, and its audience;                             *)
(*   Mark       writes deadline_reminded_at, which commits together with   *)
(*              the first recipient's notification;                        *)
(*   Send       stores one more recipient's notification.                  *)
(*                                                                         *)
(* A scan reads and writes without locks, as the requests do.              *)
(***************************************************************************)
EXTENDS ChecklistRun

CONSTANTS
    Scanners,       \* application instances, one loop each
    Threshold       \* deadline_reminder_threshold_hours, in ticks

ASSUME ReminderAssumption == Threshold \in Nat /\ IsFiniteSet(Scanners)

VARIABLES
    scan,       \* what each loop is doing
    reminders   \* per user: reminders sent of the deadline now in force

rvars == <<vars, scan, reminders>>

Resting == [stage |-> "resting"]

(* `at` is the scan's `now`; `current` turns false when the deadline the   *)
(* scan has read is replaced.                                              *)
Selected(to) == [stage |-> "selected", at |-> now, to |-> to, current |-> TRUE]

Sending(to, current) ==
    IF to = {} THEN Resting ELSE [stage |-> "sending", to |-> to, current |-> current]

NoReminders == [u \in Users |-> 0]

-----------------------------------------------------------------------------
(* Mutant: the mark is not looked at.                                      *)
DueSoonAgain ==
    /\ life = "live"
    /\ row.status = "in_progress"
    /\ row.due_at > now
    /\ row.due_at <= now + Threshold

(* The WHERE clause of the scan.                                           *)
DueSoon ==
    /\ life = "live"
    /\ row.status = "in_progress"
    /\ row.due_at > now
    /\ row.due_at <= now + Threshold
    /\ row.deadline_reminded_at = NoTime

Select(s) ==
    /\ scan[s] = Resting
    /\ DueSoon
    /\ scan' = [scan EXCEPT ![s] = Selected(Audience(row))]
    /\ UNCHANGED <<vars, reminders>>

(* One recipient gets the reminder; the counter ignores reminders of a     *)
(* deadline that has been replaced.                                        *)
Remind(s) ==
    \E u \in scan[s].to :
        /\ scan' = [scan EXCEPT ![s] = Sending(scan[s].to \ {u}, scan[s].current)]
        /\ reminders' = IF scan[s].current
                          THEN [reminders EXCEPT ![u] = @ + 1]
                          ELSE reminders

(* Mutant: the reminder goes out, the mark is not written with it.         *)
MarkUnsaved(s) ==
    /\ scan[s].stage = "selected"
    /\ life = "live"
    /\ Remind(s)
    /\ UNCHANGED vars

(* Mutant: a run without assignees is skipped.                             *)
MarkIfAssigned(s) ==
    /\ scan[s].stage = "selected"
    /\ life = "live"
    /\ assignees # {}
    /\ row' = Apply(row, [deadline_reminded_at |-> scan[s].at])
    /\ Remind(s)
    /\ UNCHANGED <<life, values, correctors, assignees, tx, now>>

(* The UPDATE names only the primary key: it marks the run whatever has    *)
(* become of its status, its deadline or its mark.  If the run is gone the *)
(* scan fails (ScanFails).                                                 *)
Mark(s) ==
    /\ scan[s].stage = "selected"
    /\ life = "live"
    /\ row' = Apply(row, [deadline_reminded_at |-> scan[s].at])
    /\ Remind(s)
    /\ UNCHANGED <<life, values, correctors, assignees, tx, now>>

Send(s) ==
    /\ scan[s].stage = "sending"
    /\ Remind(s)
    /\ UNCHANGED vars

(* An exception is logged and the loop goes on; an instance that dies is   *)
(* restarted and its loop with it.                                         *)
ScanFails(s) ==
    /\ scan[s] # Resting
    /\ scan' = [scan EXCEPT ![s] = Resting]
    /\ UNCHANGED <<vars, reminders>>

(* A new deadline: what is being sent is about the old one.                *)
Outdated(job) ==
    IF job = Resting THEN Resting ELSE [job EXCEPT !.current = FALSE]

ReplaceDeadline(r) ==
    /\ CommitDeadline(r)
    /\ reminders' = NoReminders
    /\ scan' = [s \in Scanners |-> Outdated(scan[s])]

-----------------------------------------------------------------------------
RInit ==
    /\ Init
    /\ scan = [s \in Scanners |-> Resting]
    /\ reminders = NoReminders

RNext ==
    \/ OtherStep /\ UNCHANGED <<scan, reminders>>
    \/ \E r \in Requests : ReplaceDeadline(r)
    \/ \E s \in Scanners : Select(s) \/ Mark(s) \/ Send(s) \/ ScanFails(s)

RSpec == RInit /\ [][RNext]_rvars

(* The loop runs for ever, and its scans do not fail every single time.    *)
(* Nobody has to send a request.                                           *)
ScanFairness ==
    \A s \in Scanners : WF_rvars(Select(s)) /\ SF_rvars(Mark(s)) /\ SF_rvars(Send(s))

FairRSpec == RSpec /\ ScanFairness

-----------------------------------------------------------------------------
(* A loop is resting or has recipients left to remind, and the mark it is  *)
(* about to set is a time.                                                 *)
Recipients == (SUBSET Users) \ {{}}

Job ==
    {Resting}
    \cup [stage : {"selected"}, at : 1..MaxTime, to : Recipients, current : BOOLEAN]
    \cup [stage : {"sending"}, to : Recipients, current : BOOLEAN]

ReminderTypeOK ==
    /\ scan \in [Scanners -> Job]
    /\ reminders \in [Users -> Nat]

(* The mark is committed before anybody can see a reminder, and only a new *)
(* deadline takes it back: whenever a scan fails, the next one finds the   *)
(* mark and does not repeat reminders that were sent.  Holds for any       *)
(* number of loops and requests.                                           *)
RemindedIsMarked ==
    life = "live" /\ (\E u \in Users : reminders[u] > 0)
        => row.deadline_reminded_at # NoTime

(* Which of the columns a pending write may touch: only `set_deadline`     *)
(* takes the mark back, and nobody changes the creator.                    *)
KeepsMark(t) ==
    t.stage = "flushed" =>
        /\ "conducted_by_id" \notin DOMAIN t.writes
        /\ "deadline_reminded_at" \in DOMAIN t.writes => t.op = "set_deadline"

(* The inductive invariant behind RemindedIsMarked: a scan that is sending *)
(* reminders of the deadline in force has set the mark, and no request     *)
(* under way takes it back but one that replaces the deadline.             *)
ReminderInvariant ==
    /\ RemindedIsMarked
    /\ life = "live" => row.conducted_by_id \in Users
    /\ life = "absent" => reminders = NoReminders /\ \A s \in Scanners : scan[s] = Resting
    /\ \A r \in Requests : KeepsMark(tx[r])
    /\ \A s \in Scanners :
          life = "live" /\ scan[s].stage = "sending" /\ scan[s].current
              => row.deadline_reminded_at # NoTime

(* Nobody is reminded twice of one deadline (deadline_reminded_at,         *)
(* "анти-дубль").  Holds for one loop, failures and concurrent requests    *)
(* included; two loops break it.                                           *)
AtMostOneReminder == \A u \in Users : reminders[u] <= 1

(* The scans that have yet to remind u of the deadline in force.           *)
Pending(u) == {s \in Scanners : scan[s] # Resting /\ scan[s].current /\ u \in scan[s].to}

(* What the mark does keep with several loops: everybody is reminded of a  *)
(* deadline at most once per loop, however often scans fail and start      *)
(* again.  A scan that starts finds no mark, so nobody has been reminded   *)
(* yet; after that each loop only works off the recipients it has read.    *)
OneReminderPerLoop ==
    \A u \in Users : reminders[u] + Cardinality(Pending(u)) <= Cardinality(Scanners)

(* `set_deadline` allows a reminder of the new deadline.                   *)
NewDeadlineRearms ==
    [][ \A r \in Requests :
            CommitDeadline(r) /\ row'.due_at \notin {NoTime, row.due_at}
                => row'.deadline_reminded_at = NoTime ]_rvars

(* A run that comes within the threshold of its deadline is reminded of,   *)
(* unless it is completed, deleted or given another deadline, or the       *)
(* deadline passes first.  The loop survives its errors.                   *)
DueSoonIsReminded == DueSoon ~> ~DueSoon
=============================================================================
