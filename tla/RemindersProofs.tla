--------------------------- MODULE RemindersProofs ---------------------------
(***************************************************************************)
(* Proofs about DeadlineReminders, for any number of users, requests and   *)
(* application instances:                                                  *)
(*                                                                         *)
(*   ReminderTyped        RSpec => []ReminderTypeOK                        *)
(*   RemindedMarked       RSpec => []RemindedIsMarked                      *)
(*   RemindedPerLoop      RSpec => []OneReminderPerLoop, and with one loop *)
(*                        RSpec => []AtMostOneReminder (RemindedOnce)      *)
(*                                                                         *)
(* and that the loops disturb nothing of what ChecklistRunProofs says of   *)
(* the requests: RunSafeBesideLoops, LifecycleBesideLoops and, as long as  *)
(* requests take turns, VerdictBesideLoops and StepsBesideLoops.           *)
(***************************************************************************)
EXTENDS DeadlineReminders, ChecklistRunProofs

-----------------------------------------------------------------------------
(* What the steps of the requests do to the mark.                          *)

(* The columns a handler other than `set_deadline` assigns.                *)
LEMMA OtherColumns ==
    /\ \A vals : /\ "conducted_by_id" \notin DOMAIN Counts(vals)
                 /\ "deadline_reminded_at" \notin DOMAIN Counts(vals)
    /\ "conducted_by_id" \notin DOMAIN NoWrites
    /\ "deadline_reminded_at" \notin DOMAIN NoWrites
BY DEF Counts, NoWrites

LEMMA AssignAtKeeps ==
    ASSUME TypeOK, NEW r \in Requests, NEW pending, NEW time,
           AssignAt(r, pending, time),
           KeepsMark(pending), \A q \in Requests : KeepsMark(tx[q])
    PROVE  UNCHANGED db /\ \A q \in Requests : KeepsMark(tx'[q])
BY DEF AssignAt, TypeOK

LEMMA AssignKeeps ==
    ASSUME TypeOK, NEW r \in Requests, NEW pending, Assign(r, pending),
           KeepsMark(pending), \A q \in Requests : KeepsMark(tx[q])
    PROVE  UNCHANGED db /\ \A q \in Requests : KeepsMark(tx'[q])
BY AssignAtKeeps DEF Assign

(* Whatever a handler assigns, the mark is its business only in            *)
(* `set_deadline`.                                                         *)
LEMMA HandleKeeps ==
    ASSUME TypeOK, NEW r \in Requests, NEW u \in Users, Handle(r, u),
           \A q \in Requests : KeepsMark(tx[q])
    PROVE  UNCHANGED db /\ \A q \in Requests : KeepsMark(tx'[q])
<1> DEFINE Goal == UNCHANGED db /\ \A q \in Requests : KeepsMark(tx'[q])
           seen == tx[r].row
<1>1. ASSUME NEW patch \in Patches, Update(r, u, patch) PROVE Goal
  <2>1. PICK signed :
          Assign(r, Flushed("update", u, Net(seen, Counts(Apply(values, patch))),
                            Net(values, patch), signed, NoLinks, {}))
    BY <1>1 DEF Update
  <2>2. KeepsMark(Flushed("update", u, Net(seen, Counts(Apply(values, patch))),
                          Net(values, patch), signed, NoLinks, {}))
    BY OtherColumns, NetDomain DEF KeepsMark, Flushed
  <2> QED BY <2>1, <2>2, AssignKeeps
<1>2. ASSUME Complete(r, u) PROVE Goal
  <2>0. PICK later \in Moments :
           AssignAt(r, RowOnly("complete", u,
                               Then(Net(tx[r].row,
                                        Then(Counts(values),
                                             [result |-> Result(values),
                                              status |-> "completed"])),
                                    [completed_at |-> later]),
                               Notices(Audience(tx[r].row) \ {u}, "completed")),
                    later)
    BY <1>2 DEF Complete
  <2> DEFINE closing == [result |-> Result(values), status |-> "completed"]
             assigned == Then(Counts(values), closing)
             writes == Then(Net(seen, assigned), [completed_at |-> later])
             notices == Notices(Audience(seen) \ {u}, "completed")
  <2>1. AssignAt(r, RowOnly("complete", u, writes, notices), later)
    BY <2>0
  <2>2. "conducted_by_id" \notin DOMAIN closing /\ "deadline_reminded_at" \notin DOMAIN closing
    OBVIOUS
  <2>3. /\ "conducted_by_id" \notin DOMAIN writes
        /\ "deadline_reminded_at" \notin DOMAIN writes
    <3>1. DOMAIN assigned = DOMAIN Counts(values) \cup DOMAIN closing
      BY DEF Then
    <3> HIDE DEF closing, assigned
    <3>2. DOMAIN Net(seen, assigned) \subseteq DOMAIN assigned
      BY NetDomain
    <3>3. DOMAIN writes = DOMAIN Net(seen, assigned) \cup {"completed_at"}
      BY DEF Then
    <3> QED BY <2>2, <3>1, <3>2, <3>3, OtherColumns
  <2> HIDE DEF writes, notices
  <2>4. KeepsMark(RowOnly("complete", u, writes, notices))
    BY <2>3 DEF KeepsMark, RowOnly, Flushed
  <2> QED BY <2>1, <2>4, AssignAtKeeps
<1>3. ASSUME Reopen(r, u) PROVE Goal
  <2> DEFINE reopening == [status |-> "in_progress", corrected_by_id |-> u]
             writes == Then(Net(seen, reopening), [corrected_at |-> now])
  <2>1. Assign(r, RowOnly("reopen", u, writes, {}))
    BY <1>3 DEF Reopen
  <2>2. /\ "conducted_by_id" \notin DOMAIN writes
        /\ "deadline_reminded_at" \notin DOMAIN writes
    <3>1. DOMAIN Net(seen, reopening) \subseteq {"status", "corrected_by_id"}
      BY NetDomain
    <3> HIDE DEF reopening
    <3>2. DOMAIN writes = DOMAIN Net(seen, reopening) \cup {"corrected_at"}
      BY DEF Then
    <3> QED BY <3>1, <3>2
  <2> HIDE DEF writes
  <2>3. KeepsMark(RowOnly("reopen", u, writes, {}))
    BY <2>2 DEF KeepsMark, RowOnly, Flushed
  <2> QED BY <2>1, <2>3, AssignKeeps
<1>4. ASSUME NEW due \in DueTimes, SetDeadline(r, u, due) PROVE Goal
  <2> DEFINE rescheduling == [due_at |-> due, deadline_reminded_at |-> NoTime]
             notices == Notices(Audience(seen) \ {u}, "deadline")
  <2>1. Assign(r, RowOnly("set_deadline", u, Net(seen, rescheduling), notices))
    BY <1>4 DEF SetDeadline
  <2>2. "conducted_by_id" \notin DOMAIN Net(seen, rescheduling)
    BY NetDomain
  <2> HIDE DEF rescheduling, notices
  <2>3. KeepsMark(RowOnly("set_deadline", u, Net(seen, rescheduling), notices))
    BY <2>2 DEF KeepsMark, RowOnly, Flushed
  <2> QED BY <2>1, <2>3, AssignKeeps
<1>5. ASSUME NEW team \in SUBSET Users, SetAssignees(r, u, team) PROVE Goal
  <2>1. PICK diff, notices :
          Assign(r, Flushed("set_assignees", u, NoWrites, NoWrites, NoWrites, diff, notices))
    BY <1>5 DEF SetAssignees
  <2>2. KeepsMark(Flushed("set_assignees", u, NoWrites, NoWrites, NoWrites, diff, notices))
    BY OtherColumns DEF KeepsMark, Flushed
  <2> QED BY <2>1, <2>2, AssignKeeps
<1>6. ASSUME Delete(r, u) PROVE Goal
  <2>1. KeepsMark(RowOnly("delete", u, NoWrites, {}))
    BY OtherColumns DEF KeepsMark, RowOnly, Flushed
  <2> QED BY <1>6, <2>1, AssignKeeps DEF Delete
<1> QED BY <1>1, <1>2, <1>3, <1>4, <1>5, <1>6 DEF Handle

(* A request that has committed writes nothing any more.                   *)
LEMMA CommitKeeps ==
    ASSUME TypeOK, NEW r \in Requests, NEW notices, CommitWith(r, notices),
           \A q \in Requests : KeepsMark(tx[q])
    PROVE  \A q \in Requests : KeepsMark(tx'[q])
<1>1. PICK left : tx' = [tx EXCEPT ![r] = AfterCommit(left)]
  BY DEF CommitWith
<1>2. KeepsMark(AfterCommit(left))
  BY DEF KeepsMark, AfterCommit, Idle
<1> QED BY <1>1, <1>2 DEF TypeOK

(* The two columns after a commit.                                         *)
LEMMA VisibleColumns ==
    ASSUME TypeOK, NEW r \in Requests, KeepsMark(tx[r]), MakeVisible(r)
    PROVE  /\ row'.conducted_by_id = row.conducted_by_id
           /\ tx[r].op # "set_deadline" =>
                 row'.deadline_reminded_at = row.deadline_reminded_at
<1>1. \A c \in {"conducted_by_id", "deadline_reminded_at"} :
         row'[c] = IF c \in DOMAIN tx[r].writes THEN tx[r].writes[c] ELSE row[c]
  BY ApplyValues DEF MakeVisible, TypeOK, IsRow, Columns, ColumnType
<1> QED BY <1>1 DEF KeepsMark, MakeVisible

-----------------------------------------------------------------------------
(* Every step.                                                             *)

(* Steps of the requests that change neither the run nor what a pending    *)
(* write may touch.                                                        *)
LEMMA QuietRequests ==
    ASSUME ReminderInvariant, UNCHANGED <<life, row, scan, reminders>>,
           \A q \in Requests : KeepsMark(tx'[q])
    PROVE  ReminderInvariant'
BY DEF ReminderInvariant, RemindedIsMarked

(* The steps of ChecklistRun that leave the deadline in force.             *)
LEMMA OtherStepMarked ==
    ASSUME TypeOK, ReminderInvariant, OtherStep, UNCHANGED <<scan, reminders>>
    PROVE  ReminderInvariant'
<1>1. ASSUME NEW r \in Requests, NEW u \in Users, NEW team \in SUBSET Users,
             NEW due \in DueTimes, Start(r, u, team, due)
      PROVE  ReminderInvariant'
  <2>1. \A q \in Requests : KeepsMark(tx'[q])
    BY <1>1, CommitKeeps DEF Start, ReminderInvariant
  <2>2. row'.conducted_by_id \in Users /\ life' = "live" /\ life = "absent"
    BY <1>1 DEF Start, NewRow
  <2>3. reminders' = NoReminders /\ \A s \in Scanners : scan'[s] = Resting
    BY <2>2 DEF ReminderInvariant
  <2> QED BY <2>1, <2>2, <2>3
          DEF ReminderInvariant, RemindedIsMarked, NoReminders, Resting
<1>2. ASSUME NEW r \in Requests, Load(r) PROVE ReminderInvariant'
  <2>1. \A q \in Requests : KeepsMark(tx'[q])
    BY <1>2 DEF Load, Loaded, KeepsMark, ReminderInvariant, TypeOK
  <2> QED BY <1>2, <2>1, QuietRequests DEF Load, db
<1>3. ASSUME NEW r \in Requests, NEW u \in Users, Handle(r, u) PROVE ReminderInvariant'
  <2>1. \A q \in Requests : KeepsMark(tx[q])
    BY DEF ReminderInvariant
  <2> QED BY <1>3, <2>1, HandleKeeps, QuietRequests DEF db
<1>4. ASSUME NEW r \in Requests, Commit(r) PROVE ReminderInvariant'
  <2>1. \A q \in Requests : KeepsMark(tx'[q])
    BY <1>4, CommitKeeps DEF Commit, MakeVisible, ReminderInvariant
  <2>2. /\ row'.conducted_by_id = row.conducted_by_id
        /\ row'.deadline_reminded_at = row.deadline_reminded_at
        /\ life' = life
    BY <1>4, VisibleColumns DEF Commit, MakeVisible, ReminderInvariant
  <2> QED BY <2>1, <2>2 DEF ReminderInvariant, RemindedIsMarked
<1>5. ASSUME NEW r \in Requests, CommitDelete(r) PROVE ReminderInvariant'
  <2>1. \A q \in Requests : KeepsMark(tx'[q])
    BY <1>5 DEF CommitDelete, Idle, KeepsMark, ReminderInvariant, TypeOK
  <2> QED BY <1>5, <2>1 DEF CommitDelete, ReminderInvariant, RemindedIsMarked
<1>6. ASSUME NEW r \in Requests, Notify(r) PROVE ReminderInvariant'
  <2>1. \A q \in Requests : KeepsMark(tx'[q])
    BY <1>6, CommitKeeps DEF Notify, ReminderInvariant
  <2> QED BY <1>6, <2>1, QuietRequests DEF Notify, db
<1>7. ASSUME NEW r \in Requests, Abort(r) PROVE ReminderInvariant'
  <2>1. \A q \in Requests : KeepsMark(tx'[q])
    BY <1>7 DEF Abort, Idle, KeepsMark, ReminderInvariant, TypeOK
  <2> QED BY <1>7, <2>1, QuietRequests DEF Abort, db
<1>8. CASE Tick
  BY <1>8, QuietRequests DEF Tick, db, ReminderInvariant
<1> QED BY <1>1, <1>2, <1>3, <1>4, <1>5, <1>6, <1>7, <1>8 DEF OtherStep

(* A reminder leaves its scan with those who are still to be reminded.     *)
LEMMA RemindSteps ==
    ASSUME ReminderTypeOK, NEW s \in Scanners, scan[s] # Resting, Remind(s)
    PROVE  /\ ReminderTypeOK'
           /\ \A t \in Scanners \ {s} : scan'[t] = scan[t]
           /\ scan'[s] = Resting \/
                 /\ scan'[s].stage = "sending"
                 /\ scan'[s].current = scan[s].current
           /\ ~scan[s].current => reminders' = reminders
<1>1. PICK u \in scan[s].to :
         /\ scan' = [scan EXCEPT ![s] = Sending(scan[s].to \ {u}, scan[s].current)]
         /\ reminders' = IF scan[s].current
                           THEN [reminders EXCEPT ![u] = @ + 1]
                           ELSE reminders
  BY DEF Remind
<1>2. scan[s].to \in Recipients /\ scan[s].current \in BOOLEAN
  BY DEF ReminderTypeOK, Job
<1>3. Sending(scan[s].to \ {u}, scan[s].current) \in Job
  BY <1>2 DEF Sending, Job, Recipients
<1>4. reminders' \in [Users -> Nat]
  BY <1>1, <1>2 DEF ReminderTypeOK, Recipients
<1>5. ReminderTypeOK'
  BY <1>1, <1>3, <1>4 DEF ReminderTypeOK
<1>6. scan'[s] = Sending(scan[s].to \ {u}, scan[s].current)
  BY <1>1 DEF ReminderTypeOK
<1>7. \A t \in Scanners \ {s} : scan'[t] = scan[t]
  BY <1>1 DEF ReminderTypeOK
<1>8. scan'[s] = Resting \/
         /\ scan'[s].stage = "sending"
         /\ scan'[s].current = scan[s].current
  BY <1>6 DEF Sending
<1> QED BY <1>1, <1>5, <1>7, <1>8

LEMMA ScanStepMarked ==
    ASSUME TypeOK, ReminderTypeOK, ReminderInvariant, NEW s \in Scanners,
           Select(s) \/ Mark(s) \/ Send(s) \/ ScanFails(s)
    PROVE  ReminderTypeOK' /\ ReminderInvariant'
<1>1. CASE Select(s)
  <2>1. Audience(row) \in Recipients
    BY <1>1 DEF Select, DueSoon, ReminderInvariant, Audience, Recipients, TypeOK
  <2>2. Selected(Audience(row)) \in Job /\ Selected(Audience(row)).stage = "selected"
    BY <2>1 DEF Selected, Job, TypeOK
  <2>3. /\ scan' = [scan EXCEPT ![s] = Selected(Audience(row))]
        /\ life' = life /\ life = "live" /\ row' = row /\ tx' = tx
        /\ reminders' = reminders
    BY <1>1 DEF Select, DueSoon, vars, db
  <2>4. ReminderTypeOK'
    BY <2>2, <2>3 DEF ReminderTypeOK
  <2>5. \A t \in Scanners : scan'[t] = scan[t] \/ scan'[t].stage = "selected"
    BY <2>2, <2>3 DEF ReminderTypeOK
  <2> QED BY <2>3, <2>4, <2>5 DEF ReminderInvariant, RemindedIsMarked
<1>2. CASE Mark(s)
  <2>1. scan[s] # Resting /\ scan[s].at \in 1..MaxTime /\ life = "live" /\ Remind(s)
    BY <1>2 DEF Mark, ReminderTypeOK, Job, Resting
  <2>2. ReminderTypeOK'
    BY <2>1, RemindSteps
  <2>3. /\ row'.deadline_reminded_at = scan[s].at
        /\ row'.conducted_by_id = row.conducted_by_id
        /\ life' = "live" /\ tx' = tx
    BY <1>2, <2>1 DEF Mark, Apply, TypeOK, IsRow, Columns, ColumnType
  <2>4. row'.deadline_reminded_at # NoTime
    BY <2>1, <2>3, RunAssumption DEF NoTime
  <2> QED BY <2>1, <2>2, <2>3, <2>4 DEF ReminderInvariant, RemindedIsMarked
<1>3. CASE Send(s)
  <2>1. scan[s] # Resting /\ scan[s].stage = "sending" /\ Remind(s)
        /\ UNCHANGED <<life, row, tx>>
    BY <1>3 DEF Send, Resting, vars, db
  <2>2. /\ ReminderTypeOK'
        /\ \A t \in Scanners \ {s} : scan'[t] = scan[t]
        /\ scan'[s] = Resting \/
              /\ scan'[s].stage = "sending"
              /\ scan'[s].current = scan[s].current
        /\ ~scan[s].current => reminders' = reminders
    BY <2>1, RemindSteps
  <2>3. life # "absent"
    BY <2>1 DEF ReminderInvariant
  <2>4. life = "live" /\ scan[s].current => row.deadline_reminded_at # NoTime
    BY <2>1 DEF ReminderInvariant
  <2>5. RemindedIsMarked'
    BY <2>1, <2>2, <2>4 DEF ReminderInvariant, RemindedIsMarked
  <2>6. \A t \in Scanners :
           life' = "live" /\ scan'[t].stage = "sending" /\ scan'[t].current
              => row'.deadline_reminded_at # NoTime
    <3> SUFFICES ASSUME NEW t \in Scanners, life' = "live",
                        scan'[t].stage = "sending", scan'[t].current
                 PROVE  row'.deadline_reminded_at # NoTime
      OBVIOUS
    <3>1. CASE t = s
      BY <3>1, <2>1, <2>2, <2>4 DEF Resting
    <3>2. CASE t # s
      BY <3>2, <2>1, <2>2 DEF ReminderInvariant
    <3> QED BY <3>1, <3>2
  <2> QED BY <2>1, <2>2, <2>3, <2>5, <2>6 DEF ReminderInvariant
<1>4. CASE ScanFails(s)
  <2>1. scan' = [scan EXCEPT ![s] = Resting] /\ UNCHANGED <<life, row, tx, reminders>>
    BY <1>4 DEF ScanFails, vars, db
  <2>2. ReminderTypeOK'
    BY <2>1 DEF ReminderTypeOK, Job
  <2>3. \A t \in Scanners : scan'[t] = scan[t] \/ scan'[t] = Resting
    BY <2>1 DEF ReminderTypeOK
  <2> QED BY <2>1, <2>2, <2>3 DEF ReminderInvariant, RemindedIsMarked, Resting
<1> QED BY <1>1, <1>2, <1>3, <1>4

(* A new deadline: nothing has been sent of it, and what is being sent is  *)
(* about the old one.                                                      *)
LEMMA ReplaceMarked ==
    ASSUME TypeOK, ReminderTypeOK, ReminderInvariant, NEW r \in Requests,
           ReplaceDeadline(r)
    PROVE  /\ ReminderTypeOK'
           /\ ReminderInvariant'
           /\ \A s \in Scanners : scan'[s] = Resting \/ scan'[s].current = FALSE
<1>1. /\ MakeVisible(r) /\ life = "live" /\ life' = "live"
      /\ reminders' = NoReminders
      /\ scan' = [s \in Scanners |-> Outdated(scan[s])]
  BY DEF ReplaceDeadline, CommitDeadline, MakeVisible
<1>2. ASSUME NEW job \in Job
      PROVE  /\ Outdated(job) \in Job
             /\ Outdated(job) = Resting \/ Outdated(job).current = FALSE
  BY DEF Outdated, Job
<1>3. \A s \in Scanners : scan'[s] = Resting \/ scan'[s].current = FALSE
  BY <1>1, <1>2 DEF ReminderTypeOK
<1>4. ReminderTypeOK'
  BY <1>1, <1>2 DEF ReminderTypeOK, NoReminders
<1>5. \A q \in Requests : KeepsMark(tx'[q])
  BY <1>1, CommitKeeps DEF MakeVisible, ReminderInvariant
<1>6. row'.conducted_by_id \in Users
  BY <1>1, VisibleColumns DEF ReminderInvariant
<1> QED BY <1>1, <1>3, <1>4, <1>5, <1>6
        DEF ReminderInvariant, RemindedIsMarked, NoReminders, Resting

LEMMA ReminderStep ==
    ASSUME TypeOK, ReminderTypeOK, ReminderInvariant, [RNext]_rvars
    PROVE  TypeOK' /\ ReminderTypeOK' /\ ReminderInvariant'
<1>1. CASE OtherStep /\ UNCHANGED <<scan, reminders>>
  <2>1. TypeOK'
    BY <1>1, StepTyped DEF Next
  <2> QED BY <1>1, <2>1, OtherStepMarked DEF ReminderTypeOK
<1>2. ASSUME NEW r \in Requests, ReplaceDeadline(r)
      PROVE  TypeOK' /\ ReminderTypeOK' /\ ReminderInvariant'
  BY <1>2, ReplaceMarked, MakeVisibleTyped DEF ReplaceDeadline, CommitDeadline
<1>3. ASSUME NEW s \in Scanners, Select(s) \/ Mark(s) \/ Send(s) \/ ScanFails(s)
      PROVE  TypeOK' /\ ReminderTypeOK' /\ ReminderInvariant'
  <2>1. CASE UNCHANGED vars
    BY <2>1, <1>3, StepTyped, ScanStepMarked
  <2>2. CASE Mark(s)
    <3>1. scan[s].at \in Nat
      BY <2>2, RunAssumption DEF Mark, ReminderTypeOK, Job, Resting
    <3>2. WritesTypeOK([deadline_reminded_at |-> scan[s].at])
      BY <3>1 DEF WritesTypeOK, Columns, ColumnType
    <3>3. IsRow(row')
      BY <2>2, <3>2, ApplyRow DEF Mark, TypeOK
    <3>4. TypeOK'
      BY <2>2, <3>3 DEF Mark, TypeOK
    <3> QED BY <1>3, <3>4, ScanStepMarked
  <2> QED BY <1>3, <2>1, <2>2 DEF Select, Send, ScanFails
<1>4. CASE UNCHANGED rvars
  <2>1. TypeOK'
    BY <1>4, StepTyped DEF rvars
  <2> QED BY <1>4, <2>1
          DEF rvars, vars, db, ReminderTypeOK, ReminderInvariant, RemindedIsMarked
<1> QED BY <1>1, <1>2, <1>3, <1>4 DEF RNext

LEMMA ReminderInit == RInit => TypeOK /\ ReminderTypeOK /\ ReminderInvariant
BY InitTyped
   DEF RInit, Init, ReminderTypeOK, ReminderInvariant, RemindedIsMarked, NoReminders, Job,
       KeepsMark, Idle

LEMMA RemindersHold == RSpec => [](TypeOK /\ ReminderTypeOK /\ ReminderInvariant)
BY ReminderInit, ReminderStep, PTL DEF RSpec

(* What every loop is doing and the number of reminders keep their types:  *)
(* a scan never has nobody, or the deleted creator, to remind.             *)
THEOREM ReminderTyped == RSpec => []ReminderTypeOK
BY RemindersHold, PTL

(* However many instances scan and whatever the requests do, a run whose   *)
(* people have been reminded of the deadline in force carries the mark, so *)
(* that the scan after a failure passes it over (deadline_reminded_at).    *)
THEOREM RemindedMarked == RSpec => []RemindedIsMarked
<1>1. ReminderInvariant => RemindedIsMarked
  BY DEF ReminderInvariant
<1> QED BY <1>1, RemindersHold, PTL

-----------------------------------------------------------------------------
(* How often a user is reminded.                                           *)

(* The scans that have somebody left to remind are finitely many.          *)
LEMMA PendingFinite ==
    ASSUME NEW u
    PROVE  /\ Cardinality(Pending(u)) \in Nat
           /\ Cardinality(Pending(u)) <= Cardinality(Scanners)
           /\ IsFiniteSet(Pending(u))
           /\ Cardinality(Scanners) \in Nat
BY ReminderAssumption, FS_Subset, FS_CardinalityType DEF Pending

(* Nobody joins those who are to be reminded, and no reminder is counted.  *)
LEMMA FewerPending ==
    ASSUME ReminderTypeOK, OneReminderPerLoop, reminders' = reminders,
           \A u \in Users : Pending(u)' \subseteq Pending(u)
    PROVE  OneReminderPerLoop'
<1> SUFFICES ASSUME NEW u \in Users
             PROVE  reminders'[u] + Cardinality(Pending(u)') <= Cardinality(Scanners)
  BY DEF OneReminderPerLoop
<1>1. Cardinality(Pending(u)') \in Nat
      /\ Cardinality(Pending(u)') <= Cardinality(Pending(u))
  BY PendingFinite, FS_Subset, FS_CardinalityType
<1>2. reminders[u] \in Nat
  BY DEF ReminderTypeOK
<1> QED BY <1>1, <1>2, PendingFinite DEF OneReminderPerLoop

(* A deadline that nobody has been reminded of.                            *)
LEMMA NobodyReminded ==
    ASSUME \A u \in Users : reminders'[u] = 0
    PROVE  OneReminderPerLoop'
<1>1. \A u : /\ Pending(u)' \subseteq Scanners
             /\ Cardinality(Pending(u)') <= Cardinality(Scanners)
             /\ Cardinality(Pending(u)') \in Nat
  BY ReminderAssumption, FS_Subset, FS_CardinalityType DEF Pending
<1> QED BY <1>1 DEF OneReminderPerLoop

(* A reminder moves its user from those a scan has yet to remind to those  *)
(* who have been reminded.                                                 *)
LEMMA RemindCounts ==
    ASSUME ReminderTypeOK, OneReminderPerLoop,
           NEW s \in Scanners, scan[s] # Resting, Remind(s)
    PROVE  OneReminderPerLoop'
<1>1. PICK u \in scan[s].to :
         /\ scan' = [scan EXCEPT ![s] = Sending(scan[s].to \ {u}, scan[s].current)]
         /\ reminders' = IF scan[s].current
                           THEN [reminders EXCEPT ![u] = @ + 1]
                           ELSE reminders
  BY DEF Remind
<1>2. /\ scan'[s] = Sending(scan[s].to \ {u}, scan[s].current)
      /\ \A t \in Scanners \ {s} : scan'[t] = scan[t]
  BY <1>1 DEF ReminderTypeOK
<1>3. /\ scan'[s] = Resting =>
            scan[s].to = {u}
      /\ scan'[s] # Resting =>
            /\ scan'[s].current = scan[s].current
            /\ scan'[s].to = scan[s].to \ {u}
  BY <1>1, <1>2 DEF Sending, Resting
<1>4. \A v : Pending(v)' = IF v = u THEN Pending(u) \ {s} ELSE Pending(v)
  <2> TAKE v
  <2>1. \A t \in Scanners \ {s} : t \in Pending(v)' <=> t \in Pending(v)
    BY <1>2 DEF Pending
  <2>2. s \in Pending(v)' <=> v # u /\ s \in Pending(v)
    BY <1>3 DEF Pending
  <2>3. Pending(v) \subseteq Scanners /\ Pending(v)' \subseteq Scanners
    BY DEF Pending
  <2> QED BY <2>1, <2>2, <2>3
<1>5. CASE ~scan[s].current
  <2>1. \A v \in Users : Pending(v)' \subseteq Pending(v)
    BY <1>4
  <2> QED BY <1>1, <1>5, <2>1, FewerPending
<1>6. CASE scan[s].current
  <2> SUFFICES ASSUME NEW v \in Users
               PROVE  reminders'[v] + Cardinality(Pending(v)') <= Cardinality(Scanners)
    BY DEF OneReminderPerLoop
  <2>1. reminders[v] \in Nat
        /\ reminders[v] + Cardinality(Pending(v)) <= Cardinality(Scanners)
    BY DEF ReminderTypeOK, OneReminderPerLoop
  <2>2. CASE v = u
    <3>1. s \in Pending(u)
      BY <1>1, <1>6 DEF Pending
    <3>2. Cardinality(Pending(v)') = Cardinality(Pending(v)) - 1
      BY <1>4, <2>2, <3>1, PendingFinite, FS_RemoveElement
    <3>3. reminders'[v] = reminders[v] + 1
      BY <1>1, <1>6, <2>2 DEF ReminderTypeOK
    <3> QED BY <2>1, <3>2, <3>3, PendingFinite
  <2>3. CASE v # u
    BY <1>1, <1>4, <2>1, <2>3 DEF ReminderTypeOK
  <2> QED BY <2>2, <2>3
<1> QED BY <1>5, <1>6

LEMMA PerLoopStep ==
    ASSUME TypeOK, ReminderTypeOK, ReminderInvariant, OneReminderPerLoop, [RNext]_rvars
    PROVE  OneReminderPerLoop'
<1>1. CASE UNCHANGED <<scan, reminders>>
  BY <1>1, FewerPending DEF Pending
<1>2. ASSUME NEW r \in Requests, ReplaceDeadline(r) PROVE OneReminderPerLoop'
  BY <1>2, NobodyReminded DEF ReplaceDeadline, NoReminders
<1>3. ASSUME NEW s \in Scanners, Select(s) PROVE OneReminderPerLoop'
  <2>1. \A u \in Users : reminders[u] = 0
    BY <1>3 DEF Select, DueSoon, ReminderInvariant, RemindedIsMarked, ReminderTypeOK
  <2> QED BY <1>3, <2>1, NobodyReminded DEF Select
<1>4. ASSUME NEW s \in Scanners, ScanFails(s) PROVE OneReminderPerLoop'
  <2>1. \A t \in Scanners : scan'[t] = Resting \/ scan'[t] = scan[t]
    BY <1>4 DEF ScanFails, ReminderTypeOK
  <2>2. \A u \in Users : Pending(u)' \subseteq Pending(u)
    BY <2>1 DEF Pending
  <2> QED BY <1>4, <2>2, FewerPending DEF ScanFails
<1>5. ASSUME NEW s \in Scanners, Mark(s) \/ Send(s) PROVE OneReminderPerLoop'
  <2>1. Remind(s) /\ scan[s] # Resting
    BY <1>5 DEF Mark, Send, Resting
  <2> QED BY <2>1, RemindCounts
<1> QED BY <1>1, <1>2, <1>3, <1>4, <1>5 DEF RNext, rvars

(* However many instances scan, whatever scans fail and whatever the       *)
(* requests change under them, nobody is reminded of one deadline more     *)
(* often than there are instances: this is what deadline_reminded_at       *)
(* ("анти-дубль") is worth without a lock.                                 *)
THEOREM RemindedPerLoop == RSpec => []OneReminderPerLoop
<1>1. RInit => OneReminderPerLoop
  <2> SUFFICES ASSUME RInit, NEW u \in Users
               PROVE  reminders[u] + Cardinality(Pending(u)) <= Cardinality(Scanners)
    BY DEF OneReminderPerLoop
  <2>1. reminders[u] = 0
    BY DEF RInit, NoReminders
  <2> QED BY <2>1, PendingFinite
<1>2. TypeOK /\ ReminderTypeOK /\ ReminderInvariant /\ OneReminderPerLoop /\ [RNext]_rvars
         => OneReminderPerLoop'
  BY PerLoopStep
<1> QED BY <1>1, <1>2, RemindersHold, PTL DEF RSpec

(* With one application instance nobody is reminded twice of one deadline, *)
(* although scans fail half way, requests change the run under them and    *)
(* the mark is written without looking at the row.                         *)
THEOREM RemindedOnce ==
    ASSUME \A s, t \in Scanners : s = t
    PROVE  RSpec => []AtMostOneReminder
<1>1. Cardinality(Scanners) <= 1
  <2>1. CASE Scanners = {}
    BY <2>1, FS_EmptySet
  <2>2. ASSUME NEW s \in Scanners PROVE Cardinality(Scanners) <= 1
    <3>1. Scanners = {s}
      OBVIOUS
    <3> QED BY <3>1, FS_Singleton
  <2> QED BY <2>1, <2>2
<1>2. ReminderTypeOK /\ OneReminderPerLoop => AtMostOneReminder
  <2> SUFFICES ASSUME ReminderTypeOK, OneReminderPerLoop, NEW u \in Users
               PROVE  reminders[u] <= 1
    BY DEF AtMostOneReminder
  <2>1. reminders[u] \in Nat
        /\ reminders[u] + Cardinality(Pending(u)) <= Cardinality(Scanners)
    BY DEF ReminderTypeOK, OneReminderPerLoop
  <2> QED BY <1>1, <2>1, PendingFinite
<1> QED BY <1>2, RemindersHold, RemindedPerLoop, PTL

-----------------------------------------------------------------------------
(* The run beside the loops: what ChecklistRunProofs says of the requests  *)
(* still holds.                                                            *)

(* Marking leaves everything but the mark alone.                           *)
LEMMA MarkOnly ==
    ASSUME TypeOK, NEW s \in Scanners, Mark(s)
    PROVE  /\ life = "live"
           /\ UNCHANGED <<life, values, correctors, assignees, tx, now>>
           /\ DOMAIN row' = Columns
           /\ \A c \in Columns \ {"deadline_reminded_at"} : row'[c] = row[c]
BY ApplyValues DEF Mark, TypeOK, IsRow

(* A step of the whole is one of the requests or sets the mark.            *)
LEMMA RequestOrMark ==
    ASSUME [RNext]_rvars
    PROVE  [Next]_vars \/ \E s \in Scanners : Mark(s)
<1>1. \A s \in Scanners : Select(s) \/ Send(s) \/ ScanFails(s) => UNCHANGED vars
  BY DEF Select, Send, ScanFails
<1> QED BY <1>1 DEF RNext, rvars, ReplaceDeadline, Next

LEMMA MarkSafe ==
    ASSUME TypeOK, RunInvariant, NEW s \in Scanners, Mark(s)
    PROVE  RunInvariant' /\ UNCHANGED (Lifecycle!vars)
<1>1. /\ life = "live"
      /\ UNCHANGED <<life, values, correctors, tx>>
      /\ row'.status = row.status
      /\ row'.result = row.result
      /\ row'.completed_at = row.completed_at
      /\ row'.corrected_at = row.corrected_at
  BY MarkOnly DEF Columns, ColumnType
<1>2. \A r \in Requests : SafeTx(tx[r])'
  BY <1>1 DEF RunInvariant, SafeTx, SafeWrites, StillSet
<1> QED BY <1>1, <1>2 DEF RunInvariant, CompletedHasVerdict, ReopenedIsMarked,
                       MarkedOnlyAfterReopening, Lifecycle!vars

LEMMA RunHolds == RSpec => [](TypeOK /\ RunInvariant)
<1>1. RInit => RunInvariant
  BY InitSafe DEF RInit
<1>2. TypeOK /\ RunInvariant /\ [RNext]_rvars => RunInvariant'
  BY RequestOrMark, StepSafe, MarkSafe
<1> QED BY <1>1, <1>2, RemindersHold, PTL DEF RSpec

(* However many reminder loops mark the run while requests are under way,  *)
(* it keeps its verdict and its correction marks.                          *)
THEOREM RunSafeBesideLoops ==
    RSpec => [](CompletedHasVerdict /\ ReopenedIsMarked /\ MarkedOnlyAfterReopening)
<1>1. RunInvariant => CompletedHasVerdict /\ ReopenedIsMarked /\ MarkedOnlyAfterReopening
  BY DEF RunInvariant
<1> QED BY <1>1, RunHolds, PTL

(* The requests and the reminder loops together implement the life cycle   *)
(* of a run: to it, the loops are invisible.                               *)
THEOREM LifecycleBesideLoops == RSpec => ImplementsLifecycle
<1>1. RInit => Lifecycle!Init
  BY InitMaps DEF RInit
<1>2. TypeOK /\ RunInvariant /\ [RNext]_rvars => [Lifecycle!Next]_(Lifecycle!vars)
  BY RequestOrMark, StepMaps, MarkSafe
<1> QED BY <1>1, <1>2, RunHolds, PTL DEF RSpec, ImplementsLifecycle, Lifecycle!Spec

(* A mark that is set between the load and the commit of a request         *)
(* changes nothing of what the request has relied on.                      *)
LEMMA MarkUndisturbed ==
    ASSUME TypeOK, SerialInvariant, NEW s \in Scanners, Mark(s)
    PROVE  SerialInvariant'
<1> SUFFICES ASSUME life = "live" PROVE SerialInvariant'
  BY MarkOnly DEF SerialInvariant
<1>1. /\ UNCHANGED <<life, values, correctors, assignees, tx>>
      /\ DOMAIN row = Columns /\ DOMAIN row' = Columns
      /\ \A c \in Columns \ {"deadline_reminded_at"} : row'[c] = row[c]
  BY MarkOnly DEF TypeOK, IsRow
<1> DEFINE read == {"status", "result", "completed_at", "due_at", "conducted_by_id"}
                   \cup DOMAIN Counts(values)
<1>2. read \subseteq Columns \ {"deadline_reminded_at"}
  BY DEF Columns, ColumnType, Counts
<1>3. ASSUME NEW x, NEW y, NEW vals, \A c \in read : x[c] = y[c], VerdictFits(x, vals)
      PROVE  VerdictFits(y, vals)
  BY <1>3 DEF VerdictFits, Counts
<1>4. VerdictFits(row, values)'
  BY <1>1, <1>2, <1>3 DEF SerialInvariant
<1>5. ASSUME NEW r \in Requests PROVE Undisturbed(tx[r])'
  <2> DEFINE t == tx[r]
             y == Apply(row, t.writes)
  <2>1. Undisturbed(t)
    BY DEF SerialInvariant
  <2>2. t.stage = "loaded" => UpToDate(t.row)'
    BY <1>1, <2>1 DEF Undisturbed, UpToDate
  <2>3. \A c \in read : y'[c] = y[c]
    <3>1. /\ \A c \in Columns : y[c] = IF c \in DOMAIN t.writes THEN t.writes[c] ELSE row[c]
          /\ \A c \in Columns : y'[c] = IF c \in DOMAIN t.writes THEN t.writes[c] ELSE row'[c]
      BY <1>1 DEF Apply
    <3> QED BY <1>1, <1>2, <3>1
  <2>4. VerdictFits(y, Apply(values, t.values)) => VerdictFits(y, Apply(values, t.values))'
    <3> HIDE DEF y
    <3> QED BY <1>1, <1>3, <2>3
  <2>5. Signs(t) => Signs(t)'
    BY <1>1, <1>2 DEF Signs
  <2>6. Announces(t) => Announces(t)'
    <3>1. y'.status = y.status /\ row'.status = row.status
          /\ row'.conducted_by_id = row.conducted_by_id
      BY <1>1, <1>2, <2>3
    <3> QED BY <1>1, <3>1 DEF Announces, Audience
  <2>7. row'.status = row.status /\ tx' = tx
    BY <1>1, <1>2
  <2> QED BY <2>1, <2>2, <2>4, <2>5, <2>6, <2>7 DEF Undisturbed, WritesAnswers
<1> QED BY <1>4, <1>5 DEF SerialInvariant

LEMMA SerialBesideLoops ==
    RSpec /\ []TakeTurns => [](TypeOK /\ RunInvariant /\ SerialInvariant)
<1>1. RInit => SerialInvariant
  BY DEF RInit, Init, SerialInvariant
<1>2. TakeTurns /\ TypeOK /\ RunInvariant /\ SerialInvariant /\ [RNext]_rvars => SerialInvariant'
  BY RequestOrMark, StepUndisturbed, MarkUndisturbed
<1> QED BY <1>1, <1>2, RunHolds, PTL DEF RSpec

(* As long as requests take turns, with any number of loops beside them,   *)
(* result and counters of a completed run are those of its answers, and it *)
(* was completed in time, up to the lapse between two clock readings.      *)
THEOREM VerdictBesideLoops ==
    RSpec /\ []TakeTurns => [](ResultMatchesAnswers /\ CompletedInTime)
<1>1. SerialInvariant => ResultMatchesAnswers /\ CompletedInTime
  BY DEF SerialInvariant, VerdictFits, ResultMatchesAnswers, CompletedInTime
<1> QED BY <1>1, SerialBesideLoops, PTL

(* As long as requests take turns, with any number of loops beside them,   *)
(* a correction is signed by the user of its request, the notices of a     *)
(* completion name the creator and the assignees save the user of that     *)
(* completion, and a completed run is read-only.                           *)
THEOREM StepsBesideLoops ==
    RSpec /\ []TakeTurns =>
        CorrectionsAreSigned /\ CompletionIsAnnounced /\ ReadOnlyWhenCompleted
<1>1. TypeOK /\ RunInvariant /\ SerialInvariant /\ [RNext]_rvars =>
         /\ [SignsCorrections]_vars
         /\ [AnnouncesCompletion]_vars
         /\ [KeepsAnswers]_vars
  <2> SUFFICES ASSUME TypeOK, RunInvariant, SerialInvariant, [RNext]_rvars
               PROVE  /\ [SignsCorrections]_vars
                      /\ [AnnouncesCompletion]_vars
                      /\ [KeepsAnswers]_vars
    OBVIOUS
  <2>1. CASE [Next]_vars
    BY <2>1, SignedStep, ToldStep, FixedStep
  <2>2. ASSUME NEW s \in Scanners, Mark(s)
        PROVE  SignsCorrections /\ AnnouncesCompletion /\ KeepsAnswers
    BY <2>2, MarkOnly DEF SignsCorrections, AnnouncesCompletion, KeepsAnswers, Commits
  <2> QED BY <2>1, <2>2, RequestOrMark
<1> QED BY <1>1, SerialBesideLoops, PTL
        DEF RSpec, CorrectionsAreSigned, CompletionIsAnnounced, ReadOnlyWhenCompleted
=============================================================================
