------------------------- MODULE ChecklistRunProofs -------------------------
(***************************************************************************)
(* Proofs about ChecklistRun, for any number of users, items, requests and *)
(* any bound on the clock:                                                 *)
(*                                                                         *)
(*   TypeCorrect       Spec => []TypeOK                                    *)
(*   RunSafe           Spec => []RunInvariant, and with it the verdict and *)
(*                     the correction marks                                *)
(*   LifecycleHolds    Spec => Lifecycle!Spec                              *)
(*                                                                         *)
(* and, as long as requests take turns (TakeTurns: no two between their    *)
(* load and their commit), ResultFits, InTime, CorrectionsSigned,          *)
(* CompletionAnnounced and ReadOnlyAlone, from SerialInvariant.            *)
(***************************************************************************)
EXTENDS ChecklistRun, UnitOfWorkProofs, FiniteSetTheorems

-----------------------------------------------------------------------------
(* Types.                                                                  *)

(* A flush of well-typed writes leaves a well-typed row.                   *)
LEMMA ApplyRow ==
    ASSUME NEW x, NEW w, IsRow(x), WritesTypeOK(w)
    PROVE  IsRow(Apply(x, w))
BY ApplyValues DEF IsRow, WritesTypeOK

(* A flush writes well-typed values if the handler assigned such.          *)
LEMMA NetTyped ==
    ASSUME NEW x, NEW w, WritesTypeOK(w)
    PROVE  WritesTypeOK(Net(x, w))
BY NetDomain DEF WritesTypeOK

LEMMA ThenTyped ==
    ASSUME NEW v, NEW w, WritesTypeOK(v), WritesTypeOK(w)
    PROVE  WritesTypeOK(Then(v, w))
BY DEF Then, WritesTypeOK

LEMMA NothingTyped == WritesTypeOK(NoWrites) /\ \A T : ItemWritesTypeOK(NoWrites, T)
BY DEF WritesTypeOK, ItemWritesTypeOK, NoWrites

(* A new row has the declared types.                                       *)
LEMMA NewRowTyped ==
    ASSUME NEW u \in Users \cup {Null}, NEW due \in Nat
    PROVE  IsRow(NewRow(u, due))
BY DEF IsRow, NewRow, Columns, ColumnType, RunStatus, RunResult, NoTime

(* Counting the answers gives natural numbers.                             *)
LEMMA CountsTyped == ASSUME NEW vals PROVE WritesTypeOK(Counts(vals))
<1>1. IsFiniteSet(GradableItems)
  BY RunAssumption, FS_Subset
<1>2. \A verdict : Graded(vals, verdict) \in Nat
  <2> TAKE verdict
  <2>1. IsFiniteSet({i \in GradableItems : vals[i] = verdict})
    BY <1>1, FS_Subset
  <2> QED BY <2>1, FS_CardinalityType DEF Graded
<1>3. Cardinality(GradableItems) \in Nat
  BY <1>1, FS_CardinalityType
<1> QED
  BY <1>2, <1>3 DEF WritesTypeOK, Counts, Columns, ColumnType

(* What CommitWith leaves behind is a request that is done or notifying.   *)
LEMMA CommitWithTyped ==
    ASSUME NEW r \in Requests, NEW notices, notices \subseteq Notice,
           DOMAIN tx = Requests, \A q \in Requests : TxTypeOK(tx[q]),
           CommitWith(r, notices)
    PROVE  /\ DOMAIN tx' = Requests
           /\ \A q \in Requests : TxTypeOK(tx'[q])
<1>1. PICK left \in IF notices = {} THEN {{}} ELSE {notices \ {n} : n \in notices} :
           tx' = [tx EXCEPT ![r] = AfterCommit(left)]
  BY DEF CommitWith
<1>2. left \subseteq Notice
  BY <1>1
<1>3. TxTypeOK(AfterCommit(left))
  BY <1>2 DEF TxTypeOK, AfterCommit, Idle
<1> QED BY <1>1, <1>3

(* A handler that has made well-typed assignments, at any moment before    *)
(* the clock stops.                                                        *)
LEMMA AssignAtTyped ==
    ASSUME TypeOK, NEW r \in Requests, NEW pending, NEW time \in 1..MaxTime,
           AssignAt(r, pending, time), TxTypeOK(pending)
    PROVE  TypeOK'
BY DEF AssignAt, TypeOK, db, TxTypeOK

LEMMA AssignTyped ==
    ASSUME TypeOK, NEW r \in Requests, NEW pending, Assign(r, pending),
           TxTypeOK(pending)
    PROVE  TypeOK'
BY AssignAtTyped DEF Assign, TypeOK

(* What a handler finds on reading the clock again is a time, and at most  *)
(* Delay ticks later.                                                      *)
LEMMA MomentsTyped ==
    ASSUME TypeOK, NEW later \in Moments
    PROVE  later \in 1..MaxTime /\ later \in Nat /\ later <= now + Delay
BY RunAssumption DEF TypeOK, Moments

LEMMA RowOnlyTyped ==
    ASSUME NEW op \in {"complete", "reopen", "set_deadline", "delete"},
           NEW u \in Users,
           NEW writes, WritesTypeOK(writes),
           NEW notices, notices \subseteq Notice
    PROVE  TxTypeOK(RowOnly(op, u, writes, notices))
BY NothingTyped
   DEF TxTypeOK, FlushedTypeOK, RowOnly, Flushed, NoLinks

LEMMA NoticesTyped ==
    ASSUME NEW people, people \subseteq Users \cup {Null},
           NEW kind \in NoticeKind
    PROVE  Notices(people, kind) \subseteq Notice
BY DEF Notices, Notice

LEMMA AudienceTyped ==
    ASSUME TypeOK, NEW seen, IsRow(seen)
    PROVE  Audience(seen) \subseteq Users \cup {Null}
BY DEF TypeOK, IsRow, Columns, ColumnType, Audience

(* Saving answers leaves well-typed answers.                               *)
LEMMA ApplyItems ==
    ASSUME NEW T, NEW vals \in [Items -> T \cup {Null}], NEW w, ItemWritesTypeOK(w, T)
    PROVE  Apply(vals, w) \in [Items -> T \cup {Null}]
BY DEF Apply, ItemWritesTypeOK

LEMMA StartTyped ==
    ASSUME TypeOK, NEW r \in Requests, NEW u \in Users, NEW team \in SUBSET Users,
           NEW due \in DueTimes, Start(r, u, team, due)
    PROVE  TypeOK'
<1>1. IsRow(row')
  BY RunAssumption, NewRowTyped DEF Start
<1>2. /\ values' \in [Items -> AnswerValues \cup {Null}]
      /\ correctors' \in [Items -> Users \cup {Null}]
      /\ assignees' \subseteq Users
      /\ life' = "live"
      /\ now' \in 1..MaxTime
  BY DEF Start, Unanswered, TypeOK
<1>3. Notices(team \ {u}, "assigned") \subseteq Notice
  BY NoticesTyped DEF NoticeKind
<1>4. DOMAIN tx' = Requests /\ \A q \in Requests : TxTypeOK(tx'[q])
  BY <1>3, CommitWithTyped DEF Start, TypeOK
<1> QED BY <1>1, <1>2, <1>4 DEF TypeOK, TxTypeOK, IsRow, FlushedTypeOK, WritesTypeOK,
                              ItemWritesTypeOK

LEMMA UpdateTyped ==
    ASSUME TypeOK, NEW r \in Requests, NEW u \in Users, NEW patch \in Patches,
           Update(r, u, patch)
    PROVE  TypeOK'
<1> DEFINE seen == tx[r].row
           changed == Changed(values, patch)
           signed == IF seen.corrected_at # NoTime
                       THEN Net(correctors, [i \in changed |-> u]) ELSE NoWrites
           pending == Flushed("update", u, Net(seen, Counts(Apply(values, patch))),
                              Net(values, patch), signed, NoLinks, {})
<1>1. Assign(r, pending)
  BY DEF Update
<1>2. WritesTypeOK(pending.writes)
  BY CountsTyped, NetTyped DEF Flushed
<1>3. PICK S \in SUBSET Items : patch \in [S -> AnswerValues]
  BY DEF Patches
<1>4. ItemWritesTypeOK(pending.values, AnswerValues)
  BY <1>3, NetDomain DEF Flushed, ItemWritesTypeOK
<1>5. changed \subseteq Items
  BY <1>3 DEF Changed
<1>6. ItemWritesTypeOK(signed, Users)
  BY <1>5, NetDomain, NothingTyped DEF ItemWritesTypeOK
<1>7. TxTypeOK(pending)
  BY <1>2, <1>4, <1>6 DEF TxTypeOK, FlushedTypeOK, Flushed, NoLinks
<1> HIDE DEF pending
<1> QED BY <1>1, <1>7, AssignTyped

LEMMA CompleteTyped ==
    ASSUME TypeOK, NEW r \in Requests, NEW u \in Users, Complete(r, u)
    PROVE  TypeOK'
<1>0. PICK later \in Moments :
         AssignAt(r, RowOnly("complete", u,
                             Then(Net(tx[r].row,
                                      Then(Counts(values),
                                           [result |-> Result(values),
                                            status |-> "completed"])),
                                  [completed_at |-> later]),
                             Notices(Audience(tx[r].row) \ {u}, "completed")),
                  later)
  BY DEF Complete
<1> DEFINE seen == tx[r].row
           closing == [result |-> Result(values), status |-> "completed"]
           writes == Then(Net(seen, Then(Counts(values), closing)), [completed_at |-> later])
           notices == Notices(Audience(seen) \ {u}, "completed")
<1>1. AssignAt(r, RowOnly("complete", u, writes, notices), later)
  BY <1>0
<1>2. WritesTypeOK(closing)
  BY DEF WritesTypeOK, Columns, ColumnType, RunResult, RunStatus, Result
<1>3. WritesTypeOK([completed_at |-> later])
  BY MomentsTyped DEF WritesTypeOK, Columns, ColumnType
<1>4. WritesTypeOK(writes)
  <2> HIDE DEF closing
  <2>1. WritesTypeOK(Then(Counts(values), closing))
    BY <1>2, CountsTyped, ThenTyped
  <2>2. WritesTypeOK(Net(seen, Then(Counts(values), closing)))
    BY <2>1, NetTyped
  <2> QED BY <1>3, <2>2, ThenTyped
<1>5. notices \subseteq Notice
  <2>1. IsRow(seen)
    BY DEF Complete, TypeOK, TxTypeOK
  <2> QED BY <2>1, AudienceTyped, NoticesTyped DEF NoticeKind
<1> HIDE DEF writes, notices
<1>6. TxTypeOK(RowOnly("complete", u, writes, notices))
  BY <1>4, <1>5, RowOnlyTyped
<1> QED BY <1>1, <1>6, MomentsTyped, AssignAtTyped

LEMMA ReopenTyped ==
    ASSUME TypeOK, NEW r \in Requests, NEW u \in Users, Reopen(r, u)
    PROVE  TypeOK'
<1> DEFINE seen == tx[r].row
           reopening == [status |-> "in_progress", corrected_by_id |-> u]
           writes == Then(Net(seen, reopening), [corrected_at |-> now])
<1>1. Assign(r, RowOnly("reopen", u, writes, {}))
  BY DEF Reopen
<1>2. WritesTypeOK(reopening)
  BY DEF WritesTypeOK, Columns, ColumnType, RunStatus
<1>3. WritesTypeOK([corrected_at |-> now])
  BY DEF WritesTypeOK, Columns, ColumnType, TypeOK
<1>4. WritesTypeOK(writes)
  <2> HIDE DEF reopening
  <2> QED BY <1>2, <1>3, NetTyped, ThenTyped
<1> HIDE DEF writes
<1>5. TxTypeOK(RowOnly("reopen", u, writes, {}))
  BY <1>4, RowOnlyTyped
<1> QED BY <1>1, <1>5, AssignTyped

LEMMA SetDeadlineTyped ==
    ASSUME TypeOK, NEW r \in Requests, NEW u \in Users, NEW due \in DueTimes,
           SetDeadline(r, u, due)
    PROVE  TypeOK'
<1> DEFINE seen == tx[r].row
           rescheduling == [due_at |-> due, deadline_reminded_at |-> NoTime]
           notices == Notices(Audience(seen) \ {u}, "deadline")
<1>1. Assign(r, RowOnly("set_deadline", u, Net(seen, rescheduling), notices))
  BY DEF SetDeadline
<1>2. WritesTypeOK(rescheduling)
  BY RunAssumption DEF WritesTypeOK, Columns, ColumnType, NoTime
<1>3. WritesTypeOK(Net(seen, rescheduling))
  BY <1>2, NetTyped
<1>4. notices \subseteq Notice
  <2>1. IsRow(seen)
    BY DEF SetDeadline, TypeOK, TxTypeOK
  <2> QED BY <2>1, AudienceTyped, NoticesTyped DEF NoticeKind
<1> HIDE DEF rescheduling, notices
<1>5. TxTypeOK(RowOnly("set_deadline", u, Net(seen, rescheduling), notices))
  BY <1>3, <1>4, RowOnlyTyped
<1> QED BY <1>1, <1>5, AssignTyped

LEMMA SetAssigneesTyped ==
    ASSUME TypeOK, NEW r \in Requests, NEW u \in Users, NEW team \in SUBSET Users,
           SetAssignees(r, u, team)
    PROVE  TypeOK'
<1> DEFINE seen == tx[r].row
           diff == NetLinks(assignees, team \ {seen.conducted_by_id})
           notices == Notices(diff.added \ {u}, "assigned")
                        \cup Notices(diff.removed \ {u}, "unassigned")
           pending == Flushed("set_assignees", u, NoWrites, NoWrites, NoWrites, diff, notices)
<1>1. Assign(r, pending)
  BY DEF SetAssignees
<1>2. diff.added \subseteq Users /\ diff.removed \subseteq Users
  BY DEF NetLinks, TypeOK
<1>3. notices \subseteq Notice
  <2>1. Notices(diff.added \ {u}, "assigned") \subseteq Notice
    BY <1>2, NoticesTyped DEF NoticeKind
  <2>2. Notices(diff.removed \ {u}, "unassigned") \subseteq Notice
    BY <1>2, NoticesTyped DEF NoticeKind
  <2> QED BY <2>1, <2>2
<1>4. TxTypeOK(pending)
  <2> HIDE DEF diff, notices
  <2> QED BY <1>2, <1>3, NothingTyped DEF TxTypeOK, FlushedTypeOK, Flushed
<1> HIDE DEF pending
<1> QED BY <1>1, <1>4, AssignTyped

LEMMA MakeVisibleTyped ==
    ASSUME TypeOK, NEW r \in Requests, MakeVisible(r)
    PROVE  TypeOK'
<1>1. FlushedTypeOK(tx[r])
  BY DEF MakeVisible, TypeOK, TxTypeOK
<1>2. IsRow(row')
  BY <1>1, ApplyRow DEF MakeVisible, TypeOK, FlushedTypeOK
<1>3. values' \in [Items -> AnswerValues \cup {Null}]
  BY <1>1, ApplyItems DEF MakeVisible, TypeOK, FlushedTypeOK
<1>4. correctors' \in [Items -> Users \cup {Null}]
  BY <1>1, ApplyItems DEF MakeVisible, TypeOK, FlushedTypeOK
<1>5. assignees' \subseteq Users
  BY <1>1 DEF MakeVisible, TypeOK, FlushedTypeOK, ApplyLinks
<1>6. DOMAIN tx' = Requests /\ \A q \in Requests : TxTypeOK(tx'[q])
  BY <1>1, CommitWithTyped DEF MakeVisible, TypeOK, FlushedTypeOK
<1>7. life' \in {"absent", "live", "deleted"} /\ now' \in 1..MaxTime
  BY DEF MakeVisible, TypeOK
<1> QED BY <1>2, <1>3, <1>4, <1>5, <1>6, <1>7
        DEF TypeOK, TxTypeOK, IsRow, FlushedTypeOK, WritesTypeOK, ItemWritesTypeOK

(* Every step leaves every column, answer, link and pending write of its   *)
(* type.                                                                   *)
LEMMA StepTyped == TypeOK /\ [Next]_vars => TypeOK'
<1> SUFFICES ASSUME TypeOK, [Next]_vars PROVE TypeOK'
  OBVIOUS
<1>1. ASSUME NEW r \in Requests, NEW u \in Users, NEW team \in SUBSET Users,
             NEW due \in DueTimes, Start(r, u, team, due)
      PROVE  TypeOK'
  BY <1>1, StartTyped
<1>2. ASSUME NEW r \in Requests, Load(r) PROVE TypeOK'
  BY <1>2 DEF Load, Loaded, TypeOK, TxTypeOK, db
<1>3. ASSUME NEW r \in Requests, NEW u \in Users, Handle(r, u) PROVE TypeOK'
  <2>1. ASSUME NEW patch \in Patches, Update(r, u, patch) PROVE TypeOK'
    BY <2>1, UpdateTyped
  <2>2. ASSUME Complete(r, u) PROVE TypeOK'
    BY <2>2, CompleteTyped
  <2>3. ASSUME Reopen(r, u) PROVE TypeOK'
    BY <2>3, ReopenTyped
  <2>4. ASSUME NEW due \in DueTimes, SetDeadline(r, u, due) PROVE TypeOK'
    BY <2>4, SetDeadlineTyped
  <2>5. ASSUME NEW team \in SUBSET Users, SetAssignees(r, u, team) PROVE TypeOK'
    BY <2>5, SetAssigneesTyped
  <2>6. ASSUME Delete(r, u) PROVE TypeOK'
    BY <2>6, NothingTyped, RowOnlyTyped, AssignTyped DEF Delete
  <2> QED BY <1>3, <2>1, <2>2, <2>3, <2>4, <2>5, <2>6 DEF Handle
<1>4. ASSUME NEW r \in Requests, MakeVisible(r) PROVE TypeOK'
  BY <1>4, MakeVisibleTyped
<1>5. ASSUME NEW r \in Requests, CommitDelete(r) PROVE TypeOK'
  <2>1. IsRow(NoRow)
    BY NewRowTyped DEF NoRow, NoTime
  <2> QED BY <1>5, <2>1 DEF CommitDelete, TypeOK, TxTypeOK, Idle, Unanswered
<1>6. ASSUME NEW r \in Requests, Notify(r) PROVE TypeOK'
  <2>1. tx[r].notices \subseteq Notice
    BY <1>6 DEF Notify, TypeOK, TxTypeOK
  <2>2. DOMAIN tx' = Requests /\ \A q \in Requests : TxTypeOK(tx'[q])
    BY <1>6, <2>1, CommitWithTyped DEF Notify, TypeOK
  <2> QED BY <1>6, <2>2 DEF Notify, TypeOK, TxTypeOK, db
<1>7. ASSUME NEW r \in Requests, Abort(r) PROVE TypeOK'
  BY <1>7 DEF Abort, Idle, TypeOK, TxTypeOK, db
<1>8. CASE Tick
  BY <1>8, RunAssumption DEF Tick, TypeOK, db
<1>9. CASE UNCHANGED vars
  BY <1>9 DEF vars, db, TypeOK
<1> QED BY <1>1, <1>2, <1>3, <1>4, <1>5, <1>6, <1>7, <1>8, <1>9
        DEF Next, OtherStep, Commit, CommitDeadline

LEMMA InitTyped == Init => TypeOK
<1>1. IsRow(NoRow)
  BY NewRowTyped DEF NoRow, NoTime
<1> QED BY <1>1, RunAssumption DEF Init, TypeOK, TxTypeOK, Idle, Unanswered

(* Whatever the requests do, every column, answer, link and pending write  *)
(* is of the type declared for it.                                         *)
THEOREM TypeCorrect == Spec => []TypeOK
BY InitTyped, StepTyped, PTL DEF Spec

-----------------------------------------------------------------------------
(* Safety.                                                                 *)

(* What the flush does to the columns the invariants speak about.          *)
LEMMA AppliedColumns ==
    ASSUME NEW x, IsRow(x), NEW w
    PROVE  \A c \in {"status", "result", "completed_at", "corrected_at"} :
              Apply(x, w)[c] = IF c \in DOMAIN w THEN w[c] ELSE x[c]
BY DEF Apply, IsRow, Columns, ColumnType

(* The flush of safe writes keeps the promises about the run, and takes    *)
(* nothing away from what other requests rely on.                          *)
LEMMA SafeApply ==
    ASSUME IsRow(row), life = "live", NEW w, SafeWrites(w), NEW y, y = Apply(row, w),
           CompletedHasVerdict, ReopenedIsMarked,
           row.completed_at # NoTime => row.result # Null
    PROVE  /\ y.status = "completed" => y.result # Null /\ y.completed_at # NoTime
           /\ y.status = "in_progress" /\ y.completed_at # NoTime
                => y.corrected_at # NoTime
           /\ y.completed_at # NoTime => y.result # Null
           /\ row.result # Null => y.result # Null
           /\ row.completed_at # NoTime => y.completed_at # NoTime
           /\ row.corrected_at # NoTime => y.corrected_at # NoTime
<1>1. /\ y.status = IF "status" \in DOMAIN w THEN w.status ELSE row.status
      /\ y.result = IF "result" \in DOMAIN w THEN w.result ELSE row.result
      /\ y.completed_at =
            IF "completed_at" \in DOMAIN w THEN w.completed_at ELSE row.completed_at
      /\ y.corrected_at =
            IF "corrected_at" \in DOMAIN w THEN w.corrected_at ELSE row.corrected_at
  BY AppliedColumns
<1>2. CASE "status" \in DOMAIN w /\ w.status = "completed"
  BY <1>1, <1>2 DEF SafeWrites
<1>3. CASE "status" \in DOMAIN w /\ w.status = "in_progress"
  BY <1>1, <1>3 DEF SafeWrites
<1>4. CASE "status" \notin DOMAIN w
  BY <1>1, <1>4 DEF SafeWrites, CompletedHasVerdict, ReopenedIsMarked
<1> QED BY <1>2, <1>3, <1>4 DEF SafeWrites

(* A handler that has made safe assignments on a run that was there when   *)
(* it loaded it.                                                           *)
LEMMA AssignAtSafe ==
    ASSUME TypeOK, RunInvariant, life # "absent",
           NEW r \in Requests, NEW pending, NEW time, AssignAt(r, pending, time),
           pending.stage = "flushed",
           life = "live" => SafeWrites(pending.writes),
           life = "live" /\ DOMAIN pending.correctors # {} => row.corrected_at # NoTime
    PROVE  RunInvariant'
<1>1. UNCHANGED db /\ tx' = [tx EXCEPT ![r] = pending]
  BY DEF AssignAt
<1>2. (CompletedHasVerdict /\ ReopenedIsMarked /\ MarkedOnlyAfterReopening)'
  BY <1>1 DEF RunInvariant, CompletedHasVerdict, ReopenedIsMarked,
              MarkedOnlyAfterReopening, db
<1>3. ASSUME life = "live", NEW q \in Requests PROVE SafeTx(tx[q])'
  <2>1. CASE q = r
    BY <1>1, <1>3, <2>1 DEF TypeOK, SafeTx, SafeWrites, db
  <2>2. CASE q # r
    BY <1>1, <1>3, <2>2 DEF TypeOK, RunInvariant, SafeTx, SafeWrites, StillSet, db
  <2> QED BY <2>1, <2>2
<1> QED BY <1>1, <1>2, <1>3 DEF RunInvariant, db

LEMMA AssignSafe ==
    ASSUME TypeOK, RunInvariant, life # "absent",
           NEW r \in Requests, NEW pending, Assign(r, pending),
           pending.stage = "flushed",
           life = "live" => SafeWrites(pending.writes),
           life = "live" /\ DOMAIN pending.correctors # {} => row.corrected_at # NoTime
    PROVE  RunInvariant'
BY AssignAtSafe DEF Assign

(* Writes of columns the verdict and the mark do not depend on.            *)
LEMMA HarmlessWrites ==
    ASSUME NEW w,
           DOMAIN w \cap {"status", "result", "completed_at", "corrected_at"} = {}
    PROVE  SafeWrites(w)
BY DEF SafeWrites

(* The run a handler works on has been there.                              *)
LEMMA LoadedRun ==
    ASSUME TypeOK, RunInvariant, NEW r \in Requests, tx[r].stage = "loaded"
    PROVE  /\ life # "absent"
           /\ IsRow(tx[r].row)
           /\ life = "live" =>
                 /\ StillSet(tx[r].row)
                 /\ tx[r].row.status = "completed" => tx[r].row.completed_at # NoTime
BY DEF TypeOK, TxTypeOK, RunInvariant, SafeTx

LEMMA UpdateSafe ==
    ASSUME TypeOK, RunInvariant, NEW r \in Requests, NEW u \in Users,
           NEW patch \in Patches, Update(r, u, patch)
    PROVE  RunInvariant'
<1> DEFINE seen == tx[r].row
           counted == Counts(Apply(values, patch))
           signed == IF seen.corrected_at # NoTime
                       THEN Net(correctors, [i \in Changed(values, patch) |-> u])
                       ELSE NoWrites
           pending == Flushed("update", u, Net(seen, counted),
                              Net(values, patch), signed, NoLinks, {})
<1>1. Assign(r, pending)
  BY DEF Update
<1>2. SafeWrites(pending.writes)
  <2>1. DOMAIN counted \cap {"status", "result", "completed_at", "corrected_at"} = {}
    BY DEF Counts
  <2>2. DOMAIN Net(seen, counted) \subseteq DOMAIN counted
    BY NetDomain
  <2> HIDE DEF counted
  <2>3. pending.writes = Net(seen, counted)
    BY DEF Flushed
  <2> QED BY <2>1, <2>2, <2>3, HarmlessWrites
<1>3. life = "live" /\ DOMAIN pending.correctors # {} => row.corrected_at # NoTime
  <2>1. DOMAIN pending.correctors # {} => seen.corrected_at # NoTime
    BY DEF Flushed, NoWrites
  <2> QED BY <2>1, LoadedRun DEF Update, StillSet
<1>4. pending.stage = "flushed"
  BY DEF Flushed
<1>5. life # "absent"
  BY LoadedRun DEF Update
<1> HIDE DEF pending
<1> QED BY <1>1, <1>2, <1>3, <1>4, <1>5, AssignSafe

LEMMA CompleteSafe ==
    ASSUME TypeOK, RunInvariant, NEW r \in Requests, NEW u \in Users, Complete(r, u)
    PROVE  RunInvariant'
<1>0. PICK later \in Moments :
         AssignAt(r, RowOnly("complete", u,
                             Then(Net(tx[r].row,
                                      Then(Counts(values),
                                           [result |-> Result(values),
                                            status |-> "completed"])),
                                  [completed_at |-> later]),
                             Notices(Audience(tx[r].row) \ {u}, "completed")),
                  later)
  BY DEF Complete
<1> DEFINE seen == tx[r].row
           closing == [result |-> Result(values), status |-> "completed"]
           closed == Net(seen, Then(Counts(values), closing))
           writes == Then(closed, [completed_at |-> later])
           notices == Notices(Audience(seen) \ {u}, "completed")
           pending == RowOnly("complete", u, writes, notices)
<1>1. AssignAt(r, pending, later)
  BY <1>0
<1>2. /\ "completed_at" \in DOMAIN writes
      /\ writes.completed_at # NoTime
      /\ "corrected_at" \notin DOMAIN writes
      /\ "status" \in DOMAIN writes
      /\ writes.status = "completed"
      /\ "result" \in DOMAIN writes => writes.result # Null
      /\ "result" \in DOMAIN writes \/ seen.result # Null
  <2> DEFINE assigned == Then(Counts(values), closing)
  <2>1. /\ "status" \in DOMAIN assigned /\ assigned.status = "completed"
        /\ "result" \in DOMAIN assigned /\ assigned.result = Result(values)
        /\ "corrected_at" \notin DOMAIN assigned
        /\ "completed_at" \notin DOMAIN assigned
    BY DEF Then, Counts
  <2>2. Result(values) # Null
    BY RunAssumption DEF Result
  <2>3. seen.status = "in_progress"
    BY DEF Complete
  <2>4. closed = Net(seen, assigned)
    OBVIOUS
  <2> HIDE DEF assigned, closing, closed
  <2>5. /\ "status" \in DOMAIN closed /\ closed.status = "completed"
        /\ "result" \in DOMAIN closed => closed.result # Null
        /\ "result" \in DOMAIN closed \/ seen.result # Null
        /\ "corrected_at" \notin DOMAIN closed
    BY <2>1, <2>2, <2>3, <2>4 DEF Net, Changed
  <2>6. later # NoTime
    BY MomentsTyped DEF NoTime
  <2> HIDE DEF seen
  <2> QED BY <2>5, <2>6 DEF Then
<1>3. life = "live" => SafeWrites(writes)
  <2>1. life = "live" /\ seen.result # Null => row.result # Null
    BY LoadedRun DEF Complete, StillSet
  <2> HIDE DEF writes, seen
  <2> QED BY <1>2, <2>1 DEF SafeWrites
<1>4. /\ pending.stage = "flushed"
      /\ pending.writes = writes
      /\ DOMAIN pending.correctors = {}
  BY DEF RowOnly, Flushed, NoWrites
<1>5. life # "absent"
  BY LoadedRun DEF Complete
<1> HIDE DEF pending, writes
<1> QED BY <1>1, <1>3, <1>4, <1>5, AssignAtSafe

LEMMA ReopenSafe ==
    ASSUME TypeOK, RunInvariant, NEW r \in Requests, NEW u \in Users, Reopen(r, u)
    PROVE  RunInvariant'
<1> DEFINE seen == tx[r].row
           reopening == [status |-> "in_progress", corrected_by_id |-> u]
           writes == Then(Net(seen, reopening), [corrected_at |-> now])
           pending == RowOnly("reopen", u, writes, {})
<1>1. Assign(r, pending)
  BY DEF Reopen
<1>2. /\ "corrected_at" \in DOMAIN writes
      /\ writes.corrected_at # NoTime
      /\ "completed_at" \notin DOMAIN writes
      /\ "result" \notin DOMAIN writes
      /\ "status" \in DOMAIN writes
      /\ writes.status = "in_progress"
  <2>1. seen.status = "completed" /\ now # NoTime
    BY DEF Reopen, TypeOK, NoTime
  <2> QED BY <2>1 DEF Then, Net, Changed
<1>3. life = "live" => SafeWrites(writes)
  <2>1. life = "live" => row.completed_at # NoTime
    BY LoadedRun DEF Reopen, StillSet
  <2> HIDE DEF writes
  <2> QED BY <1>2, <2>1 DEF SafeWrites
<1>4. /\ pending.stage = "flushed"
      /\ pending.writes = writes
      /\ DOMAIN pending.correctors = {}
  BY DEF RowOnly, Flushed, NoWrites
<1>5. life # "absent"
  BY LoadedRun DEF Reopen
<1> HIDE DEF pending, writes
<1> QED BY <1>1, <1>3, <1>4, <1>5, AssignSafe

LEMMA SetDeadlineSafe ==
    ASSUME TypeOK, RunInvariant, NEW r \in Requests, NEW u \in Users,
           NEW due \in DueTimes, SetDeadline(r, u, due)
    PROVE  RunInvariant'
<1> DEFINE seen == tx[r].row
           rescheduling == [due_at |-> due, deadline_reminded_at |-> NoTime]
           writes == Net(seen, rescheduling)
           pending == RowOnly("set_deadline", u, writes,
                              Notices(Audience(seen) \ {u}, "deadline"))
<1>1. Assign(r, pending)
  BY DEF SetDeadline
<1>2. DOMAIN writes \subseteq {"due_at", "deadline_reminded_at"}
  BY DEF Net, Changed
<1>3. SafeWrites(writes)
  BY <1>2, HarmlessWrites
<1>4. /\ pending.stage = "flushed"
      /\ pending.writes = writes
      /\ DOMAIN pending.correctors = {}
  BY DEF RowOnly, Flushed, NoWrites
<1>5. life # "absent"
  BY LoadedRun DEF SetDeadline
<1> HIDE DEF pending, writes
<1> QED BY <1>1, <1>3, <1>4, <1>5, AssignSafe

LEMMA SetAssigneesSafe ==
    ASSUME TypeOK, RunInvariant, NEW r \in Requests, NEW u \in Users,
           NEW team \in SUBSET Users, SetAssignees(r, u, team)
    PROVE  RunInvariant'
<1>1. PICK links, notices :
         Assign(r, Flushed("set_assignees", u, NoWrites, NoWrites, NoWrites, links, notices))
  BY DEF SetAssignees
<1>2. SafeWrites(NoWrites)
  BY HarmlessWrites DEF NoWrites
<1>3. life # "absent"
  BY LoadedRun DEF SetAssignees
<1> DEFINE pending == Flushed("set_assignees", u, NoWrites, NoWrites, NoWrites, links, notices)
<1>4. /\ pending.stage = "flushed"
      /\ pending.writes = NoWrites
      /\ DOMAIN pending.correctors = {}
  BY DEF Flushed, NoWrites
<1>5. Assign(r, pending)
  BY <1>1
<1> HIDE DEF pending
<1> QED BY <1>2, <1>3, <1>4, <1>5, AssignSafe

LEMMA DeleteSafe ==
    ASSUME TypeOK, RunInvariant, NEW r \in Requests, NEW u \in Users, Delete(r, u)
    PROVE  RunInvariant'
<1> DEFINE pending == RowOnly("delete", u, NoWrites, {})
<1>1. Assign(r, pending)
  BY DEF Delete
<1>2. SafeWrites(NoWrites)
  BY HarmlessWrites DEF NoWrites
<1>3. /\ pending.stage = "flushed"
      /\ pending.writes = NoWrites
      /\ DOMAIN pending.correctors = {}
  BY DEF RowOnly, Flushed, NoWrites
<1>4. life # "absent"
  BY LoadedRun DEF Delete
<1> HIDE DEF pending
<1> QED BY <1>1, <1>2, <1>3, <1>4, AssignSafe

LEMMA StartSafe ==
    ASSUME TypeOK, RunInvariant, NEW r \in Requests, NEW u \in Users,
           NEW team \in SUBSET Users, NEW due \in DueTimes, Start(r, u, team, due)
    PROVE  RunInvariant'
<1>1. /\ life = "absent" /\ life' = "live"
      /\ row' = NewRow(u, due)
      /\ correctors' = Unanswered
      /\ CommitWith(r, Notices(team \ {u}, "assigned"))
  BY DEF Start
<1>2. /\ row'.status = "in_progress"
      /\ row'.completed_at = NoTime
  BY <1>1 DEF NewRow
<1>3. \A q \in Requests : tx'[q].stage \in {"idle", "notifying"}
  BY <1>1 DEF TypeOK, RunInvariant, CommitWith, AfterCommit, Idle
<1>4. (CompletedHasVerdict /\ ReopenedIsMarked /\ MarkedOnlyAfterReopening)'
  BY <1>1, <1>2 DEF CompletedHasVerdict, ReopenedIsMarked, MarkedOnlyAfterReopening,
                    Unanswered
<1>5. \A q \in Requests : SafeTx(tx[q])'
  BY <1>3 DEF SafeTx
<1> QED BY <1>1, <1>2, <1>4, <1>5 DEF RunInvariant

(* The commit of safe assignments: the run keeps its promises, and what    *)
(* the other requests have loaded or are about to write stays safe.        *)
LEMMA MakeVisibleSafe ==
    ASSUME TypeOK, RunInvariant, NEW r \in Requests, MakeVisible(r)
    PROVE  RunInvariant'
<1> DEFINE w == tx[r].writes
<1>1. /\ life = "live" /\ life' = "live"
      /\ row' = Apply(row, w)
      /\ correctors' = Apply(correctors, tx[r].correctors)
      /\ CommitWith(r, tx[r].notices)
  BY DEF MakeVisible
<1>2. SafeWrites(w) /\ (DOMAIN tx[r].correctors # {} => row.corrected_at # NoTime)
  BY DEF MakeVisible, RunInvariant, SafeTx
<1>3. /\ row'.status = "completed" => row'.result # Null /\ row'.completed_at # NoTime
      /\ row'.status = "in_progress" /\ row'.completed_at # NoTime
           => row'.corrected_at # NoTime
      /\ row'.completed_at # NoTime => row'.result # Null
      /\ row.result # Null => row'.result # Null
      /\ row.completed_at # NoTime => row'.completed_at # NoTime
      /\ row.corrected_at # NoTime => row'.corrected_at # NoTime
  <2> HIDE DEF w
  <2> QED BY <1>1, <1>2, SafeApply DEF TypeOK, RunInvariant
<1>4. (CompletedHasVerdict /\ ReopenedIsMarked)'
  BY <1>3 DEF CompletedHasVerdict, ReopenedIsMarked
<1>5. MarkedOnlyAfterReopening'
  <2>1. ASSUME NEW i \in Items, correctors'[i] # Null PROVE row.corrected_at # NoTime
    <3>1. CASE i \in DOMAIN tx[r].correctors
      BY <1>2, <3>1
    <3>2. CASE i \notin DOMAIN tx[r].correctors
      BY <1>1, <2>1, <3>2 DEF Apply, TypeOK, RunInvariant, MarkedOnlyAfterReopening
    <3> QED BY <3>1, <3>2
  <2> QED BY <1>3, <2>1 DEF MarkedOnlyAfterReopening
<1>6. ASSUME NEW q \in Requests PROVE SafeTx(tx[q])'
  <2>1. CASE q = r
    BY <1>1, <2>1 DEF CommitWith, AfterCommit, Idle, TypeOK, SafeTx
  <2>2. CASE q # r
    <3>1. tx'[q] = tx[q]
      BY <1>1, <2>2 DEF CommitWith, TypeOK
    <3>2. SafeTx(tx[q])
      BY <1>1 DEF RunInvariant
    <3>3. CASE tx[q].stage = "loaded"
      BY <1>3, <3>1, <3>2, <3>3 DEF SafeTx, StillSet
    <3>4. CASE tx[q].stage = "flushed"
      BY <1>3, <3>1, <3>2, <3>4 DEF SafeTx, SafeWrites
    <3> QED BY <3>1, <3>3, <3>4 DEF SafeTx
  <2> QED BY <2>1, <2>2
<1> QED BY <1>1, <1>3, <1>4, <1>5, <1>6 DEF RunInvariant

(* A step that leaves the database alone and loads or assigns nothing.     *)
LEMMA QuietSafe ==
    ASSUME TypeOK, RunInvariant, UNCHANGED db, NEW r \in Requests, NEW t,
           tx[r].stage # "idle",
           tx' = [tx EXCEPT ![r] = t], t.stage \in {"idle", "notifying"}
    PROVE  RunInvariant'
<1>1. \A q \in Requests : tx'[q] = IF q = r THEN t ELSE tx[q]
  BY DEF TypeOK
<1>2. ASSUME life = "live", NEW q \in Requests PROVE SafeTx(tx[q])'
  BY <1>1, <1>2 DEF RunInvariant, SafeTx, SafeWrites, StillSet, db
<1> QED BY <1>1, <1>2 DEF RunInvariant, CompletedHasVerdict, ReopenedIsMarked,
                       MarkedOnlyAfterReopening, db

LEMMA StepSafe == TypeOK /\ RunInvariant /\ [Next]_vars => RunInvariant'
<1> SUFFICES ASSUME TypeOK, RunInvariant, [Next]_vars PROVE RunInvariant'
  OBVIOUS
<1>1. ASSUME NEW r \in Requests, NEW u \in Users, NEW team \in SUBSET Users,
             NEW due \in DueTimes, Start(r, u, team, due)
      PROVE  RunInvariant'
  BY <1>1, StartSafe
<1>2. ASSUME NEW r \in Requests, Load(r) PROVE RunInvariant'
  <2>1. life = "live" /\ UNCHANGED db /\ tx' = [tx EXCEPT ![r] = Loaded(row)]
    BY <1>2 DEF Load
  <2>2. ASSUME NEW q \in Requests PROVE SafeTx(tx[q])'
    <3>1. CASE q = r
      BY <2>1, <3>1 DEF TypeOK, RunInvariant, CompletedHasVerdict, SafeTx, StillSet,
                        Loaded, db
    <3>2. CASE q # r
      BY <2>1, <3>2 DEF TypeOK, RunInvariant, SafeTx, SafeWrites, StillSet, db
    <3> QED BY <3>1, <3>2
  <2> QED BY <2>1, <2>2 DEF RunInvariant, CompletedHasVerdict, ReopenedIsMarked,
                            MarkedOnlyAfterReopening, db
<1>3. ASSUME NEW r \in Requests, NEW u \in Users, Handle(r, u) PROVE RunInvariant'
  <2>1. ASSUME NEW patch \in Patches, Update(r, u, patch) PROVE RunInvariant'
    BY <2>1, UpdateSafe
  <2>2. ASSUME Complete(r, u) PROVE RunInvariant'
    BY <2>2, CompleteSafe
  <2>3. ASSUME Reopen(r, u) PROVE RunInvariant'
    BY <2>3, ReopenSafe
  <2>4. ASSUME NEW due \in DueTimes, SetDeadline(r, u, due) PROVE RunInvariant'
    BY <2>4, SetDeadlineSafe
  <2>5. ASSUME NEW team \in SUBSET Users, SetAssignees(r, u, team) PROVE RunInvariant'
    BY <2>5, SetAssigneesSafe
  <2>6. ASSUME Delete(r, u) PROVE RunInvariant'
    BY <2>6, DeleteSafe
  <2> QED BY <1>3, <2>1, <2>2, <2>3, <2>4, <2>5, <2>6 DEF Handle
<1>4. ASSUME NEW r \in Requests, MakeVisible(r) PROVE RunInvariant'
  BY <1>4, MakeVisibleSafe
<1>5. ASSUME NEW r \in Requests, CommitDelete(r) PROVE RunInvariant'
  BY <1>5 DEF CommitDelete, RunInvariant, CompletedHasVerdict, ReopenedIsMarked,
              MarkedOnlyAfterReopening, Unanswered
<1>6. ASSUME NEW r \in Requests, Notify(r) PROVE RunInvariant'
  <2>1. PICK left : tx' = [tx EXCEPT ![r] = AfterCommit(left)]
    BY <1>6 DEF Notify, CommitWith
  <2>2. AfterCommit(left).stage \in {"idle", "notifying"}
    BY DEF AfterCommit, Idle
  <2>3. UNCHANGED db /\ tx[r].stage # "idle"
    BY <1>6 DEF Notify
  <2> QED BY <2>1, <2>2, <2>3, QuietSafe
<1>7. ASSUME NEW r \in Requests, Abort(r) PROVE RunInvariant'
  BY <1>7, QuietSafe DEF Abort, Idle
<1>8. CASE UNCHANGED <<db, tx>>
  BY <1>8 DEF db, RunInvariant, CompletedHasVerdict, ReopenedIsMarked,
              MarkedOnlyAfterReopening, SafeTx, SafeWrites, StillSet
<1> QED BY <1>1, <1>2, <1>3, <1>4, <1>5, <1>6, <1>7, <1>8
        DEF Next, OtherStep, Commit, CommitDeadline, Tick, vars

LEMMA InitSafe == Init => RunInvariant
BY DEF Init, NoRow, NewRow, Idle, Unanswered, RunInvariant, CompletedHasVerdict,
       ReopenedIsMarked, MarkedOnlyAfterReopening

(* However the requests interleave, the run and every request under way    *)
(* stay safe.                                                              *)
THEOREM RunSafe == Spec => []RunInvariant
BY InitTyped, StepTyped, InitSafe, StepSafe, PTL DEF Spec

(* A completed run always carries its verdict, although `complete_run` may *)
(* leave the result out of its UPDATE.                                     *)
THEOREM VerdictHolds == Spec => []CompletedHasVerdict
<1>1. RunInvariant => CompletedHasVerdict
  BY DEF RunInvariant
<1> QED BY <1>1, RunSafe, PTL

(* `reopen_run` is the only way back from completed to in progress.        *)
THEOREM ReopeningMarks == Spec => []ReopenedIsMarked
<1>1. RunInvariant => ReopenedIsMarked
  BY DEF RunInvariant
<1> QED BY <1>1, RunSafe, PTL

(* No answer is marked as corrected on a run that was never reopened.      *)
THEOREM MarksNeedReopening == Spec => []MarkedOnlyAfterReopening
<1>1. RunInvariant => MarkedOnlyAfterReopening
  BY DEF RunInvariant
<1> QED BY <1>1, RunSafe, PTL

-----------------------------------------------------------------------------
(* The life cycle.                                                         *)

(* A commit completes the run, reopens it, or leaves its stage alone.      *)
LEMMA MakeVisibleSteps ==
    ASSUME TypeOK, RunInvariant, NEW r \in Requests, MakeVisible(r)
    PROVE  [Lifecycle!Next]_(Lifecycle!vars)
<1> DEFINE w == tx[r].writes
<1>1. life = "live" /\ life' = "live" /\ row' = Apply(row, w)
  BY DEF MakeVisible
<1>2. SafeWrites(w)
  BY DEF MakeVisible, RunInvariant, SafeTx
<1>3. row.status \in {"in_progress", "completed"}
  BY DEF TypeOK, IsRow, Columns, ColumnType, RunStatus
<1>4. /\ row.completed_at # NoTime => row.result # Null
      /\ row.status = "completed" => row.completed_at # NoTime
      /\ row.status = "in_progress" /\ row.completed_at # NoTime
           => row.corrected_at # NoTime
  BY <1>1 DEF RunInvariant, CompletedHasVerdict, ReopenedIsMarked
<1> HIDE DEF w
<1>5. /\ row'.status = IF "status" \in DOMAIN w THEN w.status ELSE row.status
      /\ row'.result = IF "result" \in DOMAIN w THEN w.result ELSE row.result
      /\ row'.completed_at =
            IF "completed_at" \in DOMAIN w THEN w.completed_at ELSE row.completed_at
      /\ row'.corrected_at =
            IF "corrected_at" \in DOMAIN w THEN w.corrected_at ELSE row.corrected_at
  BY <1>1, AppliedColumns DEF TypeOK
<1>6. CASE "status" \in DOMAIN w /\ w.status = "completed"
  <2>1. /\ row'.status = "completed" /\ row'.result # Null /\ row'.completed_at # NoTime
        /\ row'.corrected_at = row.corrected_at
    BY <1>2, <1>5, <1>6 DEF SafeWrites
  <2>2. CASE row.status = "in_progress"
    BY <1>1, <2>1, <2>2 DEF Lifecycle!Next, Lifecycle!Complete
  <2>3. CASE row.status = "completed"
    BY <1>1, <1>4, <2>1, <2>3 DEF Lifecycle!vars
  <2> QED BY <1>3, <2>2, <2>3
<1>7. CASE "status" \in DOMAIN w /\ w.status = "in_progress"
  <2>1. /\ row'.status = "in_progress" /\ row'.corrected_at # NoTime
        /\ row'.result = row.result /\ row'.completed_at = row.completed_at
        /\ row.completed_at # NoTime
    BY <1>2, <1>5, <1>7 DEF SafeWrites
  <2>2. CASE row.status = "completed"
    BY <1>1, <2>1, <2>2 DEF Lifecycle!Next, Lifecycle!Reopen
  <2>3. CASE row.status = "in_progress"
    BY <1>1, <1>4, <2>1, <2>3 DEF Lifecycle!vars
  <2> QED BY <1>3, <2>2, <2>3
<1>8. CASE "status" \notin DOMAIN w
  BY <1>1, <1>2, <1>5, <1>8 DEF SafeWrites, Lifecycle!vars
<1> QED BY <1>2, <1>6, <1>7, <1>8 DEF SafeWrites

(* Every step of the requests is a step of the life cycle or invisible.    *)
LEMMA StepMaps ==
    TypeOK /\ RunInvariant /\ [Next]_vars => [Lifecycle!Next]_(Lifecycle!vars)
<1> SUFFICES ASSUME TypeOK, RunInvariant, [Next]_vars
             PROVE  [Lifecycle!Next]_(Lifecycle!vars)
  OBVIOUS
<1>1. ASSUME NEW r \in Requests, NEW u \in Users, NEW team \in SUBSET Users,
             NEW due \in DueTimes, Start(r, u, team, due)
      PROVE  [Lifecycle!Next]_(Lifecycle!vars)
  <2>1. life = "absent" /\ life' = "live" /\ row' = NewRow(u, due) /\ row = NoRow
    BY <1>1 DEF Start, RunInvariant
  <2>2. /\ row'.status = "in_progress" /\ row'.result = row.result
        /\ row'.completed_at = row.completed_at /\ row'.corrected_at = row.corrected_at
    BY <2>1 DEF NoRow, NewRow
  <2> QED BY <2>1, <2>2 DEF Lifecycle!Next, Lifecycle!Start
<1>2. ASSUME NEW r \in Requests, MakeVisible(r)
      PROVE  [Lifecycle!Next]_(Lifecycle!vars)
  BY <1>2, MakeVisibleSteps
<1>3. ASSUME NEW r \in Requests, CommitDelete(r)
      PROVE  [Lifecycle!Next]_(Lifecycle!vars)
  <2>1. life # "absent" /\ life' = "deleted" /\ row' = NoRow
    BY <1>3 DEF CommitDelete, RunInvariant
  <2>2. row'.result = Null /\ row'.corrected_at = NoTime
    BY <2>1 DEF NoRow, NewRow
  <2>3. CASE life = "live"
    <3>1. row.status \in {"in_progress", "completed"}
      BY DEF TypeOK, IsRow, Columns, ColumnType, RunStatus
    <3> QED BY <2>1, <2>2, <2>3, <3>1 DEF Lifecycle!Next, Lifecycle!Delete
  <2>4. CASE life = "deleted"
    BY <2>1, <2>4 DEF RunInvariant, Lifecycle!vars
  <2> QED BY <2>1, <2>3, <2>4 DEF TypeOK
<1>4. CASE UNCHANGED db
  BY <1>4 DEF db, Lifecycle!vars
<1>5. ASSUME NEW r \in Requests, Load(r) \/ Notify(r) \/ Abort(r) PROVE UNCHANGED db
  BY <1>5 DEF Load, Notify, Abort
<1>6. ASSUME NEW r \in Requests, NEW u \in Users, Handle(r, u) PROVE UNCHANGED db
  BY <1>6 DEF Handle, Update, Complete, Reopen, SetDeadline, SetAssignees, Delete, Assign, AssignAt
<1>7. CASE Tick \/ UNCHANGED vars
  BY <1>4, <1>7 DEF Tick, vars
<1> QED BY <1>1, <1>2, <1>3, <1>4, <1>5, <1>6, <1>7
        DEF Next, OtherStep, Commit, CommitDeadline

LEMMA InitMaps == Init => Lifecycle!Init
BY DEF Init, NoRow, NewRow, Lifecycle!Init

(* The requests on a run implement the life cycle, however many they are   *)
(* and however they interleave, fail and notify.                           *)
THEOREM LifecycleHolds == Spec => ImplementsLifecycle
BY InitTyped, StepTyped, InitSafe, StepSafe, InitMaps, StepMaps, PTL
   DEF Spec, ImplementsLifecycle, Lifecycle!Spec

-----------------------------------------------------------------------------
(* Requests that take turns.                                               *)

(* A step of one request that leaves the run and the other requests alone. *)
LEMMA OthersUndisturbed ==
    ASSUME SerialInvariant, UNCHANGED db, NEW r \in Requests,
           \A q \in Requests \ {r} : tx'[q] = tx[q],
           life = "live" => Undisturbed(tx'[r])
    PROVE  SerialInvariant'
<1>1. life = "live" => \A q \in Requests : Undisturbed(tx'[q])
  BY DEF SerialInvariant
<1>2. life = "live" => \A q \in Requests : Undisturbed(tx[q])'
  BY <1>1 DEF db, Undisturbed, UpToDate, Signs, Announces, WritesAnswers, Audience
<1> QED BY <1>2 DEF SerialInvariant, db

(* A handler whose assignments leave a run with its verdict.               *)
LEMMA AssignAtUndisturbed ==
    ASSUME TypeOK, SerialInvariant,
           NEW r \in Requests, NEW pending, NEW time, AssignAt(r, pending, time),
           pending.stage = "flushed",
           life = "live" /\ pending.op # "delete" =>
              /\ VerdictFits(Apply(row, pending.writes), Apply(values, pending.values))
              /\ Signs(pending)
              /\ Announces(pending)
              /\ WritesAnswers(pending) => row.status = "in_progress"
    PROVE  SerialInvariant'
<1>1. UNCHANGED db /\ tx'[r] = pending /\ \A q \in Requests \ {r} : tx'[q] = tx[q]
  BY DEF AssignAt, TypeOK
<1>2. life = "live" => Undisturbed(tx'[r])
  BY <1>1 DEF Undisturbed
<1> QED BY <1>1, <1>2, OthersUndisturbed

LEMMA AssignUndisturbed ==
    ASSUME TypeOK, SerialInvariant, NEW r \in Requests, NEW pending, Assign(r, pending),
           pending.stage = "flushed",
           life = "live" /\ pending.op # "delete" =>
              /\ VerdictFits(Apply(row, pending.writes), Apply(values, pending.values))
              /\ Signs(pending)
              /\ Announces(pending)
              /\ WritesAnswers(pending) => row.status = "in_progress"
    PROVE  SerialInvariant'
BY AssignAtUndisturbed DEF Assign

(* The columns the handlers read of the run.                               *)
LEMMA UpToDateColumns ==
    ASSUME NEW seen, UpToDate(seen)
    PROVE  /\ seen.status = row.status
           /\ seen.due_at = row.due_at
           /\ seen.corrected_at = row.corrected_at
           /\ seen.conducted_by_id = row.conducted_by_id
BY DEF UpToDate, Columns, ColumnType

(* What a handler changes against the row it has loaded is what it changes *)
(* against the row as it is, if the two agree where it writes.             *)
LEMMA SameNet ==
    ASSUME NEW x, NEW y, NEW w, \A c \in DOMAIN w : x[c] = y[c]
    PROVE  Net(x, w) = Net(y, w)
<1>1. Changed(x, w) = Changed(y, w)
  BY DEF Changed
<1> QED BY <1>1 DEF Net

(* Writes that leave or make the run one in progress.                      *)
LEMMA InProgressFits ==
    ASSUME NEW x, NEW vals, x.status = "in_progress"
    PROVE  VerdictFits(x, vals)
BY DEF VerdictFits

LEMMA StatusKept ==
    ASSUME NEW x, IsRow(x), NEW w, "status" \notin DOMAIN w
    PROVE  Apply(x, w).status = x.status
BY AppliedColumns

(* `update_run`: the run stays in progress; on a run that was completed    *)
(* before, whatever answer changes gets the user as its corrector.         *)
LEMMA UpdateUndisturbed ==
    ASSUME TypeOK, RunInvariant, SerialInvariant,
           NEW r \in Requests, NEW u \in Users, NEW patch \in Patches, Update(r, u, patch)
    PROVE  SerialInvariant'
<1> DEFINE seen == tx[r].row
           counted == Counts(Apply(values, patch))
           signed == IF seen.corrected_at # NoTime
                       THEN Net(correctors, [i \in Changed(values, patch) |-> u])
                       ELSE NoWrites
           pending == Flushed("update", u, Net(seen, counted),
                              Net(values, patch), signed, NoLinks, {})
<1>1. Assign(r, pending)
  BY DEF Update
<1>2. /\ pending.stage = "flushed"
      /\ pending.writes = Net(seen, counted)
      /\ pending.values = Net(values, patch)
      /\ pending.correctors = signed
      /\ pending.by = u
  BY DEF Flushed
<1>3. ASSUME life = "live"
      PROVE  /\ VerdictFits(Apply(row, pending.writes), Apply(values, pending.values))
             /\ Signs(pending)
             /\ Announces(pending)
             /\ WritesAnswers(pending) => row.status = "in_progress"
  <2>1. seen.corrected_at = row.corrected_at /\ row.status = "in_progress"
    BY <1>3, UpToDateColumns DEF Update, SerialInvariant, Undisturbed
  <2>2. "status" \notin DOMAIN pending.writes
    <3>1. "status" \notin DOMAIN counted
      BY DEF Counts
    <3> QED BY <1>2, <3>1, NetDomain
  <2>3. Apply(row, pending.writes).status = "in_progress"
    BY <2>1, <2>2, StatusKept DEF TypeOK
  <2>4. Signs(pending)
    <3> SUFFICES ASSUME row.completed_at # NoTime, NEW i \in DOMAIN pending.values
                 PROVE  Apply(correctors, signed)[i] = u
      BY <1>2 DEF Signs
    <3>1. row.corrected_at # NoTime
      BY <1>3, <2>1 DEF RunInvariant, ReopenedIsMarked
    <3>2. i \in Changed(values, patch)
      BY <1>2, NetDomain
    <3>3. PICK S \in SUBSET Items : patch \in [S -> AnswerValues]
      BY DEF Patches
    <3>4. i \in Items
      BY <3>2, <3>3 DEF Changed
    <3>5. Apply(correctors, signed)[i] =
             IF i \in DOMAIN signed THEN signed[i] ELSE correctors[i]
      BY <3>4 DEF Apply, TypeOK
    <3>6. signed = Net(correctors, [j \in Changed(values, patch) |-> u])
      BY <2>1, <3>1
    <3> HIDE DEF signed
    <3> QED BY <3>2, <3>5, <3>6 DEF Net, Changed
  <2> HIDE DEF pending
  <2> QED BY <2>1, <2>3, <2>4, InProgressFits DEF Announces
<1> HIDE DEF pending
<1> QED BY <1>1, <1>2, <1>3, AssignUndisturbed

(* A call of _notify tells those it is called for.                         *)
LEMMA NoticesReach ==
    ASSUME NEW people, NEW kind
    PROVE  {n.to : n \in Notices(people, kind)} = people
<1>1. ASSUME NEW n \in Notices(people, kind) PROVE n.to \in people
  BY DEF Notices
<1>2. ASSUME NEW p \in people PROVE \E n \in Notices(people, kind) : n.to = p
  <2>1. [to |-> p, about |-> kind] \in Notices(people, kind)
    BY DEF Notices
  <2> QED BY <2>1
<1> QED BY <1>1, <1>2

(* `complete_run`: the counters and the result are those of the answers it *)
(* has read, the deadline has not passed, and everybody else is told.      *)
LEMMA CompleteUndisturbed ==
    ASSUME TypeOK, SerialInvariant,
           NEW r \in Requests, NEW u \in Users, Complete(r, u)
    PROVE  SerialInvariant'
<1>0. PICK later \in Moments :
         AssignAt(r, RowOnly("complete", u,
                             Then(Net(tx[r].row,
                                      Then(Counts(values),
                                           [result |-> Result(values),
                                            status |-> "completed"])),
                                  [completed_at |-> later]),
                             Notices(Audience(tx[r].row) \ {u}, "completed")),
                  later)
  BY DEF Complete
<1> DEFINE seen == tx[r].row
           closing == [result |-> Result(values), status |-> "completed"]
           assigned == Then(Counts(values), closing)
           writes == Then(Net(seen, assigned), [completed_at |-> later])
           notices == Notices(Audience(seen) \ {u}, "completed")
           pending == RowOnly("complete", u, writes, notices)
           y == Apply(row, writes)
<1>1. AssignAt(r, pending, later)
  BY <1>0
<1>2. /\ pending.stage = "flushed"
      /\ pending.writes = writes
      /\ pending.values = NoWrites
      /\ pending.notices = notices
      /\ pending.by = u
  BY DEF RowOnly, Flushed
<1>3. ASSUME life = "live"
      PROVE  /\ VerdictFits(Apply(row, pending.writes), Apply(values, pending.values))
             /\ Signs(pending)
             /\ Announces(pending)
             /\ WritesAnswers(pending) => row.status = "in_progress"
  <2>0. UpToDate(seen)
    BY <1>3 DEF Complete, SerialInvariant, Undisturbed
  <2>1. ~Overdue(row) /\ row.status = "in_progress" /\ Audience(seen) = Audience(row)
    BY <2>0, UpToDateColumns DEF Complete, Overdue, Audience
  <2>2. IsRow(row)
    BY DEF TypeOK
  <2>3. /\ DOMAIN assigned = DOMAIN Counts(values) \cup {"result", "status"}
        /\ assigned.result = Result(values)
        /\ \A c \in DOMAIN Counts(values) : assigned[c] = Counts(values)[c]
    BY DEF Then, Counts
  <2>4. DOMAIN Counts(values) \subseteq Columns \ {"deadline_reminded_at"}
    BY DEF Counts, Columns, ColumnType
  <2>5. \A c \in Columns \ {"completed_at"} :
           y[c] = IF c \in DOMAIN assigned THEN assigned[c] ELSE row[c]
    <3> HIDE DEF assigned
    <3>0. Net(seen, assigned) = Net(row, assigned)
      <4>1. \A c \in DOMAIN assigned : seen[c] = row[c]
        BY <2>0, <2>3, <2>4 DEF UpToDate, Columns, ColumnType
      <4> QED BY <4>1, SameNet
    <3>1. \A c \in Columns \ {"completed_at"} : y[c] = Apply(row, Net(row, assigned))[c]
      BY <2>2, <3>0 DEF Apply, IsRow, Then
    <3> SUFFICES ASSUME NEW c \in Columns \ {"completed_at"}
                 PROVE  y[c] = IF c \in DOMAIN assigned THEN assigned[c] ELSE row[c]
      OBVIOUS
    <3>2. DOMAIN assigned \subseteq DOMAIN row /\ c \in DOMAIN row
      BY <2>2, <2>3, <2>4 DEF IsRow, Columns, ColumnType
    <3>3. Apply(row, Net(row, assigned))[c] =
             IF c \in DOMAIN assigned THEN assigned[c] ELSE row[c]
      BY <3>2, UndisturbedFlushIsAssignment
    <3> QED BY <3>1, <3>3
  <2>6. y.completed_at = later
    BY <2>2 DEF Apply, Then, IsRow, Columns, ColumnType
  <2>7. "result" \in Columns /\ "due_at" \in Columns /\ "completed_at" \notin DOMAIN Counts(values)
        /\ "due_at" \notin DOMAIN Counts(values)
    BY DEF Columns, ColumnType, Counts
  <2> HIDE DEF y, assigned
  <2>8. y.result = Result(values) /\ \A c \in DOMAIN Counts(values) : y[c] = Counts(values)[c]
    BY <2>3, <2>4, <2>5, <2>7
  <2>9. y.due_at = row.due_at
    BY <2>3, <2>5, <2>7
  <2>10. y.due_at # NoTime => y.completed_at <= y.due_at + Delay
    <3>1. row.due_at \in Nat /\ now \in Nat /\ Delay \in Nat
      BY <2>2, RunAssumption DEF TypeOK, IsRow, Columns, ColumnType
    <3>2. later \in Nat /\ later <= now + Delay
      BY MomentsTyped
    <3> QED BY <2>1, <2>6, <2>9, <3>1, <3>2 DEF Overdue
  <2>11. Apply(values, pending.values) = values
    BY <1>2 DEF Apply, NoWrites, TypeOK
  <2>12. VerdictFits(y, values)
    BY <2>8, <2>10 DEF VerdictFits
  <2>13. Announces(pending)
    <3>1. {n.to : n \in notices} = Audience(row) \ {u}
      BY <2>1, NoticesReach DEF notices
    <3> QED BY <1>2, <3>1 DEF Announces
  <2>14. Signs(pending)
    BY <1>2 DEF Signs, NoWrites
  <2>15. Apply(row, pending.writes) = y
    BY <1>2 DEF y
  <2> QED BY <2>1, <2>11, <2>12, <2>13, <2>14, <2>15
<1> HIDE DEF pending
<1> QED BY <1>1, <1>2, <1>3, AssignAtUndisturbed

(* The handlers that write neither answers nor a completion.               *)
LEMMA OpenUndisturbed ==
    ASSUME TypeOK, SerialInvariant,
           NEW r \in Requests, NEW pending, Assign(r, pending),
           pending.stage = "flushed", pending.values = NoWrites,
           life = "live" => Apply(row, pending.writes).status = "in_progress"
    PROVE  SerialInvariant'
BY InProgressFits, AssignUndisturbed DEF Signs, Announces, WritesAnswers, NoWrites

LEMMA HandleUndisturbed ==
    ASSUME TypeOK, RunInvariant, SerialInvariant,
           NEW r \in Requests, NEW u \in Users, Handle(r, u)
    PROVE  SerialInvariant'
<1> DEFINE seen == tx[r].row
<1>1. ASSUME NEW patch \in Patches, Update(r, u, patch) PROVE SerialInvariant'
  BY <1>1, UpdateUndisturbed
<1>2. ASSUME Complete(r, u) PROVE SerialInvariant'
  BY <1>2, CompleteUndisturbed
<1>3. ASSUME Reopen(r, u) PROVE SerialInvariant'
  <2> DEFINE reopening == [status |-> "in_progress", corrected_by_id |-> u]
             writes == Then(Net(seen, reopening), [corrected_at |-> now])
             pending == RowOnly("reopen", u, writes, {})
  <2>1. Assign(r, pending)
    BY <1>3 DEF Reopen
  <2>2. "status" \in DOMAIN writes /\ writes.status = "in_progress"
    BY <1>3 DEF Reopen, Then, Net, Changed
  <2>3. /\ pending.stage = "flushed"
        /\ pending.values = NoWrites
        /\ pending.writes = writes
    BY DEF RowOnly, Flushed
  <2> HIDE DEF writes, pending
  <2>4. Apply(row, pending.writes).status = "in_progress"
    BY <2>2, <2>3, AppliedColumns DEF TypeOK
  <2> QED BY <2>1, <2>3, <2>4, OpenUndisturbed
<1>4. ASSUME NEW due \in DueTimes, SetDeadline(r, u, due) PROVE SerialInvariant'
  <2> DEFINE rescheduling == [due_at |-> due, deadline_reminded_at |-> NoTime]
             writes == Net(seen, rescheduling)
             pending == RowOnly("set_deadline", u, writes,
                                Notices(Audience(seen) \ {u}, "deadline"))
  <2>1. Assign(r, pending)
    BY <1>4 DEF SetDeadline
  <2>2. "status" \notin DOMAIN writes
    BY NetDomain
  <2>3. /\ pending.stage = "flushed"
        /\ pending.values = NoWrites
        /\ pending.writes = writes
    BY DEF RowOnly, Flushed
  <2>4. life = "live" => row.status = "in_progress"
    BY <1>4, UpToDateColumns DEF SetDeadline, SerialInvariant, Undisturbed
  <2> HIDE DEF writes, pending
  <2> QED BY <2>1, <2>2, <2>3, <2>4, StatusKept, OpenUndisturbed DEF TypeOK
<1>5. ASSUME NEW team \in SUBSET Users, SetAssignees(r, u, team) PROVE SerialInvariant'
  <2>1. PICK diff, notices :
          Assign(r, Flushed("set_assignees", u, NoWrites, NoWrites, NoWrites, diff, notices))
    BY <1>5 DEF SetAssignees
  <2> DEFINE pending == Flushed("set_assignees", u, NoWrites, NoWrites, NoWrites, diff, notices)
  <2>2. /\ pending.stage = "flushed"
        /\ pending.values = NoWrites
        /\ pending.writes = NoWrites
    BY DEF Flushed
  <2>3. life = "live" => row.status = "in_progress"
    BY <1>5, UpToDateColumns DEF SetAssignees, SerialInvariant, Undisturbed
  <2>4. "status" \notin DOMAIN NoWrites
    BY DEF NoWrites
  <2>5. Assign(r, pending)
    BY <2>1
  <2> HIDE DEF pending
  <2> QED BY <2>2, <2>3, <2>4, <2>5, StatusKept, OpenUndisturbed DEF TypeOK
<1>6. ASSUME Delete(r, u) PROVE SerialInvariant'
  <2> DEFINE pending == RowOnly("delete", u, NoWrites, {})
  <2>1. Assign(r, pending)
    BY <1>6 DEF Delete
  <2>2. pending.stage = "flushed" /\ pending.op = "delete"
    BY DEF RowOnly, Flushed
  <2> HIDE DEF pending
  <2> QED BY <2>1, <2>2, AssignUndisturbed
<1> QED BY <1>1, <1>2, <1>3, <1>4, <1>5, <1>6 DEF Handle

LEMMA StepUndisturbed ==
    ASSUME TakeTurns, TypeOK, RunInvariant, SerialInvariant, [Next]_vars
    PROVE  SerialInvariant'
<1>1. ASSUME NEW r \in Requests, NEW notices, CommitWith(r, notices),
             \A q \in Requests \ {r} : ~Working(q)
      PROVE  \A q \in Requests : Undisturbed(tx[q])'
  <2>1. \A q \in Requests : tx'[q].stage \in {"idle", "notifying"}
    BY <1>1 DEF CommitWith, AfterCommit, Idle, TypeOK, TxTypeOK, Working
  <2> QED BY <2>1 DEF Undisturbed
<1>2. ASSUME NEW r \in Requests, NEW u \in Users, NEW team \in SUBSET Users,
             NEW due \in DueTimes, Start(r, u, team, due)
      PROVE  SerialInvariant'
  <2>1. row'.status = "in_progress"
    BY <1>2 DEF Start, NewRow
  <2>2. \A q \in Requests : ~Working(q)
    BY <1>2 DEF Start, RunInvariant, Working
  <2> QED BY <1>1, <1>2, <2>1, <2>2 DEF Start, SerialInvariant, VerdictFits
<1>3. ASSUME NEW r \in Requests, Load(r) PROVE SerialInvariant'
  <2>1. /\ UNCHANGED db /\ tx'[r] = Loaded(row)
        /\ \A q \in Requests \ {r} : tx'[q] = tx[q]
    BY <1>3 DEF Load, TypeOK
  <2>2. Undisturbed(tx'[r])
    BY <2>1 DEF Undisturbed, UpToDate, Loaded
  <2> QED BY <2>1, <2>2, OthersUndisturbed
<1>4. ASSUME NEW r \in Requests, NEW u \in Users, Handle(r, u) PROVE SerialInvariant'
  BY <1>4, HandleUndisturbed
<1>5. ASSUME NEW r \in Requests, MakeVisible(r), tx[r].op # "delete" PROVE SerialInvariant'
  <2>1. VerdictFits(row', values')
    BY <1>5 DEF MakeVisible, SerialInvariant, Undisturbed
  <2>2. \A q \in Requests \ {r} : ~Working(q)
    BY <1>5 DEF MakeVisible, TakeTurns, Working
  <2>3. \A q \in Requests : Undisturbed(tx[q])'
    BY <1>1, <1>5, <2>2 DEF MakeVisible
  <2> QED BY <2>1, <2>3 DEF SerialInvariant
<1>6. ASSUME NEW r \in Requests, CommitDelete(r) PROVE SerialInvariant'
  BY <1>6 DEF CommitDelete, SerialInvariant
<1>7. ASSUME NEW r \in Requests, Notify(r) PROVE SerialInvariant'
  <2>1. /\ UNCHANGED db /\ tx'[r].stage \in {"idle", "notifying"}
        /\ \A q \in Requests \ {r} : tx'[q] = tx[q]
    BY <1>7 DEF Notify, CommitWith, AfterCommit, Idle, TypeOK
  <2> QED BY <2>1, OthersUndisturbed DEF Undisturbed
<1>8. ASSUME NEW r \in Requests, Abort(r) PROVE SerialInvariant'
  <2>1. /\ UNCHANGED db /\ tx'[r].stage = "idle"
        /\ \A q \in Requests \ {r} : tx'[q] = tx[q]
    BY <1>8 DEF Abort, Idle, TypeOK
  <2> QED BY <2>1, OthersUndisturbed DEF Undisturbed
<1>9. CASE UNCHANGED <<db, tx>>
  BY <1>9 DEF SerialInvariant, Undisturbed, UpToDate, Signs, Announces, WritesAnswers,
                Audience, db
<1> QED BY <1>2, <1>3, <1>4, <1>5, <1>6, <1>7, <1>8, <1>9
        DEF Next, OtherStep, Commit, CommitDeadline, Tick, vars

LEMMA SerialHolds == Spec /\ []TakeTurns => [](TypeOK /\ RunInvariant /\ SerialInvariant)
<1>1. Init => SerialInvariant
  BY DEF Init, SerialInvariant
<1>2. TakeTurns /\ TypeOK /\ RunInvariant /\ SerialInvariant /\ [Next]_vars => SerialInvariant'
  BY StepUndisturbed
<1> QED BY <1>1, <1>2, InitTyped, StepTyped, InitSafe, StepSafe, PTL DEF Spec

(* As long as requests take turns, the result and the counters of a        *)
(* completed run are those of its answers, whatever order of saves,        *)
(* completions and reopenings has led there (`complete_run`, `_counts`).   *)
THEOREM ResultFits == Spec /\ []TakeTurns => []ResultMatchesAnswers
<1>1. SerialInvariant => ResultMatchesAnswers
  BY DEF SerialInvariant, VerdictFits, ResultMatchesAnswers
<1> QED BY <1>1, SerialHolds, PTL

(* As long as requests take turns, a run is completed at most as much      *)
(* after its deadline as the clock moves between the check of the deadline *)
(* and the reading of the date: `complete_run` refuses an overdue run, and *)
(* `set_deadline` a completed one.                                         *)
THEOREM InTime == Spec /\ []TakeTurns => []CompletedInTime
<1>1. SerialInvariant => CompletedInTime
  BY DEF SerialInvariant, VerdictFits, CompletedInTime
<1> QED BY <1>1, SerialHolds, PTL

(* Every step signs the answers it changes with the user whose request it  *)
(* makes visible.                                                          *)
LEMMA SignedStep ==
    ASSUME TypeOK, SerialInvariant, [Next]_vars
    PROVE  SignsCorrections
<1> USE DEF SignsCorrections
<1>1. ASSUME NEW r \in Requests, MakeVisible(r), tx[r].op # "delete" PROVE SignsCorrections
  <2> SUFFICES ASSUME life = "live", row.completed_at # NoTime,
                      NEW i \in Items, values'[i] # values[i]
               PROVE  Commits(r) /\ correctors'[i] = tx[r].by
    OBVIOUS
  <2>1. i \in DOMAIN tx[r].values
    BY <1>1 DEF MakeVisible, Apply, TypeOK
  <2>2. correctors'[i] = tx[r].by
    BY <1>1, <2>1 DEF MakeVisible, SerialInvariant, Undisturbed, Signs
  <2>3. tx[r].stage = "flushed" /\ tx'[r].stage # "flushed"
    BY <1>1 DEF MakeVisible, CommitWith, AfterCommit, Idle, TypeOK
  <2> QED BY <2>2, <2>3 DEF Commits
<1>2. CASE UNCHANGED values
  BY <1>2
<1>3. ASSUME NEW r \in Requests, CommitDelete(r) PROVE SignsCorrections
  BY <1>3 DEF CommitDelete
<1>4. ASSUME NEW r \in Requests, NEW u \in Users, NEW team \in SUBSET Users,
             NEW due \in DueTimes, Start(r, u, team, due)
      PROVE  SignsCorrections
  BY <1>4 DEF Start
<1>5. ASSUME NEW r \in Requests, NEW u \in Users, Handle(r, u) PROVE UNCHANGED values
  BY <1>5 DEF Handle, Update, Complete, Reopen, SetDeadline, SetAssignees, Delete,
              Assign, AssignAt, db
<1>6. (\E r \in Requests : Load(r) \/ Notify(r) \/ Abort(r)) \/ Tick => UNCHANGED values
  BY DEF Load, Notify, Abort, Tick, db
<1> QED BY <1>1, <1>2, <1>3, <1>4, <1>5, <1>6
        DEF Next, OtherStep, Commit, CommitDeadline, vars, db

(* As long as requests take turns, an answer that changes after the run    *)
(* has been completed once carries the user whose save has changed it: the *)
(* run has been reopened, so `update_run` sees the mark, and it signs over *)
(* an earlier corrector.                                                   *)
THEOREM CorrectionsSigned == Spec /\ []TakeTurns => CorrectionsAreSigned
<1>1. TypeOK /\ SerialInvariant /\ [Next]_vars => [SignsCorrections]_vars
  BY SignedStep
<1> QED BY <1>1, SerialHolds, PTL DEF Spec, CorrectionsAreSigned

(* Every step that completes the run announces it.                         *)
LEMMA ToldStep ==
    ASSUME TypeOK, RunInvariant, SerialInvariant, [Next]_vars
    PROVE  AnnouncesCompletion
<1> USE DEF AnnouncesCompletion, Commits
<1>1. ASSUME NEW r \in Requests, MakeVisible(r), tx[r].op # "delete" PROVE AnnouncesCompletion
  <2>1. life = "live" /\ row' = Apply(row, tx[r].writes) /\ tx[r].stage = "flushed"
    BY <1>1 DEF MakeVisible
  <2>2. Announces(tx[r])
    BY <1>1, <2>1 DEF SerialInvariant, Undisturbed
  <2>3. \A q \in Requests : q # r => tx'[q] = tx[q]
    BY <1>1 DEF MakeVisible, CommitWith, TypeOK
  <2> QED BY <2>1, <2>2, <2>3 DEF Announces
<1>2. CASE UNCHANGED row
  BY <1>2
<1>3. ASSUME NEW r \in Requests, CommitDelete(r) PROVE AnnouncesCompletion
  BY <1>3 DEF CommitDelete
<1>4. ASSUME NEW r \in Requests, NEW u \in Users, NEW team \in SUBSET Users,
             NEW due \in DueTimes, Start(r, u, team, due)
      PROVE  AnnouncesCompletion
  BY <1>4 DEF Start, NewRow
<1>5. ASSUME NEW r \in Requests, NEW u \in Users, Handle(r, u) PROVE UNCHANGED row
  BY <1>5 DEF Handle, Update, Complete, Reopen, SetDeadline, SetAssignees, Delete,
              Assign, AssignAt, db
<1>6. (\E r \in Requests : Load(r) \/ Notify(r) \/ Abort(r)) \/ Tick => UNCHANGED row
  BY DEF Load, Notify, Abort, Tick, db
<1> QED BY <1>1, <1>2, <1>3, <1>4, <1>5, <1>6
        DEF Next, OtherStep, Commit, CommitDeadline, vars, db

(* As long as requests take turns, the people a completion gives to the    *)
(* notification service are the creator and the assignees, save the user   *)
(* of that completion.  What becomes of the deliveries is not claimed.     *)
THEOREM CompletionAnnounced == Spec /\ []TakeTurns => CompletionIsAnnounced
<1>1. TypeOK /\ RunInvariant /\ SerialInvariant /\ [Next]_vars => [AnnouncesCompletion]_vars
  BY ToldStep
<1> QED BY <1>1, SerialHolds, PTL DEF Spec, CompletionIsAnnounced

(* No step changes an answer of a completed run.                           *)
LEMMA FixedStep ==
    ASSUME TypeOK, SerialInvariant, [Next]_vars
    PROVE  KeepsAnswers
<1> USE DEF KeepsAnswers
<1>1. ASSUME NEW r \in Requests, MakeVisible(r), tx[r].op # "delete" PROVE KeepsAnswers
  <2> SUFFICES ASSUME life = "live", row.status = "completed"
               PROVE  values' = values
    OBVIOUS
  <2>1. DOMAIN tx[r].values = {}
    BY <1>1
       DEF MakeVisible, SerialInvariant, Undisturbed, WritesAnswers
  <2> QED BY <1>1, <2>1 DEF MakeVisible, Apply, TypeOK
<1>2. CASE UNCHANGED values
  BY <1>2
<1>3. ASSUME NEW r \in Requests, CommitDelete(r) PROVE KeepsAnswers
  BY <1>3 DEF CommitDelete
<1>4. ASSUME NEW r \in Requests, NEW u \in Users, NEW team \in SUBSET Users,
             NEW due \in DueTimes, Start(r, u, team, due)
      PROVE  KeepsAnswers
  BY <1>4 DEF Start
<1>5. ASSUME NEW r \in Requests, NEW u \in Users, Handle(r, u) PROVE UNCHANGED values
  BY <1>5 DEF Handle, Update, Complete, Reopen, SetDeadline, SetAssignees, Delete,
              Assign, AssignAt, db
<1>6. (\E r \in Requests : Load(r) \/ Notify(r) \/ Abort(r)) \/ Tick => UNCHANGED values
  BY DEF Load, Notify, Abort, Tick, db
<1> QED BY <1>1, <1>2, <1>3, <1>4, <1>5, <1>6
        DEF Next, OtherStep, Commit, CommitDeadline, vars, db

(* As long as requests take turns, a completed run is read-only until it   *)
(* is reopened (the description of PATCH /checklist-runs/{run_id}): what   *)
(* breaks it in general is only a save that has loaded the run before.     *)
THEOREM ReadOnlyAlone == Spec /\ []TakeTurns => ReadOnlyWhenCompleted
<1>1. TypeOK /\ SerialInvariant /\ [Next]_vars => [KeepsAnswers]_vars
  BY FixedStep
<1> QED BY <1>1, SerialHolds, PTL DEF Spec, ReadOnlyWhenCompleted
=============================================================================
