# SafeWorkHub: a TLA+ model of the backend

SafeWorkHub is a multi-tenant web application for occupational safety: organizations
keep checklists, carry out inspections ("проверки", here *runs*) from them, publish
materials and assign courses.  The backend is FastAPI with async SQLAlchemy on
PostgreSQL, plus Redis for an unread counter and for push; the frontend is React.

This directory models the parts of the system where requests, background loops, browser
tabs and failures meet on shared state, checks the models with TLC on small instances and
proves the central claims with TLAPS for instances of any size.

    tlc -workers 2 -config Overlaps.cfg MCOverlaps.tla              # one run
    tlapm ChecklistRunProofs.tla                                    # the proofs

## What every component rests on: one request, one transaction

`db/session.py:get_session` opens a session per request, commits after the handler has
returned and rolls back on any exception.  It is a dependency with `yield`, and with the
FastAPI that `requirements.txt` pins (0.125) the part behind the `yield` runs **after the
response has been sent**.  The session has `autoflush=False` and
`expire_on_commit=False`; PostgreSQL runs at its default READ COMMITTED; no handler
uses `SELECT ... FOR UPDATE`, a version column or an isolation level.  So:

* what a handler reads may be changed by somebody else before it commits;
* a client may have its answer, and act on it, before the commit, and the commit may still
  fail (handlers that notify somebody, or that commit by themselves, are not affected);
* `flush` writes the columns whose assigned value differs from the **loaded** value and
  no others.  A column the handler left alone is never overwritten, and a column it set
  to the value it had loaded is *not* written, even if the row now holds another value;
* a many-to-many collection is written as rows to insert and rows to delete against the
  loaded set;
* `NotificationService.create` commits the session.  A handler that notifies people
  therefore commits its own changes with the first notification and delivers the others
  in further transactions; a failure in between leaves some of them undelivered.

`UnitOfWork.tla` states this as operators (`Net`, `Then`, `Apply`, `NetLinks`,
`ApplyLinks`); every module about rows uses them.

## Inventory

| Component | State | Operations | Meets |
|---|---|---|---|
| Checklist runs (`services/checklist_run_service.py`, `api/v1/endpoints/checklist_runs.py`) | `checklist_runs` (status, result, counters, deadline, marks), answers, assignees | start, update, complete, reopen, set deadline, set assignees, delete | reads a checklist's items, notifies people, is scanned by the reminder loop |
| Deadline reminders (`tasks/deadline_reminders.py`, `main.py`) | `deadline_reminded_at`; one loop per application instance | scan every 1800 s: select, mark, notify | writes run rows beside the requests |
| Checklists (`services/checklist_service.py`) | checklist, sections, items, publication, usage counters | create, update (replaces the tree), publish, archive, delete, list | is snapshotted and counted by `start_run` |
| Notifications (`services/notification_service.py`, `services/redis_service.py`) | inbox rows, Redis counter and channel per user | create, create_bulk, mark read, mark all read, delete one or many, delete all, list | commits its caller's transaction; is polled by the browser |
| Authentication (`services/auth_service.py`, `db/repositories/refresh_session_repository.py`) | refresh sessions (revoked, replaced by, expiry, family); the default tariff | register, login, refresh (rotation), logout, password change | browser session, users |
| Users, memberships, tariff (`services/user_service.py`, `core/dependencies.py`) | users, memberships, organizations, subscriptions | create, update, activate, deactivate, set password | every permission check |
| Materials (`services/material_service.py`, `services/file_storage.py`) | materials, their versions, attachments, files on disk | create, update, publish, archive, restore, delete, upload and delete a file, list, search | categories, files |
| Courses (`services/course_service.py`) | courses, assignments with their progress | create, update, publish, assign to a list of users, report progress | users |
| Browser session (`api/client.ts`, `hooks/useAuth.ts`, `store/authStore.ts`) | access token in memory, refresh cookie, queue of waiting calls | bootstrap, call, refresh once, retry, log out | authentication |
| Browser notifications (`store/notificationStore.ts`, `hooks/useNotifications.ts`) | list and badge in the store, the query and its data | poll, render, mark read, mark all read, delete, delete all | notifications |
| Search, categories, popular lists | none of their own | queries | - |
| Pages and components | drafts of forms | rendering | - |
| Migrations, deployment files | none at run time | - | - |

What is hard in each, and what makes it correct:

* **Runs.**  Seven handlers race on one row with no lock.  Correct: a completed run
  carries a verdict, is read-only, and can only go back by being reopened; a reopening
  is marked for ever; a correction carries the name of the one who made it; the result
  fits the answers; nobody completes a run that is overdue (but the deadline may pass
  while he does); the notifications of a completion are meant for everybody concerned.
* **Reminders.**  A background loop that reads and writes between the requests, fails at
  any point, and exists once per application instance.  Correct: each person is reminded
  at most once of one deadline, the mark is never lost behind a reminder, a new deadline
  is reminded of again, a run due soon is reminded of at all.
* **Checklists.**  A save replaces the tree: one DELETE of the nodes it can see, then
  INSERTs, with nothing in the way of another save that does the same; runs are started
  while the tree is replaced.  Correct: a save leaves one tree, its own (saves that overlap do not
  keep to that); every run started is counted; a checklist is created public, or made so,
  only by a superuser, and a save that repeats the visibility it has read undoes nothing;
  what a list offers can be opened.
* **Notifications.**  Database and Redis are two stores updated one after the other, the
  errors of the second swallowed; decrementing is a GET and then a DECR.  Correct: the
  counter is never ahead of the unread rows and never falls below zero, as far as one
  call at a time and a working Redis can promise, and otherwise falls no deeper than the
  calls under way explain.  Nobody reads the counter except the decrement itself: the
  list counts the rows.
* **Browser notifications.**  Polls, mutations and effects in an order the user decides.
  Correct: a fetch made before a mutation does not undo it; list and badge end up as the
  inbox is.
* **Authentication.**  Token rotation with overlapping requests, a commit after the reply,
  and an administrator acting at the same time.  Correct: a session that has ended never
  lives again, and a token is exchanged once.  (The second is not kept: two refreshes of
  one token that overlap leave two live successors.  A logout reaches neither a successor
  nor a session that is still to be committed; the revocation of a family is rolled back
  with the refused request that asks for it.)
* **Browser session.**  Tabs share a cookie and not the token; calls share a refresh.
  Correct: overlapping requests do not leave the browser with a worthless cookie; one
  refresh at a time, and every call waiting for it hears of its end.
* **Users.**  The tariff's limit is counted before the insert that uses it up, and a
  membership and its user are two rows read at two moments.  Correct: hirings that
  overlap go beyond the tariff by less than their number (a reactivation is not limited
  at all); nobody who was shut out is let in by a request that did not ask for it.
* **Registration.**  Everything is looked up first and inserted later.  Correct: the
  unique constraints alone keep one organization per INN, one user per email and one
  default tariff; every request ends, with no deadlock.
* **Materials.**  An UPDATE, a refresh and a snapshot in one transaction; files and rows
  that share none.  Correct: the history has no gap and ends with the text that is shown;
  a published material has a date, and loses it only to a request that read an older row;
  a material is created public, or made so, only by a superuser, and a request that
  repeats the visibility it has read undoes nothing; what lists and searches offer can be
  opened; a row has its file and a file its row, but for the failures the code accepts; uploads
  that overlap go beyond the limit by less than their number.
* **Courses.**  Batches of inserts that wait for each other, reports of progress that
  overlap.  Correct: a batch gives the course to all its users or to none, and ends, also
  against a batch in the opposite order; what is completed has a date and, unless a
  report worked on an older row, all of the progress or (reported so) none.

Parts of the source that nothing reaches are left out: the server offers an event stream
(`endpoints/notifications_sse.py`) that subscribes to the Redis channel of a user, but the
hook that would open it, `useNotificationSSE`, is mounted nowhere; no code writes the
notification settings.

`PROJECT.json` lists every hazard with its line and the properties that cover it.

## Modules

| Module | Models | |
|---|---|---|
| `UnitOfWork` | what a request does to the rows it loaded | operators |
| `RunLifecycle` | what the checks submodule promises about one run | abstract specification |
| `ChecklistRun` | one run, its answers and assignees, any number of concurrent requests | implements `RunLifecycle` |
| `DeadlineReminders` | the reminder loops beside the requests | composes with `ChecklistRun` |
| `Inbox` | one user's notifications and the Redis counter | |
| `InboxClient` | the notifications dropdown of one tab | composes with `Inbox` |
| `RefreshSessions` | one user's refresh sessions, for any clients | |
| `AuthClient` | the tabs of one browser: cookie, token, calls, refresh queue | composes with `RefreshSessions`, and implements its clients |
| `Checklists` | one checklist, its trees of items, and the part of `start_run` that meets them | |
| `Materials` | one material, its history of versions, and who is offered it | |
| `MaterialFiles` | the attachments of one material and their files on the disk | |
| `Members` | users and memberships of one organization, and its tariff | |
| `Registration` | registrations and hirings under their unique constraints | |
| `Courses` | one course, its assignments and their progress | |
| `CourseRoster` | what the assignments of a course promise: lists accepted as a whole, nothing taken away | implemented by `Courses` |
| `MCChecklistRun`, `MCDeadlineReminders`, `MCOverlaps`, `MCAuthClient`, `MCOrganization`, `MCEnrolment` | small instances | for TLC |
| `UnitOfWorkProofs`, `ChecklistRunProofs`, `RemindersProofs`, `InboxProofs`, `AuthClientProofs`, `MaterialsProofs`, `OrganizationProofs`, `EnrolmentProofs` | theorems | for TLAPS |

`MCOverlaps` (`ChecklistRun`, `AuthClient`), `MCOrganization` (`Materials`, `MaterialFiles`,
`Checklists`, `Members`) and `MCEnrolment` (`Registration`, `Courses`) put parts side by side
that share no state: the first state chooses the `part` that moves, the others rest, so that
their states add up and do not multiply.  A property of the whole run is thereby checked in
all parts, and says something of its own.

A definition whose comment begins with "Mutant" is a variant of the one behind it with a
plausible mistake, used to see that the properties notice; no specification uses it.

### ChecklistRun

One run, from the moment it does not exist to its deletion.

| Variable | In the code |
|---|---|
| `life` | whether the row has been inserted, whether it has been deleted |
| `row` | the columns of `checklist_runs` that any guard or property reads |
| `values`, `correctors` | `checklist_run_answers.value` and `.corrected_by_id`, per item |
| `assignees` | `checklist_run_assignees` |
| `tx` | per request slot: idle; the row it has loaded; the assignments it is about to commit, with the notifications it will send; the notifications still to be delivered |
| `now` | `utcnow()`, as a tick; 0 stands for `NULL` in time columns |

`complete_run` reads the clock twice: in `_is_overdue`, which refuses an overdue run, and for
`completed_at`.  `Complete` therefore takes its second time from `Moments`, at most `Delay`
ticks after the first; that is how late a completion may be dated (`CompletedInTime`).

A request is three steps, because these are the points where another request can act:
`Load` (the SELECT of the row), one of the handlers (the later SELECTs of answers and
assignees, all guards, all assignments: computed from the loaded row and the answers as
they are now), and `Commit` (the flush of what changed against what was loaded, together
with the first notification).  A pending commit remembers its user (`by`), for the
properties that say whose step a change is.  `Notify` delivers one more notification; `Abort` stands for
a refused guard, an error or a crash anywhere, and rolls back what is not committed.

| Action | Handler |
|---|---|
| `Start` | `start_run`: one step, nobody else can see the row before the commit |
| `Update` | `update_run`: answers, counters, correction marks |
| `Complete` | `complete_run`: counters, result, status, date; refuses an overdue run |
| `Reopen` | `reopen_run`: status and correction mark; result and date stay |
| `SetDeadline` | `set_deadline`: clears the reminder mark, if it was set when loaded |
| `SetAssignees` | `set_assignees`: the difference of two teams |
| `Delete`, `CommitDelete` | `delete_run`, with the cascade to answers and links |

Abstracted: titles, notes and comments (no guard reads them), audit entries, and the
organization check in front of every handler (the users of the model have passed it).
Answer types are reduced to what `_counts` tells apart: graded (COMPLIANCE) or not.

### DeadlineReminders

`Select` is the query of a scan, `Mark` the UPDATE that commits with the first recipient's
notification, `Send` each further recipient, `ScanFails` the swallowed exception or the
death of the instance.  The ghost `reminders` counts, per user, the reminders of the
deadline now in force; `ReplaceDeadline` is ChecklistRun's `CommitDeadline` plus the
reset of that ghost.  All other steps of ChecklistRun happen unchanged.

### Inbox and InboxClient

`Inbox` has the rows of one user (`inbox`: none, unread, read, deleted), the Redis
`counter`, and per call the `commands` it has still to send to Redis after its commit.
`Create`, `MarkAsRead`, `MarkAllAsRead`, `Delete` (`delete` and `delete_many`) and
`DeleteAll` are the committed UPDATE or INSERT of the service's methods; `Redis` executes
one command (a `get` that reads more than 0 puts a `decr` in front of the rest);
`RedisFails` is the swallowed `RedisError`.  The ghost `calm` says whether calls have come
one by one so far and Redis has lost nothing: the counter's ceiling is claimed only then.

`InboxClient` adds one browser tab.

| Variable | In the code |
|---|---|
| `shown`, `badge` | `notifications` and `unreadCount` of the store |
| `query` | the fetch of `useNotifications`: resting, asked, counted (the first SELECT of `get_list`), replied (the second) |
| `data` | the query's data while the effect that copies it into the store has not run |
| `asked` | per call, the mutation in flight |
| `told` | ghost: what the user has been told of a notification by a mutation that succeeded |

`Succeed` is `onSuccess`: the store changes by itself (`Reflect`), and `invalidateQueries`
cancels the fetch under way and starts another.  Other devices and other users are the
calls that no mutation occupies.  All notifications fit in one page of the list.

### RefreshSessions and AuthClient

| Variable | In the code |
|---|---|
| `session` | a row of `refresh_sessions`: none, pending (in a transaction under way), live, revoked (or expired: every check treats them alike), void (rolled back) |
| `replaced` | the rows whose `replaced_by` is set |
| `is_active` | the user's account and membership |
| `requests` | per slot: kind, stage, the session whose token it presents (`cookie`), the one it creates (`grant`), and whether the client has been answered |

A request goes through *sent*, *read* (`Check`: all SELECTs and guards), *written*
(`Write`: the flush; from here on the reply is on its way) and *done* (`CommitSession` or
`Rollback`), or is *refused*; its slot (`Arrivals`) is then `Free` again.  `Finish` (the reply
arrives or is lost) and `CommitSession` come in either order.  `Write` waits for the row lock of another request that has updated the same
session (`Locked`).  `SetPassword`, `SetActive` and `Lapse` are what administrators and
time do.  `SSpec` allows any client with any token ever handed out.

`AuthClient` replaces those clients by the tabs of a browser.

| Variable | In the code |
|---|---|
| `cookie` | the refresh cookie, shared by the tabs |
| `token`, `isInitialized` | `accessToken` (good, expired, none) and `isInitialized` of the store |
| `refreshing` | `isRefreshing` of `client.ts`, as the request it stands for |
| `call` | per API call: idle, sent with a good or a stale token, starting the refresh, queued in `failedQueue`, sent again with `_retry` or without |
| `asker` | the tab that still waits for a reply; nobody after 15 seconds or a reload |
| `spent` | ghost: sessions whose end the browser had no way of being told of |

| Action | Code |
|---|---|
| `MakeCall`, `EndCall` | a call through `apiClient`, and any end of it but a 401 |
| `JoinQueue`, `StartRefresh` | the response interceptor on 401 |
| `Refreshed`, `RefreshFailed` | its `try` and its `catch`, with `processQueue` and `finally` |
| `Bootstrap`, `BootstrapEnds` | `bootstrapSession`, possibly more than one at a time |
| `LogIn`, `AskLogOut`, `LoggedIn`, `LoggedOut` | `useAuth` |
| `Reply`, `TimeOut`, `LateCookie`, `LoseReply` | the fate of a reply: its cookie (`CookieAfter`) and the code that waits for it |
| `Reload` | the page is loaded anew: the store starts over, the server goes on |

A freshly granted access token lives for half an hour and is assumed not to expire under
the calls that are sent again with it.

### Checklists

The nodes that one save inserts stay together, so a *tree* is a name for the nodes of one
save, and the table of nodes is a set of trees.

| Variable | In the code |
|---|---|
| `checklist`, `standing` | the row of `checklists`: author, status, visibility, `runs_count`; inserted, deleted |
| `trees` | the trees whose nodes are in `checklist_items` |
| `visit` | per request slot: the row it has loaded; the columns to write and what it has read in them, whose save it is, the nodes its DELETE found and the tree it inserted; a run being started |
| `made`, `begun` | the trees saves were made with; ghost: the runs that were started |

`UpdateChecklist` is `update_checklist` (with or without a new tree), `SetStatus` is
`publish_checklist` and `archive_checklist`, `DeleteChecklist` the deletion with its
cascade, `CommitSave` the commit.  `StartRun` and `IncrementRuns` are the part of
`start_run` that reads the checklist and counts the run, by an UPDATE that adds one to
what the row says.  `Listed` and `Readable` are `list_for_org` and `get_checklist`.

### Members

| Variable | In the code |
|---|---|
| `user`, `membership` | `users.is_active`, `organization_users.is_active`, per person |
| `desk` | per request slot: the count has been made; the membership has been read; the user has been read too, and what is to be written |
| `restored` | ghost: those whose membership was switched on again |

`CountMembers` and `CreateUser` are the two halves of `create_user`, with the hashing of
the password in between; `LoadMembership`, `LoadUser` and `CommitMember` are
`activate_user` and `deactivate_user`; `UpdateUser` is `update_user`, which may carry
`is_active` for the user and never touches the membership.

### Registration

`form` says of each request what it is about (`register` or `create_user`), what it has
inserted and how it ended.  `Register` and `Hire` make the checks; `Insert` waits for a
transaction that has inserted the same key, `Duplicate` fails on one that has committed.
The order of the inserts is the one in which the code flushes them: tariff, organization,
user (`Inserts`).

### Materials and MaterialFiles

| Variable | In the code |
|---|---|
| `life`, `row`, `author` | the row of `materials` |
| `versions` | `material_versions`: the numbers, and the latest snapshot |
| `edit` | per request slot: the row it has loaded; or what its UPDATE will leave, holding the row's lock |

`Load`, a handler and `Commit` are the steps of a request.  The handlers (`Update`,
`Publish`, `Archive`, `Restore`, `Delete`) end in `Write`: the UPDATE waits for the lock,
changes the row as it then is, `refresh` reads it again, and the snapshot is made of that.
`InList`, `InSearch` and `Popular` are the three queries that offer a material, `Visible`
is `_ensure_visible`.

| Variable | In the code |
|---|---|
| `exists`, `attachments` | the committed rows of `materials` and `material_attachments` |
| `disk` | the files under the upload directory |
| `job`, `taken` | per request slot: what was read, saved, inserted, or is to be unlinked; the storage keys in use |
| `broken`, `stray` | ghosts: files unlinked for a deletion that did not commit; files left by an upload that failed, or that the deletion of the material had not read |

`SaveFile`, `InsertRow`, `CommitUpload` are `add_attachment`; `DeleteRow`, `Unlink`,
`CommitDeletion` are `delete_attachment`; `DeleteMaterial` stands for `delete_material`, the
cascade included; `GiveUp` is an error or a crash at any of these points.

### Courses

| Variable | In the code |
|---|---|
| `is_published` | `courses.is_published` |
| `assignment` | per user, the row of `course_assignments`: status, percent, date of completion |
| `batch` | per request slot: the users of a batch still to be looked at and those inserted; or the assignment a report has read |
| `answered` | ghost: the users of all batches that succeeded |

`Assign`, `LookUp`, `InsertAssignment`, `DuplicateAssignment`, `CommitBatch` are
`assign_course`; `Deadlock` is PostgreSQL ending one of the transactions that wait in a
circle; `LoadAssignment` and `Report` are `update_progress`; `Drop` is any other end.

## Runs

| Run | Instance | Shows |
|---|---|---|
| `run_serial` | 1 request slot, 3 users (creator, second inspector, owner), 2 items of which 1 graded, 2 answer values, no deadline or 1, clock of 3, 1 tick between two readings | the handlers are right one after the other: `TypeOK`, `ResultMatchesAnswers`, `CompletedInTime`, `CorrectionsAreSigned`, `CompletionIsAnnounced` |
| `overlaps` | a run: 2 slots, 2 users, 1 item, no deadline; a browser: 1 tab, 3 sessions, 2 requests | under every interleaving: `CompletedHasVerdict`, `ReopenedIsMarked`, `MarkedOnlyAfterReopening`, `ImplementsLifecycle`; `CookieIsGood`, `SessionsEndForGood` |
| `run_read_only` | 2 slots, 2 users, 1 item, no deadline | **violated** (`ReadOnlyWhenCompleted`): a save that loaded the run in progress commits after the completion, and unsigned |
| `reminders` | 2 loops, 1 slot, clock of 2, 1 tick between two readings, threshold 1, fair loops | `RemindedIsMarked`, `OneReminderPerLoop`, `DueSoonIsReminded` |
| `reminders_twice` | 2 loops | **violated** (`AtMostOneReminder`): two instances select the run before either marks it |
| `reminders_rearm` | 1 loop, 1 slot | **violated** (`NewDeadlineRearms`): a mark set between the load and the commit of `set_deadline` survives it |
| `inbox_tab` | 1 notification, 2 calls, Redis loses commands, the tab polls | `CTypeOK`, `RepliesAreFresh`, `CounterFloor`, `CounterNotAhead`, `ScreenConverges` |
| `auth_reuse` | 1 tab, 3 sessions, 2 requests | **violated** (`OneSuccessor`): a tab starts twice at once, as two tabs would, and both refreshes have read the session before either commits |
| `auth_queue` | 1 tab, 2 calls, 3 sessions, 1 request, timeouts are fair | `QueueIsServed`, `CallsEnd` |
| `organization` | a material: 2 editors (author, superuser), 2 texts, 3 versions; its files: 2 transfers, 3 keys, limit 1; a checklist: 2 requests, 2 trees, 2 runs; members: 2 requests, 3 users, tariff for 1 | `VersionsFollowText`, `PublicBySuperuser`, `PublishedHasDate`, `FoundIsVisible`; `RowHasFile`, `FileHasRow`, `UploadOverrun`; `RunsAreCounted`, `ChecklistPublicBySuperuser`, `ListedIsReadable`; `LimitOverrun`, `OnlyActivationLetsIn` |
| `tree_saves` | 1 editor, 2 requests, 2 trees | **violated** (`OneTree`): neither DELETE finds the nodes of the other save, and both trees stay |
| `enrolment` | 3 forms, 2 INNs, 2 emails, fair; 2 batches, 2 learners, percents 0, 30 and 100, fair | `RegistrationsFit`, `FormsEnd`; `BatchesAreWhole`, `CompletedIsComplete`, `ImplementsRoster`, `BatchesEnd` |

The five violations are disagreements between the code and what its own comments and tests
say of it; `PROJECT.json` quotes the lines.

*Bounds.* Two requests are what a race on one row needs: a request's guard reads its own
copy and the database, never a third request, and the theorems below lift the concurrent
results to any number. Two users separate "the creator or an assignee" and "an owner who
is neither", the third tells the creator from another assignee, where it matters who is
told; one graded item gives both results, a second ungraded one shows that it does not
count. `MaxTime` is the clock's bound: its ticks give before, at and after a deadline, and in
`run_serial` a completion dated after the deadline it has met. `Delay` bounds the ticks
between the two times one handler reads: 1 lets the deadline pass in between, and 0 is
enough where no property looks at a date.
`run_serial` has one slot: the theorems extend its properties to any number of requests
that take turns (below), and `run_read_only` shows one way in which they fail if requests
do not. Runs of the reminder model carry no answers (`AnswerValues = {}`): the loop reads none.
`inbox_tab` needs two calls, because the counter's check and its decrement are two
commands, and one notification: a call that Redis has not finished meets another on the
same row, and the theorems cover any number. Three sessions are a token, its successor
and the other successor of an overlapping refresh. One tab is enough for the cookie: it
starts twice at once, and a request it has sent before a reload is, for the server and
the cookie, another tab's. The slots of `overlaps` and of `auth_reuse` are alike (`Alike`,
`AlikeRequests`), which is sound for safety. `auth_queue` has one request slot because a tab's queue waits
for one request; that bootstraps and logins overlap with it is checked by the theorem
`QueueHolds`, for any number. In the other runs two requests race as on a run;
three versions are the first and one of each editor, three keys one more than two
uploads at a time can have under way, two trees one of each save;
limits of 1 are reached by the first request and exceeded by the second; three
registrations let one wait for another that fails against a third; two learners
can be listed in opposite orders, which is what a deadlock takes; 0, 30 and 100 stand
for all percents, because the code compares a percent with 0 and 100 only. The slots,
trees and users that nothing tells apart are symmetric in `organization`, which checks no
liveness. Deadlock is not checked: users may stop at any point, the clock
stops at its bound, and a deleted run or an empty inbox is the end.

*Fairness.* `deadline_reminder_loop` is `while True` around a scan whose exceptions it
catches, so a scan keeps being attempted (`WF` of `Select`); a scan may fail, but not
every time (`SF` of `Mark` and `Send`). The tab polls every 30 seconds
(`refetchInterval`, `WF` of `Poll`) and React renders (`WF` of `Render`); a fetch may
fail or be cancelled, but not every time (`SF` of its three steps). Every request of
axios ends after 15 seconds at the latest (`WF` of `EndCall` and of `Reply` or
`TimeOut`). `CallsEnd` has a premise of its own: the account is not switched off and on
forever. A handler that assigns a course goes on (`WF` of `LookUp` or `CommitBatch`);
PostgreSQL wakes an INSERT that waits whenever the transaction in its way ends and looks
for deadlocks after `deadlock_timeout`, and new batches do not overtake it for ever
(`SF` of `InsertAssignment`, `DuplicateAssignment` or `Deadlock`). Registrations need
less (`WF` of `Goes`): all insert in the same order and each is made once. Nothing is
assumed of users: no request has to be made or to succeed.

## Proofs

`UnitOfWorkProofs` holds lemmas about the flush operators, which the other proofs cite.

`ChecklistRunProofs`, from `RunAssumption` alone (finitely many items; the owners are
users; the time bound is positive; `Null` is no user and no result), for any number of
users, items and requests:

* `TypeCorrect`: `Spec => []TypeOK`.
* `RunSafe`: `Spec => []RunInvariant`, and from it `VerdictHolds`, `ReopeningMarks` and
  `MarksNeedReopening`.
* `LifecycleHolds`: `Spec => ImplementsLifecycle`.
* `ResultFits`, `InTime`, `CorrectionsSigned`, `CompletionAnnounced`, `ReadOnlyAlone`: the
  properties of the serial run, and the one that `run_read_only` refutes, as long as
  requests take turns: `Spec /\ []TakeTurns => ...`, where `TakeTurns` says that no two are
  between their load and their commit.  There may be any number of requests, and one may
  start while the notifications of others are still being delivered.  `SerialInvariant`
  says of each that what it has loaded is the row as it is, but for the mark that a
  reminder loop may set (`Undisturbed`, `UpToDate`), and that what it is about to commit
  leaves a verdict that fits the answers and was in time, up to `Delay` (`VerdictFits`),
  corrections that carry the name of its own user (`Signs`), notices of a completion for the
  creator and the assignees but not for its own user (`Announces`), and answers that change
  only in a run in progress (`WritesAnswers`).  `CompletionAnnounced` is about whom
  the notification service is given.  It does not say that the notifications arrive: `Abort`
  may end their delivery, and no statement of the code excludes that.

*Why an inductive invariant is needed.*  `complete_run` writes the result only if it
differs from the one it has loaded, so the completion of a run that was completed before
may leave `result` out of its UPDATE.  That the row still has one when the UPDATE lands
cannot be seen from the row: it depends on what every other request in flight is about to
write.  `RunInvariant` therefore says of each request

* that what was set when it loaded the row is still set (`StillSet`: result, completion
  date and correction mark are never cleared), and
* that its pending writes are safe (`SafeWrites`): they touch the verdict only together
  with `status = completed`, the mark only together with `status = in_progress`, and they
  leave the result out only if the row has one.

Each handler's assignments are safe (`UpdateSafe`, `CompleteSafe`, ...), a commit of safe
writes keeps the run and everybody else's pending writes safe (`SafeApply`,
`MakeVisibleSafe`), and the three invariants follow.  The refinement uses the same facts:
a late completion of a completed run, or a late reopening of a reopened one, is invisible
to `RunLifecycle`.

`RemindersProofs`, for any number of users, requests and, unless said otherwise, loops:

* `ReminderTyped` and `RemindedMarked` (`RSpec => []RemindedIsMarked`).  Only
  `set_deadline` takes the mark back, and with it goes the deadline the reminders were
  of.  `ReminderInvariant` adds to the property that a scan which still sends reminders of
  the deadline in force has set the mark (`KeepsMark` says that a request's pending writes
  leave it alone otherwise).
* `RemindedPerLoop`: `OneReminderPerLoop`, for a finite number of loops
  (`ReminderAssumption`).  The property counts with the reminders sent those that a loop
  has still to send (`Pending`), and is inductive given `ReminderInvariant`: a loop that
  selects the run finds no mark, so no reminder has been sent and no other loop has got
  further than its SELECT; after that, each recipient it has read is reminded or given up.
  `RemindedOnce` (`AtMostOneReminder` with one loop) is the case of one; `reminders_twice`
  shows that two loops do remind twice.
* `RunSafeBesideLoops`, `LifecycleBesideLoops`, `VerdictBesideLoops`, `StepsBesideLoops`:
  what `ChecklistRunProofs` says of a run alone stays true beside the loops, the last two
  as long as requests take turns.  A mark may fall between the load and the commit of a
  request; it changes one column that none of these facts reads (`MarkOnly`).

`InboxProofs`, for any number of notifications and calls, with a Redis that loses any
command:

* `InboxTypeCorrect` and `FloorHolds` (`ISpec => []CounterFloor`).  A call between its GET
  and its DECR has seen a positive counter, but others may have decremented it since.
  `FloorInvariant` says that the counter exceeds the number of calls about to decrement
  less the number of all calls, and that a `decr` is never queued but always next
  (`NoneWaiting`): a `get` that adds a call to the decrementing has just read a positive
  counter, and a `decr` takes away from both sides alike.
* `CeilingHolds` (`CounterNotAhead`): as long as calls come one by one and Redis loses
  nothing, what the only call has still to tell Redis makes up for the difference of
  counter and inbox (`Settles`).
* `ScreenTyped` (`CTypeOK`) and `RepliesFresh` (`RepliesAreFresh`).  `FreshInvariant`: a
  notification only goes forward (unread, read, deleted); what a mutation has been told is
  so in the inbox; a success starts the fetch anew, so a reply is of a later moment.
* `TabIsACaller`: `CSpec => ISpec`, what is proved of the inbox holds beside the tab;
  `CounterBesideTab` draws the conclusion for the counter's floor and ceiling.

`AuthClientProofs`, for any number of sessions, requests, tabs and calls:

* `RotationHolds`: `SSpec => []PredecessorsAreRevoked`.  `RotationInvariant` adds what the
  property does not say of requests under way (`TransactionsFit`): the session a
  transaction is about to revoke has been committed, so no other transaction is about to
  create it, and the one it is about to create is its own.  Without that a late commit
  could bring a replaced session back.  How many successors a session has is not bounded:
  `auth_reuse` shows two.
* `EndedForGood`: `SSpec => SessionsEndForGood`.  A session that has been revoked, or whose
  commit has failed, stays so: every handler either sets `revoked_at` or inserts a session
  of its own (`RevokeEnds`, `CommitEnds`, `RollbackEnds`); and sessions come to life one by
  one.
* `CookieHolds`: `ACSpec => []CookieIsGood`.  The inductive part is about replies that
  have not arrived: the session they grant is named by no cookie and no other request, and
  is good unless it was ended from elsewhere (`GrantsAreSecret`); a request that has been
  answered before its commit names a session that is not the cookie's any more, or one the
  browser was not told of (`AnswersAreKnown`).
* `BrowserIsAClient`: `ACSpec => SSpec`.  The browser's steps are steps of the clients
  that `RefreshSessions` allows (a token is presented only after it has been handed out),
  so what is proved of the server holds beside the browser (`RotationBesideBrowser`).
* `QueueHolds`: `ACSpec => []QueueIsServed`.  `QueueInvariant`: what `client.ts` awaits is
  a refresh that its own tab has sent and still waits for, and calls are kept waiting for
  nothing else.

`MaterialsProofs`, for any number of editors, texts, keys and transfers:

* `FilesTyped`, `RowsHaveFiles`, `FilesHaveRows`.  `FilesInvariant`: a key belongs to one
  request until its row is committed, and a request that inserts or deletes has what it
  needs of rows and files.
* `UploadsOverrun`.  `LimitInvariant`: the rows there are and those under way are fewer than
  the limit and the transfers together.
* `VersionsFollow`, `VisibilityKept`, `PublicationIsDated`.  `RowInvariant`:
  nobody changes the row while somebody holds its lock, so what the holder has `Prepared`
  from the row still fits it at the commit.
* `FoundCanBeOpened`: the three queries against the guard of `get_material`; it holds in
  every state.

`OrganizationProofs`, for any number of users, desks, visits and trees:

* `MembersTyped`, `LetInOnPurpose`.  `MemberInvariant`: what a request is about to write is
  part of what it was asked for.
* `TariffOverrun`.  `TariffInvariant`: the active members (but those switched on again) and
  the hirings that have counted exceed the tariff by less than there are desks.
* `ChecklistsTyped`, `RunsCounted`, `ChecklistVisibilityKept`, `ListedCanBeOpened` (this one
  in every state).  `ChecklistInvariant`: a save writes a visibility only where it differs
  from the one it has read, and "public" only for a superuser.
* `OneTreeInTurns`: `ClSpec /\ []TakeTurns => []OneTree`.  A save that nobody disturbs has
  found every node there is.
* `OneTreePerRequest`.  `TreesInvariant`: the trees can be assigned to request slots, no two
  to the same, such that a save in flight that brings a tree has seen the one of its own
  slot; its commit removes that one and puts its own in its place.

`EnrolmentProofs`, for any number of forms, learners and batches:

* `FormsTyped`, `RegistrationsKept`.  `RegistrationInvariant`: no key is held twice by
  requests that have inserted it and not failed (`KeysDiffer`), what has committed has
  inserted everything (`Complete`), and a tariff it refers to exists (`HasTariff`).
* `NoWaitingInACircle`: `GSpec => []NobodyWaitsInACircle`.  Every request inserts tariff,
  organization and user in this order (`InOrder`), so in any set of requests one waits for
  none of the others: take one that has inserted into the latest table.  With it, some
  request under way can always go on, which is the safety half of `FormsEnd`.
* `CoursesTyped`, `BatchesWhole`, `CompletionDated`, `CompletionComplete`.  `CourseInvariant`:
  whoever a batch was given is among those still to be looked at, those it has inserted or
  those who have the course.
* `RosterHolds`: `CoSpec => ImplementsRoster`.  A batch becomes visible as a whole at its
  commit, and only then is it a step of `CourseRoster`.  That this step gives new
  assignments only to users who have none needs `Fresh`: what a batch has inserted and not
  committed, nobody has, and no other batch under way has inserted - the unique constraint,
  as far as the waiting INSERTs carry it.

The assumptions are those the modules name (`RunAssumption`, `ReminderAssumption`,
`InboxAssumption`, `SessionAssumption`, `ClientAssumption`, `MaterialAssumption`,
`PatchAssumption`, `FilesAssumption`, `MemberAssumption`, `ChecklistAssumption`,
`CourseAssumption`): finite slots where they are counted, limits that are numbers, special
values that are no ordinary ones, patches that have only fields a request schema has.

*Only model-checked:* the liveness properties (`DueSoonIsReminded`, `ScreenConverges`,
`CallsEnd`, `FormsEnd`, `BatchesEnd`), because fairness is outside the prover.  Every
safety property that a passing run checks is proved.  Those that hold as long as requests
take turns are proved under that hypothesis, those of a counter or a tariff with the
overrun they state, and the expected violations show what happens without.  Conversely,
three things are proved that no run is spent on: `NobodyWaitsInACircle`,
`PredecessorsAreRevoked` and `TreesArePerRequest`.  Two of the refuted properties are proved
as long as requests take turns (`ReadOnlyAlone`, `OneTreeInTurns`), one for a single loop
(`RemindedOnce`).

## Plan

All modules of the plan are written.  What could be added: `update_npa`, the change of an
email by `update_user` beside registrations, a checklist and its runs in one composition,
and, if uploads are ever cleaned up, that stray files disappear.

## Not modelled

* The details of news and regulations (`update_npa`), categories, view counters, roles,
  names and the change of an email by `update_user`: no guard of the modelled code reads
  them, or (the email) only the unique constraint does.
* Ranking, paging and wording of searches and lists, the audit log: they decide about no
  access and no other state.
* Rendering and forms of the frontend: what a page sends is an input of `Update`, any
  subset of the answers included.  The event stream, which no page opens.
* The family of a refresh session (`revoke_family`), which only a rolled-back statement
  writes.
* The limit of 100 members that `_validate_assignees` reads.
* Migrations, containers, proxy configuration.
