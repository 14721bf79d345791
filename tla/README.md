# Attendance system: TLA+ models, checks and proofs

This directory holds TLA+ models of the backend of the attendance system
(`src/backend/app`: FastAPI handlers over SQLAlchemy and PostgreSQL), the TLC
configurations that check them and TLAPS proofs about them. `PROJECT.json` maps
every definition to the lines it models.

## 1. Inventory

The backend runs every synchronous endpoint in a thread of its own, with one
database session and one READ COMMITTED transaction per request
(`core/database.py`: `autoflush=False`). Several worker processes may run. A
second program, `workers/worker.py`, polls the notification table. All shared
state is in PostgreSQL; components meet in its rows, its row locks and its
unique constraints. Most modules lock nothing: a handler reads, decides, and
later writes the columns it changed by primary key.

| Component | State | Operations | Hard behaviour | Correct means |
|---|---|---|---|---|
| **Attendance session** (`attendance/`) | `ClassSession` (status, QR version), `AttendanceChallenge`, `PendingAttendanceVerification`, `CheckInAttempt`, `AttendanceRecord` | start, rotate QR and code, scan, type code, confirm, review an exception, mark by hand (today, by session, a past date), finalize | students, teacher and clock act at once; checks are made long before commits; rows are locked in different orders | one live challenge; a check-in spends a live token; one record per student, none missing after closing; closing overwrites nothing; every handler ends |
| Campus networks (`attendance/network.py`) | `CampusNetwork`, policy | CRUD, classify an address | none (evidence only) | - |
| **Scheduling** (`scheduling/`) | `ScheduleOverride`, sessions of an occurrence | start a session, create and decide overrides, conflicts | check-then-insert without a lock; two endpoints decide, one without a check | no double booking, one override per class and date |
| **Course completion** (`course_completion/`) | `CoursePlan.conducted_sessions`, `MakeupSuggestion` | count at finalization, forecast, suggest and approve a make-up class | read-modify-write, check-then-insert | every finalized session counted, once, unless another completion comes across; a make-up in a free place |
| **Analytics** (`analytics/`) | threshold alerts | evaluate after a saved session and on request | concurrent evaluations on old readings, errors swallowed after the commit | one active alert per scope that follows the rate; an alert opened with its mail gets no other |
| **CRM** (`crm/`) | attendance cases | open with an alert, assign, resolve | same as analytics, and staff at the same time | one case in hand per student and module |
| **Operations: imports** (`operations/`) | routine entries, pending section references | validate and apply worksheets, import students | long transactions with a savepoint per row, several at a time | one entry per class; no section of an imported row forgotten |
| **Notification worker** (`workers/`) | `Notification` rows | claim with SKIP LOCKED, send, retry, give up | crash between sending and commit, retry limit, two workers | every row is sent or given up; no row is sent by two workers at once |
| **Identity** (`identity/`) | users, lockout counter, reset links, session version, invitations | login, activate, reset, change, unlock | login, reset and unlock lock the user row, activation and password change do not | withdrawn sessions stay withdrawn; a link works once and for the password it was asked for |
| **Academic: enrollment** (`academic/promotion_*`) | semesters, placements (intervals), promotion runs | assign, promote, hold, release, move, change dates | handlers that overtake each other, dates | a student always has a section; history is not rewritten; runs agree with placements |
| **Academic: courses** (`academic/module_offering_service.py`, `routine_router.py`) | sections, offerings, members, routine entries | create, move, update, merge, delete | check-then-write over three tables | members come from the offering's batch; entries stay within their offering |
| **Academic: weekly plan** (`academic/routine_router.py`) | day, hour, room of entries | place, edit, delete, with conflict checks | check-then-write | no two classes in one place |
| **Agent** (`agent/`) | approvals | chat over several providers, propose, confirm, cancel | two decisions at once, rows changed since the proposal | nothing is created twice under a name seen; an approval should be applied once, and is not |
| **Google Workspace** (`google_workspace/`) | OAuth attempts, connection, managed files | authorize, callback, disconnect, create, rename, delete files | two systems without a common transaction, lost answers | the token is the connected account's; rows match files; a link should be used once, and is not |
| Platform, tenancy, core | colleges, settings | filter queries by college | static | - |
| Frontend, migrations, deployment, seeds | - | - | - | - |

How they interact: scheduling creates the session row that attendance works on;
an approved override decides whether it accepts check-ins; finalization reads
leave requests, adds to the course plan and, after its commit, runs the
threshold evaluation, which opens alerts, cases and notifications; the worker
sends the notifications. Imports and administrators write the routine entries
that the weekly plan, offerings and overrides refer to; placements decide who
is on a roster; the assistant calls the same functions as the pages of the
administrator.

## 2. Plan

| # | Modules | Composes | State |
|---|---|---|---|
| 1 | `CheckIn`, `AttendanceLedger`, `MCCheckIn`, `CheckInProofs`, `LockProofs` | attendance session, its start, its cancellation | **checked and proved** |
| 2 | `NotificationWorker`, `MailOutbox`, `MCCheckInAndMail`, `NotificationProofs` | worker processes, deaths, retries | **checked and proved** |
| 3 | `FollowUp`, `FollowUpProofs` | finalizations of several sessions into one plan, evaluations, alerts, cases, mails | **checked and proved** |
| 4 | `Timetable`, `Imports`, `MCTimetable`, `TimetableProofs` | weekly plan, overrides, make-up classes; worksheets that create entries | **checked and proved** |
| 5 | `Accounts`, `ProfilePictures`, `MCAccounts`, `MCReviewAndAccounts`, `AccountsProofs` | lockout, links, invitations, session versions; pictures | **checked and proved** |
| 6 | `GoogleWorkspace`, `MCOffice`, `MCSingleUse`, `OfficeProofs` | connection and files | **checked and proved** |
| 7 | `Enrollment`, `Courses`, `Assistant`, `MCAcademic`, `AcademicProofs` | placements, promotion runs, semesters; sections, offerings, entries; approvals | **checked and proved** |
| 8 | an abstract register of placements and of accounts, refined by `Enrollment` and `Accounts` | what a roster and a login rely on, without handlers | left |

No module declares a RECURSIVE operator, so all can be proved about. Abstract specifications: the register (`AttendanceLedger`) and the outbox
(`MailOutbox`). Runs: two handlers in flight per component, with a second
student, class or row where one must not disturb the other.

## 3. What is modelled

### `CheckIn`: one class session

State, one variable per table or column that decides something:

| Variable | Code |
|---|---|
| `status`, `cancelled`, `window`, `past` | `ClassSession.status`; an approved cancelling override; `self_checkin_closes_at` not reached; `session_date < today` |
| `ver` | `ClassSession.qr_version`, with the nonce that changes with it |
| `challenge[v]` | `AttendanceChallenge` of version v: code, revoked, expired |
| `token[t]` | `PendingAttendanceVerification`: student, challenge, method, consumed, invalidated, expired |
| `attempt[a]` | `CheckInAttempt` in id order: location passed (`verified`) or not (`exception`), status |
| `record[s]` | `AttendanceRecord`, unique per session and student |
| `conducted` | what the session added to `CoursePlan.conducted_sessions` |
| `misses[s]` | wrong guesses in the last five minutes (audit rows) |
| `req[r]` | a handler in flight: where it stands and what it has read |

Steps. A handler is split exactly where another transaction can come between
what it reads and what it commits:

| Endpoint | Actions |
|---|---|
| `start_routine_session` | `StartSession` |
| `GET /qr`, `POST /challenge` | `QrRead` (`db.get`), then `QrReturn` (nothing written) or `QrLock` (row locked, challenge flushed) and `QrCommit` |
| `POST /check-ins` | `ScanRead`, then `LocationFails` or `LocationPasses` |
| `POST /check-ins/code` | `WrongCode`, or `CodeLock` (session row locked) then `LocationFails` or `LocationPasses` |
| `POST /check-ins/confirm` | `ConfirmRefused`, or `ConfirmLock` (token and attempts locked) then `ConfirmCommit` or `ConfirmCollides` |
| `PATCH check-in-exceptions` | `DecideRead`, then `DecideCommit`, or `DecideInsert` (record flushed) and `DecideInsertCommit`, or `InsertCollides` |
| `PUT attendance` (session, or today) | `MarkNewSession`, or `MarkRead` then `MarkCommit`, or `MarkInsert` and `MarkInsertCommit`, or `InsertCollides` |
| `PATCH /attendance/{id}` | `ChangeStatus` |
| `POST /finalize` | `FinalizeRead`, `FinalizeRefused` or `FinalizeCollect`, then `FinalizeCommit` or `FillCollides` |
| `PUT attendance` on a past date | `PastRead`, then `PastCommit`, `PastFails` or `FillCollides` |
| overrides, clock | `DecideCancellation`, `CloseWindow`, `ExpireChallenge`, `ExpireToken`, `ForgetMisses`, `DayPasses` |

A handler that read something before it waited for a lock keeps what it read:
`QrRead` remembers version and status, because a locking query does not refresh
an object the SQLAlchemy session already holds. `DecideCommit` and `MarkCommit`
write by primary key whatever the row has become.

Row locks are not state. They follow from the handlers in flight
(`SessionLocked`, `KeyHeld`, `TokenLocked`, `AttemptLocked`): a handler named
`..._held` has locked rows or flushed an insert. An action whose rows are locked
is not enabled. `Deadlock` is a cycle of two waits and `AbortDeadlock` the
database's answer. These, and the waiting of inserts on uncommitted keys, are
PostgreSQL's behaviour and are marked external in the map.

### `AttendanceLedger`: the register

What a session promises, without handlers, tokens or locks: one entry per
student, written by the student only while the register is open and the entry
blank, by the closing only where blank, otherwise by the teacher. `CheckIn`
implements it under `phase <- status, entry <- record`.

### `NotificationWorker`: delivery of the notifications table

| Variable | Code |
|---|---|
| `row[m]` | the committed `Notification`: status, `delivery_attempts`, `next_attempt_at` ahead (`wait`), text replaced after delivery (`wiped`) |
| `alert[m]` | which of `email_sent_at`, `email_failed_at` the threshold alert of the mail has |
| `pc[w]`, `batch[w]`, `job[w]` | a worker: where it is, the ids it has read, the row it has locked |
| `copies[m]`, `unrecorded[m]`, `crashes` | history: mails the server took; those of them whose acceptance was lost; deaths of workers |

| Code | Actions |
|---|---|
| `queue_notification` and its caller's commit | `Queue` |
| `run`, `process_pending_notifications` (line 13) | `Poll` |
| `handle` | `Dismiss` (returns False) or `Claim` (row locked, SKIP LOCKED) |
| `deliver_notification`, `send_email` | `Deliver`, `Refused`, `AnswerLost` |
| outcome, `_record_threshold_delivery`, commit | `RecordSent`, `RecordFailed` |
| process and clock | `Crash`, `Restart`, `RetryDelayPasses` |

Which definitions run matters. `worker.py` defines
`process_pending_notifications` twice, but as a program it enters `run()` between
the two, so the first is modelled; `notification_job.py` is imported, so its
second definitions are. A failed row is therefore handled again only when
another worker still has its id in an old batch. `job_queue` is never filled.
An exception while the outcome is written (a lost database connection) ends the
process and is a `Crash`.

### `MailOutbox`: what the table promises

Per mail and without workers: copies go out only while it is unsettled and with
its original text, it becomes sent only after a copy, sent is final, tries are
bounded, and the alert hears the outcome. `NotificationWorker` implements it
under `box <- status`.

### Handlers without locks: the pattern of the other modules

Outside attendance and login nothing is locked. An operation of `Enrollment`,
`FollowUp`, `Timetable`, `Accounts`, `ProfilePictures`, `Courses`, `GoogleWorkspace` and `Imports` is
therefore a step that reads and decides (`Ask...`) and one that commits, with
everything the transaction writes: the columns that differ from what was read,
by primary key. Unique constraints and foreign keys stand at the commit. A
handler that another one overtakes is let through as the code lets it through,
and a history variable (`raced`, `loose`, `strayed`, `doubt`, `overlap`, `behind`)
keeps what it wrote. The invariants of these modules then say two things: the
checks the code makes suffice for handlers nobody overtakes, in any order; and
the named causes are the only ones by which a rule is broken.

### `Enrollment`: where a student is when

| Variable | Code |
|---|---|
| `sem[n]` | `CohortSemester` n of the batch: dates, calendar uploaded |
| `rows[s]`, `section[s]` | `StudentEnrollment` rows by id; `Student.section_id` |
| `runs` | `PromotionRun` with its items |
| `todo[h]` | a handler and the changes of its unit of work |

`Promote`, `ProcessDue`, `Assign`, `Move` and `Release` read and build their
changes; `Commit` (or `RunCollides`, on `uq_promotion_run_transition`) writes them.
`CreateSemester`, `UpdateSemester` and `CommitSemester` do the same for dates.
`CreateLevel` creates both semesters of a level with their calendars and does not
look at the dates of their neighbours; the unique constraints refuse what exists.
`Admit` and `ImportStudents` place new students; `SetCalendar` is the calendar.
A preview only reads and its signature only refuses, so it is part of the
apply. Any assignment of sections stands for the strategies and overrides.
Statuses are left out: only "withdrawn" is tested and nothing sets it. One batch
and attempt; rules of levels and intakes are static. `process_due_promotions` has
no caller but a test. Students from before dated placements have no rows.

### `FollowUp`: after a class is finalized

| Variable | Code |
|---|---|
| `done`, `mark`, `conducted` | `ClassSession.status`, `AttendanceRecord`, `CoursePlan.conducted_sessions` |
| `alert[s]`, `case[s]` | threshold alerts (active, mails queued) and cases (in hand or not) by id |
| `current` | `_scope_is_current` |
| `req[r]` | a request: finalization, then its evaluation, student by student |

`FinalizeRead`, `FinalizeCollect` and `FinalizeCommit` are `finalize`, `ChangeMark` the two
endpoints that change a record, and `PastRead`, `PastCommit` a mark after the date of a class
that was left active: `manual_session` completes it and no plan counts it. `SaveClass` is
what the two completions have in common. A mark of a student without a record fails
then (see `CheckIn`), and for a class that is completed it is `ChangeMark`. All of them end in a
saved class, which starts an evaluation; `RunEvaluations` starts one of everybody that
sends no mail. `EvaluateStats` reads the rate of a student, `EvaluateView` his
alert and case, `EvaluateCommit` writes all of them; `Fails` is the swallowed
rollback. `SetCase` is the staff. Assignment, notes and interactions of cases
touch no other row.

History: `byHand` holds the classes completed by a mark after their date, `overlapped`
those whose finalization another completion came across. `CountedOnce` says that these
are the only two reasons why a completed class is missing from the count: the first is the code's
own path past the count, the second its lost increment, which the run
`overlapping_classes` reports. `quiet` marks an alert opened without a mail; the same run
shows what becomes of it.

### `Timetable`: the week, its changes, make-up classes

A date is a weekday of one week, a place an hour in a room; teachers and
sections are compared as rooms are. `routine`, `overrides` and `suggestions` are the
tables. Requests check in `AskPlace`, `AskOverride`, `AskApproval`, `AskMakeup` and
commit in `Place`, `Request`, `Approve`, `Makeup`. `Decide` is a rejection and the
second decision endpoint (`scheduling/router.py`), which checks nothing. `Suggest`
is `find_makeup_slot`. `Outcomes` is `resolve_effective_class`; where several
approved overrides of a class exist the query returns any one. Left out: merging
of sections (in `Imports` and `Courses`), `update_time_slot`, which re-times entries
without a check, weekends and the horizon of `find_makeup_slot`, sessions as
occupancy, and the legacy timetable, which is only read.

The causes of a double booking the model found: two requests that overtake each
other; two make-ups in one place (`find_makeup_slot` ignores approved make-ups of
other classes and pending suggestions); rejecting an approved override; a weekly
edit of a day that has overrides; the second decision endpoint; two suggestions
of one plan for one date; column by column updates of two edits of one entry.

### `Imports`: worksheets of the timetable

`entry`, `link`, `waiting` and `resolved` are the tables `routine_entries`,
`routine_entry_sections` and `routine_pending_sections`, the last split by
`resolved_section_id`. `job[i]` is an import: `Upload`, `Validate` row by row, `Apply`
row by row in a savepoint (or `ApplyBulk`, which does both), `RefuseRow`, `Commit` or
`Lose`. The session keeps the collection of sections it loaded (`view`), so a row
may be judged by an old one. `CreateRoutine`, `UpdateRoutine` and `DeleteRoutine` are
changes by hand, in one step each (step by step in `Courses`). `ready` holds the
names whose section exists and belongs to the offering. Only a worksheet's rows keep
pending names and settle them; `ApplyBulk` (`import_routines`) attaches sections and
leaves a pending name pending even when its section attends the class now. A wrong value in another
column and a conflict with another class are a `RefuseRow`; a row that meets an
uncommitted row of another import fails (waiting is left out). One batch and
offering. A teacher's worksheet behaves as a section's whose names are all ready.

What reading the code for it showed, beyond the properties: two imports at a time
can create one class twice (nothing in the database forbids it), after which
merges into either row are refused as conflicts; a name that was resolved and
detached and comes back in a worksheet fails on `uq_routine_pending_entry_name`;
`update_routine` leaves pending references as they are.

### `Accounts`: one account

`user` is the row (number of passwords set, version, misses, lock, active, reset
link), `invites` its student's invitations, `sessions` those handed out, each with
the version it carries and whether its password is the one in force. Login,
`ForgotPassword`, `ResetPassword` and `Unlock` lock the row: one step each.
`AskChange`/`Change`, `ChangeEmail`, `AskInvite`/`Invite` and
`AskActivate`/`SetUp`/`Create` do not; `Fails` ends any of them. `Answer` is `browser_session`,
which reads the version again after the commit. Rate limits, the status of the
college and ages only refuse. A lost increment of the version by an overtaken
handler is what `pw = "unknown"` stands for.

### `ProfilePictures`: the picture of an account

`picture` is the three columns of the row, `stored` where the object of a picture from
before they existed is. `AskUpload` reads the user, `Save` commits the columns that
differ and `DeleteOld` removes the old object afterwards; `SaveFails` leaves the row
written or not and deletes what it had named. `AskPicture`/`Show` answer a request
for a stored one. Two uploads that overtake each other may leave the bytes of one
with the type of the other; `mixed` marks that. No caller of
`ProfileMediaStore.save` is left, so nothing new gets into the stores.

### `Courses`: sections, offerings, entries

`home`, `offering`, `member` and `routine` are the tables, `work[r]` the requests. One
course, level and semester: a batch has one offering. `is_active` only refuses
entries and names of sections are left out. `NewMembers` holds the finding: an
update without `section_ids` takes every section of the batch. A request is overtaken
(`Meets`) by a commit about its row, one of its offerings or one of its sections.

### `GoogleWorkspace`: two systems, no common transaction

`links` are OAuth attempts, `granted` what Google grants, `connection` the row of the
college, `file` and `row` files at Google and in the table, `call[r]` the requests.
Google refuses, answers, or does the work and its answer is lost
(`CreateUnheard`, the second branch of `Alter`); a request may be cut at any step.
Two callbacks that read a link before either deletes it both go on (`single_use`): the
second `DELETE` matches no row, of which SQLAlchemy only warns.
Known and kept in the model: reconnecting over a live connection never revokes
the old token; a deletion whose file is gone at Google fails for ever; a second
first connection fails on the unique college. Reading Drive, forms and sheets
changes nothing.

### `Assistant`: confirmed actions

A chat asks the providers in turn (`ProviderFails`), for at most `MaxRounds` rounds;
a write becomes an `approval`; `AskConfirm`/`Confirm` validate and apply it,
`AskCancel`/`Cancel` end it, neither under a lock. The model answers anything. What
is created is a name; those a unique constraint of the database refuses a second
time are in `Unique`: a section is unique in its batch (and a program in its
college), a batch whose intake codes exist is not. Two requests that read one
approval as pending both apply it (`single_use`). Applying a
promotion is `Promote` of `Enrollment`.

### `MCCheckInAndMail`, `MCReviewAndAccounts`, `MCAccounts`, `MCOffice`, `MCTimetable`, `MCAcademic`: instances of several parts

Each puts components that write no common table in the instance side by side.
`part` or `moving` says which one moves; the others rest in an initial state, so one run checks
each of them alone at the cost of their sum. Fairness is asked of the part that moves; one
that rests has nothing to do. `CheckIn` is in two of them, with the traffic of the QR codes in
one and that of reviews, marks and past dates in the other. Components that do meet are one
module: finalization with evaluation (`FollowUp`), weekly plan with overrides and
make-ups (`Timetable`), offerings with entries (`Courses`). In `MCSingleUse` both
`GoogleWorkspace` and `Assistant` move.

### Abstractions of `CheckIn` and `NotificationWorker`

- Mails are numbered in the order of `created_at, id`. The alert of a mail exists
  and names it, as `_queue_threshold_email` leaves it.
- One session per occurrence; the roster, the leave requests and the course plan
  are fixed while it runs, and the course plan exists.
- Distances, radii and addresses are reduced to whether the location passed.
  HMAC, encryption and hashing are reduced to equality; QR tokens that were not
  issued are refused and change nothing.
- Time is reduced to the deadlines that can pass. Once the window has closed it
  stays closed; a token from a scan expires no later than its challenge, one
  from a code no later than the window.
- A wrong guess is one action: the student's row is locked from the count on.
  Locks of other sessions' handlers are not there.
- The locks one statement or flush takes are taken together, so cycles of three
  handlers and half-taken lock sets are left out.
- Audit rows, wording and everything after the commit (the threshold
  evaluation, which is in `FollowUp`) are left out.

## 4. Runs

| Run | Instance | Distinct states | Shows |
|---|---|---|---|
| `checkin_and_mail` | session: 1 student, 2 tokens, 2 codes, 2 rotations, 1 attempt, 2 handlers; start, QR, scan, code, confirm, review, finalize. Worker: 2 mails (an invitation, an alert), 3 workers, batches of 1, 2 tries, 1 death | 211 187 | `TypeOK` (wrong guesses stay within the limit), `OneLiveChallenge`, `CheckInSpendsLiveToken`, `EveryHandlerEnds`; `MailTypeOK` (tries within the limit), `DeliveredOnce`, `ImplementsOutbox`, `EveryMailTried` |
| `review_and_accounts` | session: 2 students, one on leave, 1 token, 1 attempt, 2 handlers; start, cancel, scan, confirm, review, mark, patch, finalize, past date. Account: 2 handlers, lock after 2 misses, 3 passwords, 2 increments, 2 invitations, 1 session; picture: 3 images of 2 types, 2 handlers | 1 454 653 | `CompletedHasRoster`, `AcceptedHasRecord`, `CheckInOnlyWhileActive`, `ImplementsLedger`; `UserTypeOK`, `SessionsFollowPassword`, `LinkFollowsPassword`, `LockMatchesMisses`, `OneInvitation`; `PictureIntact` |
| `office` | follow-up: 1 student, 2 classes, 2 requests, 1 mark changed or made after the date, 1 observation at 75 %; Google: 2 accounts, 1 link, 1 file, 2 titles, 2 requests | 2 365 728 | `TypeOK`, `CountedOnce`, `OneActive`, `AlertTracksRate`, `MailedAtOpening`; `TokenOfAccount`, `RowsMatchFiles` |
| `timetable` | plan: 2 classes, 2 days, 2 places, 2 requests, 1 suggestion, 2 edits and overrides; worksheets: 1 class, 2 names, 2 entry ids, 3 rows, 1 change by hand, 2 imports | 496 811 | `TypeOK`, `WeekClear`, `DateClear`, `OneOverride`; `NothingForgotten`, `OnePhysicalClass` |
| `academic` | enrollment: 1 student, 2 sections, 2 semesters, 4 days, 2 placements before another is asked for, 3 changes of semesters, 2 handlers; courses: 2 batches, 2 sections, 1 offering, 1 entry, 2 edits, 2 clerks; assistant: 2 names (one unique), 2 providers, 2 rounds, 2 approvals, 2 users | 462 157 | `AcademicTypeOK`; `NeverWithoutSection`, `RunsMatchPlacements`, `HistoryKept`; `MembersInBatch`, `EntryWithinOffering`; `NoSecondCopy` |
| `no_pending` | 1 student | - | **violated**: a pending attempt in a completed session |
| `reviewed_once` | 1 student | - | **violated**: an accepted attempt is rejected afterwards |
| `past_mark` | 1 student | - | **violated**: a mark on a past date is lost |
| `worker_retry` | 1 mail, 2 workers, 2 tries | - | **violated**: a failed mail with tries left stays failed |
| `courses_kept` | 2 batches, 2 sections, 1 offering | - | **violated**: an update without `section_ids` changes the members |
| `overlapping_classes` | follow-up: 1 student, 2 classes, 2 requests, 1 mark | - | **violated**: one behaviour in which a finalized class is not counted, and an alert opened without a mail is mailed, unasked and twice |
| `single_use` | Google: 1 link, 2 requests; assistant: 1 approval, the same 2 requests | - | **violated**: one behaviour in which two callbacks use one link and two requests apply one approval |

The last two runs check that one at least of several claims of the documents holds
(`CountedOrMailedAsClaimed`, `LinkOrApprovalUsedOnce`); the counterexample breaks each
of them. But for the unasked mail the cause is the same: a row is read and written in
different steps without a lock.

Why the bounds are enough for `CheckIn` and the worker: each hazard is a race of
two handlers on one session, so two in flight meet; a rotation needs a version
before and after it, so two versions; withdrawing a token needs an earlier one
to withdraw, so two tokens; the review needs one student to act on and one who
must not be disturbed. `TokenRoom` and `AttemptRoom` keep handlers from starting
when the bounded tables could not take their rows, so that no handler is stuck
on a bound. A third try of a mail needs its id in three workers' hands, so three
workers exceed two tries if anything can; two mails and batches of one leave one
that waits. The theorems lift all of these bounds.

For the others: two handlers again, because a handler that reads is overtaken by
one that commits. Follow-up needs two classes, for two finalizations and a rate
that changes; with one observation enough, one missed class falls below the threshold
and one changed mark recovers, or falls again. Students are evaluated apart from each other,
so one is enough; a completion after the date then misses nobody in this run, since it
needs a record of the student it marks, but it does in `review_and_accounts`, which has two, and in
the theorems, which have any number. Two classes, two days and two
places are the least in which an edit can leave or enter a conflict. A student
who is promoted, moved and released needs two semesters and rows beyond the two
he may have when a handler is let in (two more come from two handlers). Three
rows make an import of one row race with one of two rows, or the same class come
back in a third import after a change by hand. Two passwords tell sessions and
links of a former one from those in force, a third one is set while the second is. A session is
from before a change or from after it. Three images are two of one type, to
keep the type when the bytes change, and one of another. Semesters may start on
the first and the last day and end on the second and the last, so they lie
apart, in each other or are a day long, and students come with them or within them. Counters such as
`MaxWork`, `MaxEdits` and `MaxChanges` only limit how often administrators edit; with
`MaxWork` used up, a class that is `Alone` on the plan may still be moved, so that the
bound stops nobody for good.

Symmetry: model values that only identify rows are permuted; students on leave are
told apart from others. The handlers of a session and those of an account are the same two
values, because one set of them is at rest. In `timetable` the imports use one of two classes; a
state of that part and its image under the exchange of the classes are never
both reachable, so nothing is identified wrongly. The run with liveness properties
uses no symmetry; instead the first code drawn in it is always the same one (`FirstCode`), as
codes are only compared with each other.

Fairness: `FairSpec` of `CheckIn` asks strong fairness of `Progress(r)`, every step of the
handler r after its first. A handler is a thread that runs on once started, and
PostgreSQL's lock queues serve waiters in order, so one whose rows become free
again and again gets them. Nothing is assumed of clients, of the clock or of
which way a location check goes.

For the worker, `MailFairSpec` asks weak fairness of `Work(w)`: a process runs on and
systemd restarts a dead one (`Restart=always`). `ServicesFairness` asks the same of
whoever moves in `checkin_and_mail`. Deaths are bounded by
`MaxCrashes`; workers that die forever deliver nothing. The other modules promise
safety only: their handlers wait for nobody.

The ten disagreements:

- **Past mark** (`router.py:972-974`). `manual_session` adds the missing records
  without a flush; `apply_manual_status` queries, does not see its student's
  because the session has `autoflush=False`, and adds another. The unique
  constraint fails the request. The test of this endpoint builds its session
  with autoflush on and passes.
- **Pending after closing** (`router.py:1134-1182`). A check-in that commits
  after finalize has looked leaves a pending attempt.
- **Reviewed twice** (`router.py:1081`). The status is tested on the row as read
  and updated by primary key.
- **No retry** (`worker.py:51`). The loop starts before the polling query that
  knows retries is defined. The test imports the module and gets the other one.
- **Omitted sections** (`routine_router.py:261`). The field says to omit it to keep the
  membership; `synchronize_offering_sections` takes None for every section.
- **Lost count** (`attendance/router.py:1178`). `conducted_sessions += 1` on a row read without a
  lock: two finalizations of one plan write the same number.
- **Mailed unasked** (`analytics/service.py:365`). The evaluation after a saved class mails an alert
  the mail-less run opened; the comment above it wants an administrator to ask.
- **Mailed twice** (`analytics/service.py:365`). Two evaluations find `notification_id` empty.
- **Link used twice** (`google_workspace/service.py:134-144`). Read and deleted without a lock.
- **Approval applied twice** (`agent/tools.py:282-293`). Status tested and set without a lock.

A gap without a run of its own: the plan is to hold the conducted sessions
(`src/README.md:105`), but a class that a mark after its date completes
(`attendance/router.py:906-909`) is never counted, because only `finalize` adds to the plan and
it returns early for a completed class. `CountedOnce` names it as a reason.

## 5. Proofs

`CheckInProofs` proves for every value of the constants allowed by
`CheckInAssumption` (any rosters, tokens, codes, workloads, numbers of handlers,
rotations and attempts):

| Theorem | Says |
|---|---|
| `TypeCorrect` | `Spec => []TypeOK` |
| `OneLiveChallengeAlways` | `Spec => []OneLiveChallenge` |
| `CompletedHasRosterAlways` | `Spec => []CompletedHasRoster` |
| `AcceptedHasRecordAlways` | `Spec => []AcceptedHasRecord` |
| `Refinement` | `Spec => ImplementsLedger` |
| `CheckInOnlyWhileActiveAlways` | `Spec => CheckInOnlyWhileActive` |
| `CheckInSpendsLiveTokenAlways` (`LockProofs`) | `Spec => CheckInSpendsLiveToken` |

The argument. `TypeOK` is not inductive: `decide_exception` takes its student
from the attempt it read. `TypeInv` adds that an attempt in use names a student
and that a handler has seen only attempts in use of its own student.

No lock protects what most handlers have read. `SafeInv` says what of it is
still true when they write (`RowOK`): records are never deleted, so one that was
seen is still there and those seen missing include those missing now; a
confirmation in flight finds the session active or, once it is completed, its
student's record filled in, and then the unique constraint turns it back. Each
step *advances* (`Advances`): records stay, the session does not reopen, tokens
keep their student. One lemma (`RowKept`) carries the invariant of every handler
that does not move over any step that advances, and one lemma per group of
actions (`CallSafe`, `TimeSafe`, `ArrivalSafe`, `RotationSafe`, `LocationSafe`,
`ConfirmSafe`, `TeacherSafe`, `ClosingSafe`) deals with the one that does.
`StepRefines` maps each step to a step of the register or to a stutter;
`CheckInOnlyWhileActive` then follows from the register's `CheckIn`.

`CheckInSpendsLiveToken` rests on the row locks, and on little else, because the
confirmation never locks the session. `LockInv` says: one handler at a time holds
the session row, one a given token; while the session is active the open tokens
of codes are of the current version, a rotation under way has seen every open
token, and a token found good under its lock stays open and current, because the
rotation that would withdraw it waits for that lock. Once the session is
completed none of this holds, and the check-in collides with the record the
closing wrote.

`NotificationProofs` proves for any mails, workers, batch size, limit and number of
deaths (`NotificationAssumption`):

| Theorem | Says |
|---|---|
| `TypeCorrect` | `MailSpec => []MailTypeOK`, the limit on tries included |
| `DeliveredOnceAlways` | `MailSpec => []DeliveredOnce` |
| `Refinement` | `MailSpec => ImplementsOutbox` |

The invariant `Inv`: a worker that talks to the mail server holds one row
(`HoldsOne`), a row has one holder (`OneClaim`), what the claim found of the row
stays true until its holder commits (`ClaimIsGood`), only a sent mail has lost its
text (`WipedIsSent`), and the copies of a mail are those whose acceptance was
lost plus, once it is sent or about to be, one (`Account`). `DeliveredOnce` alone
is not inductive: it does not say that an unsent mail has no copy in hand.

### The components without locks

The proofs are about each component's own specification; the modules of
instances side by side (`MCCheckInAndMail`, `MCReviewAndAccounts`, `MCOffice`, `MCTimetable`,
`MCAcademic`) are shown to implement all the components they hold (`InstanceOfBoth`, `InstanceOfAll`), so what is
proved holds of what the runs explore. All of these theorems are for any number of
requests, rows, edits and days: the bounds are parameters.

| Module | Theorem | Says |
|---|---|---|
| `FollowUpProofs` | `FollowUpTypes`, `OneAtATime`, `PlanCounts`, `AlertFollowsRate`, `MailedOnce` | `FollowUp` keeps `TypeOK`, `OneActive`, `CountedOnce`, `AlertTracksRate`, `MailedAtOpening` |
| `OfficeProofs` | `TokenMatches`, `RowsMatch` | `GoogleWorkspace` keeps `TokenOfAccount`, `RowsMatchFiles` |
| `AccountsProofs` | `AccountTypes`, `SessionsFollow`, `LinkFollows`, `LockMatches`, `InvitationAlone` | `Accounts` keeps `UserTypeOK`, `SessionsFollowPassword`, `LinkFollowsPassword`, `LockMatchesMisses`, `OneInvitation` |
| | `PictureStaysIntact` | `ProfilePictures` keeps `PictureIntact` |
| `TimetableProofs` | `PlanTypes`, `WeekStaysClear`, `DatesStayClear`, `OneOverridePerDate` | `Timetable` keeps `TypeOK`, `WeekClear`, `DateClear`, `OneOverride` |
| | `SectionsRemembered`, `OneRowPerClass` | `Imports` keeps `NothingForgotten`, `OnePhysicalClass` |
| `AcademicProofs` | `EnrollmentTypes`, `AlwaysPlaced`, `RunsTold`, `HistoryStays` | `Enrollment` keeps `TypeOK`, `NeverWithoutSection`, `RunsMatchPlacements`, and the action property `HistoryKept` |
| | `MembersStay`, `EntriesStay`, `AcademicTypes` | `Courses` keeps `MembersInBatch`, `EntryWithinOffering`, and with `Enrollment` `AcademicTypeOK` |
| | `NothingTwice` | `Assistant` keeps the action property `NoSecondCopy` |

Assumptions on the constants: bounds and percentages are numbers in their ranges; the
requests of `Accounts` and `Timetable` and the classes of `FollowUp` are finite (`FollowUpAssumption`,
`AccountsAssumption`, `TimetableAssumption`, `EnrollmentAssumption`, `RowsAssumption`);
first and last days of semesters lie within the calendar; an absent row, place or image
is none there is (`NoneIsNoRow`, `PicturesAssumption`, `CoursesAssumption`), and
identifiers of offerings and of entries, which one set of marks holds together, are told
apart. TLC evaluates each of them in the run of its component.

The argument is the same everywhere. An invariant says, for every request in flight,
what it has read and that this still holds unless the history marks the request as
overtaken; a step changes only the rows it names; so whoever else has read one of them
is marked, and the readings of the others stand. What a request not overtaken writes
then keeps the rules, because its checks were made on what is still so.

- **Follow-up** (`FollowUpInv`). The unique indexes keep alerts and cases apart, and a
  view taken of a student has one of each to write to (`OneInv`). Two
  finalizations in flight are about overlapped classes (`Apart`), and whatever completes
  a class beside one in flight puts its class among the overlapped or those done by hand:
  so the classes that must be counted do not become more while a finalization holds the
  count it read, which was no less than they are (`CountInv`). While nothing has
  overlapped, a finalization finds its class open and the count current (`Exact`). A
  student's alert agrees with his rate, or is in doubt, or a request that will evaluate
  him is under way (`TrackInv`); because records and classes are only added, a student
  with an alert has enough observations for ever (`RateInv`). An alert opened
  with its mail has that mail only and no evaluation holds it as unmailed, because a view
  is taken of alerts there are (`MailInv`).
- **Google** (`ConnectionInv`, `FilesInv`). A token found for an account is that account's
  unless the row was written since. A file not astray has at most one
  request at work on it, and that one knows the row and the file as they are (`Orderly`).
- **Accounts** (`AccountsInv`). What a handler has read of version, link, misses and
  invitations is what stands there, unless the column is marked `behind` for it (`Seen`).
  No session carries a later version than the row, and none of a former password the
  row's (`SessionsBehind`). Bounds on passwords and invitations count the handlers
  about to set or send one (`Bounded`).
- **Pictures** (`PicturesInv`). A picture in the row never leaves it, so who has read the
  key of an earlier one finds that key or a picture in the row.
- **Plan** (`PlanInv`). The types and foreign keys, the bounds, and for each request that
  what it compared itself with has only changed by requests that mark it. The causes of
  double booking listed with `Timetable` are exactly the cases that have to be excluded.
- **Imports** (`ImportInv`). A row, its links and its pending names are followed through
  draft, savepoint and commit: a name of a row an import reports is in one of them
  until somebody removes it.
- **Enrollment** (`EnrollInv`). Placements of a student grow in number only, their first
  days are never rewritten, and a commit that ends rows on a day opens one on that day
  without an end. So a row that has ended is always succeeded (`Succession`), whatever
  overtakes what. `HistoryKept` follows: a day newly covered by a rewritten row is
  covered by its successor, which started later and prevails.
- **Courses** (`CoursesInv`). `Holds` is what each of the eight kinds of requests has read,
  `Footprint` what a step about a row, offerings and sections may change, `HoldsOn` that
  the one does not disturb the other. An entry no overtaken request wrote (`Firm`) still
  resolves to its offering: same batch, all sections members.
- **Assistant** (`AssistantInv`). A request decides on an approval that exists, and a confirmation that is not stale finds no row of the name.

What the proofs showed about the models. Twice an invariant failed for a reason TLC
then reproduced on a larger instance than the runs can afford:

- `Imports`: with two changes by hand, an overtaken import may commit the resolution of
  a pending name whose section an edit has removed meanwhile. The history of `Imports`
  did not attribute this to the import; now it does. The run allows one change by
  hand, the theorem any number.
- `Courses`: a request merges sections into an entry that another request meanwhile
  moves to an offering of another batch. Neither saw the other's offering or sections,
  so neither counted as overtaken, and the entry had sections outside its offering. It
  takes three sections and two offerings. Two requests about one entry now meet.

In both cases the code is as modelled before and after, the rule is broken in a race
the code does not exclude, and the history says so.

Only model-checked: `EveryHandlerEnds` and `EveryMailTried`, because liveness under
fairness is out of the prover's reach. Every invariant and action property of a
passing run is a theorem. The properties of the seven runs that expect a violation have counterexamples of TLC.

## 6. Not modelled

The components marked so in `PROJECT.json`, with the reason: campus networks (evidence
no decision depends on), the frontend (clients may call anything at any time in the
models), migrations, deployment, seeds. In the modelled components:

- `CheckIn`: a second session of one occurrence, and changes of roster or leave
  while a session runs. A code is accepted after its countdown until somebody asks
  for the next QR (`router.py:602`); the model has it, no property speaks of it.
- Analytics, exports, dashboards, forecasts, the audit log and every endpoint that
  only reads. Single-row CRUD of programs, levels, rooms, blocks, subjects,
  guardians and resources.
- Races known from reading the code that no property excludes. `Enrollment`: two
  releases or two initial assignments of one student both succeed; two runs of
  one transition if the start of the target changed between them; two concurrent
  changes of dates can make semesters overlap. `FollowUp`: an evaluation on an old
  rate that commits last leaves an alert open though the rate has recovered; staff
  who close a case meanwhile leave an alert without one, and RESOLVED can
  overwrite CLOSED. The models have these behaviours and the history variables
  mark them.
- Parsing of worksheets, rendering of reports and mails, hashing, encryption and
  token formats: data no property tells apart.
