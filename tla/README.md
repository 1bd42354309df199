# TLA+ specifications of SecBoard

SecBoard is a Django site for information-security management: asset and access
management, risk, compliance, incidents, training.  These specifications are about
its parts in which several processes work on the same rows and a mistake matters:

* the **access requests of `app_access`** - how a request is approved and decided, and
  what a granted or revoked request does to the access records;
* the **synchronisation of users with external APIs** (`app_access/api_view.py`), which
  deletes users it does not find;
* the **certificate reminders of `app_keycert`**, mailed under locks that expire;
* the **scheduled reports of `app_risk`**, run by Celery while pages edit them.

Paths below are relative to `src/`; `models.py`, `access_request_view.py` (ARV),
`access_is_view.py` and `manage_is_core_view.py` are those of `app_access`; other
files are named with their application.

## 1. Inventory

The site runs as three gunicorn workers (`gunicorn.conf.py:2`) with a timeout of
120 s after which a worker is killed, over one MySQL database in autocommit mode
(`SecBoard/settings.py` sets no `ATOMIC_REQUESTS`), with Celery workers and a beat
process over Redis.  The parts share the database; few call each other.

| Part | State it keeps | Operations | How it meets the others |
|---|---|---|---|
| access requests (`app_access`) | `AccessRequest`, `AccessRequestApprover`, status histories | submit, edit, cancel, set approver status, set admin status | copies `AccessApprover` rows of the records; granted requests change `access_users` and `AccessRequestSequence` |
| access records (`app_access`) | `SystemAccess`, `AccessApprover`, objects, roles | create, change users or approvers, expire, delete | deleting an `AccessApprover` cascades to the rows of the requests that copied it |
| grants and revocations (`app_access`) | `SystemAccess.access_users`, `AccessRequestSequence` | process granted grant / revoke request, create missing sequences, offer ids in the revocation form | run by the admin status of a request and by the pages that list requests |
| API synchronisation (`app_access/api_view.py`, `tasks.py`) | `ApiCredential`, `ApiUser`, `ApiSyncStatus` | synchronise, stop, clear, delete a credential | external APIs; the Celery task calls the page's function; the page's stop is a status row |
| licensing (`app_conf`) | license rows, cached status, heartbeat lock in the cache | activate, validate, heartbeat | middleware of every request |
| certificate reminders (`app_keycert`) | `Reminder`, two kinds of lock in Redis, the Celery queue | change settings, check, mail, send at once, clean up | Celery, mail; pages and tasks lock the same rows |
| scheduled reports (`app_risk`) | `ScheduledReport`, `ScheduledReportExecution`, the Celery queue | create, edit, delete, send at once, check, run | Celery, mail; the check reads the execution rows pages and tasks leave |
| asynchronous reports (`app_risk/services`) | job table, queue, cache in one process | queue, run, poll, cancel | one worker thread; no URL leads to it |
| Telegram (`app_integration`) | link codes, chat of a user | issue, redeem, unlink | bot updates, Celery |
| training (`app_study`) | courses, attempts, reminders | assign, test, remind | Celery, mail |
| SOC (`app_soc`) | alerts, rules, webhooks | receive, analyse, set status | webhooks |
| cabinet (`app_cabinet`) | users, companies, departments, LDAP options | sign in, import | LDAP |
| compliance, standards, documents, assets, GDPR, incidents, suppliers, risk register | rows edited by forms | create, edit, export | - |

What is hard, and what makes it correct:

* **access requests** - one row per request and several rows per approver are read
  into objects, checked, and written back whole, one committed statement at a time,
  by several workers.  A decision must rest on the consent of all approvers, levels
  must be respected, final decisions must stay, a request must not get stuck, the
  status must agree with the approver rows.
* **access records** - their approver lists change while requests copied from them
  are being decided: approvals must survive or the request must leave "approved".
* **grants and revocations** - repeated grants and revocations of the same access, by
  several requests and workers at once, for cabinet users and for third parties, mixed
  with edits by hand and with pages that create sequences while listing, one write after
  the other outside any transaction, by workers that may be killed: every access must be
  traceable to a sequence that a revocation can name, a revocation must close the
  sequences it names and nothing else, and ids must stay distinct.
* **API synchronisation** - minutes of work inside a request, several at once, without a
  lock: a stop is a row that the synchronisation itself overwrites, a page that cannot be
  read looks like users who have left, the listing changes between its pages, rows are
  chosen and then deleted by key, a killed one leaves its row running.  A user whom
  the API lists must stay, an undisturbed synchronisation must put everything right, and
  a status row must end.
* **reminders** - locks that expire and are deleted by whoever finishes, messages that
  are queued twice, retried and dropped, pages that do the task's work: a reminder must
  be mailed, once, and not after it was cancelled.
* **scheduled reports** - a task holds a copy of the report for minutes and writes it
  back whole, and so do pages; the next run is computed in six ways at calendar
  boundaries, from UTC dates and local times; a row left running stops the schedule.  A due report must be handled, a run must not leave its
  report due, a stopped report must stay stopped.
* **licensing heartbeat, Telegram, training** - locks, check-then-create, loops that
  send: small and independent, not modelled (section 5).

`PROJECT.json` lists every part with what is modelled and why the rest is not, and
every hazard of the modelled parts at its line.

## 2. Modules

| Module | What it is |
|---|---|
| `ApproverRows` | the approver rows of one request as a value, and the questions and updates of `models.py` on them |
| `AccessApproval` | the approval workflow, every handler one step: what the workflow promises when handlers do not overlap |
| `AccessApprovalConcurrent` | the same handlers statement by statement, on several workers that may be killed |
| `RequestRow` | the row of one request among workers that load it, decide by what they loaded and save it whole |
| `AccessApprovalRow` | the refinement: `AccessApprovalConcurrent` implements `RequestRow`, whatever overlaps |
| `AccessApprovalSerial` | the refinement: the statements of handlers that do not overlap add up to the steps of `AccessApproval` |
| `AccessGrants` | grants, revocations, sequences, the check for duplicates |
| `ApiSync` | synchronisations of users, their status rows, stops, deletions |
| `KeyCertReminders` | the reminders of a certificate, its check, its mailing tasks and pages |
| `ReminderLife` | what a reminder goes through, whoever works on it: what the locks and transactions are for |
| `KeyCertReminderLife` | the refinement: `KeyCertReminders` implements `ReminderLife` |
| `NextRun` | the calendar and `calculate_next_run` |
| `ScheduledReports` | one scheduled report, its check, tasks and pages |
| `*_proofs` | theorems and their proofs |
| `MC*` and `*.cfg` | instances for TLC |

`AccessApproval` and `AccessApprovalConcurrent` extend `ApproverRows`;
`AccessApprovalSerial` extends `AccessApprovalConcurrent` and instantiates
`AccessApproval`; `AccessApprovalRow` does the same with `AccessApprovalConcurrent` and
`RequestRow`, and `KeyCertReminderLife` with `KeyCertReminders` and `ReminderLife`.  `AccessGrants` stands on the statuses of the workflow only: its
`Review` may set any status, an over-approximation of `AccessApproval`.
`ScheduledReports` extends `NextRun`; `ApiSync` and `KeyCertReminders` stand alone: these
parts share no state with the others.

Definitions whose comment begins with "Variant" belong to no next-state relation.
Each is a plausible mistake in the definition that follows it; `PROJECT.json`
("mutants") names the property that breaks when it takes that definition's place.

### ApproverRows

The table of approver rows is unique on (request, user), so the rows of a request
are a function from users; a user without a row is `Absent`.  A row keeps its level
and, as `source`, the record whose `AccessApprover` it references - this is what the
cascade of a deleted list follows.  An approver list is a function from users to
levels, 0 for a user who is not listed.

### AccessApproval

| State | Code |
|---|---|
| `kind`, `records`, `status`, `admin` | `AccessRequest.request_type`, `access_records`, `status`, `admin_status` |
| `expired` | `is_period_expired` |
| `rows` | `request_approvers` |
| `lists` | `SystemAccess.approvers` of each record |

| Action | Code |
|---|---|
| `SubmitGrant`, `SubmitRevoke` (in `Init`) | `submit_access_request`, `handle_granular_revoke_request` |
| `SetApproverStatus` | `set_approver_status`, `AccessRequestApprover.set_status`, `_reject_all_pending_approvers`, `update_request_status` |
| `CancelRequest` | `cancel_access_request`, `cancel_request` |
| `EditRequest` | `edit_access_request`, `_sync_request_approvers_from_access_record` |
| `SetAdminStatus` | `set_admin_status` |
| `UpdateRecordApprovers` | `update_access_record_approvers` with its synchronisation of pending requests |
| `ReplaceRecordApprovers` | `update_access_approvers`, `save_access_approvers`, the record form (`update_access`) |
| `PeriodEnds` | the clock passes `end_date` |

`accessible_records.first()` is the record modified last, which any of them may be,
so the first record is chosen freely.  The code's comments say that the new approver
list keeps the approvals of pending requests; the code deletes the `AccessApprover`
rows first, and the cascade takes the request's rows with them before the
synchronisation looks.  The model does what the code does (`Cascade`, then `Synced`).

### AccessApprovalConcurrent

`pc` and `mem` are a worker's place in its handler and the Python objects it holds:
the request object, and copies of approver rows with the primary key they were
loaded with (`pk`) and the key of the list they reference (`fk`).  A step is one
write, or a run of reads with no write of the handler between them, except that the
four queries of `update_request_status` (`Recount`, `AnyRow`, `CountApproved`,
`CountAll`) are a step each, since rows may come and go between them; a
`transaction.atomic()` block is one step.  What the code does with objects is kept:

* `save()` writes every column, so a saved request brings back the statuses it was
  loaded with (`WriteRequest`, `SaveAdmin`, `CancelRequest`, `CommitEdit`);
* the related request of an approver row is fetched when first asked for and cached
  (`Fetched`), which is before the view's check in some cases and inside
  `set_status` in others;
* `save()` of a row that is gone inserts it again under its old key, and raises
  `IntegrityError` when another row of that user exists or the list is gone
  (`Saved`, `SaveFails`); the handler then answers 500 and keeps what it committed;
* the loops over approver rows work on the list loaded at their start (`held`);
* a worker may be killed between any two statements (`Kill`).

`everApproved`, `approvedOnce`, `final` and `mixedCounts` only remember the past for
properties.  `mixedCounts` is set when approver rows come or go while a handler is between
its counts.

`RequestRow` is what the request itself can rely on.  Its `copy` is the request object
in each worker's `mem`; a worker loads the row, gives its copy a status (`Recount`), saves it
whole (`Save`, which is `WriteRequest` and also `CommitEdit`), cancels (`Cancel`) or decides
(`Decide`), and each of these asks something of the worker's copy and nothing of the row.
That is weak - the last one to save wins - and it is all that overlapping handlers keep.

### AccessGrants

| State | Code |
|---|---|
| `requests` | `AccessRequest` rows in the order of their creation; `ids` is `revoked_grant_access_record_ids` |
| `access` | `SystemAccess.access_users` |
| `seqs` | `AccessRequestSequence` rows by primary key; `revoke = 0` is an active one, `part` the fourth part of its `sequence_id` |
| `checked` | the submission a worker has checked for duplicates and not yet created |
| `job` | what a worker is processing: the request, the records left, the local variables of the loop and where in it the worker is |
| `kills` | workers killed so far |
| `byHand` | memory: accesses given by an administrator's edit of the record |
| `cut` | memory: accesses left without a sequence by a worker killed, or a save refused, in the middle |
| `raced` | memory: two workers have held a number for new sequences of one grant at once |

| Action | Code |
|---|---|
| `CheckSubmission`, `CreateRequest` | `submit_access_request`: the check for duplicates, then the transaction |
| `SubmitRevoke` | the form filled by `get_approved_access_requests`, and `handle_granular_revoke_request` with its fallback ids |
| `Review`, `EditRequest` | the workflow; `edit_access_request` |
| `SetAdminStatus` | `set_admin_status` up to the saved status and the records to process |
| `LookGrant`, `AddUser`, `ReadNumber`, `CreateSequence` | the loop of `process_approved_grant_request`: skip a record that lets the user in; `access_users.add`; `max(order_number) + 1`; the insertion, which the unique `sequence_id` may refuse |
| `LookRevoke`, `RevokeSequence`, `ExtendId`, `RemoveUser` | the loop of `process_approved_revoke_request`: which sequences to revoke; `revoke_sequence`; the save with the fourth part; `access_users.remove` |
| `ListRequest`, `LookMissing` | the list views, which create the sequences a granted request misses with the same two statements |
| `Kill` | gunicorn's timeout |
| `EditAccessUsers` | `update_access` |

ARV defines the processing functions and the revocation handlers twice; Python keeps
the second definitions (lines 3152-3903), and these are modelled.  The older form of a
revocation, for a whole request (`handle_revoke_request`, ARV:3166-3331), reads
`original_request.access_record_id`; `AccessRequest` has no such field any more, so it
answers 400 before it writes anything and has no action.

### ApiSync

| State | Code |
|---|---|
| `api` | the users each external API lists, with the page each is on |
| `credentials` | `ApiCredential` rows |
| `owner` | `ApiUser.api_credential`, by `user_id`, which is unique over all credentials |
| `rows`, `last` | `ApiSyncStatus` rows; `named` is a `unique_id` that is not empty |
| `pc`, `job` | where a process is in `sync_api_users`, and its variables |
| `dropped` | memory: rows whose synchronisation ended without saying so |

| Action | Code |
|---|---|
| `StartRequest`, `Login` | `sync_api_users` up to the first request for users |
| `FetchFirst`, `FetchPage`, `FetchEnds` | the pages of the listing, one request each: as many as the API says it has, or, if it does not say, until one is empty and at most `PageLimit` (100 in the code); a page that fails is left out |
| `ApiChange` | the listing changes, between two pages too: users come, leave and move |
| `CheckStopped`, `ProcessUser` | the loop over the users: `refresh_from_db`, `update_sync_progress`, one user |
| `CollectStale`, `DeleteStale` | `stale_users.delete()`: the rows are chosen, and then deleted by primary key |
| `Complete` | what follows it |
| `FailSync`, `LoseRow`, `Kill` | its exception handlers; gunicorn's timeout |
| `StartTask`, and `outer` in `Return` | `sync_api_users_task`, which has a status row of its own around that of the function |
| `StopSync`, `ClearSyncData`, `DeleteApiCredential` | the pages |

The status row is an object in memory that `update_sync_progress` saves whole, so a stop
set after the check of a user is overwritten by the progress of that user.  A
synchronisation that succeeds answers the Celery task with a redirect, which the task
takes for an error.  The task's lock of `ensure_unique_task` lives in a cache of each
process (`SecBoard/settings.py` configures no shared one) and keeps nobody out.

### KeyCertReminders

| State | Code |
|---|---|
| `expiry`, `reminders`, `last` | `KeyCertificates.expiry_date`, its `Reminder` rows in order of creation |
| `queue` | messages of `send_reminder_email` by number of retries |
| `checking` | `check_reminders` is in its transaction |
| `pc`, `reminder`, `retries` | where a process is in `send_reminder_email` or `send_reminder_now` |
| `taskLock`, `mailLock` | the two Redis locks |
| `mails` | memory: mails of each reminder, less those whose transaction was rolled back |

| Action | Code |
|---|---|
| `EditReminder`, `DisableReminder`, `DeleteKeyCert` | `edit_key_cert`, `handle_reminder_settings`, `schedule_reminder`, `cancel_reminder`, `delete_key_cert` |
| `CheckReminders`, `EndCheck` | `check_reminders` |
| `StartSend`, `SendMail`, `CommitSend`, `FailSend` | `send_reminder_email` in its two wrappers |
| `StartSendNow`, `InsertReminder`, `ApplySend` | `send_reminder_now`, which runs the task in the page |
| `ExpireLocks`, `Kill` | `DistributedLock`; time limits |
| `CleanupOldReminders` | `cleanup_old_reminders` |

The task locks its rows with `nowait`; a page that changes them waits.  Both are one
lock per certificate here (`RowsLocked`).  The lock key of a task contains its
arguments, among them the task object itself, and so differs between a page and a
Celery worker.

`ReminderLife` knows neither queue nor locks nor processes.  A reminder is created
(`waiting`), withdrawn or forgotten (`gone`) by `Arrange`, and taken up by a sender
(`Begin`), which mails it (`Mail`) and marks it as `sent` (`Finish`), or leaves it as it was
(`GiveUp`).  A sender takes one up only when no other is being mailed.  `LifeOf` of
`KeyCertReminderLife` reads the life of a reminder off its row and off the process that
holds it; a message queued, dropped, retried or queued twice, a lock lost, a check, a killed
page before it has taken the row are stutters.

### NextRun and ScheduledReports

A local day has four parts, of which a report's `execution_time` begins one, over a
calendar of `Years` years.  The UTC date changes `Offset` parts after the local one (1 to 3
east of Greenwich, negative west of it): `calculate_next_run` takes the date, the day
of the month and the weekday of `timezone.now()`, which is UTC (`UtcDay`), and
`make_aware` puts the `execution_time` into the local day of that date (`At`).
`CalculateNextRun` is `calculate_next_run`, one operator per frequency, with what it does
at the ends of months and years.

| State | Code |
|---|---|
| `report` | the `ScheduledReport` row; `ran` is `run_count > 0` |
| `selected` | `check_scheduled_reports` has found the report and not yet come to it |
| `queued` | messages of `execute_scheduled_report` |
| `pc`, `mem`, `running` | a worker's place in the task, its copy of the report, whether its execution row is running |
| `page` | what each page does with the report, and its copy |
| `left` | execution rows left running, by a page or a killed task |
| `stopped` | memory: the report was inactive or gone when nothing was under way |

| Action | Code |
|---|---|
| `Init`, `DeleteReport`, `SendNow` | `create_scheduled_report`, `delete_scheduled_report`, `send_scheduled_report_now` |
| `LoadEdit`, `SaveEdit` | `update_scheduled_report`: the row is loaded, and saved whole with what the form says |
| `LoadList`, `SaveList` | `get_scheduled_reports`: all rows are loaded, and then each without a next run is saved whole |
| `EndPage` | a form refused, a next run that cannot be computed, a lost process |
| `CheckSelect`, `CheckTrigger` | the query of `check_scheduled_reports`, and its loop |
| `StartTask`, `Generate`, `FinishTask`, `CloseTask` | `execute_scheduled_report`; the last two are `report.save()` and the last save of the execution row |
| `FailRow`, `FailReport`, `Kill` | its handlers; Celery's time limits |

A `save()` writes every column, and inserts a row that is gone again, so a page or a task
that holds a copy undoes what happens to the report meanwhile.
`Saved` is `ScheduledReport.save()`, which computes a next run that has passed anew: a
report sent by hand when it is due is thereby put off, although the comment at
`app_risk/tasks.py:456` says that only scheduled executions change the next run.

## 3. What is checked

### Runs that pass

| Run | Instance | Shows |
|---|---|---|
| `approval_handlers` | three approvers, levels 1-2, seven shapes of list, two records | `TypeOK`; `ApprovedByAll`, `NoHiddenRejection`: the status agrees with the rows under every order of handlers; `SomebodyMayDecide`: levels never lock a request; `ApproversOfTheRecords`: edits leave no approver of other records behind; `CancelledIsFinal` |
| `concurrent_race` | three workers, three handlers, one record, two approvers on two levels or on one, or a single one; one worker killed | `DecidedOnlyAfterConsent`, `NoLevelSkipped`, `FinalDecisionsStay` under every interleaving of statements; `ImplementsRow`: refinement of `RequestRow` |
| `concurrent_rebuild` | two workers, two handlers, two records, one rebuild of rows | `DecidedOnlyAfterConsent`, `FinalDecisionsStay` with stale saves that insert again or fail, and rows that come and go between two counts; `HandlersReturn` (liveness) |
| `serial_implements` | one worker, five handlers, two rebuilds, two records | `ImplementsWorkflow`: refinement |
| `grants_records` | one user, one record, two requests, two sequences per grant, two workers, one kill | `AccessBehindSequence`, `OnlyNamedRevoked`, `IdsDistinct` under every interleaving of the statements |
| `api_users` | two credentials whose APIs share a user, lists of one or two pages, one request process, one Celery process, three status rows, one failure | `UndisturbedSyncIsExact`: one undisturbed synchronisation puts right whatever others left; `ListedUsersStay`: a synchronisation that has read all pages, while no user moved to an earlier one, removes no user listed all the time, also beside others; `RunningRowHasSync`, `EveryRowEnds` (liveness): no row runs for ever but those of killed processes or failed listings |
| `reminders_mail` | two Celery workers, two pages, three settings, four days, four reminders, one failure or kill | `MailedOnce`, `OnlyActiveMailed`: in spite of expired locks and doubled messages; `ImplementsLife`: refinement of `ReminderLife`; `DueIsMailed` (liveness) |
| `reports_schedule` | two workers, one page, 29 February at local midnight, at UTC midnight and a day later; a single, a monthly and a yearly report and edits to a daily one; one edit, manual run or kill | `StoppedStays`; `RunLeavesNotDue`: a run leaves the report due only between the local and the UTC midnight; `DueIsHandled` (liveness) |

### Runs that find a disagreement

Each of these states what a comment, docstring or message of the code says, and TLC
finds a behaviour of the code that contradicts it.

| Run | The code says | The behaviour |
|---|---|---|
| `concurrent_cancel` | the status of cancelled requests is not updated (`models.py:1890`) | a handler that fetched the request before the cancellation saves it whole; nothing in that save is particular to cancellations, so a denial or a revocation set meanwhile is as exposed |
| `grants_revoked` | a granted revoke request is "Access Revoked" (ARV:7443) | the user already had access by hand, so the grant got no sequence; the made-up id of the form matches none and the record is skipped |
| `reports_sent` | the task updates the execution record of the page (`app_risk/report_views.py:5331`) | the task creates one of its own; that of the page stays running, and the check then skips the report for ever |
| `api_removed` | only users removed from the API are deleted (`api_view.py:3117`) | a user whom the API lists all the time is deleted: another is removed from the listing while its pages are read, and he moves to the page already read; or the page he is on cannot be read and is skipped with a warning |

### Other disagreements met while modelling

The models contain these behaviours; no run is devoted to them.

* Saving a record's approver list deletes its `AccessApprover` rows first and the cascade
  takes the approvals of pending requests, against the comment at
  `access_is_view.py:1765` (`Cascade`, `Synced`).
* `update_request_status` counts the approved rows and all rows in statements of their
  own.  One of two approvers has approved; the handler counts one approval; the list is
  rebuilt with one approver, who is pending; the handler counts one row and saves
  "approved" (`models.py:1812`, `mixedCounts`).  `DecidedOnlyAfterConsent` names this as the
  only way to a decision without consent.
* A request whose last undecided approver is taken off the list, or whose last two
  approvers approve in overlapping handlers, stays pending although all have approved
  (`models.py:1895` says it is then approved).
* An approver's handler that loaded its row before an edit rebuilt the approvers inserts
  it again, approved, under other records (docstring at ARV:6777).
* The grant and the list views number sequences by `max(order_number) + 1`, read and used
  in two statements.  Two at once give one number to two sequences of a grant (`raced`),
  of the same record too when the first is revoked, and so gets a fourth part, before
  the second is inserted: then a revocation by its "record.grant.order" names both
  (`models.py:4438` says each access record of a grant gets a unique ID).
* A worker killed after `access_users.add` leaves an access no revocation can name.  A
  second `set_admin_status` skips the record; a page that lists the request repairs it
  when the grant had no sequence of that record yet (`cut`).
* A certificate renewed with the same number of days keeps its sent reminder and is
  never reminded of again (`SettingsChanged` looks at the newest row, sent or not).  A
  date of the form has no time zone, is never equal to the stored one, and so always
  replaces the reminder (`app_keycert/views.py:1107`).
* A daily, weekly, monthly or quarterly report that runs between the local and the UTC
  midnight gets the time it has just run at as its next run, as the UTC date is the day before
  (`app_risk/models.py:3212`, `RunLeavesNotDue`).  With the default `Europe/Kyiv` a daily report of 00:30 is
  mailed every minute until the UTC date changes.
* A page that lists reports saves every finished single report whole each time it is
  shown, and an edit saves what it loaded: a pause or an edit made in between is undone,
  and a report deleted in between is inserted again (`app_risk/report_views.py:4734`, 5236).  The
  command `recalculate_scheduled_reports` saves its reports whole as well.
* A user whom another credential has taken over after he was chosen as stale is
  deleted by his key (`app_access/api_view.py:3138`); that credential's next
  synchronisation creates him again.  Of an API that does not say how many pages it has only
  100 are read (2292), and the users on the rest are deleted.
* A message names the certificate, not the reminder: one left over mails the reminder
  that has replaced it before that is due.
* The second scheduled synchronisation fails on the unique, empty `unique_id` of its
  row (`app_access/tasks.py:139`).

### Bounds, and why they are enough

* **Three approvers, two levels** (`approval_*`): a level with two people below one
  with one, one below two, a level 2 without a level 1, a rejection that stops two rows.
  The rows of an approver interact with others only through "all", "some" and "lower".
  The statement-level runs have **two approvers**, one below the other or side by side, or a single one.
* **Two records** give a request a record of its own and a foreign one: lists that
  touch it, lists that do not, edits from one to the other.
* **Two workers**: the races need two overlapping handlers, and more handlers can
  run one after another on two workers.  In `concurrent_race` there are all three
  workers of the site and three handlers (`MaxStarts`): they all overlap, or one comes before two
  that race, such as the approval of a single approver, after which administrators, the
  requester and the approver race.
* **`MaxMade`** (rebuilds of approver rows, 1 or 2) is the number of times a key can be
  replaced while a copy of it is held; a copy is stale after one.
* **`MaxKills`** is 1 in `concurrent_race` and `grants_records`, where a killed handler
  leaves rows apart that belong together, and 0 elsewhere.
* **`MaxRequests`** 2 is a grant and its revocation, or two grants; **`MaxOrder`** 2 is an
  access granted a second time.  One record is all that the steps of overlapping jobs
  have in common, but for the numbers of a grant; with two records, or two users, the
  instance is out of TLC's reach.  They, third parties and longer histories are the
  business of the proofs in section 4, which have no bounds.
* **`api_users`**: a user in both listings changes hands, another is in one only; three
  rows are three requests, or a task and a request.  Two pages (`MaxPages`), of one user each, are
  what a user needs to move to a page already read; `PageLimit` 2 lets the limit be reached.  `MaxEvents` 1 is one lost page, failure, kill
  or change of an API at any point; combinations of them are the business of section 4.
* **`reminders_mail`**: one retry tells a first message from a repeated one; `MaxReminders`
  4 is the first reminder (two rows), its replacement, and one that a page adds;
  `MaxQueued` 1 for each number of retries lets a second message wait beside the one
  worked on.  In `DueIsMailed` the one failure or kill may strike anywhere.
* **`reports_schedule`**: `Times` are three instants around the leap day: its local midnight, when
  UTC still has the 28th, UTC midnight, and UTC's 1 March.  They have an overdue run, the 31st
  of a short month, 29 February a year on, and the hours in which a daily report stays due.
  One page holds a copy while two tasks, a check and the clock go on; two pages, all other
  times, offsets and frequencies are the business of section 4.  `MaxEvents` 1 is one
  edit, report sent by hand or kill.
* Symmetry: workers are interchangeable in `Concurrent_race`; users, parties, records,
  submitters and workers in `Grants_records`.  They check invariants and, in
  `Concurrent_race`, `ImplementsRow`, which speaks of initial states and single steps and
  treats all workers alike; no configuration with a liveness property declares symmetry.
* Deadlock is checked in every run.  `Quiet` stands for a site to which nobody sends
  anything, and is allowed only when no handler runs: a handler that could not go on
  would be reported.

### Fairness

`FairSpec` asks weak fairness of `Continue(w)`, the steps a worker's running handler
takes by itself.  Nothing in these handlers waits for another one - MySQL's row locks
last one statement or one short transaction - and the operating system runs every
worker process.  Nothing is asked of people: no handler has to be started.
`HandlersReturn` is checked without kills: a killed handler ends in any case.

`ApiSync!FairSpec` asks weak fairness of each process' next step: every request to the API has a
timeout (`SYNC_HTTP_TIMEOUT`) and the loops are over finite lists.
`KeyCertReminders!FairSpec` asks it of the periodic check (beat sends it every half hour), of
the expiry of Redis keys (`ex=`), and of each process' work, which for a Celery worker includes
taking the next message.  Without the expiry `DueIsMailed` fails: the locks of a
killed worker would stay (this is its mutant).
`ScheduledReports!FairSpec` asks it of the clock up to its bound, of the check each minute,
and of each worker.  None of the three asks anything of people: no page has to be used.

## 4. What is proved

With TLAPS, for every set of users, records and workers, every number of levels and
every set of lists; the assumptions are `LevelAssumption`, `NonemptyAssumption`,
`ListsAssumption` (`ApproverRows`), `BoundsAssumption`, and `BoundAssumption` and
`OneselfAssumption` (`AccessGrants`), `SyncAssumption` (`ApiSync`),
`RemindersAssumption` (`KeyCertReminders`), `CalendarAssumption` and `OffsetAssumption` (`NextRun`),
`InputsAssumption` and `CalendarSuffices` (`ScheduledReports`) and, for the
refinement of the workflow, `SerialAssumption` (`AccessApprovalSerial`): one worker, which is
not killed.  `CalendarAssumption` leaves the number of years and the choice of leap years open, and
`OffsetAssumption` the time zone, as long as it is less than a day from UTC.
`CalendarSuffices` is about the model alone, whose calendar ends: the times
leave a whole year of it, and reports start in it.  Python's dates end in the year 9999.

| Theorem | States |
|---|---|
| `AccessApproval_proofs!TypeCorrect` | `Spec => []TypeOK` |
| `AccessApproval_proofs!StatusAgrees` | `Spec => [](ApprovedByAll /\ NoHiddenRejection)` |
| `AccessApproval_proofs!ApproversBelong` | `Spec => []ApproversOfTheRecords` |
| `AccessApproval_proofs!CancelledFinal` | `Spec => CancelledIsFinal` |
| `AccessApprovalConcurrent_proofs!TypeCorrect` | `Spec => []TypeOK` |
| `AccessApprovalConcurrent_proofs!ConsentBeforeDecision` | `Spec => []DecidedOnlyAfterConsent` |
| `AccessApprovalConcurrent_proofs!FinalStays` | `Spec => []FinalDecisionsStay` |
| `AccessApprovalConcurrent_proofs!LevelsInOrder` | `Spec => []NoLevelSkipped` |
| `AccessApprovalConcurrent_proofs!RowOfCopies` | `Spec => ImplementsRow` |
| `AccessApprovalSerial_proofs!HandlersImplementWorkflow` | `SerialSpec => ImplementsWorkflow` |
| `AccessGrants_proofs!TypeCorrect` | `Spec => []TypeOK` |
| `AccessGrants_proofs!AccessTraced` | `Spec => []AccessBehindSequence` |
| `AccessGrants_proofs!RevokesNamed` | `Spec => []OnlyNamedRevoked` |
| `AccessGrants_proofs!IdsUnique` | `Spec => []IdsDistinct` |
| `ApiSync_proofs!TypeCorrect` | `Spec => []TypeOK` |
| `ApiSync_proofs!UndisturbedExact` | `Spec => []UndisturbedSyncIsExact` |
| `ApiSync_proofs!ListedKept` | `Spec => ListedUsersStay` |
| `ApiSync_proofs!RunningRowsHaveSyncs` | `Spec => []RunningRowHasSync` |
| `KeyCertReminders_proofs!TypeCorrect` | `Spec => []TypeOK` |
| `KeyCertReminders_proofs!MailedExactlyOnce` | `Spec => []MailedOnce` |
| `KeyCertReminders_proofs!OnlyActive` | `Spec => OnlyActiveMailed` |
| `KeyCertReminders_proofs!RemindersLive` | `Spec => ImplementsLife` |
| `NextRun_proofs!NextRunIsAhead` | `CalculateNextRun` of a report that is not a single one is `Unset`, later than the time it is asked at, or, while the UTC date is behind the local one, the execution time of the local day; it is a date for all |
| `NextRun_proofs!WeeklyOnTheNextDay` | `NextWeekly` is the first chosen weekday after the UTC date, and `Unset` if none is chosen |
| `NextRun_proofs!MonthlyOnTheNextDay` | `NextMonthly` is the chosen day, or the last one of a shorter month, of the month of the UTC date or the next, after the UTC date, and passes no chosen day over |
| `NextRun_proofs!QuarterlyOnTheNextQuarter` | `NextQuarterly` of a report that has started by the UTC date is ahead of the clock and the first among the chosen days of January, April, July and October of any year |
| `ScheduledReports_proofs!StopsStay` | `Spec => []StoppedStays` |
| `ScheduledReports_proofs!TypeCorrect` | `Spec => []TypeOK` |
| `ScheduledReports_proofs!RunsLeaveNotDue` | `Spec => RunLeavesNotDue` |

**`AccessApproval`.** The two invariants on the status are inductive together with the
types.  `update_request_status` establishes them; each handler that changes the rows
without recomputing the status only removes rows, approves more of them, or works on a
pending request without producing a rejection - which is what has to be seen of the
cascade, the synchronisation, the cancellation and `set_admin_status`, one by one.
`ApproversOfTheRecords` is inductive with the types: a handler that adds rows takes them
from a record the request asks for, and the others keep the source of a row or delete it
(`SourcesKept`).  It holds for handlers that do not overlap only (section 3, other
disagreements).

**`AccessApprovalConcurrent`.** `TypeOK` is not inductive: a worker that will write a
request back must hold one it has fetched, and what it was asked to decide must fit
where it is. `WorkersSound` says so for each place in a handler, and `Types` is both.
For `ConsentBeforeDecision` the strengthening `Consent` says: as long as the approvers
have never all approved and no counts were mixed, no request object anywhere (the row, or
the copy of any worker) is approved or decided, and no worker is in the part of `set_admin_status` behind its
check. A stale copy cannot break it, since it too was loaded from a row of which this
held.  Nor can a handler between its two counts (`CountFits`): what it has counted is less than the
number of rows (`FewerApprovals`), and as long as none comes or goes it stays so (`CountKept`). For `FinalStays` the strengthening `FinalSettled` says that once a decision was in
place with all workers idle, every copy loaded since agrees with it and no worker is at
a step that would write another one.

For `NoLevelSkipped` the check of `can_approve` and the save are steps apart, and in
between a lower level may be reset.  What stays true is what was once approved:
`LevelsInv` says that, while no row has been made after the submission, every copy of a row has
the level of the row; a worker about to save an approval belongs to a level whose lower
levels have all approved once (`Passable`); and a worker that grants everything has
seen everybody approved.  The proof needs `Consent` for the last part.

For `RowOfCopies` the check and the save are steps apart as well, but of one copy: `CopiesFit`
says, for each place in a handler, what the object held there was found to be - not
cancelled before a recount, pending before an edit or a cancellation, approved and not denied
before an administrator's save - and nobody else changes it.  `ObjectStep` then lists the ways in which a step may treat the
row and the object of one worker; `HandlerObjects` finds each statement among them.

**`AccessApprovalSerial`.** The invariant `SerialInv` says, for each place in a handler,
how the database differs from `before` and what is still to be done (`HalfWay`): after the
statements behind it and those in front of it the rows are what the one step of
`AccessApproval` makes of `before`.  For a loop over rows (`AtReject`, the sweep of
`set_admin_status`) that is one equation, which each turn of the loop keeps
(`LoopSaves`).  A statement either goes on in its handler, and then `before` is
unchanged and the step is a stutter (`GoesOn`), or returns, and then the database is
`before` after a step of `AccessApproval` (`Returns`).  A request that is saved whole
brings nothing back here, since nobody else has written it; that is the point at which one
worker is needed.

**`AccessGrants`.** `IInv` adds three parts to the invariants of the run.  `Linked`: a
sequence belongs to a request that exists and is revoked by one that exists.
`JobsSound`: what a job has read stays true until it writes - the request it processes
keeps its user, kind and ids, the record of a revocation is one of the request's, and every sequence
it is about to close is of that user and record and named by the request, if the request names
any (`MayRevoke`); others may close such a sequence first, but never change whose it is.
From this `OnlyNamedRevoked` is inductive although the sequences are chosen some steps before they are
closed.  `NumbersFresh`: without a race, a number read and not yet used is above all
others and no one else holds one of that grant; that the maximum exists and bounds is
`MaxExists`, `LeastNat` and `LastOrderBound`.  For `AccessBehindSequence` one follows an
access through a step: whoever is let in is the user of a job in between (`LetIn`); a job
in between goes on, creates the sequence, takes the user out or is recorded in `cut`
(`OwnPair`); a sequence that is closed is of the access its job is at (`TraceGoesOn`); and
the jobs of other workers stay where they are.  A revocation may leave active
sequences without an access, never an access without an active sequence.

**`ApiSync`.** `TypeInv` adds to the types that a job's row is one of its credential.  `SyncOK`
says what a synchronisation's variables know at each place: a user whom the API has listed ever
since the start has been seen, or is on a page still to be read (`whole`), hence seen when
all are read, so that the rows `CollectStale` chooses cannot be among theirs - and stay so, for who
is deleted meanwhile is forgotten (`Forget`); and a synchronisation that is `alone`
is the only one, has seen what the API lists, and has tied to its credential all of them
but those still to do.  A page or another synchronisation that starts sets `alone` to false.
From this `UndisturbedExact` and `ListedKept` follow; the second is about one step, the
deletion, in whatever state others have left the users.  `RunningRowHasSync` is inductive
with the types: each way in which a synchronisation ends closes its rows, finds them
stopped or deleted, or drops them.

**`KeyCertReminders`.** `IInv` adds to the types `Exclusive` - one process at a time mails, not
during a check, and the reminder it mails stays active - and `Counted`, which ties the
number of mails of a reminder to its row and to the process about to commit.
`MailedOnce` alone is not inductive: a second mail of an active reminder is excluded
only because its first mail is in a transaction that is still open.  The proof uses
the row lock alone; the two Redis locks may be lost at any time, and `ExpireLocks`
needs no case of its own.

The refinement is proved in the same pass: each action keeps `IInv` and is a step of
`ReminderLife` or a stutter (`Keeps`).  `ArrangeStep` and `SenderStep` reduce the latter to
what becomes of each reminder by itself.  The pages' steps need `Exclusive`: none of them
runs while a reminder is `mailing`, and what they leave out of the rows was `waiting`,
`sent` or gone.  The steps of a sender need `Counted`, which says whether its mail has been sent.
That a message names the certificate and not the reminder (section 3, other disagreements)
does no harm here: `Begin` does not ask which reminder a sender was meant for.

**`NextRun`.** The calendar is a recursive function on the months, and the library's induction
theorems are out of reach.  Instead `NumberingExists` and `NumberingUnique` look at the least
month for which the days could not be numbered, or in two ways (`LeastOfNaturals`,
from `WFMin`), and `FirstDayDef` follows: each month begins where the one before it ends.  A
later month has later days (`MonthsFollow`, `LaterMonth`), and every day is in one
month (`MonthOfDay`).  The UTC date is the local one or a neighbour (`TwoDates`), so that a day
after the UTC date is ahead of the clock (`LaterDay`), or is the local one while the two
differ, which is what `Ahead` says.  With these each frequency is a few cases: in `NextMonthly` the day of
the UTC date against the day chosen, in `NextQuarterly` that January of next year is
always among the candidates, and the quarters left out are over or come after it, in
`NextYearly` that the month of the same name follows a year on.  `NextOnce` is not ahead of the clock by design: a missed single run is due.

**`ScheduledReports`.** For `StoppedStays` it does not matter what a next run is: `Shaped`
takes it as whatever `CalculateNextRun` gives.  `NothingToUndoWith` makes the property
inductive: after a deletion with no task under way and no page open none comes to hold a copy, for
a task or a page that starts without a report ends at once; and after a report became inactive every
copy loaded since is inactive, so that neither a task's last `save()` of the whole row nor that of
a listing can bring the old status back.  Only a form says "active".

The other two theorems need the dates.  `Typed` is `TypeOK` with what it needs to be
inductive: the start of the report and of every copy is in the calendar (`DatedReport`), and the
clock leaves a year of it (`Clocked`); then `CalculatedAhead`, from `NextRunIsAhead`, types
whatever is saved.  `RunLeavesNotDue` is about one step in a `Typed` state: the copy that the task
saves is inactive, or single and run, or has a next run that is none or, by `SavedIsNotDue`, ahead, or
that of the local day the UTC date has not reached (`LeftForToday`).  This is so whatever was done to the report meanwhile, since the task saves all of its copy.

### Only model-checked

`HandlersReturn`, `EveryRowEnds`, `DueIsMailed` and `DueIsHandled` are liveness under
fairness, which the prover does not reach; neither does it reach `ENABLED`.  `SomebodyMayDecide` is left
to TLC: its proof would rest on `can_approve` alone.  Every other safety property of the
passing runs is proved.  The refinement of the workflow is proved for handlers that do
not overlap; for those that do it does not hold (section 3, other disagreements), and what
remains is `RequestRow` and the invariants of `AccessApprovalConcurrent`.  The disagreements of section 3 are counterexamples, not theorems.

## 5. What is left out, and why

* **History rows, mails, logs, permissions.** They decide who may call a handler and
  what is told to whom.  The sweep of `set_admin_status` creates a history row with
  names of fields the class does not have, catches the error and goes on; nothing
  depends on it.  The creation of a history row in `set_status` is a statement of its
  own that changes nothing the models hold; that it could fail is left out.
* **Deleting** requests, records or users by administrators, and the expiry of records.
* **`save_access_approvers`** (`manage_is_core_view.py:2086`) is not in a transaction; the models
  take it as one step like its siblings that are.  **`PeriodEnds`** is not in the
  concurrent model: an expired period only makes `set_admin_status` refuse more.
* **Reviews, edits of a request and of a record's users in `AccessGrants`** are single steps; so are
  the reads of a loop before each of its writes, and the save of the status with the look
  at the request's records that follows it.
* A revoke request in `AccessApprovalConcurrent` is one for a single record.  The two counts of
  `can_be_cancelled` are one step there: they guard a cancellation, which needs no consent.
* In `AccessGrants` only `SetAdminStatus` changes the administrators' status.  That a save of
  an approver's handler may bring an older one back (`AccessApprovalConcurrent`,
  `RequestRow`) is not carried over: with it the instance is out of TLC's reach.
* In `AccessGrants` all requests are for one system and environment, the period of none
  ends, and "cancelled" is "rejected" for good (both are neither pending nor approved).
  The order in which a job loops over its records and sequences is free.
* **`ApiSync`**: roles, merchants, statuses and histories of a user, which follow the user's
  row and are replaced without a transaction; refreshing of tokens; sizes of pages; the pages
  that define schedules.  What fails for one user is passed over, as in the code.  One
  user is one step: reading and saving his row are not split.
* **`KeyCertReminders`**: one certificate, so a check queues only its messages; history rows
  and recipients; Redis out of reach, in which case the code goes on without locks.
  Taking both locks and the rows is one step, since a task that gets only some of
  them gives them back at once.  So are the reads and the `UPDATE` with which a page replaces or
  cancels a reminder; its `UPDATE` names the rows anew.  A retry comes a minute later and does not meet the
  check that queued its message.
* **`ScheduledReports`**: one report; what it contains, who gets it; `end_date`, which
  `calculate_next_run` does not read.  The distance from UTC does not change: days on which the clocks are set are
  left out, and so is a site whose midnights are a day apart.
  The execution row is completed before the mail is sent, as in the code.  Sending at
  once and deleting are single steps, since they save no copy of the report.  `report_generators_scheduled.py` repeats these
  pages but no URL leads to it.
* **Other parts** (licensing, Telegram, training, alerts, assessments, inventories): forms
  over single rows, or clients of services that are not in the repository.  The
  asynchronous reports of `app_risk/services` have no caller a URL leads to.  With some
  260 000 lines most of the repository is of this kind; the models cover the parts
  whose steps interleave.

## 6. Running it

    tlc -workers 2 -config AccessApproval_handlers.cfg MCAccessApproval.tla
    tlapm AccessGrants_proofs.tla

The longest run is `api_users` with three and a half minutes; `reminders_mail`, `reports_schedule`,
`concurrent_rebuild` and `serial_implements` take two to three.  The proofs
take some ten minutes together.

## 7. Plan

Done, in this order: `ApproverRows`, `AccessApproval`, its proofs,
`AccessApprovalConcurrent`, its proofs, `AccessApprovalSerial`, `AccessGrants`, its proofs,
`NextRun`, `ScheduledReports`, `KeyCertReminders`, `ApiSync`, proofs of the last three, the
proof of the refinement, `AccessGrants` statement by statement with its proofs, the
calendar and `ScheduledReports` on top of it, `ReminderLife` and its refinement, `RequestRow` and its
refinement.

What would come next, the most important first:

1. The heartbeat lock of `app_conf/license_server_api.py`, the codes of
   `app_integration/telegram_link.py`.
