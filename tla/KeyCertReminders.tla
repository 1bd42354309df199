-------------------------- MODULE KeyCertReminders --------------------------
(***************************************************************************)
(* The reminders of one certificate of app_keycert: the check that queues  *)
(* a message for every due reminder, the task that mails a reminder, run   *)
(* by Celery or at once by a page, and the pages that edit the settings.   *)
(*                                                                         *)
(* The task works under two Redis locks that may expire and carry no       *)
(* owner, and in a transaction that locks the unsent reminders without     *)
(* waiting.  Pages that change these rows wait for it.                     *)
(***************************************************************************)
EXTENDS Integers, FiniteSets

CONSTANTS
    Celery,       \* Celery worker processes
    Web,          \* processes that serve "send now"
    MaxRetries,   \* max_retries of send_reminder_email
    KeepDays,     \* days for which a sent reminder is kept
    Choices,      \* settings that users choose: expiry date and reminder
    MaxDays,      \* bound: days that pass
    MaxReminders, \* bound: reminders created
    MaxQueued,    \* bound: waiting messages with as many retries
    MaxEvents     \* bound: failed mails and killed workers

Processes == Celery \cup Web
Setting == [type : {"days", "date"}, value : Nat]

ASSUME RemindersAssumption ==
    /\ Celery \cap Web = {} /\ IsFiniteSet(Web)
    /\ Choices \subseteq [expiry : Nat, reminder : Setting]
    /\ MaxRetries \in Nat /\ KeepDays \in Nat /\ MaxDays \in Nat
    /\ MaxReminders \in Nat \ {0, 1} /\ MaxQueued \in Nat /\ MaxEvents \in Nat

VARIABLES
    expiry,     \* expiry date of the certificate, 0 when it is deleted
    reminders,  \* its Reminder rows by id, in order of creation
    last,       \* the last id given
    now,        \* today
    queue,      \* messages of send_reminder_email, by retries
    checking,   \* check_reminders has its transaction open
    pc,         \* where each process is
    reminder,   \* the row it mails, 0 if none
    retries,    \* retries of the message it works on
    taskLock,   \* Redis: task_lock_send_reminder_email of the Celery workers
    mailLock,   \* Redis: reminder_email_lock of this certificate
    mails,      \* mails per reminder, less those rolled back (ghost)
    events      \* counter for the bound

vars == <<expiry, reminders, last, now, queue, checking, pc, reminder, retries,
          taskLock, mailLock, mails, events>>

Never == 0
Row == [setting : Setting, sent : Nat, cancelled : BOOLEAN]
Ids == 1..MaxReminders

Unsent(r) == r.sent = Never /\ ~r.cancelled
Active == {i \in DOMAIN reminders : Unsent(reminders[i])}
IsNewest(i, ids) == i \in ids /\ \A j \in ids : j <= i

DueDate(s, e) == IF s.type = "days" THEN e - s.value ELSE s.value

\* Reminder.is_due
Due(i) == i \in Active /\ DueDate(reminders[i].setting, expiry) <= now

\* Those who have the unsent reminders locked.
Sending(p) == pc[p] \in {"mail", "commit"}

\* Variant: the task does not lock the row it mails.
OnlyCheckLocks == checking

RowsLocked == checking \/ \E p \in Processes : Sending(p)

TypeOK ==
    /\ expiry \in Nat /\ last \in 0..MaxReminders /\ now \in Nat /\ events \in Nat
    /\ DOMAIN reminders \subseteq 1..last
    /\ reminders \in [DOMAIN reminders -> Row]
    /\ queue \in [0..MaxRetries -> Nat]
    /\ checking \in BOOLEAN /\ taskLock \in BOOLEAN /\ mailLock \in BOOLEAN
    /\ pc \in [Processes -> {"idle", "insert", "apply", "mail", "commit"}]
    /\ reminder \in [Processes -> 0..MaxReminders]
    /\ retries \in [Processes -> 0..MaxRetries]
    /\ mails \in [Ids -> Nat]
    /\ \A c \in Celery : pc[c] \in {"idle", "mail", "commit"}
    /\ \A c \in Celery : pc[c] # "idle" => taskLock

-----------------------------------------------------------------------------
(* Reminder rows.                                                          *)

Cancelled(rows) ==
    [i \in DOMAIN rows |-> [rows[i] EXCEPT !.cancelled = TRUE]]

\* Reminder.save() of a new row: the others are cancelled.
Created(rows, s) ==
    [i \in DOMAIN rows \cup {last + 1} |->
        IF i = last + 1 THEN [setting |-> s, sent |-> Never, cancelled |-> FALSE]
        ELSE Cancelled(rows)[i]]

Kept(rows, ids) == [i \in ids |-> rows[i]]

\* The bound on reminders, those about to be inserted included.
Room == last + Cardinality({w \in Web : pc[w] = "insert"}) < MaxReminders

\* add_key_cert creates the reminder and schedules it, which cancels the first.
Init ==
    \E c \in Choices :
       /\ DueDate(c.reminder, c.expiry) > 1
       /\ expiry = c.expiry
       /\ reminders = [i \in 1..2 |->
              [setting |-> c.reminder, sent |-> Never, cancelled |-> i = 1]]
       /\ last = 2
       /\ now = 1
       /\ queue = [r \in 0..MaxRetries |-> 0]
       /\ checking = FALSE /\ taskLock = FALSE /\ mailLock = FALSE
       /\ pc = [p \in Processes |-> "idle"]
       /\ reminder = [p \in Processes |-> 0]
       /\ retries = [p \in Processes |-> 0]
       /\ mails = [i \in Ids |-> 0]
       /\ events = 0

TasksUnchanged == UNCHANGED <<pc, reminder, retries, taskLock, mailLock, mails, events>>
PageUnchanged == UNCHANGED <<now, queue, checking>> /\ TasksUnchanged

Tick ==
    /\ now < MaxDays
    /\ now' = now + 1
    /\ UNCHANGED <<expiry, reminders, last, queue, checking>> /\ TasksUnchanged

-----------------------------------------------------------------------------
(* The pages.                                                              *)

\* Rows of a sender or of the check cannot be changed.
MayChange == ~RowsLocked

\* handle_reminder_settings looks at the newest row, sent or not.  A date of the
\* form has no time zone and differs from every date that was stored.
SettingsChanged(s) ==
    \/ s.type = "date"
    \/ ~\E i \in DOMAIN reminders :
          IsNewest(i, DOMAIN reminders) /\ reminders[i].setting = s

\* edit_key_cert with reminders on.  Settings as before leave the rows alone;
\* others replace the newest row and cancel the rest.
EditReminder(e, s) ==
    /\ expiry # 0
    /\ DueDate(s, e) > now
    /\ s.type = "date" => s.value < e
    /\ expiry' = e
    /\ IF SettingsChanged(s)
       THEN /\ MayChange /\ Room
            /\ reminders' = Created(Kept(reminders,
                   {i \in DOMAIN reminders : ~IsNewest(i, DOMAIN reminders)}), s)
            /\ last' = last + 1
       ELSE UNCHANGED <<reminders, last>>
    /\ PageUnchanged

\* edit_key_cert with reminders off.
DisableReminder(e) ==
    /\ expiry # 0
    /\ MayChange
    /\ expiry' = e
    /\ reminders' = Kept(reminders, {})
    /\ UNCHANGED last /\ PageUnchanged

DeleteKeyCert ==
    /\ expiry # 0
    /\ MayChange
    /\ expiry' = 0
    /\ reminders' = Kept(reminders, {})
    /\ UNCHANGED last /\ PageUnchanged

CleanupOldReminders ==
    /\ \E i \in DOMAIN reminders :
          reminders[i].sent # Never /\ now - reminders[i].sent > KeepDays
    /\ reminders' = Kept(reminders, {i \in DOMAIN reminders :
          reminders[i].sent = Never \/ now - reminders[i].sent <= KeepDays})
    /\ UNCHANGED <<expiry, last>> /\ PageUnchanged

-----------------------------------------------------------------------------
(* check_reminders.                                                        *)

\* The rows are locked without waiting, and one message queued for each that
\* is due; a worker may take it before the transaction ends.
CheckReminders ==
    /\ Active # {} /\ ~RowsLocked
    /\ \A r \in DOMAIN queue : queue[r] < MaxQueued
    /\ checking' = TRUE
    /\ queue' = [queue EXCEPT ![0] = @ + Cardinality({i \in Active : Due(i)})]
    /\ UNCHANGED <<expiry, reminders, last, now>> /\ TasksUnchanged

EndCheck ==
    /\ checking
    /\ checking' = FALSE
    /\ UNCHANGED <<expiry, reminders, last, now, queue>> /\ TasksUnchanged

-----------------------------------------------------------------------------
(* send_reminder_email.                                                    *)

Goto(p, step) == pc' = [pc EXCEPT ![p] = step]

\* The queue `q` with n retries of a message that has been retried r times.
Retried(q, r, n) ==
    IF r < MaxRetries THEN [q EXCEPT ![r + 1] = @ + n] ELSE q

Taken(r) == [queue EXCEPT ![r] = @ - 1]

\* Variant: whoever holds the mail lock does not look whether rows are locked.
RowsAssumedFree == TRUE

\* The rows are locked when nobody else has locked one of them.
RowsFree == ~RowsLocked

\* Process p has taken the locks, and begins to mail the newest unsent row.
BeginSend(p, r) ==
    /\ ~mailLock /\ RowsFree
    /\ mailLock' = TRUE
    /\ \E i \in Active : IsNewest(i, Active) /\ reminder' = [reminder EXCEPT ![p] = i]
    /\ retries' = [retries EXCEPT ![p] = r]
    /\ Goto(p, "mail")

TaskStep == UNCHANGED <<expiry, last, now, checking>>

\* A Celery worker takes a message.  A message is dropped while another one is
\* worked on, and retried when a lock or a row is not free.  A retry comes a
\* minute later, to which also a check is limited.
StartSend(c, r) ==
    /\ pc[c] = "idle"
    /\ queue[r] > 0
    /\ r > 0 => ~checking
    /\ \/ /\ taskLock \/ (~mailLock /\ RowsFree /\ Active = {})
          /\ queue' = Taken(r)
          /\ UNCHANGED <<pc, reminder, retries, taskLock, mailLock>>
       \/ /\ ~taskLock /\ (mailLock \/ ~RowsFree)
          /\ queue' = Retried(Taken(r), r, 1)
          /\ UNCHANGED <<pc, reminder, retries, taskLock, mailLock>>
       \/ /\ ~taskLock /\ BeginSend(c, r)
          /\ taskLock' = TRUE
          /\ queue' = Taken(r)
    /\ UNCHANGED <<reminders, mails, events>> /\ TaskStep

\* send_reminder_now.  Without an unsent reminder it creates one: all rows are
\* cancelled, then a row is inserted.
StartSendNow(w) ==
    /\ pc[w] = "idle"
    /\ expiry # 0
    /\ IF Active # {} THEN Goto(w, "apply") /\ UNCHANGED reminders
       ELSE Room /\ Goto(w, "insert") /\ reminders' = Cancelled(reminders)
    /\ UNCHANGED <<queue, reminder, retries, taskLock, mailLock, mails, events>>
    /\ TaskStep

InsertReminder(w) ==
    /\ pc[w] = "insert"
    /\ IF expiry = 0 THEN Goto(w, "idle") /\ UNCHANGED <<reminders, last>>
       ELSE /\ last < MaxReminders
            /\ last' = last + 1
            /\ reminders' = [i \in DOMAIN reminders \cup {last + 1} |->
                   IF i = last + 1
                   THEN [setting |-> [type |-> "days", value |-> 0],
                         sent |-> Never, cancelled |-> FALSE]
                   ELSE reminders[i]]
            /\ Goto(w, "apply")
    /\ UNCHANGED <<expiry, now, queue, checking, reminder, retries,
                   taskLock, mailLock, mails, events>>

\* The task runs inside the page, without retries: a retry finds the task
\* lock of this process taken.
ApplySend(w) ==
    /\ pc[w] = "apply"
    /\ \/ BeginSend(w, MaxRetries)
       \/ /\ mailLock \/ ~RowsFree \/ Active = {}
          /\ Goto(w, "idle")
          /\ UNCHANGED <<reminder, retries, mailLock>>
    /\ UNCHANGED <<reminders, queue, taskLock, mails, events>> /\ TaskStep

\* The mail server has taken the mail.
SendMail(p) ==
    /\ pc[p] = "mail"
    /\ Goto(p, "commit")
    /\ mails' = [mails EXCEPT ![reminder[p]] = @ + 1]
    /\ UNCHANGED <<reminders, queue, reminder, retries, taskLock, mailLock, events>>
    /\ TaskStep

\* The transaction of p ends, and its locks are deleted whoever owns them.
Leave(p) ==
    /\ Goto(p, "idle")
    /\ reminder' = [reminder EXCEPT ![p] = 0]
    /\ retries' = [retries EXCEPT ![p] = 0]
ReleaseLocks(p) ==
    /\ mailLock' = FALSE
    /\ taskLock' = IF p \in Celery THEN FALSE ELSE taskLock

CommitSend(p) ==
    /\ pc[p] = "commit"
    /\ reminders' = [reminders EXCEPT ![reminder[p]].sent = now]
    /\ Leave(p) /\ ReleaseLocks(p)
    /\ UNCHANGED <<queue, mails, events>> /\ TaskStep

RolledBack(p) ==
    mails' = IF pc[p] = "commit" THEN [mails EXCEPT ![reminder[p]] = @ - 1] ELSE mails

\* An exception rolls back and retries.  The handler of a mail error queues a
\* retry, which the handler around it takes for one more error.
FailSend(p) ==
    /\ Sending(p)
    /\ events < MaxEvents
    /\ events' = events + 1
    /\ \E n \in IF pc[p] = "mail" THEN {1, 2} ELSE {1} :
          queue' = Retried(queue, retries[p], n)
    /\ RolledBack(p) /\ Leave(p) /\ ReleaseLocks(p)
    /\ UNCHANGED reminders /\ TaskStep

\* A killed process leaves its Redis locks; the database rolls back.
Kill(p) ==
    /\ pc[p] # "idle"
    /\ events < MaxEvents
    /\ events' = events + 1
    /\ RolledBack(p) /\ Leave(p)
    /\ UNCHANGED <<reminders, queue, taskLock, mailLock>> /\ TaskStep

\* Variant: the locks have no time limit.
NeverExpire == FALSE /\ UNCHANGED vars

LocksExpire(mail, task) ==
    /\ mail \/ task
    /\ mailLock' = (mailLock /\ ~mail)
    /\ taskLock' = (taskLock /\ ~task)
    /\ UNCHANGED <<reminders, queue, pc, reminder, retries, mails, events>> /\ TaskStep

\* Variant: the task lock is kept for a minute, too.
ExpireEarly == LocksExpire(mailLock, FALSE) \/ LocksExpire(FALSE, taskLock)

\* The mail lock is kept for a minute, which mailing may exceed; the task lock
\* for an hour, which a task cannot.
ExpireLocks ==
    \/ LocksExpire(mailLock, FALSE)
    \/ LocksExpire(FALSE, taskLock /\ \A c \in Celery : pc[c] = "idle")

-----------------------------------------------------------------------------
Work(p) ==
    \/ p \in Celery /\ \E r \in 0..MaxRetries : StartSend(p, r)
    \/ InsertReminder(p) \/ ApplySend(p)
    \/ SendMail(p) \/ CommitSend(p) \/ FailSend(p)

Check == CheckReminders \/ EndCheck

\* Nobody waits for anything.
Quiet ==
    /\ \A p \in Processes : pc[p] = "idle"
    /\ \A r \in DOMAIN queue : queue[r] = 0
    /\ ~checking

Next ==
    \/ Tick \/ Check \/ ExpireLocks
    \/ \E c \in Choices : EditReminder(c.expiry, c.reminder) \/ DisableReminder(c.expiry)
    \/ DeleteKeyCert \/ CleanupOldReminders
    \/ \E w \in Web : StartSendNow(w)
    \/ \E p \in Processes : Work(p) \/ Kill(p)
    \/ Quiet /\ UNCHANGED vars

Spec == Init /\ [][Next]_vars

\* Beat sends the check every half hour, Redis expires keys, and a process goes
\* on with what it has begun; a Celery worker takes what is queued.
FairSpec ==
    /\ Spec
    /\ WF_vars(Check) /\ WF_vars(ExpireLocks)
    /\ \A p \in Processes : WF_vars(Work(p))

-----------------------------------------------------------------------------
\* A reminder is mailed once, unless the transaction that mailed it is rolled
\* back, and is marked as sent only if it was mailed: whatever messages were
\* queued twice, locks expired, or deleted by a process that lost them.
MailedOnce ==
    \A i \in Ids :
        /\ mails[i] <= 1
        /\ i \in DOMAIN reminders /\ reminders[i].sent # Never => mails[i] = 1

\* Nothing is mailed for a reminder that has been cancelled, deleted or sent:
\* when edit_key_cert, delete_key_cert or another sender has returned, its
\* reminder is out of reach of every task under way.
OnlyActiveMailed ==
    [][\A i \in Ids : mails'[i] > mails[i] => i \in Active]_vars

\* A due reminder is mailed in the end, unless it is cancelled or put off, in
\* spite of failing mails, killed workers, dropped messages and used up retries.
DueIsMailed == \A i \in Ids : Due(i) ~> ~Due(i)
=============================================================================
