------------------------ MODULE KeyCertReminderLife ------------------------
(***************************************************************************)
(* KeyCertReminders implements ReminderLife: what becomes of a reminder is *)
(* read off its row and off the process that has it locked for mailing.    *)
(***************************************************************************)
EXTENDS KeyCertReminders

InTheMail(i) == \E p \in Processes : Sending(p) /\ reminder[p] = i

LifeOf(i) ==
    IF i \in Active THEN IF InTheMail(i) THEN "mailing" ELSE "waiting"
    ELSE IF i \in DOMAIN reminders /\ reminders[i].sent # Never THEN "sent"
    ELSE IF i > last THEN "none" ELSE "gone"

Life == INSTANCE ReminderLife WITH life <- [i \in Ids |-> LifeOf(i)]

\* Check, pages, Celery workers and page-run tasks together do to a reminder
\* what ReminderLife allows: mail one at a time and each once, and never
\* cancel, replace, delete or revive one that is being mailed or is done with,
\* however locks expire, messages double and processes die.
ImplementsLife == Life!Spec
=============================================================================
