----------------------- MODULE KeyCertReminders_proofs -----------------------
(***************************************************************************)
(* Proofs about KeyCertReminders, for every number of workers, of retries  *)
(* and of reminders, and for all settings.                                 *)
(***************************************************************************)
EXTENDS KeyCertReminderLife, FiniteSetTheorems, TLAPS

Steps == {"idle", "insert", "apply", "mail", "commit"}
Waiting == {"idle", "insert", "apply"}

\* One process mails at a time, none while the check has the rows, and the row
\* that it mails stays active.
Exclusive ==
    \A p \in Processes : Sending(p) =>
        /\ ~checking
        /\ reminder[p] \in Active
        /\ \A q \in Processes : Sending(q) => q = p

\* A reminder is mailed when it has been sent or is about to be committed, and
\* not before; reminders to come have not been mailed.
Counted ==
    \A i \in Ids :
        /\ mails[i] \in {0, 1}
        /\ i > last => mails[i] = 0
        /\ i \in DOMAIN reminders /\ reminders[i].sent # Never => mails[i] = 1
        /\ i \in Active /\ mails[i] = 1 =>
              \E p \in Processes : pc[p] = "commit" /\ reminder[p] = i
        /\ \A p \in Processes : pc[p] = "commit" /\ reminder[p] = i => mails[i] = 1

IInv == TypeOK /\ now >= 1 /\ Exclusive /\ Counted

-----------------------------------------------------------------------------
(* What a step does to the lives of the reminders.                         *)

Lived == [i \in Ids |-> LifeOf(i)]

\* A step keeps the invariant, and is one of ReminderLife or changes nothing there.
Keeps == IInv' /\ [Life!Next]_<<Lived, mails>>

\* Every reminder has a life, before and after any step.
LEMMA LivedIsFunction == Lived \in [Ids -> Life!Lives] /\ Lived' \in [Ids -> Life!Lives]
<1>1. Lived \in [Ids -> Life!Lives]
  BY DEF Lived, LifeOf, Life!Lives
<1>2. Lived' \in [Ids -> Life!Lives]
  BY DEF Lived, LifeOf, Life!Lives
<1>3. QED
  BY <1>1, <1>2

\* A step that moves lives as pages may.
LEMMA ArrangeStep ==
    ASSUME UNCHANGED mails,
           \A i \in Ids : Lived'[i] = Lived[i] \/ <<Lived[i], Lived'[i]>> \in Life!PageMoves
    PROVE  [Life!Next]_<<Lived, mails>>
BY LivedIsFunction DEF Life!Next, Life!Arrange, Lived

\* A step of a sender of reminder i.
LEMMA SenderStep ==
    ASSUME NEW i \in Ids, NEW new, mails \in [Ids -> Nat], mails' \in [Ids -> Nat],
           \A j \in Ids : Lived'[j] = IF j = i THEN new ELSE Lived[j],
           \A j \in Ids : j # i => mails'[j] = mails[j],
           \/ /\ Lived[i] = "waiting" /\ new = "mailing" /\ mails'[i] = mails[i]
              /\ \A j \in Ids : Lived[j] # "mailing"
           \/ /\ Lived[i] = "mailing" /\ new = "mailing"
              /\ mails[i] = 0 /\ mails'[i] = 1
           \/ /\ Lived[i] = "mailing" /\ new = "sent"
              /\ mails[i] = 1 /\ mails'[i] = 1
           \/ Lived[i] = "mailing" /\ new = "waiting" /\ mails'[i] = 0
    PROVE  [Life!Next]_<<Lived, mails>>
<1>1. Lived' = [Lived EXCEPT ![i] = new]
  BY LivedIsFunction
<1>2. mails' = [mails EXCEPT ![i] = mails'[i]]
  OBVIOUS
<1>3. CASE Life!Begin(i) \/ Life!Mail(i) \/ Life!Finish(i) \/ Life!GiveUp(i)
  BY <1>3 DEF Life!Next
<1>4. CASE /\ Lived[i] = "waiting" /\ new = "mailing" /\ mails'[i] = mails[i]
           /\ \A j \in Ids : Lived[j] # "mailing"
  <2>1. mails' = mails
    BY <1>4
  <2>2. Life!Begin(i)
    BY <1>1, <1>4, <2>1 DEF Life!Begin, Lived
  <2>3. QED
    BY <1>3, <2>2
<1>5. CASE /\ Lived[i] = "mailing" /\ new = "mailing"
           /\ mails[i] = 0 /\ mails'[i] = 1
  <2>1. Lived' = Lived
    BY <1>1, <1>5, LivedIsFunction
  <2>2. Life!Mail(i)
    BY <1>2, <1>5, <2>1 DEF Life!Mail, Lived
  <2>3. QED
    BY <1>3, <2>2
<1>6. CASE /\ Lived[i] = "mailing" /\ new = "sent"
           /\ mails[i] = 1 /\ mails'[i] = 1
  <2>1. mails' = mails
    BY <1>6
  <2>2. Life!Finish(i)
    BY <1>1, <1>6, <2>1 DEF Life!Finish, Lived
  <2>3. QED
    BY <1>3, <2>2
<1>7. CASE Lived[i] = "mailing" /\ new = "waiting" /\ mails'[i] = 0
  <2>1. Life!GiveUp(i)
    BY <1>1, <1>2, <1>7 DEF Life!GiveUp, Lived
  <2>2. QED
    BY <1>3, <2>1
<1>8. QED
  BY <1>4, <1>5, <1>6, <1>7

\* Nobody begins or ends mailing; rows in the mail are left alone, ids are not
\* used again, and rows are sent by senders only.
LEMMA Arranged ==
    ASSUME TypeOK, Exclusive, UNCHANGED <<reminder, mails>>,
           \A p \in Processes : Sending(p)' = Sending(p),
           last' \in Nat, last <= last',
           RowsLocked => Active \subseteq Active',
           \A i \in Active' : i \in Active \/ i > last,
           \A i \in Ids : i > last => i > last' \/ i \in Active',
           \A i \in DOMAIN reminders' : reminders'[i].sent # Never =>
               i \in DOMAIN reminders /\ reminders[i].sent # Never
    PROVE  [Life!Next]_<<Lived, mails>>
<1>1. ASSUME NEW i \in Ids
      PROVE  Lived'[i] = Lived[i] \/ <<Lived[i], Lived'[i]>> \in Life!PageMoves
  <2>1. InTheMail(i)' <=> InTheMail(i)
    BY DEF InTheMail
  <2>2. InTheMail(i) => i \in Active /\ i \in Active'
    BY DEF InTheMail, Exclusive, RowsLocked
  <2>3. i \in Int /\ last \in Int /\ (i \in DOMAIN reminders => i <= last)
    BY DEF Ids, TypeOK
  <2>4. i \in Active => i \in DOMAIN reminders /\ ~(reminders[i].sent # Never)
    BY DEF Active, Unsent
  <2>5. /\ Lived[i] = IF i \in Active THEN IF InTheMail(i) THEN "mailing" ELSE "waiting"
                      ELSE IF i \in DOMAIN reminders /\ reminders[i].sent # Never THEN "sent"
                      ELSE IF i > last THEN "none" ELSE "gone"
        /\ Lived'[i] = IF i \in Active' THEN IF InTheMail(i)' THEN "mailing" ELSE "waiting"
                       ELSE IF i \in DOMAIN reminders' /\ reminders'[i].sent # Never THEN "sent"
                       ELSE IF i > last' THEN "none" ELSE "gone"
    BY DEF Lived, LifeOf
  <2>6. CASE i \in Active
    <3>1. ~(i > last') /\ ~(i \in DOMAIN reminders' /\ reminders'[i].sent # Never)
      BY <2>3, <2>4, <2>6
    <3>2. QED
      BY <2>1, <2>2, <2>5, <2>6, <3>1 DEF Life!PageMoves
  <2>7. CASE i \notin Active /\ i > last
    <3>1. ~(i \in DOMAIN reminders' /\ reminders'[i].sent # Never) /\ ~InTheMail(i)'
      BY <2>1, <2>2, <2>3, <2>7
    <3>2. Lived[i] = "none"
      BY <2>3, <2>5, <2>7
    <3>3. Lived'[i] \in {"none", "waiting"}
      BY <2>5, <2>7, <3>1
    <3>4. QED
      BY <3>2, <3>3 DEF Life!PageMoves
  <2>8. CASE i \notin Active /\ ~(i > last)
    <3>1. i \notin Active' /\ ~(i > last')
      BY <2>3, <2>8
    <3>2. QED
      BY <2>5, <2>8, <3>1 DEF Life!PageMoves
  <2>9. QED
    BY <2>6, <2>7, <2>8
<1>2. QED
  BY <1>1, ArrangeStep

-----------------------------------------------------------------------------
(* Rows and queues.                                                        *)

\* A message put back is one of the queue.
LEMMA RetriedType ==
    ASSUME NEW q \in [0..MaxRetries -> Nat], NEW r \in 0..MaxRetries, NEW n \in Nat
    PROVE  Retried(q, r, n) \in [0..MaxRetries -> Nat]
BY RemindersAssumption DEF Retried

LEMMA MoreQueued ==
    ASSUME NEW q \in [0..MaxRetries -> Nat], NEW r \in 0..MaxRetries, NEW n \in Nat
    PROVE  [q EXCEPT ![r] = @ + n] \in [0..MaxRetries -> Nat]
OBVIOUS

LEMMA TakenType ==
    ASSUME TypeOK, NEW r \in 0..MaxRetries, queue[r] > 0
    PROVE  Taken(r) \in [0..MaxRetries -> Nat]
BY DEF Taken, TypeOK

\* There is room for a reminder only below the bound.
LEMMA RoomType == ASSUME TypeOK, Room PROVE last < MaxReminders
<1>1. Cardinality({w \in Web : pc[w] = "insert"}) \in Nat
  <2>1. IsFiniteSet({w \in Web : pc[w] = "insert"})
    BY FS_Subset, RemindersAssumption
  <2>2. QED
    BY <2>1, FS_CardinalityType
<1>2. QED
  BY <1>1, RemindersAssumption DEF Room, TypeOK

\* Rows that are cancelled stay rows, are not active and were not sent now.
LEMMA CancelledRows ==
    ASSUME TypeOK
    PROVE  /\ Cancelled(reminders) \in [DOMAIN reminders -> Row]
           /\ \A i \in DOMAIN reminders :
                 /\ ~Unsent(Cancelled(reminders)[i])
                 /\ Cancelled(reminders)[i].sent = reminders[i].sent
BY DEF Cancelled, TypeOK, Row, Unsent

-----------------------------------------------------------------------------
(* Steps in which nobody begins or ends mailing.                           *)

LEMMA OthersKeep ==
    ASSUME IInv,
           expiry' \in Nat, now' \in Nat, now' >= 1, events' \in Nat,
           queue' \in [0..MaxRetries -> Nat],
           checking' \in BOOLEAN, taskLock' \in BOOLEAN, mailLock' \in BOOLEAN,
           UNCHANGED <<reminder, retries, mails>>,
           checking' => checking \/ ~RowsLocked,
           \A c \in Celery : pc[c] # "idle" => taskLock',
           pc' \in [Processes -> Steps],
           \A c \in Celery : pc'[c] = pc[c],
           \A p \in Processes : pc'[p] = pc[p] \/ (pc[p] \in Waiting /\ pc'[p] \in Waiting),
           last' \in 0..MaxReminders, last <= last',
           \A i \in Ids : i > last => i > last' \/ i \in Active',
           DOMAIN reminders' \subseteq 1..last', reminders' \in [DOMAIN reminders' -> Row],
           RowsLocked => Active \subseteq Active',
           \A i \in Active' : i \in Active \/ i > last,
           \A i \in DOMAIN reminders' : reminders'[i].sent # Never =>
               i \in DOMAIN reminders /\ reminders[i].sent # Never
    PROVE  Keeps
<1> USE DEF IInv
<1>1. \A p \in Processes : pc'[p] \in {"mail", "commit"} => pc'[p] = pc[p]
  BY DEF Waiting
<1>2. \A p \in Processes : Sending(p)' = Sending(p)
  BY DEF Sending, Waiting
<1>3. TypeOK'
  BY DEF TypeOK, Steps
<1>4. Exclusive'
  <2> SUFFICES ASSUME NEW p \in Processes, Sending(p)'
               PROVE  /\ ~checking' /\ reminder'[p] \in Active'
                      /\ \A q \in Processes : Sending(q)' => q = p
    BY DEF Exclusive
  <2>1. Sending(p) /\ RowsLocked
    BY <1>2 DEF RowsLocked
  <2>2. ~checking /\ reminder[p] \in Active /\ \A q \in Processes : Sending(q) => q = p
    BY <2>1 DEF Exclusive
  <2>3. QED
    BY <1>2, <2>1, <2>2
<1>5. Counted'
  <2> SUFFICES ASSUME NEW i \in Ids
               PROVE  /\ mails'[i] \in {0, 1}
                      /\ i > last' => mails'[i] = 0
                      /\ i \in DOMAIN reminders' /\ reminders'[i].sent # Never => mails'[i] = 1
                      /\ i \in Active' /\ mails'[i] = 1 =>
                            \E p \in Processes : pc'[p] = "commit" /\ reminder'[p] = i
                      /\ \A p \in Processes : pc'[p] = "commit" /\ reminder'[p] = i
                            => mails'[i] = 1
    BY DEF Counted
  <2>1. /\ mails[i] \in {0, 1}
        /\ i > last => mails[i] = 0
        /\ i \in DOMAIN reminders /\ reminders[i].sent # Never => mails[i] = 1
        /\ i \in Active /\ mails[i] = 1 =>
              \E p \in Processes : pc[p] = "commit" /\ reminder[p] = i
        /\ \A p \in Processes : pc[p] = "commit" /\ reminder[p] = i => mails[i] = 1
    BY DEF Counted
  <2>2. i \in Int /\ last \in Int /\ last' \in Int
    BY DEF Ids, TypeOK
  <2>3. \A p \in Processes : pc'[p] = "commit" <=> pc[p] = "commit"
    BY DEF Waiting
  <2>4. i > last' => mails'[i] = 0
    BY <2>1, <2>2
  <2>5. i \in Active' /\ mails'[i] = 1 => i \in Active
    BY <2>1
  <2>6. QED
    BY <2>1, <2>3, <2>4, <2>5
<1>6. [Life!Next]_<<Lived, mails>>
  BY <1>2, Arranged DEF TypeOK
<1>7. QED
  BY <1>3, <1>4, <1>5, <1>6 DEF Keeps

\* The same for a step that changes nothing about the processes.
LEMMA PagesKeep ==
    ASSUME IInv, expiry' \in Nat, now' \in Nat, now' >= 1, TasksUnchanged, UNCHANGED checking,
           queue' \in [0..MaxRetries -> Nat],
           last' \in 0..MaxReminders, last <= last',
           \A i \in Ids : i > last => i > last' \/ i \in Active',
           DOMAIN reminders' \subseteq 1..last', reminders' \in [DOMAIN reminders' -> Row],
           RowsLocked => Active \subseteq Active',
           \A i \in Active' : i \in Active \/ i > last,
           \A i \in DOMAIN reminders' : reminders'[i].sent # Never =>
               i \in DOMAIN reminders /\ reminders[i].sent # Never
    PROVE  Keeps
<1>1. UNCHANGED <<pc, reminder, retries, taskLock, mailLock, mails, events>>
  BY DEF TasksUnchanged
<1>2. TypeOK
  BY DEF IInv
<1>3. /\ events' \in Nat /\ checking' \in BOOLEAN /\ taskLock' \in BOOLEAN /\ mailLock' \in BOOLEAN
      /\ pc' \in [Processes -> Steps]
      /\ \A c \in Celery : pc[c] # "idle" => taskLock'
  BY <1>1, <1>2 DEF TypeOK, Steps
<1>4. QED
  BY <1>1, <1>3, OthersKeep

\* Rows that are kept, whether all or some of them.
LEMMA KeptRows ==
    ASSUME TypeOK, NEW ids \in SUBSET DOMAIN reminders, reminders' = Kept(reminders, ids)
    PROVE  /\ DOMAIN reminders' = ids /\ reminders' \in [ids -> Row]
           /\ \A i \in ids : reminders'[i] = reminders[i]
           /\ Active' = Active \cap ids
<1>1. /\ DOMAIN reminders' = ids /\ \A i \in ids : reminders'[i] = reminders[i]
      /\ reminders' = [i \in ids |-> reminders[i]]
  BY DEF Kept
<1>2. Active' = Active \cap ids
  BY <1>1 DEF Active, Unsent
<1>3. QED
  BY <1>1, <1>2 DEF TypeOK

LEMMA TickKeeps == IInv /\ Tick => Keeps
<1> SUFFICES ASSUME IInv, Tick PROVE Keeps
  OBVIOUS
<1>1. UNCHANGED <<expiry, reminders, last, queue, checking>> /\ TasksUnchanged /\ now' = now + 1
  BY DEF Tick
<1>2. TypeOK /\ now >= 1
  BY DEF IInv
<1>3. Active' = Active
  BY <1>1 DEF Active
<1>4. now' \in Nat /\ now' >= 1
  BY <1>1, <1>2 DEF TypeOK
<1>5. QED
  BY <1>1, <1>2, <1>3, <1>4, PagesKeep DEF TypeOK

LEMMA EditKeeps ==
    ASSUME IInv, NEW c \in Choices, EditReminder(c.expiry, c.reminder) PROVE Keeps
<1>1. TypeOK /\ now >= 1
  BY DEF IInv
<1>2. c.expiry \in Nat /\ c.reminder \in Setting
  BY RemindersAssumption
<1>3. expiry' = c.expiry /\ UNCHANGED <<now, queue, checking>> /\ TasksUnchanged
  BY DEF EditReminder, PageUnchanged
<1>4. CASE SettingsChanged(c.reminder)
  <2> DEFINE ids == {i \in DOMAIN reminders : ~IsNewest(i, DOMAIN reminders)}
             old == Kept(reminders, ids)
  <2>1. ~RowsLocked /\ last < MaxReminders /\ last' = last + 1
        /\ reminders' = Created(old, c.reminder)
    BY <1>1, <1>4, RoomType DEF EditReminder, MayChange
  <2>2. DOMAIN old = ids /\ \A i \in ids : old[i] = reminders[i]
    BY DEF Kept
  <2>3. reminders' = [i \in ids \cup {last + 1} |->
           IF i = last + 1 THEN [setting |-> c.reminder, sent |-> Never, cancelled |-> FALSE]
           ELSE [reminders[i] EXCEPT !.cancelled = TRUE]]
    BY <2>1, <2>2 DEF Created, Cancelled
  <2>4. last \in Nat /\ DOMAIN reminders \subseteq 1..last
    BY <1>1 DEF TypeOK
  <2>5. ids \subseteq 1..last
    BY <2>4
  <2>6. \A i \in ids : reminders[i] \in Row
    BY <1>1 DEF TypeOK
  <2> HIDE DEF ids
  <2>7. DOMAIN reminders' = ids \cup {last + 1} /\ last + 1 \notin ids
    BY <2>3, <2>4, <2>5
  <2>8. \A i \in ids : /\ reminders'[i] \in Row /\ reminders'[i].cancelled
                       /\ reminders'[i].sent = reminders[i].sent
    BY <2>3, <2>6, <2>7 DEF Row
  <2>9. /\ reminders'[last + 1] \in Row /\ reminders'[last + 1].sent = Never
    BY <1>2, <2>3, <2>7 DEF Row, Never
  <2>10. reminders' \in [DOMAIN reminders' -> Row]
    BY <2>3, <2>7, <2>8, <2>9
  <2>11. \A i \in Active' : i = last + 1
    BY <2>7, <2>8 DEF Active, Unsent
  <2>12. \A i \in DOMAIN reminders' : reminders'[i].sent # Never =>
            i \in DOMAIN reminders /\ reminders[i].sent # Never
    BY <2>7, <2>8, <2>9 DEF ids
  <2>13. last' \in 0..MaxReminders /\ last <= last' /\ DOMAIN reminders' \subseteq 1..last'
    BY <2>1, <2>4, <2>5, <2>7, RemindersAssumption
  <2>14. \A i \in Active' : i \in Active \/ i > last
    BY <2>4, <2>11
  <2>15. \A i \in Ids : i > last => i > last' \/ i \in Active'
    <3>1. last + 1 \in Active'
      BY <2>3, <2>7 DEF Active, Unsent
    <3>2. \A i \in Ids : i > last => i > last' \/ i = last + 1
      BY <2>1, <2>4 DEF Ids
    <3>3. QED
      BY <3>1, <3>2
  <2>16. QED
    BY <1>1, <1>2, <1>3, <2>1, <2>10, <2>12, <2>13, <2>14, <2>15, PagesKeep DEF TypeOK
<1>5. CASE ~SettingsChanged(c.reminder)
  <2>1. UNCHANGED <<reminders, last>>
    BY <1>5 DEF EditReminder
  <2>2. Active' = Active
    BY <2>1 DEF Active
  <2>3. QED
    BY <1>1, <1>2, <1>3, <2>1, <2>2, PagesKeep DEF TypeOK
<1>6. QED
  BY <1>4, <1>5

LEMMA DeletionsKeep ==
    ASSUME IInv,
           (\E c \in Choices : DisableReminder(c.expiry)) \/ DeleteKeyCert \/ CleanupOldReminders
    PROVE  Keeps
<1>1. TypeOK /\ now >= 1
  BY DEF IInv
<1>2. UNCHANGED <<now, last, queue, checking>> /\ TasksUnchanged
  BY DEF DisableReminder, DeleteKeyCert, CleanupOldReminders, PageUnchanged
<1>3. expiry' \in Nat
  BY <1>1, RemindersAssumption DEF DisableReminder, DeleteKeyCert, CleanupOldReminders, TypeOK
<1>4. PICK ids \in SUBSET DOMAIN reminders :
         reminders' = Kept(reminders, ids) /\ (RowsLocked => Active \subseteq ids)
  <2>1. CASE reminders' = Kept(reminders, {}) /\ ~RowsLocked
    BY <2>1
  <2>2. CASE CleanupOldReminders
    BY <2>2 DEF CleanupOldReminders, Active, Unsent
  <2>3. QED
    BY <2>1, <2>2 DEF DisableReminder, DeleteKeyCert, MayChange
<1>5. /\ DOMAIN reminders' = ids /\ reminders' \in [ids -> Row]
      /\ \A i \in ids : reminders'[i] = reminders[i]
      /\ Active' = Active \cap ids
  BY <1>1, <1>4, KeptRows
<1>6. /\ last' \in 0..MaxReminders /\ last <= last' /\ DOMAIN reminders' \subseteq 1..last'
      /\ queue' \in [0..MaxRetries -> Nat] /\ now' \in Nat
  BY <1>1, <1>2, <1>5 DEF TypeOK
<1>7. QED
  BY <1>1, <1>2, <1>3, <1>4, <1>5, <1>6, PagesKeep

LEMMA CheckKeeps == IInv /\ Check => Keeps
<1> SUFFICES ASSUME IInv, Check PROVE Keeps
  OBVIOUS
<1>1. TypeOK /\ now >= 1
  BY DEF IInv
<1>2. UNCHANGED <<expiry, reminders, last, now, pc, reminder, retries, taskLock, mailLock,
                  mails, events>>
  BY DEF Check, CheckReminders, EndCheck, TasksUnchanged
<1>3. Active' = Active
  BY <1>2 DEF Active
<1>4. queue' \in [0..MaxRetries -> Nat]
  <2>1. CASE CheckReminders
    <3>1. IsFiniteSet({i \in Active : Due(i)})
      <4>1. 1 \in Int /\ last \in Int
        BY <1>1 DEF TypeOK
      <4>2. IsFiniteSet(1..last)
        BY <4>1, FS_Interval
      <4>3. {i \in Active : Due(i)} \subseteq 1..last
        BY <1>1 DEF TypeOK, Active
      <4>4. QED
        BY <4>2, <4>3, FS_Subset
    <3>2. Cardinality({i \in Active : Due(i)}) \in Nat
      BY <3>1, FS_CardinalityType
    <3> DEFINE n == Cardinality({i \in Active : Due(i)})
    <3>3. queue' = [queue EXCEPT ![0] = @ + n]
      BY <2>1 DEF CheckReminders
    <3> HIDE DEF n
    <3>4. n \in Nat
      BY <3>2 DEF n
    <3>5. queue \in [0..MaxRetries -> Nat] /\ 0 \in 0..MaxRetries
      BY <1>1, RemindersAssumption DEF TypeOK
    <3>6. QED
      BY <3>3, <3>4, <3>5, MoreQueued
  <2>2. CASE EndCheck
    BY <1>1, <2>2 DEF EndCheck, TypeOK
  <2>3. QED
    BY <2>1, <2>2 DEF Check
<1>5. checking' \in BOOLEAN /\ (checking' => checking \/ ~RowsLocked)
  BY DEF Check, CheckReminders, EndCheck
<1>6. /\ pc' \in [Processes -> Steps]
      /\ \A c \in Celery : pc[c] # "idle" => taskLock'
  BY <1>1, <1>2 DEF TypeOK, Steps
<1>7. QED
  BY <1>1, <1>2, <1>3, <1>4, <1>5, <1>6, OthersKeep DEF TypeOK

LEMMA ExpireKeeps == IInv /\ ExpireLocks => Keeps
<1> SUFFICES ASSUME IInv, ExpireLocks PROVE Keeps
  OBVIOUS
<1>1. TypeOK /\ now >= 1
  BY DEF IInv
<1>2. UNCHANGED <<expiry, reminders, last, now, queue, checking, pc, reminder, retries, mails, events>>
  BY DEF ExpireLocks, LocksExpire, TaskStep
<1>3. Active' = Active
  BY <1>2 DEF Active
<1>4. /\ taskLock' \in BOOLEAN /\ mailLock' \in BOOLEAN
      /\ \A c \in Celery : pc[c] # "idle" => taskLock'
  BY <1>1 DEF ExpireLocks, LocksExpire, TypeOK
<1>5. pc' \in [Processes -> Steps]
  BY <1>1, <1>2 DEF TypeOK, Steps
<1>6. QED
  BY <1>1, <1>2, <1>3, <1>4, <1>5, OthersKeep DEF TypeOK

\* A page that has no unsent reminder prepares a new one.
LEMMA StartSendNowKeeps == ASSUME IInv, NEW w \in Web, StartSendNow(w) PROVE Keeps
<1>1. TypeOK /\ now >= 1 /\ w \in Processes /\ w \notin Celery
  BY RemindersAssumption DEF IInv, Processes
<1>2. /\ UNCHANGED <<queue, reminder, retries, taskLock, mailLock, mails, events>>
      /\ UNCHANGED <<expiry, last, now, checking>>
      /\ pc[w] = "idle"
  BY DEF StartSendNow, TaskStep
<1>3. PICK step \in {"apply", "insert"} : pc' = [pc EXCEPT ![w] = step]
  BY DEF StartSendNow, Goto
<1>4. /\ pc' \in [Processes -> Steps]
      /\ \A c \in Celery : pc'[c] = pc[c]
      /\ \A p \in Processes : pc'[p] = pc[p] \/ (pc[p] \in Waiting /\ pc'[p] \in Waiting)
      /\ \A c \in Celery : pc[c] # "idle" => taskLock'
  BY <1>1, <1>2, <1>3 DEF TypeOK, Steps, Waiting, Processes
<1>5. CASE Active # {}
  <2>1. UNCHANGED reminders
    BY <1>5 DEF StartSendNow
  <2>2. Active' = Active
    BY <2>1 DEF Active
  <2>3. QED
    BY <1>1, <1>2, <1>4, <2>1, <2>2, OthersKeep DEF TypeOK
<1>6. CASE Active = {}
  <2>1. reminders' = Cancelled(reminders)
    BY <1>6 DEF StartSendNow
  <2>2. /\ reminders' \in [DOMAIN reminders -> Row] /\ DOMAIN reminders' = DOMAIN reminders
        /\ \A i \in DOMAIN reminders : /\ ~Unsent(reminders'[i])
                                       /\ reminders'[i].sent = reminders[i].sent
    BY <1>1, <2>1, CancelledRows
  <2>3. Active' = {}
    BY <2>2 DEF Active, Unsent
  <2>4. /\ DOMAIN reminders' \subseteq 1..last' /\ last' \in 0..MaxReminders /\ last <= last'
        /\ expiry' \in Nat /\ now' \in Nat /\ now' >= 1 /\ events' \in Nat
        /\ queue' \in [0..MaxRetries -> Nat] /\ checking' \in BOOLEAN
        /\ taskLock' \in BOOLEAN /\ mailLock' \in BOOLEAN
    BY <1>1, <1>2, <2>2 DEF TypeOK
  <2>5. QED
    BY <1>2, <1>4, <1>6, <2>2, <2>3, <2>4, OthersKeep
<1>7. QED
  BY <1>5, <1>6

LEMMA InsertKeeps == ASSUME IInv, NEW w \in Processes, InsertReminder(w) PROVE Keeps
<1>1. TypeOK /\ now >= 1 /\ w \notin Celery /\ pc[w] = "insert"
  BY RemindersAssumption DEF IInv, TypeOK, InsertReminder
<1>2. UNCHANGED <<expiry, now, queue, checking, reminder, retries, taskLock, mailLock, mails, events>>
  BY DEF InsertReminder
<1>3. PICK step \in {"idle", "apply"} : pc' = [pc EXCEPT ![w] = step]
  BY DEF InsertReminder, Goto
<1>4. /\ pc' \in [Processes -> Steps]
      /\ \A c \in Celery : pc'[c] = pc[c]
      /\ \A p \in Processes : pc'[p] = pc[p] \/ (pc[p] \in Waiting /\ pc'[p] \in Waiting)
      /\ \A c \in Celery : pc[c] # "idle" => taskLock'
  BY <1>1, <1>2, <1>3 DEF TypeOK, Steps, Waiting, Processes
<1>5. CASE UNCHANGED <<reminders, last>>
  <2>1. Active' = Active
    BY <1>5 DEF Active
  <2>2. QED
    BY <1>1, <1>2, <1>4, <1>5, <2>1, OthersKeep DEF TypeOK
<1>6. CASE ~UNCHANGED <<reminders, last>>
  <2> DEFINE row == [setting |-> [type |-> "days", value |-> 0],
                     sent |-> Never, cancelled |-> FALSE]
  <2>1. /\ last < MaxReminders /\ last' = last + 1
        /\ reminders' = [i \in DOMAIN reminders \cup {last + 1} |->
               IF i = last + 1 THEN row ELSE reminders[i]]
    BY <1>6 DEF InsertReminder
  <2>2. row \in Row /\ row.sent = Never
    BY DEF Row, Setting, Never
  <2> HIDE DEF row
  <2>3. last \in Nat /\ DOMAIN reminders \subseteq 1..last
        /\ \A i \in DOMAIN reminders : reminders[i] \in Row
    BY <1>1 DEF TypeOK
  <2>4. last + 1 \notin DOMAIN reminders
    BY <2>3
  <2>5. /\ DOMAIN reminders' = DOMAIN reminders \cup {last + 1}
        /\ reminders'[last + 1] = row
        /\ \A i \in DOMAIN reminders : reminders'[i] = reminders[i]
    BY <2>1, <2>4
  <2>6. reminders' \in [DOMAIN reminders' -> Row]
    BY <2>1, <2>2, <2>3, <2>5
  <2>7. Active \subseteq Active'
    BY <2>5 DEF Active
  <2>8. \A i \in Active' : i \in Active \/ i > last
    BY <2>3, <2>5 DEF Active
  <2>9. \A i \in DOMAIN reminders' : reminders'[i].sent # Never =>
           i \in DOMAIN reminders /\ reminders[i].sent # Never
    BY <2>2, <2>5
  <2>10. last' \in 0..MaxReminders /\ last <= last' /\ DOMAIN reminders' \subseteq 1..last'
    BY <2>1, <2>3, <2>5, RemindersAssumption
  <2>11. \A i \in Ids : i > last => i > last' \/ i \in Active'
    <3>1. last + 1 \in Active'
      BY <2>1, <2>5 DEF Active, Unsent, row
    <3>2. \A i \in Ids : i > last => i > last' \/ i = last + 1
      BY <2>1, <2>3 DEF Ids
    <3>3. QED
      BY <3>1, <3>2
  <2>12. QED
    BY <1>1, <1>2, <1>4, <2>6, <2>7, <2>8, <2>9, <2>10, <2>11, OthersKeep DEF TypeOK
<1>7. QED
  BY <1>5, <1>6

\* A process that begins to mail is the only one.
LEMMA BeginKeeps ==
    ASSUME IInv, NEW p \in Processes, pc[p] \in Waiting, NEW r \in 0..MaxRetries,
           BeginSend(p, r), TaskStep, UNCHANGED <<reminders, mails, events>>,
           queue' \in [0..MaxRetries -> Nat], taskLock' \in BOOLEAN,
           \A c \in Celery : pc[c] # "idle" => taskLock',
           p \in Celery => taskLock'
    PROVE  Keeps
<1>1. TypeOK /\ now >= 1 /\ Exclusive /\ Counted
  BY DEF IInv
<1>2. /\ UNCHANGED <<expiry, last, now, checking, reminders, mails, events>>
      /\ mailLock' = TRUE /\ pc' = [pc EXCEPT ![p] = "mail"]
      /\ retries' = [retries EXCEPT ![p] = r] /\ ~RowsLocked
  BY DEF BeginSend, TaskStep, Goto, RowsFree
<1>3. PICK i \in Active : reminder' = [reminder EXCEPT ![p] = i]
  BY DEF BeginSend
<1>4. i \in Ids /\ i \in 0..MaxReminders
  <2>1. i \in 1..last /\ last \in 0..MaxReminders
    BY <1>1 DEF Active, TypeOK
  <2>2. QED
    BY <2>1, RemindersAssumption DEF Ids
<1>5. Active' = Active
  BY <1>2 DEF Active
<1>6. ~checking /\ \A q \in Processes : ~Sending(q)
  BY <1>2 DEF RowsLocked
<1>7. \A q \in Processes : pc'[q] = IF q = p THEN "mail" ELSE pc[q]
  BY <1>1, <1>2 DEF TypeOK
<1>8. TypeOK'
  <2>1. pc' \in [Processes -> Steps] /\ reminder' \in [Processes -> 0..MaxReminders]
        /\ retries' \in [Processes -> 0..MaxRetries]
    BY <1>1, <1>2, <1>3, <1>4 DEF TypeOK, Steps
  <2>2. /\ \A c \in Celery : pc'[c] \in {"idle", "mail", "commit"}
        /\ \A c \in Celery : pc'[c] # "idle" => taskLock'
    BY <1>1, <1>7 DEF TypeOK, Processes
  <2>3. QED
    BY <1>1, <1>2, <2>1, <2>2 DEF TypeOK, Steps
<1>9. Exclusive'
  <2>1. \A q \in Processes : Sending(q)' => q = p
    BY <1>6, <1>7 DEF Sending
  <2>2. reminder'[p] \in Active' /\ ~checking'
    BY <1>1, <1>2, <1>3, <1>5, <1>6 DEF TypeOK
  <2>3. QED
    BY <2>1, <2>2 DEF Exclusive
<1>10. Counted'
  <2>1. \A q \in Processes : pc[q] # "commit" /\ pc'[q] # "commit"
    BY <1>6, <1>7 DEF Sending
  <2>2. QED
    BY <1>1, <1>2, <1>5, <2>1 DEF Counted
<1>11. [Life!Next]_<<Lived, mails>>
  <2>1. \A j \in Ids : ~InTheMail(j)
    BY <1>6 DEF InTheMail
  <2>2. \A j \in Ids : InTheMail(j)' <=> j = i
    BY <1>1, <1>3, <1>6, <1>7 DEF InTheMail, Sending, TypeOK
  <2>3. \A j \in Ids : Lived'[j] = IF j = i THEN "mailing" ELSE Lived[j]
    BY <1>2, <1>5, <2>1, <2>2 DEF Lived, LifeOf
  <2>4. Lived[i] = "waiting" /\ \A j \in Ids : Lived[j] # "mailing"
    BY <1>4, <2>1 DEF Lived, LifeOf
  <2>5. mails \in [Ids -> Nat] /\ mails' = mails
    BY <1>1, <1>2 DEF TypeOK
  <2>6. QED
    BY <1>4, <2>3, <2>4, <2>5, SenderStep
<1>12. QED
  BY <1>1, <1>2, <1>8, <1>9, <1>10, <1>11 DEF IInv, Keeps

LEMMA StartSendKeeps ==
    ASSUME IInv, NEW c \in Celery, NEW r \in 0..MaxRetries, StartSend(c, r) PROVE Keeps
<1>1. TypeOK /\ now >= 1 /\ c \in Processes /\ Exclusive
  BY DEF IInv, Processes
<1>2. Taken(r) \in [0..MaxRetries -> Nat]
  BY <1>1, TakenType DEF StartSend
<1>3. Retried(Taken(r), r, 1) \in [0..MaxRetries -> Nat]
  BY <1>2, RetriedType
<1>4. TaskStep /\ UNCHANGED <<reminders, mails, events>>
  BY DEF StartSend
<1>5. UNCHANGED <<expiry, last, now, checking>> /\ Active' = Active
  BY <1>4 DEF TaskStep, Active
<1>6. CASE /\ queue' \in {Taken(r), Retried(Taken(r), r, 1)}
           /\ UNCHANGED <<pc, reminder, retries, taskLock, mailLock>>
  <2>1. queue' \in [0..MaxRetries -> Nat]
    BY <1>2, <1>3, <1>6
  <2>2. pc' \in [Processes -> Steps] /\ \A k \in Celery : pc[k] # "idle" => taskLock'
    BY <1>1, <1>6 DEF TypeOK, Steps
  <2>3. QED
    BY <1>1, <1>4, <1>5, <1>6, <2>1, <2>2, OthersKeep DEF TypeOK
<1>7. CASE ~taskLock /\ BeginSend(c, r) /\ taskLock' = TRUE /\ queue' = Taken(r)
  <2>1. pc[c] \in Waiting
    BY DEF StartSend, Waiting
  <2>2. QED
    BY <1>1, <1>2, <1>4, <1>7, <2>1, BeginKeeps
<1>8. QED
  BY <1>6, <1>7 DEF StartSend

LEMMA ApplySendKeeps == ASSUME IInv, NEW w \in Processes, ApplySend(w) PROVE Keeps
<1>1. TypeOK /\ now >= 1 /\ w \notin Celery
  BY DEF IInv, TypeOK, ApplySend
<1>2. /\ TaskStep /\ UNCHANGED <<reminders, queue, taskLock, mails, events>>
      /\ pc[w] \in Waiting
  BY DEF ApplySend, Waiting
<1>3. UNCHANGED <<expiry, last, now, checking>> /\ Active' = Active
  BY <1>2 DEF TaskStep, Active
<1>4. CASE BeginSend(w, MaxRetries)
  <2>1. MaxRetries \in 0..MaxRetries
    BY RemindersAssumption
  <2>2. /\ queue' \in [0..MaxRetries -> Nat] /\ taskLock' \in BOOLEAN
        /\ \A c \in Celery : pc[c] # "idle" => taskLock'
    BY <1>1, <1>2 DEF TypeOK
  <2>3. QED
    BY <1>1, <1>2, <1>4, <2>1, <2>2, BeginKeeps
<1>5. CASE Goto(w, "idle") /\ UNCHANGED <<reminder, retries, mailLock>>
  <2>1. pc' = [pc EXCEPT ![w] = "idle"]
    BY <1>5 DEF Goto
  <2>2. /\ pc' \in [Processes -> Steps]
        /\ \A c \in Celery : pc'[c] = pc[c]
        /\ \A p \in Processes : pc'[p] = pc[p] \/ (pc[p] \in Waiting /\ pc'[p] \in Waiting)
        /\ \A c \in Celery : pc[c] # "idle" => taskLock'
    BY <1>1, <1>2, <2>1 DEF TypeOK, Steps, Waiting, Processes
  <2>3. QED
    BY <1>1, <1>2, <1>3, <1>5, <2>2, OthersKeep DEF TypeOK
<1>6. QED
  BY <1>4, <1>5 DEF ApplySend

-----------------------------------------------------------------------------
(* Mailing, and its end.                                                   *)

LEMMA SendMailKeeps == ASSUME IInv, NEW p \in Processes, SendMail(p) PROVE Keeps
<1>1. TypeOK /\ now >= 1 /\ Exclusive /\ Counted
  BY DEF IInv
<1>2. /\ UNCHANGED <<expiry, last, now, checking, reminders, queue, reminder, retries,
                     taskLock, mailLock, events>>
      /\ pc[p] = "mail" /\ pc' = [pc EXCEPT ![p] = "commit"]
      /\ mails' = [mails EXCEPT ![reminder[p]] = @ + 1]
  BY DEF SendMail, TaskStep, Goto
<1> DEFINE i == reminder[p]
<1>3. Sending(p) /\ i \in Active /\ \A q \in Processes : Sending(q) => q = p
  BY <1>1, <1>2 DEF Sending, Exclusive
<1>4. i \in Ids /\ i <= last
  <2>1. i \in 1..last /\ last \in 0..MaxReminders
    BY <1>1, <1>3 DEF Active, TypeOK
  <2>2. QED
    BY <2>1, RemindersAssumption DEF Ids
<1>5. Active' = Active
  BY <1>2 DEF Active
<1>6. \A q \in Processes : pc'[q] = IF q = p THEN "commit" ELSE pc[q]
  BY <1>1, <1>2 DEF TypeOK
<1>7. \A q \in Processes : pc[q] # "commit"
  BY <1>2, <1>3 DEF Sending
<1>8. mails[i] = 0
  BY <1>1, <1>3, <1>4, <1>7 DEF Counted
<1>9. /\ \A j \in Ids : mails'[j] = IF j = i THEN 1 ELSE mails[j]
      /\ mails' \in [Ids -> Nat]
  BY <1>1, <1>2, <1>4, <1>8 DEF TypeOK
<1>10. TypeOK'
  <2>1. /\ pc' \in [Processes -> Steps]
        /\ \A c \in Celery : pc'[c] \in {"idle", "mail", "commit"}
        /\ \A c \in Celery : pc'[c] # "idle" => taskLock'
    BY <1>1, <1>2, <1>6 DEF TypeOK, Steps, Processes
  <2>2. QED
    BY <1>1, <1>2, <1>9, <2>1 DEF TypeOK, Steps
<1>11. Exclusive'
  <2>1. \A q \in Processes : Sending(q)' = Sending(q)
    BY <1>2, <1>6 DEF Sending
  <2>2. QED
    BY <1>1, <1>2, <1>5, <2>1 DEF Exclusive
<1>12. Counted'
  <2> SUFFICES ASSUME NEW j \in Ids
               PROVE  /\ mails'[j] \in {0, 1}
                      /\ j > last' => mails'[j] = 0
                      /\ j \in DOMAIN reminders' /\ reminders'[j].sent # Never => mails'[j] = 1
                      /\ j \in Active' /\ mails'[j] = 1 =>
                            \E q \in Processes : pc'[q] = "commit" /\ reminder'[q] = j
                      /\ \A q \in Processes : pc'[q] = "commit" /\ reminder'[q] = j
                            => mails'[j] = 1
    BY DEF Counted
  <2>1. CASE j = i
    <3>1. mails'[j] = 1 /\ ~(j > last')
      BY <1>1, <1>2, <1>4, <1>9, <2>1 DEF TypeOK, Ids
    <3>2. pc'[p] = "commit" /\ reminder'[p] = j
      BY <1>2, <1>6, <2>1
    <3>3. QED
      BY <3>1, <3>2
  <2>2. CASE j # i
    <3>1. mails'[j] = mails[j]
      BY <1>9, <2>2
    <3>2. \A q \in Processes : ~(pc'[q] = "commit" /\ reminder'[q] = j)
      BY <1>2, <1>6, <1>7, <2>2
    <3>3. ~(j \in Active /\ mails[j] = 1)
      BY <1>1, <1>7 DEF Counted
    <3>4. QED
      BY <1>1, <1>2, <1>5, <3>1, <3>2, <3>3 DEF Counted
  <2>3. QED
    BY <2>1, <2>2
<1>13. [Life!Next]_<<Lived, mails>>
  <2>1. \A j \in Ids : InTheMail(j) <=> j = i
    BY <1>3 DEF InTheMail
  <2>2. \A j \in Ids : InTheMail(j)' <=> j = i
    BY <1>2, <1>3, <1>6 DEF InTheMail, Sending
  <2>3. \A j \in Ids : Lived'[j] = Lived[j]
    BY <1>2, <1>5, <2>1, <2>2 DEF Lived, LifeOf
  <2>4. Lived[i] = "mailing"
    BY <1>3, <1>4, <2>1 DEF Lived, LifeOf
  <2>5. mails \in [Ids -> Nat] /\ mails'[i] = 1
    BY <1>1, <1>4, <1>9 DEF TypeOK
  <2>6. QED
    BY <1>4, <1>8, <1>9, <2>3, <2>4, <2>5, SenderStep
<1>14. QED
  BY <1>1, <1>2, <1>10, <1>11, <1>12, <1>13 DEF IInv, Keeps

\* The processes when p leaves.
LEMMA LeftProcesses ==
    ASSUME TypeOK, Exclusive, NEW p \in Processes, Leave(p)
    PROVE  /\ pc' \in [Processes -> Steps] /\ pc'[p] = "idle"
           /\ reminder' \in [Processes -> 0..MaxReminders]
           /\ retries' \in [Processes -> 0..MaxRetries]
           /\ \A q \in Processes \ {p} : pc'[q] = pc[q] /\ reminder'[q] = reminder[q]
           /\ \A c \in Celery : pc'[c] \in {"idle", "mail", "commit"}
           /\ Sending(p) => \A q \in Processes : ~(Sending(q)')
<1>1. /\ pc' = [pc EXCEPT ![p] = "idle"] /\ reminder' = [reminder EXCEPT ![p] = 0]
      /\ retries' = [retries EXCEPT ![p] = 0]
  BY DEF Leave, Goto
<1>2. 0 \in 0..MaxReminders /\ 0 \in 0..MaxRetries
  BY RemindersAssumption
<1>3. /\ pc' \in [Processes -> Steps] /\ pc'[p] = "idle"
      /\ reminder' \in [Processes -> 0..MaxReminders]
      /\ retries' \in [Processes -> 0..MaxRetries]
      /\ \A q \in Processes \ {p} : pc'[q] = pc[q] /\ reminder'[q] = reminder[q]
  BY <1>1, <1>2 DEF TypeOK, Steps
<1>4. \A c \in Celery : pc'[c] \in {"idle", "mail", "commit"}
  BY <1>3 DEF TypeOK, Processes
<1>5. Sending(p) => \A q \in Processes : ~(Sending(q)')
  BY <1>3 DEF Sending, Exclusive
<1>6. QED
  BY <1>3, <1>4, <1>5

\* A transaction that is rolled back leaves everything as it was before.
LEMMA RollbackKeeps ==
    ASSUME IInv, NEW p \in Processes, Leave(p), RolledBack(p), UNCHANGED reminders, TaskStep,
           queue' \in [0..MaxRetries -> Nat], events' \in Nat,
           mailLock' \in BOOLEAN, taskLock' \in BOOLEAN,
           \A c \in Celery \ {p} : pc[c] # "idle" => taskLock'
    PROVE  Keeps
<1>1. TypeOK /\ now >= 1 /\ Exclusive /\ Counted
  BY DEF IInv
<1>2. UNCHANGED <<expiry, last, now, checking>> /\ Active' = Active
  BY DEF TaskStep, Active
<1>3. /\ pc' \in [Processes -> Steps] /\ pc'[p] = "idle"
      /\ reminder' \in [Processes -> 0..MaxReminders]
      /\ retries' \in [Processes -> 0..MaxRetries]
      /\ \A q \in Processes \ {p} : pc'[q] = pc[q] /\ reminder'[q] = reminder[q]
      /\ \A c \in Celery : pc'[c] \in {"idle", "mail", "commit"}
      /\ Sending(p) => \A q \in Processes : ~(Sending(q)')
  BY <1>1, LeftProcesses
<1>8. \A c \in Celery : pc'[c] # "idle" => taskLock'
  BY <1>3 DEF Processes
<1> DEFINE i == reminder[p]
\* A reminder that was in the mail waits again.
<1>9. ASSUME Sending(p), mails' \in [Ids -> Nat],
             \A j \in Ids : mails'[j] = IF j = i THEN 0 ELSE mails[j]
      PROVE  [Life!Next]_<<Lived, mails>>
  <2>1. i \in Active /\ \A q \in Processes : Sending(q) => q = p
    BY <1>1, <1>9 DEF Exclusive
  <2>2. i \in Ids
    <3>1. i \in 1..last /\ last \in 0..MaxReminders
      BY <1>1, <2>1 DEF Active, TypeOK
    <3>2. QED
      BY <3>1, RemindersAssumption DEF Ids
  <2>3. \A j \in Ids : InTheMail(j) <=> j = i
    BY <1>9, <2>1 DEF InTheMail
  <2>4. \A j \in Ids : ~(InTheMail(j)')
    BY <1>3, <1>9 DEF InTheMail
  <2>5. \A j \in Ids : Lived'[j] = IF j = i THEN "waiting" ELSE Lived[j]
    BY <1>2, <2>1, <2>3, <2>4 DEF Lived, LifeOf
  <2>6. Lived[i] = "mailing"
    BY <2>1, <2>2, <2>3 DEF Lived, LifeOf
  <2>7. mails \in [Ids -> Nat]
    BY <1>1 DEF TypeOK
  <2> HIDE DEF i
  <2>8. QED
    BY <1>9, <2>2, <2>5, <2>6, <2>7, SenderStep
<1>4. CASE pc[p] = "commit"
  <2>1. Sending(p) /\ i \in Active
    BY <1>1, <1>4 DEF Sending, Exclusive
  <2>2. i \in Ids /\ i <= last
    <3>1. i \in 1..last /\ last \in 0..MaxReminders
      BY <1>1, <2>1 DEF Active, TypeOK
    <3>2. QED
      BY <3>1, RemindersAssumption DEF Ids
  <2>3. mails[i] = 1 /\ mails' = [mails EXCEPT ![i] = @ - 1]
    BY <1>1, <1>4, <2>2 DEF Counted, RolledBack
  <2>4. mails' \in [Ids -> Nat] /\ \A j \in Ids : mails'[j] = IF j = i THEN 0 ELSE mails[j]
    BY <1>1, <2>2, <2>3 DEF TypeOK
  <2>5. \A q \in Processes : pc'[q] # "commit"
    BY <1>3, <2>1 DEF Sending
  <2>6. \A q \in Processes : pc[q] = "commit" => q = p
    BY <1>1, <2>1 DEF Exclusive, Sending
  <2>7. Counted'
    <3> SUFFICES ASSUME NEW j \in Ids
                 PROVE  /\ mails'[j] \in {0, 1}
                        /\ j > last => mails'[j] = 0
                        /\ j \in DOMAIN reminders /\ reminders[j].sent # Never => mails'[j] = 1
                        /\ ~(j \in Active /\ mails'[j] = 1)
      BY <1>2, <2>5 DEF Counted
    <3>1. CASE j = i
      BY <2>1, <2>4, <3>1 DEF Active, Unsent
    <3>2. CASE j # i
      BY <1>1, <2>4, <2>6, <3>2 DEF Counted
    <3>3. QED
      BY <3>1, <3>2
  <2>8. Exclusive'
    BY <1>3, <2>1 DEF Exclusive
  <2>9. TypeOK'
    BY <1>1, <1>2, <1>3, <1>8, <2>4 DEF TypeOK, Steps
  <2>10. IInv'
    BY <1>1, <1>2, <2>7, <2>8, <2>9 DEF IInv
  <2>11. [Life!Next]_<<Lived, mails>>
    BY <1>9, <2>1, <2>2, <2>4
  <2>12. QED
    BY <2>10, <2>11 DEF Keeps
<1>5. CASE pc[p] # "commit"
  <2>1. mails' = mails
    BY <1>5 DEF RolledBack
  <2>2. \A q \in Processes : pc'[q] = "commit" =>
           q # p /\ pc[q] = "commit" /\ reminder'[q] = reminder[q]
    BY <1>3
  <2>3. \A q \in Processes : pc[q] = "commit" =>
           pc'[q] = "commit" /\ reminder'[q] = reminder[q]
    BY <1>3, <1>5
  <2>4. Counted'
    BY <1>1, <1>2, <2>1, <2>2, <2>3 DEF Counted
  <2>5. \A q \in Processes : Sending(q)' => q # p /\ Sending(q) /\ reminder'[q] = reminder[q]
    BY <1>3 DEF Sending
  <2>6. Exclusive'
    BY <1>1, <1>2, <2>5 DEF Exclusive
  <2>7. TypeOK'
    BY <1>1, <1>2, <1>3, <1>8, <2>1 DEF TypeOK, Steps
  <2>8. IInv'
    BY <1>1, <1>2, <2>4, <2>6, <2>7 DEF IInv
  <2>9. CASE Sending(p)
    <3>1. i \in Active /\ ~\E q \in Processes : pc[q] = "commit"
      BY <1>1, <1>5, <2>9 DEF Exclusive, Sending
    <3>2. i \in Ids => mails[i] = 0
      BY <1>1, <3>1 DEF Counted
    <3>3. mails \in [Ids -> Nat]
      BY <1>1 DEF TypeOK
    <3>4. QED
      BY <1>9, <2>1, <2>8, <2>9, <3>2, <3>3 DEF Keeps
  <2>10. CASE ~Sending(p)
    <3>1. \A q \in Processes : Sending(q)' <=> Sending(q)
      BY <1>3, <2>10 DEF Sending
    <3>2. \A j \in Ids : InTheMail(j)' <=> InTheMail(j)
      BY <1>3, <2>10, <3>1 DEF InTheMail
    <3>3. Lived' = Lived
      BY <1>2, <3>2 DEF Lived, LifeOf
    <3>4. QED
      BY <2>1, <2>8, <3>3 DEF Keeps
  <2>11. QED
    BY <2>9, <2>10
<1>6. QED
  BY <1>4, <1>5

LEMMA FailSendKeeps == ASSUME IInv, NEW p \in Processes, FailSend(p) PROVE Keeps
<1>1. TypeOK /\ Exclusive
  BY DEF IInv
<1>2. PICK n \in {1, 2} : queue' = Retried(queue, retries[p], n)
  BY DEF FailSend
<1>3. queue' \in [0..MaxRetries -> Nat]
  <2>1. queue \in [0..MaxRetries -> Nat] /\ retries[p] \in 0..MaxRetries /\ n \in Nat
    BY <1>1 DEF TypeOK
  <2>2. QED
    BY <1>2, <2>1, RetriedType
<1>4. mailLock' \in BOOLEAN /\ taskLock' \in BOOLEAN /\ events' \in Nat
  <2>1. mailLock' = FALSE /\ taskLock' = IF p \in Celery THEN FALSE ELSE taskLock
    BY DEF FailSend, ReleaseLocks
  <2>2. events' = events + 1 /\ events \in Nat /\ taskLock \in BOOLEAN
    BY <1>1 DEF FailSend, TypeOK
  <2>3. taskLock' \in BOOLEAN
    <3>1. CASE p \in Celery
      BY <2>1, <3>1
    <3>2. CASE p \notin Celery
      BY <2>1, <2>2, <3>2
    <3>3. QED
      BY <3>1, <3>2
  <2>4. events' \in Nat
    BY <2>2
  <2>5. QED
    BY <2>1, <2>3, <2>4
<1>5. \A c \in Celery \ {p} : pc[c] # "idle" => taskLock'
  <2>1. \A c \in Celery \ {p} : pc[c] = "idle"
    BY <1>1 DEF FailSend, Exclusive, Sending, TypeOK, Processes
  <2>2. QED
    BY <2>1
<1>6. QED
  BY <1>3, <1>4, <1>5, RollbackKeeps DEF FailSend

LEMMA KillKeeps == ASSUME IInv, NEW p \in Processes, Kill(p) PROVE Keeps
<1>1. TypeOK
  BY DEF IInv
<1>2. /\ queue' \in [0..MaxRetries -> Nat] /\ mailLock' \in BOOLEAN
      /\ taskLock' \in BOOLEAN /\ events' \in Nat
      /\ \A c \in Celery \ {p} : pc[c] # "idle" => taskLock'
  BY <1>1 DEF Kill, TypeOK
<1>3. QED
  BY <1>2, RollbackKeeps DEF Kill

LEMMA CommitKeeps == ASSUME IInv, NEW p \in Processes, CommitSend(p) PROVE Keeps
<1>1. TypeOK /\ now >= 1 /\ Exclusive /\ Counted
  BY DEF IInv
<1> DEFINE i == reminder[p]
<1>2. /\ UNCHANGED <<expiry, last, now, checking, queue, mails, events>>
      /\ pc[p] = "commit" /\ reminders' = [reminders EXCEPT ![i].sent = now]
      /\ mailLock' \in BOOLEAN /\ taskLock' \in BOOLEAN
  BY <1>1 DEF CommitSend, TaskStep, ReleaseLocks, TypeOK
<1>3. /\ pc' \in [Processes -> Steps] /\ pc'[p] = "idle"
      /\ reminder' \in [Processes -> 0..MaxReminders]
      /\ retries' \in [Processes -> 0..MaxRetries]
      /\ \A q \in Processes \ {p} : pc'[q] = pc[q] /\ reminder'[q] = reminder[q]
      /\ \A c \in Celery : pc'[c] \in {"idle", "mail", "commit"}
      /\ Sending(p) => \A q \in Processes : ~(Sending(q)')
  BY <1>1, LeftProcesses DEF CommitSend
<1>4. /\ Sending(p) /\ i \in Active /\ \A q \in Processes : ~(Sending(q)')
      /\ \A q \in Processes : Sending(q) => q = p
  BY <1>1, <1>2, <1>3 DEF Sending, Exclusive
<1>5. i \in DOMAIN reminders /\ i \in Ids
  <2>1. i \in DOMAIN reminders /\ i \in 1..last /\ last \in 0..MaxReminders
    BY <1>1, <1>4 DEF Active, TypeOK
  <2>2. QED
    BY <2>1, RemindersAssumption DEF Ids
<1>6. /\ DOMAIN reminders' = DOMAIN reminders
      /\ reminders' \in [DOMAIN reminders -> Row]
      /\ reminders'[i].sent = now
      /\ \A j \in DOMAIN reminders \ {i} : reminders'[j] = reminders[j]
  <2>1. reminders[i] \in Row /\ now \in Nat
    BY <1>1, <1>5 DEF TypeOK
  <2>2. [reminders[i] EXCEPT !.sent = now] \in Row /\ [reminders[i] EXCEPT !.sent = now].sent = now
    BY <2>1 DEF Row
  <2>3. reminders' = [reminders EXCEPT ![i] = [reminders[i] EXCEPT !.sent = now]]
    BY <1>2
  <2>4. QED
    BY <1>1, <1>5, <2>2, <2>3 DEF TypeOK
<1>7. mails[i] = 1
  BY <1>1, <1>2, <1>5 DEF Counted
<1>8. now # Never
  BY <1>1 DEF Never, TypeOK
<1>9. Active' = Active \ {i}
  BY <1>6, <1>8 DEF Active, Unsent
<1>10. \A c \in Celery : pc'[c] # "idle" => taskLock'
  BY <1>3, <1>4 DEF Sending, Processes
<1>11. TypeOK'
  BY <1>1, <1>2, <1>3, <1>6, <1>10 DEF TypeOK, Steps
<1>12. Exclusive'
  BY <1>4 DEF Exclusive
<1>13. Counted'
  <2>1. \A q \in Processes : pc'[q] # "commit"
    BY <1>4 DEF Sending
  <2>2. \A j \in Ids : j \in Active /\ mails[j] = 1 => j = i
    BY <1>1, <1>4 DEF Counted, Sending
  <2> SUFFICES ASSUME NEW j \in Ids
               PROVE  /\ mails'[j] \in {0, 1}
                      /\ j > last' => mails'[j] = 0
                      /\ j \in DOMAIN reminders' /\ reminders'[j].sent # Never => mails'[j] = 1
                      /\ ~(j \in Active' /\ mails'[j] = 1)
    BY <2>1 DEF Counted
  <2>3. /\ mails[j] \in {0, 1} /\ (j > last => mails[j] = 0)
        /\ j \in DOMAIN reminders /\ reminders[j].sent # Never => mails[j] = 1
    BY <1>1 DEF Counted
  <2>4. QED
    BY <1>2, <1>6, <1>7, <1>9, <2>2, <2>3
<1>14. [Life!Next]_<<Lived, mails>>
  <2>1. \A j \in Ids : InTheMail(j) <=> j = i
    BY <1>4 DEF InTheMail
  <2>2. \A j \in Ids : ~(InTheMail(j)')
    BY <1>4 DEF InTheMail
  <2>3. \A j \in Ids : Lived'[j] = IF j = i THEN "sent" ELSE Lived[j]
    BY <1>2, <1>5, <1>6, <1>8, <1>9, <2>1, <2>2 DEF Lived, LifeOf
  <2>4. Lived[i] = "mailing"
    BY <1>4, <1>5, <2>1 DEF Lived, LifeOf
  <2>5. mails \in [Ids -> Nat] /\ mails' = mails
    BY <1>1, <1>2 DEF TypeOK
  <2> HIDE DEF i
  <2>6. QED
    BY <1>5, <1>7, <2>3, <2>4, <2>5, SenderStep
<1>15. QED
  BY <1>1, <1>2, <1>11, <1>12, <1>13, <1>14 DEF IInv, Keeps

-----------------------------------------------------------------------------
(* The theorems.                                                           *)

LEMMA InitKeeps == Init => IInv
<1> SUFFICES ASSUME Init PROVE IInv
  OBVIOUS
<1>1. PICK c \in Choices :
        /\ expiry = c.expiry
        /\ reminders = [i \in 1..2 |->
              [setting |-> c.reminder, sent |-> Never, cancelled |-> i = 1]]
  BY DEF Init
<1>2. /\ last = 2 /\ now = 1 /\ queue = [r \in 0..MaxRetries |-> 0]
      /\ checking = FALSE /\ taskLock = FALSE /\ mailLock = FALSE
      /\ pc = [p \in Processes |-> "idle"] /\ reminder = [p \in Processes |-> 0]
      /\ retries = [p \in Processes |-> 0] /\ mails = [i \in Ids |-> 0] /\ events = 0
  BY DEF Init
<1>3. c.expiry \in Nat /\ c.reminder \in Setting
  BY RemindersAssumption
<1>4. DOMAIN reminders = 1..2 /\ \A i \in 1..2 : reminders[i] \in Row /\ reminders[i].sent = Never
  <2>1. DOMAIN reminders = 1..2
    BY <1>1
  <2>2. \A i \in 1..2 : reminders[i] =
           [setting |-> c.reminder, sent |-> Never, cancelled |-> i = 1]
    BY <1>1, Zenon
  <2>3. \A b \in BOOLEAN : /\ [setting |-> c.reminder, sent |-> Never, cancelled |-> b] \in Row
                            /\ [setting |-> c.reminder, sent |-> Never, cancelled |-> b].sent = Never
    BY <1>3 DEF Row, Never
  <2>4. \A i \in 1..2 : (i = 1) \in BOOLEAN
    OBVIOUS
  <2>5. \A i \in 1..2 : reminders[i] \in Row /\ reminders[i].sent = Never
    BY <2>2, <2>3, <2>4, Zenon
  <2>6. QED
    BY <2>1, <2>5
<1>5. reminders \in [1..2 -> Row]
  BY <1>1, <1>4
<1>6. 2 \in 0..MaxReminders /\ 0 \in 0..MaxReminders /\ 0 \in 0..MaxRetries
  BY RemindersAssumption
<1>7. \A p \in Processes : pc[p] = "idle"
  BY <1>2
<1>8. TypeOK
  <2>1. \A c1 \in Celery : pc[c1] = "idle"
    BY <1>7 DEF Processes
  <2>2. QED
    BY <1>1, <1>2, <1>3, <1>4, <1>5, <1>6, <2>1 DEF TypeOK
<1>9. Exclusive
  BY <1>7 DEF Exclusive, Sending
<1>10. Counted
  BY <1>2, <1>4, <1>7 DEF Counted
<1>11. QED
  BY <1>2, <1>8, <1>9, <1>10 DEF IInv

LEMMA NextKeeps == IInv /\ [Next]_vars => Keeps
<1> SUFFICES ASSUME IInv, [Next]_vars PROVE Keeps
  OBVIOUS
<1>1. CASE Tick \/ Check \/ ExpireLocks
  BY <1>1, TickKeeps, CheckKeeps, ExpireKeeps
<1>2. CASE \E c \in Choices : EditReminder(c.expiry, c.reminder)
  BY <1>2, EditKeeps
<1>3. CASE (\E c \in Choices : DisableReminder(c.expiry)) \/ DeleteKeyCert \/ CleanupOldReminders
  BY <1>3, DeletionsKeep
<1>4. CASE \E w \in Web : StartSendNow(w)
  BY <1>4, StartSendNowKeeps
<1>5. CASE \E p \in Processes : Work(p) \/ Kill(p)
  <2>1. PICK p \in Processes : Work(p) \/ Kill(p)
    BY <1>5
  <2>2. CASE p \in Celery /\ \E r \in 0..MaxRetries : StartSend(p, r)
    BY <2>2, StartSendKeeps
  <2>3. CASE InsertReminder(p) \/ ApplySend(p)
    BY <2>3, InsertKeeps, ApplySendKeeps
  <2>4. CASE SendMail(p) \/ CommitSend(p) \/ FailSend(p) \/ Kill(p)
    BY <2>4, SendMailKeeps, CommitKeeps, FailSendKeeps, KillKeeps
  <2>5. QED
    BY <2>1, <2>2, <2>3, <2>4 DEF Work
<1>6. CASE UNCHANGED vars
  <2>1. IInv'
    BY <1>6 DEF IInv, TypeOK, Exclusive, Counted, Active, Sending, vars
  <2>2. Lived' = Lived /\ mails' = mails
    BY <1>6 DEF Lived, LifeOf, InTheMail, Active, Sending, vars
  <2>3. QED
    BY <2>1, <2>2 DEF Keeps
<1>7. QED
  BY <1>1, <1>2, <1>3, <1>4, <1>5, <1>6 DEF Next

LEMMA Invariant == Spec => []IInv
<1>1. IInv /\ [Next]_vars => IInv'
  BY NextKeeps DEF Keeps
<1>2. QED
  BY <1>1, InitKeeps, PTL DEF Spec

\* The state keeps its types: reminders have ids given before, and a Celery
\* worker that mails has the task lock of the workers.
THEOREM TypeCorrect == Spec => []TypeOK
<1>1. IInv => TypeOK
  BY DEF IInv
<1>2. QED
  BY <1>1, Invariant, PTL

\* Whatever messages are queued and locks expire, no reminder is mailed twice,
\* and none is marked as sent without a mail.
THEOREM MailedExactlyOnce == Spec => []MailedOnce
<1>1. IInv => MailedOnce
  BY DEF IInv, Counted, MailedOnce
<1>2. QED
  BY <1>1, Invariant, PTL

\* A mail goes to an active reminder: the row lock of the task, and nothing
\* else, keeps pages and other tasks away from it.
THEOREM OnlyActive == Spec => OnlyActiveMailed
<1>1. ASSUME IInv, [Next]_vars, NEW i \in Ids, mails'[i] > mails[i] PROVE i \in Active
  <2>1. mails \in [Ids -> Nat]
    BY <1>1 DEF IInv, TypeOK
  <2>2. mails' # mails
    BY <1>1, <2>1
  <2>3. \E p \in Processes : SendMail(p) \/ RolledBack(p)
    BY <1>1, <2>2 DEF Next, vars, Tick, Check, CheckReminders, EndCheck, ExpireLocks,
       LocksExpire, EditReminder, DisableReminder, DeleteKeyCert, CleanupOldReminders,
       PageUnchanged, TasksUnchanged, StartSendNow, Work, StartSend, InsertReminder,
       ApplySend, CommitSend, FailSend, Kill
  <2>4. PICK p \in Processes : SendMail(p) \/ RolledBack(p)
    BY <2>3
  <2>5. CASE RolledBack(p)
    <3>1. PICK j \in Processes : mails' = [mails EXCEPT ![reminder[j]] = @ - 1]
      BY <2>2, <2>4, <2>5 DEF RolledBack
    <3>2. mails'[i] = mails[i] \/ mails'[i] = mails[i] - 1
      BY <2>1, <3>1
    <3>3. QED
      BY <1>1, <2>1, <3>2
  <2>6. CASE SendMail(p)
    <3>1. pc[p] = "mail" /\ mails' = [mails EXCEPT ![reminder[p]] = @ + 1]
      BY <2>6 DEF SendMail
    <3>2. i = reminder[p]
      BY <1>1, <2>1, <3>1
    <3>3. QED
      BY <1>1, <3>1, <3>2 DEF IInv, Exclusive, Sending
  <2>7. QED
    BY <2>4, <2>5, <2>6
<1>2. IInv /\ [Next]_vars => [\A i \in Ids : mails'[i] > mails[i] => i \in Active]_vars
  BY <1>1
<1>3. QED
  BY <1>2, Invariant, PTL DEF Spec, OnlyActiveMailed

\* Whatever is queued, locked, retried, killed or edited: every step of the
\* check, the pages and the tasks is one of ReminderLife to the reminders, or
\* none.  A reminder being mailed is out of everybody's reach, and one that is
\* done with does not come back.
THEOREM RemindersLive == Spec => ImplementsLife
<1>1. Init => Life!Init
  <2> SUFFICES ASSUME Init PROVE Life!Init
    OBVIOUS
  <2>1. mails = [i \in Ids |-> 0]
    BY DEF Init
  <2>2. \A i \in Ids : Lived[i] \in {"none", "waiting", "gone"}
    <3>1. \A i \in Ids : ~InTheMail(i)
      BY DEF Init, InTheMail, Sending
    <3>2. \A i \in DOMAIN reminders : ~(reminders[i].sent # Never)
      <4>1. PICK c \in Choices : reminders = [i \in 1..2 |->
              [setting |-> c.reminder, sent |-> Never, cancelled |-> i = 1]]
        BY DEF Init
      <4>2. QED
        BY <4>1, Zenon
    <3>3. QED
      BY <3>1, <3>2 DEF Lived, LifeOf
  <2>3. QED
    BY <2>1, <2>2 DEF Life!Init, Lived
<1>2. IInv /\ [Next]_vars => [Life!Next]_<<Lived, mails>>
  BY NextKeeps DEF Keeps
<1>3. [Life!Next]_<<Lived, mails>> => [Life!Next]_(Life!vars)
  BY DEF Life!vars, Lived
<1>4. QED
  BY <1>1, <1>2, <1>3, Invariant, PTL DEF Spec, ImplementsLife, Life!Spec
=============================================================================
