--------------------------- MODULE ApiSync_proofs ---------------------------
(***************************************************************************)
(* Proofs about ApiSync, for every number of processes, credentials and    *)
(* users, and whatever the APIs list.                                      *)
(***************************************************************************)
EXTENDS ApiSync, TLAPS

Endings == Statuses \cup {"as it is"}
Outcomes == {"completed", "error"}

\* A synchronisation works on rows that have been created, and as long as its
\* row exists, that is a row of its credential.
RowsOfJobs ==
    \A p \in Working :
        /\ job[p].row <= last /\ job[p].outer <= last
        /\ HasRow(p) => rows[job[p].row].credential = job[p].credential

TypeInv == TypeOK /\ RowsOfJobs

-----------------------------------------------------------------------------
(* The parts the actions are made of.                                      *)

\* Disturbing jobs changes nothing in them but `alone`.
LEMMA DisturbedJobs ==
    ASSUME TypeOK, NEW p \in Processes
    PROVE  /\ p \in Working => /\ Disturbed(job)[p] \in Job
                               /\ Disturbed(job)[p].credential = job[p].credential
                               /\ Disturbed(job)[p].row = job[p].row
                               /\ Disturbed(job)[p].outer = job[p].outer
                               /\ Disturbed(job)[p].seen = job[p].seen
                               /\ Disturbed(job)[p].todo = job[p].todo
                               /\ Disturbed(job)[p].stale = job[p].stale
                               /\ Disturbed(job)[p].page = job[p].page
                               /\ Disturbed(job)[p].pages = job[p].pages
                               /\ Disturbed(job)[p].listed = job[p].listed
                               /\ Disturbed(job)[p].whole = job[p].whole
                               /\ Disturbed(job)[p].alone = FALSE
           /\ p \notin Working => Disturbed(job)[p] = NoJob
<1>1. Disturbed(job)[p] = IF p \in Working THEN [job[p] EXCEPT !.alone = FALSE] ELSE job[p]
  BY DEF Disturbed
<1>2. ASSUME p \in Working PROVE job[p] \in Job
  BY <1>2 DEF TypeOK
<1>3. p \notin Working => job[p] = NoJob
  BY DEF TypeOK
<1>4. QED
  BY <1>1, <1>2, <1>3 DEF Job

\* What a page does to the jobs: it disturbs them, and may delete users.
LEMMA PageJobs ==
    ASSUME TypeOK, job' = Disturbed(job) \/ job' = Forget(Disturbed(job), Local)
    PROVE  /\ job' \in [Processes -> Job \cup {NoJob}]
           /\ \A p \in Processes : p \notin Working => job'[p] = NoJob
           /\ \A p \in Working : /\ p \in Processes /\ job'[p] \in Job
                                 /\ job'[p].credential = job[p].credential
                                 /\ job'[p].row = job[p].row
                                 /\ job'[p].outer = job[p].outer
                                 /\ job'[p].seen = job[p].seen
                                 /\ job'[p].todo = job[p].todo
                                 /\ job'[p].stale \subseteq job[p].stale
                                 /\ job'[p].page = job[p].page
                                 /\ job'[p].pages = job[p].pages
                                 /\ job'[p].listed = job[p].listed
                                 /\ job'[p].whole = job[p].whole
                                 /\ job'[p].alone = FALSE
<1>1. DOMAIN job' = Processes /\ job' = [p \in Processes |-> job'[p]]
  BY DEF Disturbed, Forget
<1>2. ASSUME NEW p \in Processes, p \notin Working PROVE job'[p] = NoJob
  BY <1>2, DisturbedJobs DEF Forget
<1>3. ASSUME NEW p \in Working
      PROVE  /\ p \in Processes /\ job'[p] \in Job
             /\ job'[p].credential = job[p].credential
             /\ job'[p].row = job[p].row
             /\ job'[p].outer = job[p].outer
             /\ job'[p].seen = job[p].seen
             /\ job'[p].todo = job[p].todo
             /\ job'[p].stale \subseteq job[p].stale
             /\ job'[p].page = job[p].page
             /\ job'[p].pages = job[p].pages
             /\ job'[p].listed = job[p].listed
             /\ job'[p].whole = job[p].whole
             /\ job'[p].alone = FALSE
  <2>1. p \in Processes
    BY DEF Working
  <2>2. PICK old \in Job : old = Disturbed(job)[p]
    BY <2>1, DisturbedJobs
  <2>3. /\ old.credential = job[p].credential /\ old.row = job[p].row
        /\ old.outer = job[p].outer /\ old.seen = job[p].seen
        /\ old.todo = job[p].todo /\ old.stale = job[p].stale
        /\ old.page = job[p].page /\ old.pages = job[p].pages
        /\ old.listed = job[p].listed /\ old.whole = job[p].whole /\ old.alone = FALSE
    BY <2>1, <2>2, DisturbedJobs
  <2>4. CASE job' = Disturbed(job)
    BY <2>1, <2>2, <2>3, <2>4
  <2>5. CASE job' = Forget(Disturbed(job), Local)
    <3>1. job'[p] = [old EXCEPT !.stale = @ \ Local]
      BY <2>1, <2>2, <2>5 DEF Forget
    <3>2. job'[p] \in Job /\ job'[p].stale \subseteq old.stale
      BY <3>1 DEF Job
    <3>3. /\ job'[p].credential = old.credential /\ job'[p].row = old.row
          /\ job'[p].outer = old.outer /\ job'[p].seen = old.seen
          /\ job'[p].todo = old.todo /\ job'[p].page = old.page
          /\ job'[p].pages = old.pages /\ job'[p].listed = old.listed
          /\ job'[p].whole = old.whole /\ job'[p].alone = old.alone
      BY <3>1 DEF Job
    <3>4. QED
      BY <2>1, <2>3, <3>2, <3>3
  <2>6. QED
    BY <2>4, <2>5
<1>4. QED
  BY <1>1, <1>2, <1>3

\* Saving a row with a status keeps the rows, and whose they are.
LEMMA SavedRows ==
    ASSUME TypeOK, NEW r \in Ids, NEW s \in Statuses
    PROVE  /\ DOMAIN SavedAs(r, s) = DOMAIN rows
           /\ \A x \in DOMAIN rows :
                 /\ SavedAs(r, s)[x] \in StatusRow
                 /\ SavedAs(r, s)[x].credential = rows[x].credential
                 /\ SavedAs(r, s)[x].status = IF x = r THEN s ELSE rows[x].status
<1>1. \A x \in DOMAIN rows : rows[x] \in StatusRow
  BY DEF TypeOK
<1>2. DOMAIN SavedAs(r, s) = DOMAIN rows
  BY DEF SavedAs, TypeOK
<1>3. \A x \in DOMAIN rows :
         SavedAs(r, s)[x] = IF x = r THEN [rows[x] EXCEPT !.status = s] ELSE rows[x]
  BY DEF SavedAs, TypeOK
<1>4. QED
  BY <1>1, <1>2, <1>3 DEF StatusRow

\* The status in which the rows of p are left when it returns.
Outcome(p, s, outer, r) ==
    IF r = job[p].outer THEN outer
    ELSE IF r = job[p].row /\ s # "as it is" THEN s
    ELSE rows[r].status

\* What Return does to the processes and to the rows.
LEMMA Returned ==
    ASSUME TypeOK, NEW p \in Working, NEW s \in Endings,
           NEW outer \in Outcomes, Return(p, s, outer)
    PROVE  /\ pc' \in [Processes -> Steps]
           /\ Working' = Working \ {p}
           /\ \A q \in Processes : job'[q] = IF q = p THEN NoJob ELSE job[q]
           /\ rows' \in [DOMAIN rows -> StatusRow]
           /\ \A r \in DOMAIN rows : rows'[r].credential = rows[r].credential
           /\ \A r \in DOMAIN rows : rows'[r].status = Outcome(p, s, outer, r)
<1>1. p \in Processes /\ pc \in [Processes -> Steps] /\ DOMAIN job = Processes
  BY DEF Working, TypeOK, Steps
<1> DEFINE ended == IF s = "as it is" THEN rows ELSE SavedAs(job[p].row, s)
<1>2. /\ DOMAIN ended = DOMAIN rows
      /\ \A x \in DOMAIN rows :
            /\ ended[x] \in StatusRow
            /\ ended[x].credential = rows[x].credential
            /\ ended[x].status = IF x = job[p].row /\ s # "as it is" THEN s ELSE rows[x].status
  <2>1. CASE s = "as it is"
    BY <2>1 DEF TypeOK
  <2>2. CASE s # "as it is"
    <3>1. s \in Statuses
      BY <2>2 DEF Endings
    <3>2. ended = SavedAs(job[p].row, s)
      BY <2>2
    <3>3. /\ DOMAIN SavedAs(job[p].row, s) = DOMAIN rows
          /\ \A x \in DOMAIN rows :
                /\ SavedAs(job[p].row, s)[x] \in StatusRow
                /\ SavedAs(job[p].row, s)[x].credential = rows[x].credential
                /\ SavedAs(job[p].row, s)[x].status =
                      IF x = job[p].row THEN s ELSE rows[x].status
      <4>1. job[p].row \in Ids
        BY DEF TypeOK, Working, Job
      <4>2. QED
        BY <3>1, <4>1, SavedRows
    <3> HIDE DEF ended
    <3>4. QED
      BY <2>2, <3>2, <3>3
  <2>3. QED
    BY <2>1, <2>2
<1>3. rows' = [r \in DOMAIN rows |->
          IF r = job[p].outer
          THEN [rows[r] EXCEPT !.status = outer]
          ELSE ended[r]]
  BY DEF Return
<1> HIDE DEF ended
<1>4. ASSUME NEW r \in DOMAIN rows
      PROVE  /\ rows'[r] \in StatusRow
             /\ rows'[r].credential = rows[r].credential
             /\ rows'[r].status = Outcome(p, s, outer, r)
  <2>1. rows[r] \in StatusRow
    BY DEF TypeOK
  <2>2. CASE r = job[p].outer
    <3>1. rows'[r] = [rows[r] EXCEPT !.status = outer]
      BY <1>3, <2>2
    <3>2. QED
      BY <2>1, <2>2, <3>1 DEF StatusRow, Statuses, Outcomes, Outcome
  <2>3. CASE r # job[p].outer
    BY <1>2, <1>3, <2>3 DEF Outcome
  <2>4. QED
    BY <2>2, <2>3
<1>5. pc' = [pc EXCEPT ![p] = "idle"] /\ job' = [job EXCEPT ![p] = NoJob]
  BY DEF Return
<1>6. rows' \in [DOMAIN rows -> StatusRow]
  BY <1>3, <1>4
<1>7. pc' \in [Processes -> Steps] /\ Working' = Working \ {p}
  BY <1>1, <1>5 DEF Working, Steps
<1>8. \A q \in Processes : job'[q] = IF q = p THEN NoJob ELSE job[q]
  BY <1>1, <1>5
<1>9. QED
  BY <1>4, <1>6, <1>7, <1>8

-----------------------------------------------------------------------------
(* Types, by the kind of step.                                             *)

\* A failure is counted up to its bound.
LEMMA FailsType == ASSUME TypeOK, Fails PROVE events' \in 0..MaxEvents
BY SyncAssumption DEF Fails, TypeOK

\* A synchronisation that returns.
LEMMA ReturnType ==
    ASSUME TypeInv, NEW p \in Working, NEW s \in Endings,
           NEW outer \in Outcomes, Return(p, s, outer), UsersUnchanged,
           dropped' \subseteq 1..last, events' \in 0..MaxEvents
    PROVE  TypeInv'
<1> USE DEF TypeInv
<1>1. /\ pc' \in [Processes -> Steps]
      /\ Working' = Working \ {p}
      /\ \A q \in Processes : job'[q] = IF q = p THEN NoJob ELSE job[q]
      /\ rows' \in [DOMAIN rows -> StatusRow]
      /\ \A r \in DOMAIN rows : rows'[r].credential = rows[r].credential
  <2>1. TypeOK
    OBVIOUS
  <2>2. QED
    BY <2>1, Returned
<1>2. DOMAIN rows' = DOMAIN rows
  BY <1>1
<1>3. UNCHANGED <<api, credentials, last, owner>>
  BY DEF UsersUnchanged, SyncStep
<1>4. job' \in [Processes -> Job \cup {NoJob}]
  BY DEF Return, TypeOK
<1>5. \A q \in Processes :
         IF q \in Working' THEN job'[q] \in Job /\ (job'[q].outer = 0 <=> q \in Web)
         ELSE job'[q] = NoJob
  BY <1>1 DEF TypeOK
<1>6. TypeOK'
  <2>1. pc' \in [Processes -> Steps]
    BY <1>1 DEF Steps
  <2>2. /\ DOMAIN rows' \subseteq 1..last'
        /\ rows' \in [DOMAIN rows' -> StatusRow]
        /\ \A r \in DOMAIN rows' : rows'[r].credential \in credentials'
    BY <1>1, <1>2, <1>3 DEF TypeOK
  <2>3. QED
    BY <1>3, <1>4, <1>5, <2>1, <2>2 DEF TypeOK, Local
<1>7. RowsOfJobs'
  <2> SUFFICES ASSUME NEW q \in Working'
               PROVE  /\ job'[q].row <= last' /\ job'[q].outer <= last'
                      /\ HasRow(q)' => rows'[job'[q].row].credential = job'[q].credential
    BY DEF RowsOfJobs
  <2>1. q \in Working /\ q \in Processes /\ job'[q] = job[q]
    BY <1>1 DEF Working
  <2>2. QED
    BY <1>1, <1>2, <1>3, <2>1 DEF RowsOfJobs, HasRow
<1>8. QED
  BY <1>6, <1>7

\* A synchronisation that goes on to its next step, which may be known to the jobs
\* of the others.
LEMMA AdvanceType ==
    ASSUME TypeInv, NEW p \in Working, NEW step \in Steps \ {"idle"},
           pc' = [pc EXCEPT ![p] = step],
           job' \in [Processes -> Job \cup {NoJob}],
           \A q \in Processes : q \notin Working => job'[q] = NoJob,
           \A q \in Working : /\ job'[q] \in Job /\ job'[q].credential = job[q].credential
                             /\ job'[q].row = job[q].row /\ job'[q].outer = job[q].outer,
           rows' \in [DOMAIN rows -> StatusRow],
           \A r \in DOMAIN rows : rows'[r].credential = rows[r].credential,
           Local' \subseteq Users, owner' \in [Local' -> credentials \cup {None}],
           SyncStep, UNCHANGED dropped, events' \in 0..MaxEvents
    PROVE  TypeInv'
<1> USE DEF TypeInv
<1>1. UNCHANGED <<api, credentials, last>>
  BY DEF SyncStep
<1>2. p \in Processes /\ pc \in [Processes -> Steps] /\ pc[p] # "idle"
  BY DEF Working, TypeOK, Steps
<1>3. pc' \in [Processes -> Steps] /\ Working' = Working
  BY <1>2 DEF Working, Steps
<1>4. DOMAIN rows' = DOMAIN rows
  OBVIOUS
<1>5. \A q \in Processes :
         IF q \in Working' THEN job'[q] \in Job /\ (job'[q].outer = 0 <=> q \in Web)
         ELSE job'[q] = NoJob
  BY <1>2, <1>3 DEF TypeOK
<1>6. TypeOK'
  <2>1. pc' \in [Processes -> Steps]
    BY <1>3 DEF Steps
  <2>2. /\ DOMAIN rows' \subseteq 1..last'
        /\ rows' \in [DOMAIN rows' -> StatusRow]
        /\ \A r \in DOMAIN rows' : rows'[r].credential \in credentials'
    BY <1>1, <1>4 DEF TypeOK
  <2>3. QED
    BY <1>1, <1>5, <2>1, <2>2 DEF TypeOK
<1>7. RowsOfJobs'
  <2> SUFFICES ASSUME NEW q \in Working'
               PROVE  /\ job'[q].row <= last' /\ job'[q].outer <= last'
                      /\ HasRow(q)' => rows'[job'[q].row].credential = job'[q].credential
    BY DEF RowsOfJobs
  <2>1. /\ q \in Working /\ q \in Processes
        /\ job'[q].row = job[q].row /\ job'[q].outer = job[q].outer
        /\ job'[q].credential = job[q].credential
    BY <1>3 DEF Working
  <2>2. QED
    BY <1>1, <1>4, <2>1 DEF RowsOfJobs, HasRow
<1>8. QED
  BY <1>6, <1>7

\* A synchronisation that goes on to its next step.
LEMMA ProgressType ==
    ASSUME TypeInv, NEW p \in Working, NEW step \in Steps \ {"idle"},
           pc' = [pc EXCEPT ![p] = step],
           job' \in [Processes -> Job \cup {NoJob}],
           \A q \in Processes \ {p} : job'[q] = job[q],
           job'[p] \in Job, job'[p].credential = job[p].credential,
           job'[p].row = job[p].row, job'[p].outer = job[p].outer,
           rows' \in [DOMAIN rows -> StatusRow],
           \A r \in DOMAIN rows : rows'[r].credential = rows[r].credential,
           Local' \subseteq Users, owner' \in [Local' -> credentials \cup {None}],
           SyncStep, UNCHANGED dropped, events' \in 0..MaxEvents
    PROVE  TypeInv'
<1>1. \A q \in Processes : q \notin Working => job'[q] = NoJob
  BY DEF TypeInv, TypeOK, Working
<1>2. ASSUME NEW q \in Working
      PROVE  /\ job'[q] \in Job /\ job'[q].credential = job[q].credential
             /\ job'[q].row = job[q].row /\ job'[q].outer = job[q].outer
  BY DEF TypeInv, TypeOK, Working
<1>3. QED
  BY <1>1, <1>2, AdvanceType

\* A page that disturbs the synchronisations.
LEMMA PageType ==
    ASSUME TypeInv, job' = Disturbed(job) \/ job' = Forget(Disturbed(job), Local),
           UNCHANGED <<api, pc, last, dropped, events>>,
           credentials' \subseteq Credentials,
           DOMAIN rows' \subseteq DOMAIN rows, rows' \in [DOMAIN rows' -> StatusRow],
           \A r \in DOMAIN rows' : /\ rows'[r].credential = rows[r].credential
                                  /\ rows'[r].credential \in credentials',
           Local' \subseteq Users, owner' \in [Local' -> credentials' \cup {None}]
    PROVE  TypeInv'
<1> USE DEF TypeInv
<1>1. Working' = Working
  BY DEF Working
<1>2. \A q \in Working : /\ q \in Processes /\ job'[q] \in Job
                        /\ job'[q].row = job[q].row /\ job'[q].outer = job[q].outer
                        /\ job'[q].credential = job[q].credential
  BY PageJobs
<1>3. \A q \in Processes : q \notin Working => job'[q] = NoJob
  BY PageJobs
<1>4. job' \in [Processes -> Job \cup {NoJob}]
  BY PageJobs
<1>5. \A q \in Processes :
         IF q \in Working' THEN job'[q] \in Job /\ (job'[q].outer = 0 <=> q \in Web)
         ELSE job'[q] = NoJob
  BY <1>1, <1>2, <1>3 DEF TypeOK
<1>6. TypeOK'
  <2>1. DOMAIN rows' \subseteq 1..last'
    BY DEF TypeOK
  <2>2. QED
    BY <1>4, <1>5, <2>1 DEF TypeOK
<1>7. RowsOfJobs'
  BY <1>1, <1>2 DEF RowsOfJobs, HasRow
<1>8. QED
  BY <1>6, <1>7

-----------------------------------------------------------------------------
(* Types, action by action.                                                *)

LEMMA InitType == Init => TypeInv
<1> SUFFICES ASSUME Init PROVE TypeInv
  OBVIOUS
<1>1. Working = {} /\ Local = {} /\ DOMAIN rows = {}
  BY DEF Init, Working, Local
<1>2. api \in [Credentials -> Lists]
  BY SyncAssumption DEF Init
<1>3. /\ owner \in [Local -> credentials \cup {None}]
      /\ rows \in [DOMAIN rows -> StatusRow]
      /\ last \in 0..MaxRows /\ events \in 0..MaxEvents
  BY <1>1, SyncAssumption DEF Init
<1>4. /\ job \in [Processes -> Job \cup {NoJob}]
      /\ pc \in [Processes -> Steps]
      /\ \A p \in Processes : job[p] = NoJob
  BY DEF Init, Steps
<1>5. credentials \subseteq Credentials /\ dropped = {}
  BY DEF Init
<1>6. TypeOK
  BY <1>1, <1>2, <1>3, <1>4, <1>5 DEF TypeOK, Steps
<1>7. RowsOfJobs
  BY <1>1 DEF RowsOfJobs
<1>8. QED
  BY <1>6, <1>7 DEF TypeInv

\* What a change of the API does to a job.
LEMMA ChangedJobs ==
    ASSUME TypeInv, NEW c \in Credentials, NEW list \in Lists, ApiChange(c, list),
           NEW p \in Working
    PROVE  /\ p \in Processes /\ job'[p] \in Job
           /\ job'[p].credential = job[p].credential
           /\ job'[p].row = job[p].row /\ job'[p].outer = job[p].outer
           /\ job'[p].seen = job[p].seen /\ job'[p].todo = job[p].todo
           /\ job'[p].stale = job[p].stale
           /\ job'[p].page = job[p].page /\ job'[p].pages = job[p].pages
           /\ job[p].credential # c => job'[p] = job[p]
           /\ job[p].credential = c =>
                 /\ ~job'[p].alone
                 /\ job'[p].listed = job[p].listed \cap DOMAIN list
                 /\ job'[p].whole = (job[p].whole /\ (pc[p] = "pages" => KeepsPlaces(p, list)))
<1>1. p \in Processes /\ job[p] \in Job
  BY DEF Working, TypeInv, TypeOK
<1> DEFINE whole == job[p].whole /\ (pc[p] = "pages" => KeepsPlaces(p, list))
           new == [job[p] EXCEPT !.alone = FALSE, !.listed = @ \cap DOMAIN list,
                                 !.whole = whole]
<1>2. job'[p] = IF job[p].credential = c THEN new ELSE job[p]
  BY <1>1 DEF ApiChange
<1>3. whole \in BOOLEAN
  OBVIOUS
<1> HIDE DEF whole
<1>4. /\ new \in Job
      /\ new.credential = job[p].credential
      /\ new.row = job[p].row /\ new.outer = job[p].outer
      /\ new.seen = job[p].seen /\ new.todo = job[p].todo
      /\ new.stale = job[p].stale
      /\ new.page = job[p].page /\ new.pages = job[p].pages
      /\ new.alone = FALSE /\ new.listed = job[p].listed \cap DOMAIN list
      /\ new.whole = whole
  BY <1>1, <1>3 DEF Job
<1> HIDE DEF new
<1>5. QED
  BY <1>1, <1>2, <1>4 DEF whole

LEMMA ApiChangeType ==
    ASSUME TypeInv, NEW c \in Credentials, NEW list \in Lists, ApiChange(c, list)
    PROVE  TypeInv'
<1> USE DEF TypeInv
<1>1. api' \in [Credentials -> Lists]
  <2>1. api' = [api EXCEPT ![c] = list]
    BY DEF ApiChange
  <2>2. QED
    BY <2>1 DEF TypeOK
<1>2. Working' = Working /\ UNCHANGED <<credentials, owner, rows, last, pc, dropped>>
  BY DEF ApiChange, Working
<1>3. events' \in 0..MaxEvents
  BY FailsType DEF ApiChange
<1>4. job' = [p \in Processes |-> job'[p]]
  BY DEF ApiChange
<1>5. ASSUME NEW p \in Working
      PROVE  /\ p \in Processes /\ job'[p] \in Job
             /\ job'[p].row = job[p].row /\ job'[p].outer = job[p].outer
             /\ job'[p].credential = job[p].credential
  BY ChangedJobs
<1>6. \A p \in Processes : p \notin Working => job'[p] = NoJob
  BY DEF TypeOK, ApiChange
<1>7. job' \in [Processes -> Job \cup {NoJob}]
  BY <1>4, <1>5, <1>6
<1>8. \A p \in Processes :
         IF p \in Working' THEN job'[p] \in Job /\ (job'[p].outer = 0 <=> p \in Web)
         ELSE job'[p] = NoJob
  BY <1>2, <1>5, <1>6 DEF TypeOK
<1>9. TypeOK'
  BY <1>1, <1>2, <1>3, <1>7, <1>8 DEF TypeOK, Local
<1>10. RowsOfJobs'
  BY <1>2, <1>5 DEF RowsOfJobs, HasRow
<1>11. QED
  BY <1>9, <1>10

LEMMA PagesType ==
    ASSUME TypeInv, NEW c \in Credentials,
           StopSync(c) \/ DeleteApiCredential(c)
    PROVE  TypeInv'
<1> USE DEF TypeInv
<1>1. CASE StopSync(c)
  <2>1. PICK r \in DOMAIN rows : rows' = SavedAs(r, "stopped")
    BY <1>1 DEF StopSync
  <2>2. r \in Ids
    BY SyncAssumption DEF TypeOK, Ids
  <2>3. /\ DOMAIN rows' = DOMAIN rows
        /\ rows' \in [DOMAIN rows' -> StatusRow]
        /\ \A x \in DOMAIN rows' : rows'[x].credential = rows[x].credential
    <3>1. "stopped" \in Statuses
      BY DEF Statuses
    <3>2. /\ DOMAIN rows' = DOMAIN rows
          /\ \A x \in DOMAIN rows' : /\ rows'[x] \in StatusRow
                                     /\ rows'[x].credential = rows[x].credential
      BY <2>1, <2>2, <3>1, SavedRows
    <3>3. QED
      BY <2>1, <3>2 DEF SavedAs, TypeOK
  <2>4. UNCHANGED <<api, credentials, owner, pc, last, dropped, events>> /\ job' = Disturbed(job)
    BY <1>1 DEF StopSync
  <2>5. Local' = Local /\ \A x \in DOMAIN rows' : rows'[x].credential \in credentials'
    BY <2>3, <2>4 DEF Local, TypeOK
  <2>6. QED
    BY <2>3, <2>4, <2>5, PageType DEF TypeOK
<1>2. CASE DeleteApiCredential(c)
  <2>1. UNCHANGED <<api, pc, last, dropped, events>> /\ job' = Disturbed(job)
    BY <1>2 DEF DeleteApiCredential
  <2>2. credentials' = credentials \ {c}
    BY <1>2 DEF DeleteApiCredential
  <2>3. owner' = [u \in Local |-> IF owner[u] = c THEN None ELSE owner[u]]
    BY <1>2 DEF DeleteApiCredential
  <2>4. Local' = Local /\ owner' \in [Local' -> credentials' \cup {None}]
    BY <2>2, <2>3 DEF Local, TypeOK
  <2>5. rows' = [x \in DOMAIN rows \ {r \in DOMAIN rows : rows[r].credential = c} |-> rows[x]]
    BY <1>2 DEF DeleteApiCredential, Without
  <2>6. /\ DOMAIN rows' \subseteq DOMAIN rows
        /\ rows' \in [DOMAIN rows' -> StatusRow]
        /\ \A x \in DOMAIN rows' : /\ rows'[x].credential = rows[x].credential
                                   /\ rows'[x].credential \in credentials'
    BY <2>2, <2>5 DEF TypeOK
  <2>7. QED
    BY <2>1, <2>2, <2>4, <2>6, PageType DEF TypeOK
<1>3. QED
  BY <1>1, <1>2

LEMMA ClearType == ASSUME TypeInv, ClearSyncData PROVE TypeInv'
<1>1. /\ UNCHANGED <<api, credentials, rows, pc, last, dropped, events>>
      /\ job' = Forget(Disturbed(job), Local)
  BY DEF ClearSyncData
<1>2. Local' = {} /\ owner' \in [Local' -> credentials' \cup {None}]
  BY DEF ClearSyncData, Without, Local
<1>3. QED
  BY <1>1, <1>2, PageType DEF TypeInv, TypeOK

\* What an API lists.
LEMMA ListFacts ==
    ASSUME TypeOK, NEW c \in Credentials
    PROVE  /\ Listed(c) \subseteq Users
           /\ \A u \in Listed(c) : /\ api[c][u] \in 1..MaxPages
                                   /\ \A n \in 1..api[c][u] : On(c, n) # {}
<1>1. api[c] \in Paging
  BY SyncAssumption DEF TypeOK
<1>2. PICK listed \in SUBSET Users : api[c] \in [listed -> 1..MaxPages]
  BY <1>1 DEF Paging
<1>3. \A u \in DOMAIN api[c] : \A n \in 1..api[c][u] : \E v \in DOMAIN api[c] : api[c][v] = n
  BY <1>1 DEF Paging
<1>4. QED
  BY <1>2, <1>3 DEF Listed, On

\* The jobs when p begins: its own is new, the others are disturbed.
LEMMA BegunJobs ==
    ASSUME TypeOK, NEW p \in Processes, pc[p] = "idle", NEW c \in credentials,
           NEW row \in Ids, NEW outer \in {0} \cup Ids, job' = Begun(p, c, row, outer)
    PROVE  /\ job' \in [Processes -> Job \cup {NoJob}]
           /\ job'[p] \in Job
           /\ job'[p].credential = c /\ job'[p].row = row /\ job'[p].outer = outer
           /\ job'[p].seen = {} /\ job'[p].todo = {} /\ job'[p].whole
           /\ job'[p].listed = Listed(c) /\ job'[p].alone = (Working = {})
           /\ \A q \in Processes \ {p} : job'[q] = Disturbed(job)[q]
<1>1. \A q \in Processes : Disturbed(job)[q] \in Job \cup {NoJob}
  BY DisturbedJobs
<1>2. Disturbed(job) \in [Processes -> Job \cup {NoJob}]
  BY <1>1 DEF Disturbed
<1> DEFINE new == [credential |-> c, row |-> row, outer |-> outer,
                   seen |-> {}, todo |-> {}, stale |-> {},
                   page |-> 0, pages |-> 0, counted |-> FALSE,
                   listed |-> Listed(c), whole |-> TRUE, alone |-> Working = {}]
<1>3. c \in Credentials /\ Listed(c) \subseteq Users
  <2>1. c \in Credentials
    BY DEF TypeOK
  <2>2. QED
    BY <2>1, ListFacts
<1>4. new \in Job
  <2>1. (Working = {}) \in BOOLEAN
    OBVIOUS
  <2>2. QED
    BY <1>3, <2>1 DEF Job
<1>5. job' = [Disturbed(job) EXCEPT ![p] = new]
  BY DEF Begun
<1>6. /\ new.credential = c /\ new.row = row /\ new.outer = outer
      /\ new.seen = {} /\ new.todo = {} /\ new.whole /\ new.listed = Listed(c)
  OBVIOUS
<1>7. new.alone = (Working = {})
  OBVIOUS
<1> HIDE DEF new
<1>8. /\ job' \in [Processes -> Job \cup {NoJob}]
      /\ job'[p] = new
      /\ \A q \in Processes \ {p} : job'[q] = Disturbed(job)[q]
  BY <1>2, <1>4, <1>5
<1>9. QED
  BY <1>4, <1>6, <1>7, <1>8

\* A synchronisation that begins, with new rows.
LEMMA BeginType ==
    ASSUME TypeInv, NEW p \in Processes, pc[p] = "idle", NEW c \in credentials,
           NEW row \in Ids, NEW outer \in {0} \cup Ids, job' = Begun(p, c, row, outer),
           outer = 0 <=> p \in Web,
           pc' = [pc EXCEPT ![p] = "login"],
           last' \in Nat, last <= last', last' <= MaxRows, row <= last', outer <= last',
           DOMAIN rows \subseteq DOMAIN rows', DOMAIN rows' \subseteq 1..last',
           \A r \in DOMAIN rows : rows'[r] = rows[r],
           \A r \in DOMAIN rows' \ DOMAIN rows : r > last,
           rows' \in [DOMAIN rows' -> StatusRow],
           \A r \in DOMAIN rows' : rows'[r].credential \in credentials,
           rows'[row].credential = c,
           UNCHANGED <<api, credentials, owner, dropped, events>>
    PROVE  TypeInv'
<1> USE DEF TypeInv
<1>1. /\ job' \in [Processes -> Job \cup {NoJob}]
      /\ job'[p] \in Job
      /\ job'[p].credential = c /\ job'[p].row = row /\ job'[p].outer = outer
      /\ \A q \in Processes \ {p} : job'[q] = Disturbed(job)[q]
  BY BegunJobs
<1>2. pc' \in [Processes -> Steps] /\ Working' = Working \cup {p} /\ p \notin Working
  BY DEF Working, TypeOK, Steps
<1>3. ASSUME NEW q \in Working
      PROVE  /\ q \in Processes /\ job'[q] \in Job
             /\ job'[q].row = job[q].row /\ job'[q].outer = job[q].outer
             /\ job'[q].credential = job[q].credential
  <2>1. q \in Processes
    BY DEF Working
  <2>2. job'[q] = Disturbed(job)[q]
    BY <1>1, <1>2, <2>1
  <2>3. QED
    BY <2>1, <2>2, DisturbedJobs
<1>4. \A q \in Processes \ {p} : q \notin Working => job'[q] = NoJob
  BY <1>1, DisturbedJobs
<1>5. \A q \in Processes :
         IF q \in Working' THEN job'[q] \in Job /\ (job'[q].outer = 0 <=> q \in Web)
         ELSE job'[q] = NoJob
  <2> SUFFICES ASSUME NEW q \in Processes
               PROVE  IF q \in Working' THEN job'[q] \in Job /\ (job'[q].outer = 0 <=> q \in Web)
                      ELSE job'[q] = NoJob
    OBVIOUS
  <2>1. CASE q = p
    BY <1>1, <1>2, <2>1
  <2>2. CASE q # p /\ q \in Working
    BY <1>2, <1>3, <2>2 DEF TypeOK
  <2>3. CASE q # p /\ q \notin Working
    BY <1>2, <1>4, <2>3
  <2>4. QED
    BY <2>1, <2>2, <2>3
<1>6. TypeOK'
  <2>1. last' \in 0..MaxRows /\ dropped' \subseteq 1..last'
    BY SyncAssumption DEF TypeOK
  <2>2. pc' \in [Processes -> Steps]
    BY <1>2 DEF Steps
  <2>3. Local' = Local
    BY DEF Local
  <2>4. QED
    BY <1>1, <1>5, <2>1, <2>2, <2>3 DEF TypeOK
<1>7. RowsOfJobs'
  <2> SUFFICES ASSUME NEW q \in Working'
               PROVE  /\ job'[q].row <= last' /\ job'[q].outer <= last'
                      /\ job'[q].row \in DOMAIN rows'
                            => rows'[job'[q].row].credential = job'[q].credential
    BY DEF RowsOfJobs, HasRow
  <2>1. CASE q = p
    BY <1>1, <2>1
  <2>2. CASE q \in Working
    <3>1. /\ job'[q].row = job[q].row /\ job'[q].outer = job[q].outer
          /\ job'[q].credential = job[q].credential
      BY <1>3, <2>2
    <3>2. job[q].row <= last /\ job[q].outer <= last
      BY <2>2 DEF RowsOfJobs
    <3>3. /\ job[q].row \in Int /\ job[q].outer \in Int
          /\ last \in Int /\ last' \in Int
      <4>1. job[q] \in Job
        BY <2>2 DEF TypeOK, Working
      <4>2. QED
        BY <4>1 DEF Job, Ids, TypeOK
    <3>4. job[q].row \in DOMAIN rows' => job[q].row \in DOMAIN rows
      BY <3>2, <3>3
    <3>5. QED
      BY <2>2, <3>1, <3>2, <3>3, <3>4 DEF RowsOfJobs, HasRow
  <2>3. QED
    BY <1>2, <2>1, <2>2
<1>8. QED
  BY <1>6, <1>7

\* A row with an id that nobody has had.
LEMMA NewRows ==
    ASSUME TypeOK, NEW r \in Ids, last < r, NEW x \in StatusRow, x.credential \in credentials
    PROVE  /\ DOMAIN With(rows, r, x) = DOMAIN rows \cup {r}
           /\ \A y \in DOMAIN rows : With(rows, r, x)[y] = rows[y]
           /\ With(rows, r, x)[r] = x
           /\ With(rows, r, x) \in [DOMAIN rows \cup {r} -> StatusRow]
<1>1. r \notin DOMAIN rows
  BY SyncAssumption DEF TypeOK, Ids
<1>2. QED
  BY <1>1 DEF With, TypeOK

LEMMA StartRequestType ==
    ASSUME TypeInv, NEW w \in Web, NEW c \in Credentials, StartRequest(w, c)
    PROVE  TypeInv'
<1> USE DEF TypeInv
<1>1. /\ w \in Processes /\ pc[w] = "idle" /\ c \in credentials
      /\ last' = last + 1 /\ pc' = [pc EXCEPT ![w] = "login"]
      /\ job' = Begun(w, c, last + 1, 0)
      /\ UNCHANGED <<api, credentials, owner, dropped, events>>
  BY DEF StartRequest, Processes
<1>2. last \in Nat /\ last < MaxRows /\ MaxRows \in Nat /\ last + 1 \in Ids
  BY SyncAssumption DEF StartRequest, TypeOK, Ids
<1> DEFINE new == NewRow(c, TRUE)
<1>3. new \in StatusRow /\ new.credential = c
  BY DEF NewRow, StatusRow, Statuses
<1>4. rows' = With(rows, last + 1, new)
  BY DEF StartRequest
<1> HIDE DEF new
<1>5. /\ DOMAIN rows' = DOMAIN rows \cup {last + 1}
      /\ \A y \in DOMAIN rows : rows'[y] = rows[y]
      /\ rows'[last + 1] = new
      /\ rows' \in [DOMAIN rows' -> StatusRow]
  <2>1. last < last + 1 /\ new.credential \in credentials
    BY <1>1, <1>2, <1>3
  <2>2. QED
    BY <1>2, <1>3, <1>4, <2>1, NewRows
<1>6. DOMAIN rows \subseteq 1..last
  BY DEF TypeOK
<1>7. /\ DOMAIN rows \subseteq DOMAIN rows' /\ DOMAIN rows' \subseteq 1..last'
      /\ \A r \in DOMAIN rows' \ DOMAIN rows : r > last
      /\ \A r \in DOMAIN rows' : rows'[r].credential \in credentials
      /\ rows'[last + 1].credential = c
  <2>1. \A r \in DOMAIN rows : rows[r].credential \in credentials
    BY DEF TypeOK
  <2>2. \A r \in DOMAIN rows' : rows'[r].credential \in credentials
    BY <1>1, <1>3, <1>5, <2>1
  <2>3. DOMAIN rows' \subseteq 1..last' /\ \A r \in DOMAIN rows' \ DOMAIN rows : r > last
    BY <1>1, <1>2, <1>5, <1>6
  <2>4. QED
    BY <1>3, <1>5, <2>2, <2>3
<1>8. last' \in Nat /\ last <= last' /\ last' <= MaxRows /\ last + 1 <= last' /\ 0 <= last'
  BY <1>1, <1>2
<1>9. QED
  BY <1>1, <1>2, <1>5, <1>7, <1>8, BeginType

LEMMA StartTaskType ==
    ASSUME TypeInv, NEW k \in Celery, NEW c \in Credentials, StartTask(k, c)
    PROVE  TypeInv'
<1> USE DEF TypeInv
<1>1. /\ k \in Processes /\ k \notin Web /\ pc[k] = "idle" /\ c \in credentials
      /\ last' = last + 2 /\ pc' = [pc EXCEPT ![k] = "login"]
      /\ job' = Begun(k, c, last + 2, last + 1)
      /\ UNCHANGED <<api, credentials, owner, dropped, events>>
  BY SyncAssumption DEF StartTask, Processes
<1>2. /\ last \in Nat /\ last + 1 < MaxRows /\ MaxRows \in Nat
      /\ last + 1 \in Ids /\ last + 2 \in Ids /\ last + 1 # 0
  BY SyncAssumption DEF StartTask, TypeOK, Ids
<1> DEFINE outer == NewRow(c, FALSE)
           inner == NewRow(c, TRUE)
           one == With(rows, last + 1, outer)
<1>3. /\ outer \in StatusRow /\ outer.credential = c
      /\ inner \in StatusRow /\ inner.credential = c
  BY DEF NewRow, StatusRow, Statuses
<1>4. rows' = With(one, last + 2, inner)
  BY DEF StartTask
<1> HIDE DEF outer, inner
<1>5. /\ DOMAIN one = DOMAIN rows \cup {last + 1}
      /\ \A y \in DOMAIN rows : one[y] = rows[y]
      /\ one[last + 1] = outer
  <2>1. last < last + 1 /\ outer.credential \in credentials
    BY <1>1, <1>2, <1>3
  <2>2. QED
    BY <1>2, <1>3, <2>1, NewRows
<1> HIDE DEF one
<1>6. DOMAIN rows \subseteq 1..last
  BY DEF TypeOK
<1>7. last + 2 \notin DOMAIN one /\ last + 1 # last + 2 /\ last + 1 \notin DOMAIN rows
  BY <1>2, <1>5, <1>6
<1>8. /\ DOMAIN rows' = DOMAIN one \cup {last + 2}
      /\ \A y \in DOMAIN one : rows'[y] = one[y]
      /\ rows'[last + 2] = inner
  BY <1>4, <1>7 DEF With
<1>9. rows' = [y \in DOMAIN rows' |-> rows'[y]]
  BY <1>4 DEF With
<1>10. /\ DOMAIN rows \subseteq DOMAIN rows' /\ DOMAIN rows' \subseteq 1..last'
       /\ \A y \in DOMAIN rows : rows'[y] = rows[y]
       /\ \A r \in DOMAIN rows' \ DOMAIN rows : r > last
  BY <1>1, <1>2, <1>5, <1>6, <1>7, <1>8
<1>11. ASSUME NEW r \in DOMAIN rows'
       PROVE  rows'[r] \in StatusRow /\ rows'[r].credential \in credentials
  <2>1. CASE r \in DOMAIN rows
    BY <1>10, <2>1 DEF TypeOK
  <2>2. CASE r = last + 1
    BY <1>1, <1>3, <1>5, <1>8, <2>2
  <2>3. CASE r = last + 2
    BY <1>1, <1>3, <1>8, <2>3
  <2>4. QED
    BY <1>5, <1>8, <2>1, <2>2, <2>3
<1>12. rows' \in [DOMAIN rows' -> StatusRow] /\ rows'[last + 2].credential = c
  BY <1>3, <1>8, <1>9, <1>11
<1>13. /\ last' \in Nat /\ last <= last' /\ last' <= MaxRows
       /\ last + 2 <= last' /\ last + 1 <= last'
  BY <1>1, <1>2
<1>14. last + 1 = 0 <=> k \in Web
  BY <1>1, <1>2
<1>15. QED
  BY <1>1, <1>2, <1>10, <1>11, <1>12, <1>13, <1>14, BeginType

\* What a synchronisation that has its row knows of it.
LEMMA JobFacts ==
    ASSUME TypeOK, NEW p \in Working
    PROVE  /\ p \in Processes /\ job[p] \in Job
           /\ job[p].row \in Ids
           /\ job[p].seen \subseteq Users /\ job[p].todo \subseteq Users
           /\ job[p].credential \in Credentials
BY DEF TypeOK, Working, Job

\* A row saved as it was, but for its status.
LEMMA SavedType ==
    ASSUME TypeOK, NEW r \in Ids, NEW s \in Statuses, rows' = SavedAs(r, s)
    PROVE  /\ rows' \in [DOMAIN rows -> StatusRow]
           /\ \A x \in DOMAIN rows : rows'[x].credential = rows[x].credential
<1>1. /\ DOMAIN rows' = DOMAIN rows
      /\ \A x \in DOMAIN rows : /\ rows'[x] \in StatusRow
                                /\ rows'[x].credential = rows[x].credential
  BY SavedRows
<1>2. rows' = [x \in DOMAIN rows |-> rows'[x]]
  BY <1>1 DEF SavedAs
<1>3. QED
  BY <1>1, <1>2

LEMMA OwnersType ==
    ASSUME TypeOK, UNCHANGED <<owner, credentials>>
    PROVE  Local' \subseteq Users /\ owner' \in [Local' -> credentials \cup {None}]
BY DEF TypeOK, Local

LEMMA LoginType == ASSUME TypeInv, NEW p \in Processes, Login(p) PROVE TypeInv'
<1> USE DEF TypeInv
<1>1. p \in Working
  BY DEF Login, Working
<1>2. UsersUnchanged
  BY DEF Login
<1>3. CASE rows' = SavedAs(job[p].row, "running") /\ Goto(p, "fetch") /\ UNCHANGED <<dropped, events>>
  <2>1. "running" \in Statuses /\ "fetch" \in Steps \ {"idle"} /\ job[p].row \in Ids
    BY <1>1, JobFacts DEF Statuses, Steps
  <2>2. /\ rows' \in [DOMAIN rows -> StatusRow]
        /\ \A x \in DOMAIN rows : rows'[x].credential = rows[x].credential
    BY <1>3, <2>1, SavedType
  <2>3. pc' = [pc EXCEPT ![p] = "fetch"] /\ job' = job
    BY <1>3 DEF Goto
  <2>4. SyncStep /\ UNCHANGED <<owner, credentials>> /\ events' \in 0..MaxEvents
    BY <1>2, <1>3 DEF UsersUnchanged, SyncStep, TypeOK
  <2>5. Local' \subseteq Users /\ owner' \in [Local' -> credentials \cup {None}]
    BY <2>4, OwnersType
  <2>6. job' \in [Processes -> Job \cup {NoJob}] /\ job'[p] \in Job
    BY <1>1, <2>3 DEF TypeOK
  <2>7. QED
    BY <1>1, <1>3, <2>1, <2>2, <2>3, <2>4, <2>5, <2>6, ProgressType
<1>4. CASE Fails /\ Return(p, "error", "error") /\ UNCHANGED dropped
  <2>1. "error" \in Endings /\ "error" \in Outcomes
    BY DEF Endings, Outcomes, Statuses
  <2>2. events' \in 0..MaxEvents /\ dropped' \subseteq 1..last
    BY <1>4, FailsType DEF TypeOK
  <2>3. QED
    BY <1>1, <1>2, <1>4, <2>1, <2>2, ReturnType
<1>5. CASE Fails /\ Return(p, "as it is", "error") /\ dropped' = dropped \cup {job[p].row}
  <2>1. "as it is" \in Endings /\ "error" \in Outcomes
    BY DEF Endings, Outcomes, Statuses
  <2>2. job[p].row \in 1..last
    BY <1>1, JobFacts DEF RowsOfJobs, Ids, TypeOK
  <2>3. events' \in 0..MaxEvents /\ dropped' \subseteq 1..last
    BY <1>5, <2>2, FailsType DEF TypeOK
  <2>4. QED
    BY <1>1, <1>2, <1>5, <2>1, <2>3, ReturnType
<1>6. QED
  BY <1>3, <1>4, <1>5 DEF Login

\* The job of one that has read a page.
LEMMA ReadPageJob ==
    ASSUME TypeOK, NEW p \in Working, NEW n \in Nat
    PROVE  /\ ReadPage(p, n) \in Job
           /\ On(job[p].credential, n) \subseteq Listed(job[p].credential)
           /\ ReadPage(p, n).credential = job[p].credential
           /\ ReadPage(p, n).row = job[p].row /\ ReadPage(p, n).outer = job[p].outer
           /\ ReadPage(p, n).seen = job[p].seen \cup On(job[p].credential, n)
           /\ ReadPage(p, n).todo = job[p].todo \cup On(job[p].credential, n)
           /\ ReadPage(p, n).stale = job[p].stale
           /\ ReadPage(p, n).page = n /\ ReadPage(p, n).pages = job[p].pages
           /\ ReadPage(p, n).listed = job[p].listed /\ ReadPage(p, n).whole = job[p].whole
           /\ ReadPage(p, n).alone = job[p].alone
<1>1. job[p] \in Job /\ job[p].credential \in Credentials
  BY JobFacts
<1>2. On(job[p].credential, n) \subseteq Listed(job[p].credential)
  BY DEF On
<1>3. Listed(job[p].credential) \subseteq Users
  BY <1>1, ListFacts
<1> DEFINE found == On(job[p].credential, n)
<1>4. ReadPage(p, n) =
         [job[p] EXCEPT !.page = n, !.seen = @ \cup found, !.todo = @ \cup found]
  BY DEF ReadPage
<1>5. found \subseteq Users
  BY <1>2, <1>3
<1> HIDE DEF found
<1>6. /\ ReadPage(p, n) \in Job
      /\ ReadPage(p, n).credential = job[p].credential
      /\ ReadPage(p, n).row = job[p].row /\ ReadPage(p, n).outer = job[p].outer
      /\ ReadPage(p, n).seen = job[p].seen \cup found
      /\ ReadPage(p, n).todo = job[p].todo \cup found
      /\ ReadPage(p, n).stale = job[p].stale
      /\ ReadPage(p, n).page = n /\ ReadPage(p, n).pages = job[p].pages
      /\ ReadPage(p, n).listed = job[p].listed /\ ReadPage(p, n).whole = job[p].whole
      /\ ReadPage(p, n).alone = job[p].alone
  BY <1>1, <1>4, <1>5 DEF Job
<1>7. QED
  BY <1>2, <1>6 DEF found

\* The jobs when one of them is replaced.
LEMMA ReplacedJob ==
    ASSUME TypeOK, NEW p \in Working, NEW new \in Job, job' = [job EXCEPT ![p] = new]
    PROVE  /\ job' \in [Processes -> Job \cup {NoJob}] /\ job'[p] = new
           /\ \A q \in Processes \ {p} : job'[q] = job[q]
BY JobFacts DEF TypeOK

\* What a step of p that reads a page, or passes one over, may rely on and does:
\* the first page is page 1, and the users on it are seen; after it comes the
\* next page, and an empty one makes an end.
Reads(p) ==
    LET c == job[p].credential IN
    /\ pc' = [pc EXCEPT ![p] = "pages"]
    /\ rows' = SavedAs(job[p].row, "running") \/ UNCHANGED rows
    /\ UNCHANGED dropped
    /\ job' \in [Processes -> Job \cup {NoJob}]
    /\ \A q \in Processes \ {p} : job'[q] = job[q]
    /\ job'[p] \in Job
    /\ job'[p].credential = c /\ job'[p].row = job[p].row /\ job'[p].outer = job[p].outer
    /\ job'[p].listed = job[p].listed
    /\ job'[p].whole =>
          \/ /\ pc[p] = "fetch" /\ job'[p].page = 1
             /\ job'[p].seen = job[p].seen \cup On(c, 1)
             /\ \A u \in Listed(c) : api[c][u] <= job'[p].pages
          \/ /\ pc[p] = "pages" /\ job[p].whole /\ job'[p].pages = job[p].pages
             /\ \/ /\ On(c, job[p].page + 1) = {}
                   /\ job'[p].seen = job[p].seen
                \/ /\ job'[p].page = job[p].page + 1
                   /\ job'[p].seen = job[p].seen \cup On(c, job[p].page + 1)
    /\ job'[p].alone =>
          /\ job[p].alone
          /\ job[p].whole => job'[p].whole
          /\ \E found \in SUBSET Listed(c) :
                /\ job'[p].seen = job[p].seen \cup found
                /\ job'[p].todo = job[p].todo \cup found

LEMMA FirstRead ==
    ASSUME TypeInv, NEW p \in Processes, FetchFirst(p), pc'[p] # "idle"
    PROVE  Reads(p) /\ events' = events
<1> DEFINE c == job[p].credential
<1>1. p \in Working /\ pc[p] = "fetch" /\ TypeOK /\ DOMAIN pc = Processes
  BY DEF FetchFirst, Working, TypeInv, TypeOK
<1>2. \A s, outer : ~Return(p, s, outer)
  BY <1>1 DEF Return
<1>3. PICK plan \in PagesToRead(c) :
         /\ job' = [job EXCEPT ![p] =
               [ReadPage(p, 1) EXCEPT !.pages = plan.pages, !.counted = plan.counted,
                    !.whole = (\A u \in Listed(c) : api[c][u] <= plan.pages),
                    !.alone = job[p].alone /\ (\A u \in Listed(c) : api[c][u] <= plan.pages)]]
         /\ pc' = [pc EXCEPT ![p] = "pages"]
         /\ rows' = SavedAs(job[p].row, "running")
         /\ UNCHANGED <<dropped, events>>
  BY <1>2 DEF FetchFirst
<1>4. plan.pages \in Nat /\ plan.counted \in BOOLEAN
  <2> DEFINE lasts == {n \in 1..MaxPages : /\ \A u \in Listed(c) : api[c][u] <= n
                                           /\ n = 1 \/ On(c, n) # {}}
  <2>1. lasts \subseteq Nat
    OBVIOUS
  <2>2. plan \in [counted : {TRUE}, pages : lasts] \cup [counted : {FALSE}, pages : {PageLimit}]
    BY DEF PagesToRead
  <2> HIDE DEF lasts
  <2>3. CASE plan \in [counted : {TRUE}, pages : lasts]
    BY <2>1, <2>3
  <2>4. CASE plan \in [counted : {FALSE}, pages : {PageLimit}]
    BY <2>4, SyncAssumption
  <2>5. QED
    BY <2>2, <2>3, <2>4
<1> DEFINE enough == \A u \in Listed(c) : api[c][u] <= plan.pages
           mid == ReadPage(p, 1)
           found == On(c, 1)
           new == [mid EXCEPT !.pages = plan.pages, !.counted = plan.counted,
                              !.whole = enough, !.alone = job[p].alone /\ enough]
<1>5. /\ mid \in Job /\ mid.credential = c /\ mid.row = job[p].row
      /\ mid.outer = job[p].outer /\ mid.seen = job[p].seen \cup found
      /\ mid.todo = job[p].todo \cup found /\ mid.page = 1
      /\ mid.listed = job[p].listed /\ mid.alone = job[p].alone
      /\ found \subseteq Listed(c)
  BY <1>1, ReadPageJob
<1>6. job' = [job EXCEPT ![p] = new]
  BY <1>3
<1>7. enough \in BOOLEAN
  OBVIOUS
<1> HIDE DEF mid, enough, found
<1>8. /\ new \in Job /\ new.credential = mid.credential /\ new.row = mid.row
      /\ new.outer = mid.outer /\ new.seen = mid.seen /\ new.todo = mid.todo
      /\ new.page = mid.page /\ new.pages = plan.pages /\ new.listed = mid.listed
      /\ new.whole = enough /\ new.alone = (mid.alone /\ enough)
  BY <1>4, <1>5, <1>7 DEF Job
<1> HIDE DEF new
<1>9. /\ job' \in [Processes -> Job \cup {NoJob}] /\ job'[p] = new
      /\ \A q \in Processes \ {p} : job'[q] = job[q]
  BY <1>1, <1>6, <1>8, ReplacedJob
<1>10. new.whole => /\ new.page = 1 /\ new.seen = job[p].seen \cup On(c, 1)
                    /\ \A u \in Listed(c) : api[c][u] <= new.pages
  BY <1>5, <1>8 DEF enough, found
<1>11. new.alone => /\ job[p].alone /\ new.whole
                    /\ \E f \in SUBSET Listed(c) : /\ new.seen = job[p].seen \cup f
                                                   /\ new.todo = job[p].todo \cup f
  BY <1>5, <1>8
<1>12. QED
  BY <1>1, <1>3, <1>5, <1>8, <1>9, <1>10, <1>11 DEF Reads

LEMMA NextRead ==
    ASSUME TypeInv, NEW p \in Processes, FetchPage(p), pc'[p] # "idle"
    PROVE  Reads(p) /\ events' \in 0..MaxEvents
<1> DEFINE c == job[p].credential
           n == job[p].page + 1
<1>1. /\ p \in Working /\ pc[p] = "pages" /\ TypeOK /\ DOMAIN pc = Processes
      /\ job[p] \in Job
  BY DEF FetchPage, Working, TypeInv, TypeOK
<1>2. n \in Nat /\ job[p].pages \in Nat
  BY <1>1 DEF Job
<1>3. \A s, outer : ~Return(p, s, outer)
  BY <1>1 DEF Return
<1>4. /\ pc' = pc /\ pc' = [pc EXCEPT ![p] = "pages"]
      /\ UNCHANGED <<rows, dropped>> /\ events' \in 0..MaxEvents
  <2>1. UNCHANGED <<pc, rows, dropped>>
    BY <1>3 DEF FetchPage
  <2>2. events' \in 0..MaxEvents
    BY <1>1, <1>3, FailsType DEF FetchPage, TypeOK
  <2>3. pc = [pc EXCEPT ![p] = "pages"]
    BY <1>1 DEF TypeOK
  <2>4. QED
    BY <2>1, <2>2, <2>3
<1>5. CASE job' = [job EXCEPT ![p] = ReadPage(p, n)]
  <2> DEFINE new == ReadPage(p, n)
             found == On(c, n)
  <2>1. /\ new \in Job /\ new.credential = c /\ new.row = job[p].row
        /\ new.outer = job[p].outer /\ new.seen = job[p].seen \cup found
        /\ new.todo = job[p].todo \cup found /\ new.page = n /\ new.pages = job[p].pages
        /\ new.listed = job[p].listed /\ new.whole = job[p].whole
        /\ new.alone = job[p].alone /\ found \subseteq Listed(c)
    BY <1>1, <1>2, ReadPageJob
  <2> HIDE DEF new
  <2>2. /\ job' \in [Processes -> Job \cup {NoJob}] /\ job'[p] = new
        /\ \A q \in Processes \ {p} : job'[q] = job[q]
    BY <1>1, <1>5, <2>1, ReplacedJob DEF new
  <2>3. QED
    BY <1>1, <1>4, <2>1, <2>2 DEF Reads
<1>6. CASE On(c, n) = {} /\ job' = [job EXCEPT ![p] = [job[p] EXCEPT !.page = job[p].pages]]
  <2> DEFINE new == [job[p] EXCEPT !.page = job[p].pages]
  <2>1. job' = [job EXCEPT ![p] = new]
    BY <1>6
  <2>2. /\ new \in Job /\ new.credential = c /\ new.row = job[p].row
        /\ new.outer = job[p].outer /\ new.seen = job[p].seen
        /\ new.todo = job[p].todo /\ new.pages = job[p].pages
        /\ new.listed = job[p].listed /\ new.whole = job[p].whole
        /\ new.alone = job[p].alone
    BY <1>1, <1>2 DEF Job
  <2> HIDE DEF new
  <2>3. /\ job' \in [Processes -> Job \cup {NoJob}] /\ job'[p] = new
        /\ \A q \in Processes \ {p} : job'[q] = job[q]
    BY <1>1, <2>1, <2>2, ReplacedJob
  <2>4. \E f \in SUBSET Listed(c) : /\ new.seen = job[p].seen \cup f
                                    /\ new.todo = job[p].todo \cup f
    <3>1. {} \in SUBSET Listed(c) /\ new.seen = job[p].seen \cup {}
          /\ new.todo = job[p].todo \cup {}
      BY <2>2
    <3>2. QED
      BY <3>1
  <2>5. QED
    BY <1>1, <1>4, <1>6, <2>2, <2>3, <2>4 DEF Reads
<1>7. ASSUME NEW next \in {job[p].pages, n},
             job' = [job EXCEPT ![p].page = next, ![p].whole = FALSE, ![p].alone = FALSE]
      PROVE  Reads(p)
  <2> DEFINE new == [job[p] EXCEPT !.page = next, !.whole = FALSE, !.alone = FALSE]
  <2>1. job' = [job EXCEPT ![p] = new]
    BY <1>7
  <2>2. next \in Nat
    BY <1>2
  <2>3. /\ new \in Job /\ new.credential = c /\ new.row = job[p].row
        /\ new.outer = job[p].outer /\ new.listed = job[p].listed
        /\ new.whole = FALSE /\ new.alone = FALSE
    BY <1>1, <2>2 DEF Job
  <2> HIDE DEF new
  <2>4. /\ job' \in [Processes -> Job \cup {NoJob}] /\ job'[p] = new
        /\ \A q \in Processes \ {p} : job'[q] = job[q]
    BY <1>1, <2>1, <2>3, ReplacedJob
  <2>5. QED
    BY <1>4, <2>3, <2>4 DEF Reads
<1>8. QED
  <2>1. CASE \E next \in {job[p].pages} \cup {m \in {n} : job[p].counted} :
                job' = [job EXCEPT ![p].page = next, ![p].whole = FALSE, ![p].alone = FALSE]
    BY <1>4, <1>7, <2>1
  <2>2. CASE job' = [job EXCEPT ![p] =
                IF On(c, n) = {} THEN [job[p] EXCEPT !.page = job[p].pages] ELSE ReadPage(p, n)]
    <3>1. CASE On(c, n) = {}
      BY <1>4, <1>6, <2>2, <3>1
    <3>2. CASE On(c, n) # {}
      BY <1>4, <1>5, <2>2, <3>2
    <3>3. QED
      BY <3>1, <3>2
  <2>3. QED
    BY <1>3, <2>1, <2>2 DEF FetchPage

\* Reading ends the synchronisation or goes on.
LEMMA FetchSteps ==
    ASSUME TypeInv, NEW p \in Processes, FetchFirst(p) \/ FetchPage(p)
    PROVE  /\ p \in Working /\ pc[p] \in {"fetch", "pages"} /\ UsersUnchanged
           /\ events' \in 0..MaxEvents
           /\ \/ Return(p, "running", "error") /\ dropped' = dropped \cup {job[p].row}
              \/ Return(p, "error", "error") /\ UNCHANGED dropped
              \/ Reads(p)
<1>1. p \in Working /\ pc[p] \in {"fetch", "pages"} /\ UsersUnchanged
  BY DEF FetchFirst, FetchPage, Working
<1>2. CASE pc'[p] # "idle"
  <2>1. events' \in 0..MaxEvents /\ Reads(p)
    BY <1>2, FirstRead, NextRead DEF TypeInv, TypeOK
  <2>2. QED
    BY <1>1, <2>1
<1>3. CASE pc'[p] = "idle"
  <2>1. DOMAIN pc = Processes
    BY DEF TypeInv, TypeOK
  <2>2. pc' # [pc EXCEPT ![p] = "pages"] /\ pc' # pc
    BY <1>1, <1>3, <2>1
  <2>3. Fails /\ \/ Return(p, "running", "error") /\ dropped' = dropped \cup {job[p].row}
                 \/ Return(p, "error", "error") /\ UNCHANGED dropped
    BY <2>2 DEF FetchFirst, FetchPage
  <2>4. events' \in 0..MaxEvents
    BY <2>3, FailsType DEF TypeInv
  <2>5. QED
    BY <1>1, <2>3, <2>4
<1>4. QED
  BY <1>2, <1>3

LEMMA FetchType ==
    ASSUME TypeInv, NEW p \in Processes, FetchFirst(p) \/ FetchPage(p) PROVE TypeInv'
<1> USE DEF TypeInv
<1>1. p \in Working /\ UsersUnchanged /\ events' \in 0..MaxEvents
  BY FetchSteps
<1>2. /\ "running" \in Endings /\ "error" \in Endings /\ "error" \in Outcomes
      /\ "pages" \in Steps \ {"idle"}
  BY DEF Endings, Outcomes, Statuses, Steps
<1>3. CASE Return(p, "running", "error") /\ dropped' = dropped \cup {job[p].row}
  <2>1. job[p].row \in 1..last
    BY <1>1, JobFacts DEF RowsOfJobs, Ids, TypeOK
  <2>2. dropped' \subseteq 1..last
    BY <1>3, <2>1 DEF TypeOK
  <2>3. QED
    BY <1>1, <1>2, <1>3, <2>2, ReturnType
<1>4. CASE Return(p, "error", "error") /\ UNCHANGED dropped
  <2>1. dropped' \subseteq 1..last
    BY <1>4 DEF TypeOK
  <2>2. QED
    BY <1>1, <1>2, <1>4, <2>1, ReturnType
<1>5. CASE Reads(p)
  <2>1. SyncStep /\ UNCHANGED <<owner, credentials>>
    BY <1>1 DEF UsersUnchanged, SyncStep
  <2>2. Local' \subseteq Users /\ owner' \in [Local' -> credentials \cup {None}]
    BY <2>1, OwnersType
  <2>3. /\ pc' = [pc EXCEPT ![p] = "pages"] /\ UNCHANGED dropped
        /\ rows' = SavedAs(job[p].row, "running") \/ UNCHANGED rows
        /\ job' \in [Processes -> Job \cup {NoJob}]
        /\ \A q \in Processes \ {p} : job'[q] = job[q]
        /\ job'[p] \in Job /\ job'[p].credential = job[p].credential
        /\ job'[p].row = job[p].row /\ job'[p].outer = job[p].outer
    BY <1>5 DEF Reads
  <2>4. /\ rows' \in [DOMAIN rows -> StatusRow]
        /\ \A x \in DOMAIN rows : rows'[x].credential = rows[x].credential
    <3>1. CASE rows' = SavedAs(job[p].row, "running")
      <4>1. job[p].row \in Ids /\ "running" \in Statuses
        BY <1>1, JobFacts DEF Statuses
      <4>2. QED
        BY <3>1, <4>1, SavedType
    <3>2. CASE UNCHANGED rows
      BY <3>2 DEF TypeOK
    <3>3. QED
      BY <2>3, <3>1, <3>2
  <2>5. QED
    BY <1>1, <1>2, <2>1, <2>2, <2>3, <2>4, ProgressType
<1>6. QED
  BY <1>3, <1>4, <1>5, FetchSteps

\* The job of one that has read the list.
LEMMA ReadJob ==
    ASSUME TypeOK, NEW p \in Processes, FetchEnds(p)
    PROVE  /\ p \in Working /\ pc[p] = "pages"
           /\ job' \in [Processes -> Job \cup {NoJob}]
           /\ \A q \in Processes \ {p} : job'[q] = job[q]
           /\ job'[p] \in Job /\ job'[p].credential = job[p].credential
           /\ job'[p].row = job[p].row /\ job'[p].outer = job[p].outer
           /\ job'[p].seen = job[p].seen /\ job'[p].todo = job[p].todo
           /\ job'[p].listed = job[p].listed /\ job'[p].whole = job[p].whole
           /\ job'[p].alone = job[p].alone
<1>1. p \in Working /\ pc[p] = "pages"
  BY DEF FetchEnds, Working
<1>2. job[p] \in Job
  BY <1>1, JobFacts
<1> DEFINE new == [job[p] EXCEPT !.page = 0, !.pages = 0, !.counted = FALSE]
<1>3. job' = [job EXCEPT ![p] = new]
  BY DEF FetchEnds
<1>4. /\ new \in Job /\ new.credential = job[p].credential
      /\ new.row = job[p].row /\ new.outer = job[p].outer
      /\ new.seen = job[p].seen /\ new.todo = job[p].todo
      /\ new.listed = job[p].listed /\ new.whole = job[p].whole
      /\ new.alone = job[p].alone
  BY <1>2 DEF Job
<1> HIDE DEF new
<1>5. /\ job' \in [Processes -> Job \cup {NoJob}] /\ job'[p] = new
      /\ \A q \in Processes \ {p} : job'[q] = job[q]
  BY <1>1, <1>3, <1>4, ReplacedJob
<1>6. QED
  BY <1>1, <1>4, <1>5

LEMMA FetchEndsType == ASSUME TypeInv, NEW p \in Processes, FetchEnds(p) PROVE TypeInv'
<1> USE DEF TypeInv
<1>1. /\ p \in Working /\ UsersUnchanged /\ UNCHANGED <<rows, dropped, events>>
      /\ pc' = [pc EXCEPT ![p] = "check"]
  BY DEF FetchEnds, Working
<1>2. "check" \in Steps \ {"idle"}
  BY DEF Steps
<1>3. /\ rows' \in [DOMAIN rows -> StatusRow]
      /\ \A x \in DOMAIN rows : rows'[x].credential = rows[x].credential
  BY <1>1 DEF TypeOK
<1>4. SyncStep /\ UNCHANGED <<owner, credentials>> /\ events' \in 0..MaxEvents
  BY <1>1 DEF UsersUnchanged, SyncStep, TypeOK
<1>5. Local' \subseteq Users /\ owner' \in [Local' -> credentials \cup {None}]
  BY <1>4, OwnersType
<1>6. /\ job' \in [Processes -> Job \cup {NoJob}]
      /\ \A q \in Processes \ {p} : job'[q] = job[q]
      /\ job'[p] \in Job /\ job'[p].credential = job[p].credential
      /\ job'[p].row = job[p].row /\ job'[p].outer = job[p].outer
  BY ReadJob
<1>7. QED
  BY <1>1, <1>2, <1>3, <1>4, <1>5, <1>6, ProgressType

\* Rows, jobs and users that a step of p leaves alone.
LEMMA StayType ==
    ASSUME TypeInv, NEW p \in Working, NEW step \in Steps \ {"idle"}, Goto(p, step),
           UNCHANGED rows, Local' \subseteq Users,
           owner' \in [Local' -> credentials \cup {None}],
           SyncStep, UNCHANGED dropped, events' \in 0..MaxEvents
    PROVE  TypeInv'
<1> USE DEF TypeInv
<1>1. pc' = [pc EXCEPT ![p] = step] /\ job' = job
  BY DEF Goto
<1>2. rows' \in [DOMAIN rows -> StatusRow]
  BY DEF TypeOK
<1>3. job' \in [Processes -> Job \cup {NoJob}] /\ job'[p] \in Job
  BY <1>1, JobFacts DEF TypeOK
<1>4. QED
  BY <1>1, <1>2, <1>3, ProgressType

LEMMA CheckStoppedType == ASSUME TypeInv, NEW p \in Processes, CheckStopped(p) PROVE TypeInv'
<1> USE DEF TypeInv
<1>1. p \in Working
  BY DEF CheckStopped, Working
<1>2. UsersUnchanged /\ UNCHANGED <<dropped, events>>
  BY DEF CheckStopped
<1>3. SyncStep /\ events' \in 0..MaxEvents /\ dropped' \subseteq 1..last
  BY <1>2 DEF UsersUnchanged, TypeOK
<1>4. Local' \subseteq Users /\ owner' \in [Local' -> credentials \cup {None}]
  BY <1>2, OwnersType DEF UsersUnchanged, SyncStep
<1>5. ASSUME NEW step \in {"remove", "user"}, Goto(p, step), UNCHANGED rows PROVE TypeInv'
  <2>1. step \in Steps \ {"idle"}
    BY DEF Steps
  <2>2. QED
    BY <1>1, <1>2, <1>3, <1>4, <1>5, <2>1, StayType
<1>6. CASE Return(p, "as it is", "completed")
  <2>1. "as it is" \in Endings /\ "completed" \in Outcomes
    BY DEF Endings, Outcomes, Statuses
  <2>2. QED
    BY <1>1, <1>2, <1>3, <1>6, <2>1, ReturnType
<1>7. QED
  BY <1>5, <1>6 DEF CheckStopped

LEMMA ProcessUserType == ASSUME TypeInv, NEW p \in Processes, ProcessUser(p) PROVE TypeInv'
<1> USE DEF TypeInv
<1>1. p \in Working /\ HasRow(p)
  BY DEF ProcessUser, Working
<1>2. SyncStep /\ UNCHANGED <<dropped, events>> /\ pc' = [pc EXCEPT ![p] = "check"]
  BY DEF ProcessUser
<1>3. events' \in 0..MaxEvents /\ "check" \in Steps \ {"idle"} /\ "running" \in Statuses
  BY <1>2 DEF TypeOK, Steps, Statuses
<1>4. /\ rows' \in [DOMAIN rows -> StatusRow]
      /\ \A x \in DOMAIN rows : rows'[x].credential = rows[x].credential
  BY <1>1, <1>3, JobFacts, SavedType DEF ProcessUser
<1>5. job[p].credential \in credentials
  BY <1>1 DEF RowsOfJobs, HasRow, TypeOK
<1>6. PICK u \in job[p].todo :
         \/ /\ owner' = With(owner, u, job[p].credential)
            /\ job' = [job EXCEPT ![p].todo = @ \ {u}]
         \/ /\ job' = [job EXCEPT ![p].todo = @ \ {u}, ![p].alone = FALSE]
            /\ UNCHANGED owner
  BY DEF ProcessUser
<1>7. Local' \subseteq Users /\ owner' \in [Local' -> credentials \cup {None}]
  <2>1. u \in Users
    BY <1>1, <1>6, JobFacts
  <2>2. CASE owner' = With(owner, u, job[p].credential)
    BY <1>5, <2>1, <2>2 DEF With, Local, TypeOK
  <2>3. CASE UNCHANGED owner
    BY <1>2, <2>3, OwnersType DEF SyncStep
  <2>4. QED
    BY <1>6, <2>2, <2>3
<1>8. /\ job' \in [Processes -> Job \cup {NoJob}]
      /\ \A q \in Processes \ {p} : job'[q] = job[q]
      /\ job'[p] \in Job /\ job'[p].credential = job[p].credential
      /\ job'[p].row = job[p].row /\ job'[p].outer = job[p].outer
  <2> DEFINE some == [job[p] EXCEPT !.todo = @ \ {u}]
             other == [job[p] EXCEPT !.todo = @ \ {u}, !.alone = FALSE]
  <2>1. /\ some \in Job /\ some.credential = job[p].credential
        /\ some.row = job[p].row /\ some.outer = job[p].outer
        /\ other \in Job /\ other.credential = job[p].credential
        /\ other.row = job[p].row /\ other.outer = job[p].outer
    BY <1>1, JobFacts DEF Job
  <2>2. job' = [job EXCEPT ![p] = some] \/ job' = [job EXCEPT ![p] = other]
    BY <1>6
  <2> HIDE DEF some, other
  <2>3. QED
    BY <2>1, <2>2 DEF TypeOK
<1>9. QED
  BY <1>1, <1>2, <1>3, <1>4, <1>7, <1>8, ProgressType

\* The job of one that has chosen the users to remove.
LEMMA CollectedJob ==
    ASSUME TypeOK, NEW p \in Processes, CollectStale(p)
    PROVE  /\ p \in Working /\ pc[p] = "remove"
           /\ job' \in [Processes -> Job \cup {NoJob}]
           /\ \A q \in Processes \ {p} : job'[q] = job[q]
           /\ job'[p] \in Job /\ job'[p].credential = job[p].credential
           /\ job'[p].row = job[p].row /\ job'[p].outer = job[p].outer
           /\ job'[p].stale = Stale(p)
           /\ job'[p].listed = job[p].listed /\ job'[p].whole = job[p].whole
           /\ job'[p].alone = job[p].alone
<1>1. p \in Working /\ pc[p] = "remove"
  BY DEF CollectStale, Working
<1>2. job[p] \in Job
  BY <1>1, JobFacts
<1> DEFINE stale == Stale(p)
           new == [job[p] EXCEPT !.stale = stale, !.seen = {}]
<1>3. job' = [job EXCEPT ![p] = new]
  BY DEF CollectStale
<1>4. stale \subseteq Users
  BY DEF Stale, Tied, TypeOK
<1> HIDE DEF stale
<1>5. /\ new \in Job /\ new.credential = job[p].credential
      /\ new.row = job[p].row /\ new.outer = job[p].outer
      /\ new.stale = stale
      /\ new.listed = job[p].listed /\ new.whole = job[p].whole
      /\ new.alone = job[p].alone
  BY <1>2, <1>4 DEF Job
<1> HIDE DEF new
<1>6. /\ job' \in [Processes -> Job \cup {NoJob}] /\ job'[p] = new
      /\ \A q \in Processes \ {p} : job'[q] = job[q]
  BY <1>1, <1>3, <1>5, ReplacedJob
<1>7. QED
  BY <1>1, <1>5, <1>6 DEF stale

LEMMA CollectStaleType == ASSUME TypeInv, NEW p \in Processes, CollectStale(p) PROVE TypeInv'
<1> USE DEF TypeInv
<1>1. /\ p \in Working /\ UsersUnchanged /\ UNCHANGED <<rows, dropped, events>>
      /\ pc' = [pc EXCEPT ![p] = "delete"]
  BY DEF CollectStale, Working
<1>2. /\ rows' \in [DOMAIN rows -> StatusRow]
      /\ \A x \in DOMAIN rows : rows'[x].credential = rows[x].credential
  BY <1>1 DEF TypeOK
<1>3. SyncStep /\ UNCHANGED <<owner, credentials>> /\ events' \in 0..MaxEvents
  BY <1>1 DEF UsersUnchanged, SyncStep, TypeOK
<1>4. Local' \subseteq Users /\ owner' \in [Local' -> credentials \cup {None}]
  BY <1>3, OwnersType
<1>5. /\ job' \in [Processes -> Job \cup {NoJob}]
      /\ \A q \in Processes \ {p} : job'[q] = job[q]
      /\ job'[p] \in Job /\ job'[p].credential = job[p].credential
      /\ job'[p].row = job[p].row /\ job'[p].outer = job[p].outer
  BY CollectedJob
<1>6. "delete" \in Steps \ {"idle"}
  BY DEF Steps
<1>7. QED
  BY <1>1, <1>2, <1>3, <1>4, <1>5, <1>6, ProgressType

\* What the removal of users does to the jobs.
LEMMA ForgottenJobs ==
    ASSUME TypeOK, NEW p \in Processes, DeleteStale(p)
    PROVE  /\ p \in Working /\ pc[p] = "delete"
           /\ job' \in [Processes -> Job \cup {NoJob}]
           /\ \A q \in Processes : q \notin Working => job'[q] = NoJob
           /\ \A q \in Working : /\ job'[q] \in Job
                                 /\ job'[q].credential = job[q].credential
                                 /\ job'[q].row = job[q].row /\ job'[q].outer = job[q].outer
                                 /\ job'[q].seen = job[q].seen /\ job'[q].todo = job[q].todo
                                 /\ job'[q].stale \subseteq job[q].stale
                                 /\ job'[q].page = job[q].page /\ job'[q].pages = job[q].pages
                                 /\ job'[q].listed = job[q].listed
                                 /\ job'[q].whole = job[q].whole
                                 /\ job'[q].alone = job[q].alone
<1>1. p \in Working /\ pc[p] = "delete"
  BY DEF DeleteStale, Working
<1> DEFINE gone == job[p].stale
<1>2. job' = [q \in Processes |->
                IF q \in Working THEN [job[q] EXCEPT !.stale = @ \ gone] ELSE job[q]]
  BY DEF DeleteStale, Forget
<1> HIDE DEF gone
<1>3. ASSUME NEW q \in Working
      PROVE  /\ job'[q] \in Job
             /\ job'[q].credential = job[q].credential
             /\ job'[q].row = job[q].row /\ job'[q].outer = job[q].outer
             /\ job'[q].seen = job[q].seen /\ job'[q].todo = job[q].todo
             /\ job'[q].stale \subseteq job[q].stale
             /\ job'[q].page = job[q].page /\ job'[q].pages = job[q].pages
             /\ job'[q].listed = job[q].listed
             /\ job'[q].whole = job[q].whole
             /\ job'[q].alone = job[q].alone
  <2>1. q \in Processes /\ job[q] \in Job
    BY JobFacts
  <2>2. job'[q] = [job[q] EXCEPT !.stale = @ \ gone]
    BY <1>2, <2>1
  <2>3. QED
    BY <2>1, <2>2 DEF Job
<1>4. \A q \in Processes : q \notin Working => job'[q] = NoJob
  BY <1>2 DEF TypeOK
<1>5. job' \in [Processes -> Job \cup {NoJob}]
  BY <1>2, <1>3, <1>4
<1>6. QED
  BY <1>1, <1>3, <1>4, <1>5

LEMMA DeleteStaleType == ASSUME TypeInv, NEW p \in Processes, DeleteStale(p) PROVE TypeInv'
<1> USE DEF TypeInv
<1>1. /\ p \in Working /\ SyncStep /\ UNCHANGED <<rows, dropped, events>>
      /\ pc' = [pc EXCEPT ![p] = "finish"]
  BY DEF DeleteStale, Working
<1>2. /\ rows' \in [DOMAIN rows -> StatusRow]
      /\ \A x \in DOMAIN rows : rows'[x].credential = rows[x].credential
  BY <1>1 DEF TypeOK
<1>3. events' \in 0..MaxEvents /\ "finish" \in Steps \ {"idle"}
  BY <1>1 DEF TypeOK, Steps
<1>4. Local' \subseteq Users /\ owner' \in [Local' -> credentials \cup {None}]
  BY DEF DeleteStale, Without, Local, TypeOK
<1>5. /\ job' \in [Processes -> Job \cup {NoJob}]
      /\ \A q \in Processes : q \notin Working => job'[q] = NoJob
      /\ \A q \in Working : /\ job'[q] \in Job /\ job'[q].credential = job[q].credential
                            /\ job'[q].row = job[q].row /\ job'[q].outer = job[q].outer
  BY ForgottenJobs
<1>6. QED
  BY <1>1, <1>2, <1>3, <1>4, <1>5, AdvanceType

LEMMA EndsType ==
    ASSUME TypeInv, NEW p \in Processes, Complete(p) \/ FailSync(p) \/ LoseRow(p)
    PROVE  TypeInv'
<1> USE DEF TypeInv
<1>1. p \in Working
  BY DEF Complete, FailSync, LoseRow, Working
<1>2. UsersUnchanged /\ dropped' \subseteq 1..last
  BY DEF Complete, FailSync, LoseRow, TypeOK
<1>3. events' \in 0..MaxEvents
  BY FailsType DEF Complete, FailSync, LoseRow, TypeOK
<1>4. PICK status \in {"completed", "error", "as it is"} : Return(p, status, "error")
  BY DEF Complete, FailSync, LoseRow
<1>5. status \in Endings /\ "error" \in Outcomes
  BY DEF Endings, Outcomes, Statuses
<1>6. QED
  BY <1>1, <1>2, <1>3, <1>4, <1>5, ReturnType

LEMMA KillType == ASSUME TypeInv, NEW p \in Processes, Kill(p) PROVE TypeInv'
<1> USE DEF TypeInv
<1>1. p \in Working /\ pc' = [pc EXCEPT ![p] = "idle"] /\ job' = [job EXCEPT ![p] = NoJob]
  BY DEF Kill
<1>2. UNCHANGED <<rows, owner, api, credentials, last>>
  BY DEF Kill, UsersUnchanged, SyncStep
<1>3. events' \in 0..MaxEvents
  BY FailsType DEF Kill
<1>4. pc' \in [Processes -> Steps] /\ Working' = Working \ {p}
  BY <1>1 DEF Working, TypeOK, Steps
<1>5. dropped' \subseteq 1..last'
  <2>1. job[p].row \in 1..last /\ job[p].outer \in 0..last
    BY <1>1, JobFacts DEF Job, RowsOfJobs, Ids, TypeOK
  <2>2. QED
    BY <1>2, <2>1 DEF Kill, TypeOK
<1>6. \A q \in Processes : job'[q] = IF q = p THEN NoJob ELSE job[q]
  BY <1>1 DEF TypeOK
<1>7. job' \in [Processes -> Job \cup {NoJob}]
  BY <1>1 DEF TypeOK
<1>8. \A q \in Processes :
         IF q \in Working' THEN job'[q] \in Job /\ (job'[q].outer = 0 <=> q \in Web)
         ELSE job'[q] = NoJob
  BY <1>4, <1>6 DEF TypeOK
<1>9. TypeOK'
  BY <1>2, <1>3, <1>4, <1>5, <1>7, <1>8 DEF TypeOK, Local, Steps
<1>10. RowsOfJobs'
  <2> SUFFICES ASSUME NEW q \in Working'
               PROVE  /\ job'[q].row <= last' /\ job'[q].outer <= last'
                      /\ job'[q].row \in DOMAIN rows'
                            => rows'[job'[q].row].credential = job'[q].credential
    BY DEF RowsOfJobs, HasRow
  <2>1. q \in Working /\ job'[q] = job[q]
    BY <1>4, <1>6 DEF Working
  <2>2. QED
    BY <1>2, <2>1 DEF RowsOfJobs, HasRow
<1>11. QED
  BY <1>9, <1>10

LEMMA NextType == TypeInv /\ [Next]_vars => TypeInv'
<1> SUFFICES ASSUME TypeInv, [Next]_vars PROVE TypeInv'
  OBVIOUS
<1>1. ASSUME NEW c \in Credentials, NEW list \in Lists, ApiChange(c, list) PROVE TypeInv'
  BY <1>1, ApiChangeType
<1>2. ASSUME NEW c \in Credentials, StopSync(c) \/ DeleteApiCredential(c) PROVE TypeInv'
  BY <1>2, PagesType
<1>3. ASSUME NEW c \in Credentials, NEW w \in Web, StartRequest(w, c) PROVE TypeInv'
  BY <1>3, StartRequestType
<1>4. ASSUME NEW c \in Credentials, NEW k \in Celery, StartTask(k, c) PROVE TypeInv'
  BY <1>4, StartTaskType
<1>5. ASSUME ClearSyncData PROVE TypeInv'
  BY <1>5, ClearType
<1>6. ASSUME NEW p \in Processes, Work(p) PROVE TypeInv'
  BY <1>6, LoginType, FetchType, FetchEndsType, CheckStoppedType, ProcessUserType,
     CollectStaleType, DeleteStaleType, EndsType DEF Work
<1>7. ASSUME NEW p \in Processes, Kill(p) PROVE TypeInv'
  BY <1>7, KillType
<1>8. ASSUME UNCHANGED vars PROVE TypeInv'
  BY <1>8 DEF vars, TypeInv, TypeOK, RowsOfJobs, HasRow, Working, Local
<1>9. QED
  BY <1>1, <1>2, <1>3, <1>4, <1>5, <1>6, <1>7, <1>8 DEF Next

LEMMA Typed == Spec => []TypeInv
<1>1. Init => TypeInv
  BY InitType
<1>2. TypeInv /\ [Next]_vars => TypeInv'
  BY NextType
<1>3. QED
  BY <1>1, <1>2, PTL DEF Spec

\* Whatever synchronisations, pages and failures do, rows belong to credentials
\* that exist, users are tied to existing ones, and jobs are well-formed.
THEOREM TypeCorrect == Spec => []TypeOK
<1>1. TypeInv => TypeOK
  BY DEF TypeInv
<1>2. QED
  BY <1>1, Typed, PTL

-----------------------------------------------------------------------------
(* What a synchronisation has listed, and what an undisturbed one has done. *)

\* The users listed since the start are listed.  As long as the reading can miss
\* none of them, each has been seen or is on a page that is yet to be read; then
\* all have been seen, and none is chosen for removal.  An undisturbed
\* synchronisation is the only one, and its list is as it was when it began; it
\* has seen what the API lists, and saved what it has no longer to do.
SyncOK(p) ==
    LET c == job[p].credential IN
    /\ pc[p] \in {"login", "fetch"} => job[p].seen = {} /\ job[p].todo = {}
    /\ job[p].listed \subseteq Listed(c)
    /\ job[p].whole =>
          /\ pc[p] = "pages" => \A u \in job[p].listed :
                /\ u \in job[p].seen \/ api[c][u] > job[p].page
                /\ api[c][u] <= job[p].pages
          /\ pc[p] \in {"check", "user", "remove"} => job[p].listed \subseteq job[p].seen
          /\ pc[p] = "delete" => job[p].stale \cap job[p].listed = {}
    /\ job[p].alone =>
          /\ Working = {p} /\ job[p].whole /\ job[p].listed = Listed(c)
          /\ pc[p] = "pages" =>
                job[p].seen \subseteq Listed(c) /\ job[p].seen \subseteq job[p].todo
          /\ pc[p] \in {"check", "user", "remove"} =>
                job[p].seen \subseteq Listed(c) /\ job[p].seen \ job[p].todo \subseteq Tied(c)
          /\ pc[p] = "remove" => job[p].todo = {}
          /\ pc[p] = "delete" => Tied(c) \ job[p].stale = Listed(c)
          /\ pc[p] = "finish" => Tied(c) = Listed(c)

SyncInv == TypeInv /\ \A p \in Working : SyncOK(p)

\* The synchronisations that go on are as they were when another one ends.
LEMMA EndSync ==
    ASSUME SyncInv, NEW p \in Working, pc' = [pc EXCEPT ![p] = "idle"],
           job' = [job EXCEPT ![p] = NoJob], UNCHANGED <<api, owner>>, TypeInv'
    PROVE  SyncInv'
<1>1. p \in Processes /\ pc \in [Processes -> Steps] /\ DOMAIN job = Processes
  BY DEF SyncInv, TypeInv, TypeOK, Working, Steps
<1>2. Working' = Working \ {p}
  BY <1>1 DEF Working
<1>3. ASSUME NEW q \in Working' PROVE SyncOK(q)'
  <2>1. /\ q \in Working /\ q \in Processes /\ q # p
        /\ pc'[q] = pc[q] /\ job'[q] = job[q]
    BY <1>1, <1>2 DEF Working
  <2>2. SyncOK(q)
    BY <2>1 DEF SyncInv
  <2>3. ~job[q].alone
    BY <2>1, <2>2 DEF SyncOK
  <2>4. QED
    BY <2>1, <2>2, <2>3 DEF SyncOK, Listed
<1>4. QED
  BY <1>3 DEF SyncInv

\* A job that is disturbed, or not the only one, keeps what is known of it, as
\* long as it and the API stay the same but for rows it is no longer to remove.
LEMMA KeepSync ==
    ASSUME NEW q, q \in Working, SyncOK(q), ~job'[q].alone, pc'[q] = pc[q],
           job'[q].credential = job[q].credential,
           job'[q].seen = job[q].seen, job'[q].todo = job[q].todo,
           job'[q].stale \subseteq job[q].stale,
           job'[q].page = job[q].page, job'[q].pages = job[q].pages,
           job'[q].listed = job[q].listed, job'[q].whole = job[q].whole,
           UNCHANGED api
    PROVE  SyncOK(q)'
<1>1. job'[q].whole /\ pc'[q] = "delete" => job'[q].stale \cap job'[q].listed = {}
  BY DEF SyncOK
<1>2. QED
  BY <1>1 DEF SyncOK, Listed

\* So are the others when one goes on.
LEMMA GoOnSync ==
    ASSUME SyncInv, NEW p \in Working, NEW step \in Steps \ {"idle"},
           pc' = [pc EXCEPT ![p] = step], \A q \in Processes \ {p} : job'[q] = job[q],
           UNCHANGED api, TypeInv', SyncOK(p)'
    PROVE  SyncInv'
<1>1. p \in Processes /\ pc \in [Processes -> Steps]
  BY DEF SyncInv, TypeInv, TypeOK, Working, Steps
<1>2. Working' = Working
  BY <1>1 DEF Working
<1>3. ASSUME NEW q \in Working', q # p PROVE SyncOK(q)'
  <2>1. q \in Working /\ q \in Processes /\ pc'[q] = pc[q] /\ job'[q] = job[q]
    BY <1>1, <1>2, <1>3 DEF Working
  <2>2. SyncOK(q)
    BY <2>1 DEF SyncInv
  <2>3. ~job'[q].alone
    BY <1>3, <2>1, <2>2 DEF SyncOK
  <2>4. QED
    BY <2>1, <2>2, <2>3, KeepSync
<1>4. QED
  BY <1>3 DEF SyncInv

\* A page leaves no synchronisation undisturbed.
LEMMA PageSync ==
    ASSUME SyncInv, job' = Disturbed(job) \/ job' = Forget(Disturbed(job), Local),
           UNCHANGED <<api, pc>>, TypeInv'
    PROVE  SyncInv'
<1>1. ASSUME NEW q \in Working' PROVE SyncOK(q)'
  <2>1. q \in Working /\ pc'[q] = pc[q]
    BY DEF Working
  <2>2. /\ job'[q].credential = job[q].credential
        /\ job'[q].seen = job[q].seen /\ job'[q].todo = job[q].todo
        /\ job'[q].stale \subseteq job[q].stale
        /\ job'[q].page = job[q].page /\ job'[q].pages = job[q].pages
        /\ job'[q].listed = job[q].listed /\ job'[q].whole = job[q].whole
        /\ job'[q].alone = FALSE
    BY <2>1, PageJobs DEF SyncInv, TypeInv
  <2>3. SyncOK(q)
    BY <2>1 DEF SyncInv
  <2>4. QED
    BY <2>1, <2>2, <2>3, KeepSync
<1>2. QED
  BY <1>1 DEF SyncInv

\* A synchronisation that begins is undisturbed when it is the only one.
LEMMA BeginSync ==
    ASSUME SyncInv, NEW p \in Processes, pc[p] = "idle", NEW c \in credentials,
           NEW row \in Ids, NEW outer \in {0} \cup Ids, job' = Begun(p, c, row, outer),
           pc' = [pc EXCEPT ![p] = "login"], UNCHANGED api, TypeInv'
    PROVE  SyncInv'
<1>1. /\ job'[p].credential = c /\ job'[p].listed = Listed(c)
      /\ job'[p].seen = {} /\ job'[p].todo = {} /\ job'[p].whole
      /\ job'[p].alone = (Working = {})
      /\ \A q \in Processes \ {p} : job'[q] = Disturbed(job)[q]
  BY BegunJobs DEF SyncInv, TypeInv
<1>2. Working' = Working \cup {p} /\ pc'[p] = "login" /\ p \notin Working
  BY DEF SyncInv, TypeInv, TypeOK, Working
<1>3. SyncOK(p)'
  BY <1>1, <1>2 DEF SyncOK, Listed
<1>4. ASSUME NEW q \in Working' \ {p} PROVE SyncOK(q)'
  <2>1. q \in Working /\ q \in Processes /\ pc'[q] = pc[q]
    BY <1>2 DEF Working, SyncInv, TypeInv, TypeOK
  <2>2. /\ job'[q].credential = job[q].credential
        /\ job'[q].seen = job[q].seen /\ job'[q].todo = job[q].todo
        /\ job'[q].stale \subseteq job[q].stale
        /\ job'[q].page = job[q].page /\ job'[q].pages = job[q].pages
        /\ job'[q].listed = job[q].listed /\ job'[q].whole = job[q].whole
        /\ job'[q].alone = FALSE
    <3>1. job'[q] = Disturbed(job)[q]
      BY <1>1, <1>2, <2>1
    <3>2. /\ Disturbed(job)[q].credential = job[q].credential
          /\ Disturbed(job)[q].seen = job[q].seen
          /\ Disturbed(job)[q].todo = job[q].todo
          /\ Disturbed(job)[q].stale = job[q].stale
          /\ Disturbed(job)[q].page = job[q].page
          /\ Disturbed(job)[q].pages = job[q].pages
          /\ Disturbed(job)[q].listed = job[q].listed
          /\ Disturbed(job)[q].whole = job[q].whole
          /\ Disturbed(job)[q].alone = FALSE
      BY <2>1, DisturbedJobs DEF SyncInv, TypeInv
    <3>3. QED
      BY <3>1, <3>2
  <2>3. SyncOK(q)
    BY <2>1 DEF SyncInv
  <2>4. QED
    BY <2>1, <2>2, <2>3, KeepSync
<1>5. QED
  BY <1>3, <1>4 DEF SyncInv

\* Users who keep their places are not missed.
LEMMA ApiChangeSync ==
    ASSUME SyncInv, NEW c \in Credentials, NEW list \in Lists, ApiChange(c, list), TypeInv'
    PROVE  SyncInv'
<1>1. ASSUME NEW q \in Working' PROVE SyncOK(q)'
  <2>1. /\ q \in Working /\ Working' = Working
        /\ UNCHANGED <<owner, pc>> /\ job[q] \in Job
    BY DEF ApiChange, Working, SyncInv, TypeInv, TypeOK
  <2>2. SyncOK(q)
    BY <2>1 DEF SyncInv
  <2>3. /\ job'[q].credential = job[q].credential
        /\ job'[q].seen = job[q].seen /\ job'[q].todo = job[q].todo
        /\ job'[q].stale = job[q].stale
        /\ job'[q].page = job[q].page /\ job'[q].pages = job[q].pages
        /\ job[q].credential # c => job'[q] = job[q]
        /\ job[q].credential = c =>
              /\ ~job'[q].alone
              /\ job'[q].listed = job[q].listed \cap DOMAIN list
              /\ job'[q].whole = (job[q].whole /\ (pc[q] = "pages" => KeepsPlaces(q, list)))
    BY <2>1, ChangedJobs DEF SyncInv
  <2>4. /\ api' = [api EXCEPT ![c] = list] /\ DOMAIN api = Credentials
        /\ job[q].credential \in Credentials
    BY <2>1 DEF ApiChange, SyncInv, TypeInv, TypeOK, Job
  <2>5. CASE job[q].credential = c
    <3>1. api'[c] = list /\ Listed(c)' = DOMAIN list
      BY <2>4 DEF Listed
    <3>2. ASSUME job'[q].whole, pc[q] = "pages", NEW u \in job'[q].listed
          PROVE  /\ u \in job[q].seen \/ list[u] > job[q].page
                 /\ list[u] <= job[q].pages
      <4>1. u \in job[q].listed /\ u \in DOMAIN list /\ job[q].whole /\ KeepsPlaces(q, list)
        BY <2>3, <2>5, <3>2
      <4>2. api[c][u] <= list[u] /\ list[u] <= job[q].pages
        BY <2>5, <4>1 DEF KeepsPlaces
      <4>3. u \in job[q].seen \/ api[c][u] > job[q].page
        BY <2>2, <2>5, <3>2, <4>1 DEF SyncOK
      <4>4. api[c][u] \in Int /\ list[u] \in Int /\ job[q].page \in Int
        <5>1. u \in Listed(c)
          BY <2>2, <2>5, <4>1 DEF SyncOK
        <5>2. api[c][u] \in 1..MaxPages
          BY <5>1, ListFacts DEF SyncInv, TypeInv
        <5>3. list[u] \in 1..MaxPages
          BY <4>1, SyncAssumption DEF Paging
        <5>4. QED
          BY <2>1, <5>2, <5>3 DEF Job
      <4>5. QED
        BY <4>2, <4>3, <4>4
    <3>3. job'[q].whole /\ pc[q] = "pages" => \A u \in job'[q].listed :
                /\ u \in job'[q].seen \/ api'[c][u] > job'[q].page
                /\ api'[c][u] <= job'[q].pages
      BY <2>3, <3>1, <3>2
    <3>4. job'[q].listed \subseteq job[q].listed /\ job'[q].listed \subseteq DOMAIN list
      BY <2>3, <2>5
    <3>5. job'[q].whole => job[q].whole
      BY <2>3, <2>5
    <3>6. /\ job'[q].whole /\ pc[q] \in {"check", "user", "remove"}
                => job'[q].listed \subseteq job'[q].seen
          /\ job'[q].whole /\ pc[q] = "delete" => job'[q].stale \cap job'[q].listed = {}
      BY <2>2, <2>3, <3>4, <3>5 DEF SyncOK
    <3>7. /\ pc[q] \in {"login", "fetch"} => job'[q].seen = {} /\ job'[q].todo = {}
          /\ ~job'[q].alone /\ pc' = pc /\ job'[q].credential = c
      BY <2>1, <2>2, <2>3, <2>5 DEF SyncOK
    <3>8. QED
      BY <3>1, <3>3, <3>4, <3>6, <3>7 DEF SyncOK, Listed
  <2>6. CASE job[q].credential # c
    <3>1. job'[q] = job[q]
      BY <2>3, <2>6
    <3>2. api'[job[q].credential] = api[job[q].credential]
      BY <2>4, <2>6
    <3>3. QED
      BY <2>1, <2>2, <3>1, <3>2 DEF SyncOK, Tied, Local, Listed
  <2>7. QED
    BY <2>5, <2>6
<1>2. QED
  BY <1>1 DEF SyncInv

LEMMA LoginSync == ASSUME SyncInv, NEW p \in Processes, Login(p), TypeInv' PROVE SyncInv'
<1>1. p \in Working /\ pc[p] = "login" /\ UNCHANGED <<api, owner>>
  BY DEF Login, Working, UsersUnchanged, SyncStep
<1>2. CASE Goto(p, "fetch")
  <2>1. pc' = [pc EXCEPT ![p] = "fetch"] /\ job' = job /\ "fetch" \in Steps \ {"idle"}
    BY <1>2 DEF Goto, Steps
  <2>2. pc'[p] = "fetch" /\ Working' = Working
    BY <1>1, <2>1 DEF SyncInv, TypeInv, TypeOK, Working
  <2>3. SyncOK(p)
    BY <1>1 DEF SyncInv
  <2>4. SyncOK(p)'
    BY <1>1, <2>1, <2>2, <2>3 DEF SyncOK, Listed
  <2>5. QED
    BY <1>1, <2>1, <2>4, GoOnSync
<1>3. CASE \E s \in Endings : Return(p, s, "error")
  BY <1>1, <1>3, EndSync DEF Return
<1>4. QED
  BY <1>2, <1>3 DEF Login, Endings, Statuses

\* Reading a page leaves no listed user behind: the one read next is the first
\* on which there may be users not seen, and beyond an empty one there are none.
LEMMA ReadsSync ==
    ASSUME SyncInv, NEW p \in Working, pc[p] \in {"fetch", "pages"}, Reads(p),
           UNCHANGED <<api, owner>>, TypeInv'
    PROVE  SyncInv'
<1> DEFINE c == job[p].credential
<1>1. /\ SyncOK(p) /\ p \in Processes /\ job[p] \in Job /\ c \in Credentials
      /\ TypeOK /\ DOMAIN pc = Processes
  BY JobFacts DEF SyncInv, TypeInv, TypeOK
<1>2. /\ pc' = [pc EXCEPT ![p] = "pages"] /\ \A q \in Processes \ {p} : job'[q] = job[q]
      /\ job'[p] \in Job /\ job'[p].credential = c /\ job'[p].listed = job[p].listed
  BY DEF Reads
<1>3. pc'[p] = "pages" /\ Working' = Working /\ "pages" \in Steps \ {"idle"}
  BY <1>1, <1>2 DEF Working, Steps
<1>4. ASSUME job'[p].whole, NEW u \in job[p].listed
      PROVE  /\ u \in job'[p].seen \/ api[c][u] > job'[p].page
             /\ api[c][u] <= job'[p].pages
  <2>1. u \in Listed(c)
    BY <1>1 DEF SyncOK
  <2>2. api[c][u] \in 1..MaxPages /\ \A n \in 1..api[c][u] : On(c, n) # {}
    BY <1>1, <2>1, ListFacts
  <2>3. \A n : api[c][u] = n => u \in On(c, n)
    BY <2>1 DEF On
  <2>4. CASE /\ pc[p] = "fetch" /\ job'[p].page = 1
             /\ job'[p].seen = job[p].seen \cup On(c, 1)
             /\ \A v \in Listed(c) : api[c][v] <= job'[p].pages
    BY <2>1, <2>2, <2>3, <2>4
  <2>5. CASE /\ pc[p] = "pages" /\ job[p].whole /\ job'[p].pages = job[p].pages
             /\ \/ On(c, job[p].page + 1) = {} /\ job'[p].seen = job[p].seen
                \/ /\ job'[p].page = job[p].page + 1
                   /\ job'[p].seen = job[p].seen \cup On(c, job[p].page + 1)
    <3>1. /\ u \in job[p].seen \/ api[c][u] > job[p].page
          /\ api[c][u] <= job[p].pages
      BY <1>1, <2>5 DEF SyncOK
    <3>2. job[p].page \in Nat /\ job[p].page + 1 \in Nat \ {0}
      BY <1>1 DEF Job
    <3>3. CASE On(c, job[p].page + 1) = {} /\ job'[p].seen = job[p].seen
      <4>1. ~(api[c][u] > job[p].page)
        BY <2>2, <3>2, <3>3
      <4>2. QED
        BY <2>5, <3>1, <3>3, <4>1
    <3>4. CASE /\ job'[p].page = job[p].page + 1
               /\ job'[p].seen = job[p].seen \cup On(c, job[p].page + 1)
      BY <2>2, <2>3, <2>5, <3>1, <3>2, <3>4
    <3>5. QED
      BY <2>5, <3>3, <3>4
  <2>6. QED
    BY <1>4, <2>4, <2>5 DEF Reads
<1>5. ASSUME job'[p].alone
      PROVE  /\ Working = {p} /\ job'[p].whole /\ job[p].listed = Listed(c)
             /\ job'[p].seen \subseteq Listed(c) /\ job'[p].seen \subseteq job'[p].todo
  <2>1. job[p].alone /\ (job[p].whole => job'[p].whole)
    BY <1>5 DEF Reads
  <2>2. PICK found \in SUBSET Listed(c) : /\ job'[p].seen = job[p].seen \cup found
                                          /\ job'[p].todo = job[p].todo \cup found
    BY <1>5 DEF Reads
  <2>3. Working = {p} /\ job[p].whole /\ job[p].listed = Listed(c)
    BY <1>1, <2>1 DEF SyncOK
  <2>4. job[p].seen \subseteq Listed(c) /\ job[p].seen \subseteq job[p].todo
    BY <1>1, <2>1 DEF SyncOK
  <2>5. QED
    BY <2>1, <2>2, <2>3, <2>4
<1>6. SyncOK(p)'
  <2>1. Listed(job[p].credential)' = Listed(c) /\ job[p].listed \subseteq Listed(c)
    BY <1>1, <1>2 DEF Listed, SyncOK
  <2>2. Listed(c)' = Listed(c) /\ api' = api
    BY <1>2, <2>1
  <2>3. QED
    BY <1>2, <1>3, <1>4, <1>5, <2>1, <2>2 DEF SyncOK, Listed
<1>7. QED
  BY <1>2, <1>3, <1>6, GoOnSync

LEMMA FetchSync ==
    ASSUME SyncInv, NEW p \in Processes, FetchFirst(p) \/ FetchPage(p), TypeInv'
    PROVE  SyncInv'
<1>1. /\ p \in Working /\ pc[p] \in {"fetch", "pages"} /\ UsersUnchanged
      /\ (\E s \in Endings : Return(p, s, "error")) \/ Reads(p)
  BY FetchSteps DEF SyncInv, Endings, Statuses
<1>2. UNCHANGED <<api, owner>>
  BY <1>1 DEF UsersUnchanged, SyncStep
<1>3. CASE \E s \in Endings : Return(p, s, "error")
  BY <1>1, <1>2, <1>3, EndSync DEF Return
<1>4. CASE Reads(p)
  BY <1>1, <1>2, <1>4, ReadsSync
<1>5. QED
  BY <1>1, <1>3, <1>4

\* When every page has been read, every listed user has been seen.
LEMMA FetchEndsSync ==
    ASSUME SyncInv, NEW p \in Processes, FetchEnds(p), TypeInv' PROVE SyncInv'
<1> DEFINE c == job[p].credential
<1>1. /\ p \in Working /\ pc[p] = "pages"
      /\ \A q \in Processes \ {p} : job'[q] = job[q]
      /\ job'[p].credential = c
      /\ job'[p].seen = job[p].seen /\ job'[p].todo = job[p].todo
      /\ job'[p].listed = job[p].listed /\ job'[p].whole = job[p].whole
      /\ job'[p].alone = job[p].alone
  BY ReadJob DEF SyncInv, TypeInv
<1>2. /\ pc' = [pc EXCEPT ![p] = "check"] /\ UNCHANGED <<api, owner>>
      /\ job[p].page >= job[p].pages /\ "check" \in Steps \ {"idle"}
  BY DEF FetchEnds, AllRead, UsersUnchanged, SyncStep, Steps
<1>3. pc'[p] = "check" /\ Working' = Working
  BY <1>1, <1>2 DEF SyncInv, TypeInv, TypeOK, Working
<1>4. SyncOK(p) /\ job[p] \in Job /\ c \in Credentials
  BY <1>1, JobFacts DEF SyncInv, TypeInv
<1>5. job[p].whole => job[p].listed \subseteq job[p].seen
  <2> SUFFICES ASSUME job[p].whole, NEW u \in job[p].listed PROVE u \in job[p].seen
    OBVIOUS
  <2>1. (u \in job[p].seen \/ api[c][u] > job[p].page) /\ api[c][u] <= job[p].pages
    BY <1>1, <1>4 DEF SyncOK
  <2>2. u \in Listed(c)
    BY <1>4 DEF SyncOK
  <2>3. api[c][u] \in 1..MaxPages
    BY <1>4, <2>2, ListFacts DEF SyncInv, TypeInv
  <2>4. job[p].page \in Nat /\ job[p].pages \in Nat
    BY <1>4 DEF Job
  <2>5. QED
    BY <1>2, <2>1, <2>3, <2>4
<1>6. SyncOK(p)'
  BY <1>1, <1>2, <1>3, <1>4, <1>5 DEF SyncOK, Listed, Tied, Local
<1>7. QED
  BY <1>1, <1>2, <1>6, GoOnSync

LEMMA CheckStoppedSync ==
    ASSUME SyncInv, NEW p \in Processes, CheckStopped(p), TypeInv' PROVE SyncInv'
<1>1. p \in Working /\ pc[p] = "check" /\ UNCHANGED <<api, owner>>
  BY DEF CheckStopped, Working, UsersUnchanged, SyncStep
<1>2. SyncOK(p)
  BY <1>1 DEF SyncInv
<1>3. ASSUME NEW step \in {"remove", "user"}, Goto(p, step),
             step = "remove" => job[p].todo = {}
      PROVE  SyncInv'
  <2>1. pc' = [pc EXCEPT ![p] = step] /\ job' = job /\ step \in Steps \ {"idle"}
    BY <1>3 DEF Goto, Steps
  <2>2. pc'[p] = step /\ Working' = Working
    BY <1>1, <2>1 DEF SyncInv, TypeInv, TypeOK, Working
  <2>3. SyncOK(p)'
    BY <1>1, <1>2, <1>3, <2>1, <2>2 DEF SyncOK, Tied, Local, Listed
  <2>4. QED
    BY <1>1, <2>1, <2>3, GoOnSync
<1>4. CASE Return(p, "as it is", "completed")
  BY <1>1, <1>4, EndSync DEF Return
<1>5. QED
  BY <1>3, <1>4 DEF CheckStopped

LEMMA ProcessUserSync ==
    ASSUME SyncInv, NEW p \in Processes, ProcessUser(p), TypeInv' PROVE SyncInv'
<1> DEFINE c == job[p].credential
<1>1. /\ p \in Working /\ pc[p] = "user" /\ UNCHANGED api /\ job[p] \in Job
      /\ pc' = [pc EXCEPT ![p] = "check"] /\ "check" \in Steps \ {"idle"}
  BY DEF ProcessUser, Working, SyncStep, SyncInv, TypeInv, TypeOK, Steps
<1>2. SyncOK(p)
  BY <1>1 DEF SyncInv
<1>3. PICK u \in job[p].todo :
         \/ /\ owner' = With(owner, u, c)
            /\ job' = [job EXCEPT ![p].todo = @ \ {u}]
         \/ /\ job' = [job EXCEPT ![p].todo = @ \ {u}, ![p].alone = FALSE]
            /\ UNCHANGED owner
  BY DEF ProcessUser
<1>4. pc'[p] = "check" /\ Working' = Working
  BY <1>1 DEF SyncInv, TypeInv, TypeOK, Working
<1>5. CASE owner' = With(owner, u, c) /\ job' = [job EXCEPT ![p].todo = @ \ {u}]
  <2> DEFINE new == [job[p] EXCEPT !.todo = @ \ {u}]
  <2>1. job' = [job EXCEPT ![p] = new]
    BY <1>5
  <2>2. /\ new.credential = c /\ new.seen = job[p].seen /\ new.todo = job[p].todo \ {u}
        /\ new.listed = job[p].listed /\ new.whole = job[p].whole /\ new.alone = job[p].alone
    BY <1>1 DEF Job
  <2> HIDE DEF new
  <2>3. job'[p] = new /\ \A q \in Processes \ {p} : job'[q] = job[q]
    BY <2>1 DEF SyncInv, TypeInv, TypeOK
  <2>4. Tied(job[p].credential)' = Tied(c) \cup {u}
    <3>1. owner' = [x \in Local \cup {u} |-> IF x = u THEN c ELSE owner[x]]
      BY <1>5 DEF With, Local
    <3>2. {x \in Local' : owner'[x] = c} = Tied(c) \cup {u}
      BY <3>1 DEF Tied, Local
    <3>3. QED
      BY <2>2, <2>3, <3>2 DEF Tied
  <2>5. SyncOK(p)'
    <3>1. job[p].alone =>
             /\ Working = {p} /\ job[p].whole /\ job[p].listed = Listed(c)
             /\ job[p].seen \subseteq Listed(c)
             /\ job[p].seen \ (job[p].todo \ {u}) \subseteq Tied(c) \cup {u}
      BY <1>1, <1>2 DEF SyncOK
    <3>2. /\ job[p].whole => job[p].listed \subseteq job[p].seen
          /\ job[p].listed \subseteq Listed(c)
      BY <1>1, <1>2 DEF SyncOK
    <3>3. job'[p].alone => job'[p].seen \ job'[p].todo \subseteq Tied(job[p].credential)'
      BY <1>1, <2>2, <2>3, <2>4, <3>1
    <3>4. QED
      BY <1>1, <1>4, <2>2, <2>3, <3>1, <3>2, <3>3 DEF SyncOK, Listed
  <2>6. QED
    BY <1>1, <2>3, <2>5, GoOnSync
<1>6. CASE job' = [job EXCEPT ![p].todo = @ \ {u}, ![p].alone = FALSE]
  <2> DEFINE new == [job[p] EXCEPT !.todo = @ \ {u}, !.alone = FALSE]
  <2>1. job' = [job EXCEPT ![p] = new]
    BY <1>6
  <2>2. /\ new.credential = c /\ new.seen = job[p].seen
        /\ new.listed = job[p].listed /\ new.whole = job[p].whole /\ new.alone = FALSE
    BY <1>1 DEF Job
  <2> HIDE DEF new
  <2>3. job'[p] = new /\ \A q \in Processes \ {p} : job'[q] = job[q]
    BY <2>1 DEF SyncInv, TypeInv, TypeOK
  <2>4. SyncOK(p)'
    BY <1>1, <1>2, <1>4, <2>2, <2>3 DEF SyncOK, Listed
  <2>5. QED
    BY <1>1, <2>3, <2>4, GoOnSync
<1>7. QED
  BY <1>3, <1>5, <1>6

\* No listed user is chosen for removal.
LEMMA CollectStaleSync ==
    ASSUME SyncInv, NEW p \in Processes, CollectStale(p), TypeInv' PROVE SyncInv'
<1> DEFINE c == job[p].credential
<1>1. /\ p \in Working /\ pc[p] = "remove"
      /\ \A q \in Processes \ {p} : job'[q] = job[q]
      /\ job'[p].credential = c /\ job'[p].stale = Stale(p)
      /\ job'[p].listed = job[p].listed /\ job'[p].whole = job[p].whole
      /\ job'[p].alone = job[p].alone
  BY CollectedJob DEF SyncInv, TypeInv
<1>2. /\ pc' = [pc EXCEPT ![p] = "delete"] /\ UNCHANGED <<api, owner>>
      /\ "delete" \in Steps \ {"idle"}
  BY DEF CollectStale, UsersUnchanged, SyncStep, Steps
<1>3. pc'[p] = "delete" /\ Working' = Working
  BY <1>1, <1>2 DEF SyncInv, TypeInv, TypeOK, Working
<1>4. SyncOK(p)
  BY <1>1 DEF SyncInv
<1>5. Stale(p) = Tied(c) \ job[p].seen /\ Tied(job[p].credential)' = Tied(c)
  BY <1>1, <1>2 DEF Stale, Tied, Local
<1>6. job[p].whole => Stale(p) \cap job[p].listed = {}
  BY <1>1, <1>4, <1>5 DEF SyncOK
<1>7. job[p].alone => Tied(c) \ Stale(p) = Listed(c)
  BY <1>1, <1>4, <1>5 DEF SyncOK
<1>8. SyncOK(p)'
  <2>1. Listed(job[p].credential)' = Listed(c) /\ job[p].listed \subseteq Listed(c)
    BY <1>1, <1>2, <1>4 DEF Listed, SyncOK
  <2>2. job[p].alone => Working = {p} /\ job[p].whole /\ job[p].listed = Listed(c)
    BY <1>4 DEF SyncOK
  <2>3. QED
    BY <1>1, <1>2, <1>3, <1>5, <1>6, <1>7, <2>1, <2>2 DEF SyncOK
<1>9. QED
  BY <1>1, <1>2, <1>8, GoOnSync

LEMMA DeleteStaleSync ==
    ASSUME SyncInv, NEW p \in Processes, DeleteStale(p), TypeInv' PROVE SyncInv'
<1> DEFINE c == job[p].credential
<1>1. /\ p \in Working /\ pc[p] = "delete" /\ p \in Processes
      /\ \A q \in Working : /\ job'[q].credential = job[q].credential
                            /\ job'[q].seen = job[q].seen /\ job'[q].todo = job[q].todo
                            /\ job'[q].stale \subseteq job[q].stale
                            /\ job'[q].page = job[q].page /\ job'[q].pages = job[q].pages
                            /\ job'[q].listed = job[q].listed
                            /\ job'[q].whole = job[q].whole
                            /\ job'[q].alone = job[q].alone
  BY ForgottenJobs DEF SyncInv, TypeInv
<1>2. pc' = [pc EXCEPT ![p] = "finish"] /\ UNCHANGED api
  BY DEF DeleteStale, SyncStep
<1>3. pc'[p] = "finish" /\ Working' = Working /\ \A q \in Processes \ {p} : pc'[q] = pc[q]
  BY <1>1, <1>2 DEF SyncInv, TypeInv, TypeOK, Working
<1>4. SyncOK(p)
  BY <1>1 DEF SyncInv
<1>5. owner' = [u \in Local \ job[p].stale |-> owner[u]]
  BY DEF DeleteStale, Without, Local
<1>6. {u \in Local' : owner'[u] = c} = Tied(c) \ job[p].stale
  BY <1>5 DEF Tied, Local
<1>7. SyncOK(p)'
  <2>1. Tied(job[p].credential)' = Tied(c) \ job[p].stale
    BY <1>1, <1>6 DEF Tied
  <2>2. Listed(job[p].credential)' = Listed(c) /\ job[p].listed \subseteq Listed(c)
    BY <1>1, <1>2, <1>4 DEF Listed, SyncOK
  <2>3. job[p].alone => /\ Working = {p} /\ job[p].whole /\ job[p].listed = Listed(c)
                        /\ Tied(c) \ job[p].stale = Listed(c)
    BY <1>1, <1>4 DEF SyncOK
  <2>4. QED
    BY <1>1, <1>3, <2>1, <2>2, <2>3 DEF SyncOK
<1>8. ASSUME NEW q \in Working', q # p PROVE SyncOK(q)'
  <2>1. q \in Working /\ pc'[q] = pc[q]
    BY <1>3, <1>8 DEF Working
  <2>2. SyncOK(q)
    BY <2>1 DEF SyncInv
  <2>3. ~job'[q].alone
    BY <1>1, <1>8, <2>1, <2>2 DEF SyncOK
  <2>4. QED
    BY <1>1, <1>2, <2>1, <2>2, <2>3, KeepSync
<1>9. QED
  BY <1>7, <1>8 DEF SyncInv

LEMMA EndsSync ==
    ASSUME SyncInv, NEW p \in Processes,
           Complete(p) \/ FailSync(p) \/ LoseRow(p) \/ Kill(p), TypeInv'
    PROVE  SyncInv'
<1>1. p \in Working /\ UNCHANGED <<api, owner>>
  BY DEF Complete, FailSync, LoseRow, Kill, Working, UsersUnchanged, SyncStep
<1>2. pc' = [pc EXCEPT ![p] = "idle"] /\ job' = [job EXCEPT ![p] = NoJob]
  BY DEF Complete, FailSync, LoseRow, Kill, Return
<1>3. QED
  BY <1>1, <1>2, EndSync

LEMMA SyncNext == SyncInv /\ [Next]_vars => SyncInv'
<1> SUFFICES ASSUME SyncInv, [Next]_vars PROVE SyncInv'
  OBVIOUS
<1>1. TypeInv'
  BY NextType DEF SyncInv
<1>2. ASSUME NEW c \in Credentials, NEW list \in Lists, ApiChange(c, list) PROVE SyncInv'
  BY <1>1, <1>2, ApiChangeSync
<1>3. ASSUME NEW c \in Credentials, StopSync(c) \/ DeleteApiCredential(c) PROVE SyncInv'
  BY <1>1, <1>3, PageSync DEF StopSync, DeleteApiCredential
<1>4. ASSUME ClearSyncData PROVE SyncInv'
  BY <1>1, <1>4, PageSync DEF ClearSyncData
<1>5. ASSUME NEW c \in Credentials, NEW w \in Web, StartRequest(w, c) PROVE SyncInv'
  <2>1. /\ w \in Processes /\ pc[w] = "idle" /\ c \in credentials
        /\ job' = Begun(w, c, last + 1, 0) /\ UNCHANGED api
        /\ pc' = [pc EXCEPT ![w] = "login"]
    BY <1>5 DEF StartRequest, Processes
  <2>2. last + 1 \in Ids
    BY <1>5, SyncAssumption DEF StartRequest, SyncInv, TypeInv, TypeOK, Ids
  <2>3. QED
    BY <1>1, <2>1, <2>2, BeginSync
<1>6. ASSUME NEW c \in Credentials, NEW k \in Celery, StartTask(k, c) PROVE SyncInv'
  <2>1. /\ k \in Processes /\ pc[k] = "idle" /\ c \in credentials
        /\ job' = Begun(k, c, last + 2, last + 1) /\ UNCHANGED api
        /\ pc' = [pc EXCEPT ![k] = "login"]
    BY <1>6 DEF StartTask, Processes
  <2>2. last + 2 \in Ids /\ last + 1 \in Ids
    BY <1>6, SyncAssumption DEF StartTask, SyncInv, TypeInv, TypeOK, Ids
  <2>3. QED
    BY <1>1, <2>1, <2>2, BeginSync
<1>7. ASSUME NEW p \in Processes, Work(p) \/ Kill(p) PROVE SyncInv'
  BY <1>1, <1>7, LoginSync, FetchSync, FetchEndsSync, CheckStoppedSync, ProcessUserSync,
     CollectStaleSync, DeleteStaleSync, EndsSync DEF Work
<1>8. ASSUME UNCHANGED vars PROVE SyncInv'
  BY <1>1, <1>8 DEF vars, SyncInv, SyncOK, Working, Tied, Local, Listed
<1>9. QED
  BY <1>2, <1>3, <1>4, <1>5, <1>6, <1>7, <1>8 DEF Next

LEMMA InitSync == Init => SyncInv
<1>1. Init => Working = {}
  BY DEF Init, Working
<1>2. QED
  BY <1>1, InitType DEF SyncInv

LEMMA InSync == Spec => []SyncInv
<1>1. Init => SyncInv
  BY InitSync
<1>2. SyncInv /\ [Next]_vars => SyncInv'
  BY SyncNext
<1>3. QED
  BY <1>1, <1>2, PTL DEF Spec

\* An undisturbed synchronisation leaves exactly the users its API lists tied to
\* its credential.
THEOREM UndisturbedExact == Spec => []UndisturbedSyncIsExact
<1>1. SyncInv => UndisturbedSyncIsExact
  BY DEF SyncInv, SyncOK, UndisturbedSyncIsExact
<1>2. QED
  BY <1>1, InSync, PTL

\* What the step of p that leads from "delete" to "finish" takes away.
ListedStay(p) ==
    pc[p] = "delete" /\ pc'[p] = "finish" /\ job[p].whole
        => (Local \ DOMAIN owner') \cap job[p].listed = {}

LEMMA OnlyDeleteStale ==
    ASSUME SyncInv, NEW p \in Working, [Next]_vars, pc[p] = "delete", pc'[p] = "finish"
    PROVE  DeleteStale(p)
<1>1. p \in Processes /\ pc \in [Processes -> Steps]
  BY DEF Working, SyncInv, TypeInv, TypeOK, Steps
<1>2. ~UNCHANGED pc
  OBVIOUS
<1>3. ASSUME NEW q \in Processes, NEW step \in Steps, pc' = [pc EXCEPT ![q] = step]
      PROVE  q = p /\ step = "finish"
  BY <1>1, <1>3
<1>4. ASSUME NEW c \in Credentials, NEW list \in Lists, ApiChange(c, list) PROVE FALSE
  BY <1>2, <1>4 DEF ApiChange
<1>5. ASSUME NEW c \in Credentials, StopSync(c) \/ DeleteApiCredential(c) PROVE FALSE
  BY <1>2, <1>5 DEF StopSync, DeleteApiCredential
<1>6. ASSUME NEW c \in Credentials, NEW q \in Processes,
             StartRequest(q, c) \/ StartTask(q, c)
      PROVE  FALSE
  <2>1. pc' = [pc EXCEPT ![q] = "login"] /\ "login" \in Steps
    BY <1>6 DEF StartRequest, StartTask, Steps
  <2>2. QED
    BY <1>3, <2>1
<1>7. ~ClearSyncData
  BY <1>2 DEF ClearSyncData
<1>8. ASSUME NEW q \in Processes, Kill(q) PROVE FALSE
  <2>1. pc' = [pc EXCEPT ![q] = "idle"] /\ "idle" \in Steps
    BY <1>8 DEF Kill, Steps
  <2>2. QED
    BY <1>3, <2>1
<1>9. ASSUME NEW q \in Processes, Work(q) PROVE DeleteStale(p)
  <2>1. CASE DeleteStale(q)
    <3>1. pc' = [pc EXCEPT ![q] = "finish"] /\ "finish" \in Steps
      BY <2>1 DEF DeleteStale, Steps
    <3>2. QED
      BY <1>3, <2>1, <3>1
  <2>2. CASE FetchFirst(q) \/ FetchPage(q)
    <3>1. PICK step \in Steps \ {"finish"} : pc' = [pc EXCEPT ![q] = step]
      BY <2>2, FetchSteps DEF SyncInv, Reads, Return, Steps
    <3>2. QED
      BY <1>3, <3>1
  <2>3. CASE ~(DeleteStale(q) \/ FetchFirst(q) \/ FetchPage(q))
    <3>1. PICK step \in Steps \ {"finish"} : pc' = [pc EXCEPT ![q] = step]
      BY <1>9, <2>3 DEF Work, Login, FetchEnds, CheckStopped, ProcessUser, CollectStale,
                        Complete, FailSync, LoseRow, Goto, Return, Steps
    <3>2. QED
      BY <1>3, <3>1
  <2>4. QED
    BY <2>1, <2>2, <2>3
<1>10. ~UNCHANGED vars
  BY <1>2 DEF vars
<1>11. QED
  BY <1>4, <1>5, <1>6, <1>7, <1>8, <1>9, <1>10 DEF Next, Processes

LEMMA ListedStayNext == ASSUME SyncInv, [Next]_vars, NEW p \in Working PROVE ListedStay(p)
<1> SUFFICES ASSUME pc[p] = "delete", pc'[p] = "finish", job[p].whole
             PROVE  (Local \ DOMAIN owner') \cap job[p].listed = {}
  BY DEF ListedStay
<1>1. DeleteStale(p)
  BY OnlyDeleteStale
<1>2. job[p].stale \cap job[p].listed = {}
  BY DEF SyncInv, SyncOK
<1>3. DOMAIN owner' = Local \ job[p].stale
  BY <1>1 DEF DeleteStale, Without, Local
<1>4. QED
  BY <1>2, <1>3

\* A synchronisation that has read all pages of a list whose users kept their
\* places removes only users whom its API has, at some time since it began, not
\* listed, however long ago it chose them.
THEOREM ListedKept == Spec => ListedUsersStay
<1>1. SyncInv /\ [Next]_vars => [\A p \in Working : ListedStay(p)]_vars
  BY ListedStayNext
<1>2. [\A p \in Working : ListedStay(p)]_vars =>
         [\A p \in Working :
             pc[p] = "delete" /\ pc'[p] = "finish" /\ job[p].whole
                 => (Local \ DOMAIN owner') \cap job[p].listed = {}]_vars
  BY DEF ListedStay
<1>3. QED
  BY <1>1, <1>2, InSync, PTL DEF Spec, ListedUsersStay

-----------------------------------------------------------------------------
(* Rows that say "running".                                                *)

Accounted(r) == r \in dropped \/ \E p \in Working : r \in {job[p].row, job[p].outer}

\* A step that adds nothing to what is running, and takes no row from its
\* synchronisation.
LEMMA KeepsRows ==
    ASSUME RunningRowHasSync, dropped \subseteq dropped', Working \subseteq Working',
           \A p \in Working : job'[p].row = job[p].row /\ job'[p].outer = job[p].outer,
           \A r \in DOMAIN rows' :
              rows'[r].status = "running" =>
                 \/ r \in DOMAIN rows /\ rows[r].status = "running"
                 \/ \E p \in Working' : r \in {job'[p].row, job'[p].outer}
    PROVE  RunningRowHasSync'
<1> SUFFICES ASSUME NEW r \in DOMAIN rows', rows'[r].status = "running"
             PROVE  Accounted(r)'
  BY DEF RunningRowHasSync, Accounted
<1>1. CASE r \in DOMAIN rows /\ rows[r].status = "running"
  <2>1. Accounted(r)
    BY <1>1 DEF RunningRowHasSync, Accounted
  <2>2. QED
    BY <2>1 DEF Accounted
<1>2. CASE \E p \in Working' : r \in {job'[p].row, job'[p].outer}
  BY <1>2 DEF Accounted
<1>3. QED
  BY <1>1, <1>2

\* A synchronisation that returns ends its rows, or leaves them to nobody.
LEMMA ReturnsRows ==
    ASSUME TypeInv, RunningRowHasSync, NEW p \in Working, NEW s \in Endings,
           NEW outer \in Outcomes, Return(p, s, outer), dropped \subseteq dropped',
           \/ s \in {"completed", "error"}
           \/ job[p].row \in dropped'
           \/ s = "as it is" /\ (HasRow(p) => rows[job[p].row].status # "running")
    PROVE  RunningRowHasSync'
<1>1. /\ Working' = Working \ {p}
      /\ \A q \in Processes : job'[q] = IF q = p THEN NoJob ELSE job[q]
      /\ rows' \in [DOMAIN rows -> StatusRow]
      /\ \A r \in DOMAIN rows : rows'[r].status = Outcome(p, s, outer, r)
  BY Returned DEF TypeInv
<1> SUFFICES ASSUME NEW r \in DOMAIN rows', rows'[r].status = "running"
             PROVE  Accounted(r)'
  BY DEF RunningRowHasSync, Accounted
<1>2. r \in DOMAIN rows /\ r # job[p].outer
  BY <1>1 DEF Outcomes, Outcome
<1>3. CASE r = job[p].row
  <2>1. ~(s \in {"completed", "error"})
    BY <1>1, <1>2, <1>3 DEF Outcome
  <2>2. ~(s = "as it is" /\ (HasRow(p) => rows[job[p].row].status # "running"))
    BY <1>1, <1>2, <1>3 DEF HasRow, Outcome
  <2>3. QED
    BY <1>3, <2>1, <2>2 DEF Accounted
<1>4. CASE r # job[p].row
  <2>1. rows[r].status = "running"
    BY <1>1, <1>2, <1>4 DEF Outcome
  <2>2. Accounted(r)
    BY <1>2, <2>1 DEF RunningRowHasSync, Accounted
  <2>3. CASE r \in dropped
    BY <2>3 DEF Accounted
  <2>4. ASSUME NEW q \in Working, r \in {job[q].row, job[q].outer} PROVE Accounted(r)'
    <3>1. q # p /\ q \in Processes
      BY <1>2, <1>4, <2>4 DEF Working
    <3>2. q \in Working' /\ job'[q] = job[q]
      BY <1>1, <3>1
    <3>3. QED
      BY <2>4, <3>2 DEF Accounted
  <2>5. QED
    BY <2>2, <2>3, <2>4 DEF Accounted
<1>5. QED
  BY <1>3, <1>4

RowsInv == TypeInv /\ RunningRowHasSync

\* A synchronisation that has its row saves it as running.
LEMMA SavesRow ==
    ASSUME RowsInv, NEW p \in Working, rows' = SavedAs(job[p].row, "running"),
           Working' = Working, UNCHANGED dropped,
           \A q \in Working : job'[q].row = job[q].row /\ job'[q].outer = job[q].outer
    PROVE  RunningRowHasSync'
<1>1. job[p].row \in Ids /\ "running" \in Statuses
  BY JobFacts DEF RowsInv, TypeInv, Statuses
<1>2. /\ DOMAIN rows' = DOMAIN rows
      /\ \A x \in DOMAIN rows : rows'[x].status = IF x = job[p].row THEN "running" ELSE rows[x].status
  BY <1>1, SavedRows DEF RowsInv, TypeInv
<1>3. ASSUME NEW r \in DOMAIN rows', rows'[r].status = "running"
      PROVE  \/ r \in DOMAIN rows /\ rows[r].status = "running"
             \/ \E q \in Working' : r \in {job'[q].row, job'[q].outer}
  <2>1. CASE r = job[p].row
    BY <2>1
  <2>2. CASE r # job[p].row
    BY <1>2, <1>3, <2>2
  <2>3. QED
    BY <2>1, <2>2
<1>4. QED
  BY <1>3, KeepsRows DEF RowsInv

LEMMA PagesRows ==
    ASSUME RowsInv, NEW c \in Credentials,
           StopSync(c) \/ DeleteApiCredential(c)
    PROVE  RunningRowHasSync'
<1>1. Working' = Working /\ UNCHANGED dropped /\ job' = Disturbed(job)
  BY DEF StopSync, DeleteApiCredential, Working
<1>2. \A q \in Working : job'[q].row = job[q].row /\ job'[q].outer = job[q].outer
  BY <1>1, DisturbedJobs DEF RowsInv, TypeInv, Working
<1>3. ASSUME NEW r \in DOMAIN rows', rows'[r].status = "running"
      PROVE  r \in DOMAIN rows /\ rows[r].status = "running"
  <2>1. CASE StopSync(c)
    <3>1. PICK x \in DOMAIN rows : rows' = SavedAs(x, "stopped")
      BY <2>1 DEF StopSync
    <3>2. x \in Ids /\ "stopped" \in Statuses
      BY SyncAssumption DEF RowsInv, TypeInv, TypeOK, Ids, Statuses
    <3>3. /\ DOMAIN rows' = DOMAIN rows
          /\ \A y \in DOMAIN rows : rows'[y].status = IF y = x THEN "stopped" ELSE rows[y].status
      BY <3>1, <3>2, SavedRows DEF RowsInv, TypeInv
    <3>4. QED
      BY <1>3, <3>3
  <2>2. CASE DeleteApiCredential(c)
    <3>1. rows' = [x \in DOMAIN rows \ {y \in DOMAIN rows : rows[y].credential = c} |-> rows[x]]
      BY <2>2 DEF DeleteApiCredential, Without
    <3>2. QED
      BY <1>3, <3>1
  <2>3. QED
    BY <2>1, <2>2
<1>4. QED
  BY <1>1, <1>2, <1>3, KeepsRows DEF RowsInv

\* New rows belong to the synchronisation that begins with them.
LEMMA BeginRows ==
    ASSUME RowsInv, NEW p \in Processes, pc[p] = "idle", NEW c \in credentials,
           NEW row \in Ids, NEW outer \in {0} \cup Ids, job' = Begun(p, c, row, outer),
           pc' = [pc EXCEPT ![p] = "login"], UNCHANGED dropped,
           \A r \in DOMAIN rows' :
              (r \in DOMAIN rows /\ rows'[r] = rows[r]) \/ r \in {row, outer}
    PROVE  RunningRowHasSync'
<1>1. /\ job'[p].row = row /\ job'[p].outer = outer
      /\ \A q \in Processes \ {p} : job'[q] = Disturbed(job)[q]
  BY BegunJobs DEF RowsInv, TypeInv
<1>2. Working' = Working \cup {p} /\ p \notin Working
  BY DEF RowsInv, TypeInv, TypeOK, Working
<1>3. ASSUME NEW q \in Working
      PROVE  job'[q].row = job[q].row /\ job'[q].outer = job[q].outer
  <2>1. q \in Processes \ {p}
    BY <1>2 DEF Working
  <2>2. QED
    BY <1>1, <2>1, DisturbedJobs DEF RowsInv, TypeInv
<1>4. ASSUME NEW r \in DOMAIN rows', rows'[r].status = "running"
      PROVE  \/ r \in DOMAIN rows /\ rows[r].status = "running"
             \/ \E q \in Working' : r \in {job'[q].row, job'[q].outer}
  BY <1>1, <1>2, <1>4
<1>5. QED
  BY <1>2, <1>3, <1>4, KeepsRows DEF RowsInv

LEMMA StartRows ==
    ASSUME RowsInv, NEW c \in Credentials,
           (\E w \in Web : StartRequest(w, c)) \/ \E k \in Celery : StartTask(k, c)
    PROVE  RunningRowHasSync'
<1>1. ASSUME NEW w \in Web, StartRequest(w, c) PROVE RunningRowHasSync'
  <2>1. /\ w \in Processes /\ pc[w] = "idle" /\ c \in credentials
        /\ job' = Begun(w, c, last + 1, 0) /\ UNCHANGED dropped
        /\ pc' = [pc EXCEPT ![w] = "login"]
    BY <1>1 DEF StartRequest, Processes
  <2>2. last + 1 \in Ids
    BY <1>1, SyncAssumption DEF StartRequest, RowsInv, TypeInv, TypeOK, Ids
  <2>3. \A r \in DOMAIN rows' : (r \in DOMAIN rows /\ rows'[r] = rows[r]) \/ r \in {last + 1, 0}
    BY <1>1 DEF StartRequest, With
  <2>4. QED
    BY <2>1, <2>2, <2>3, BeginRows
<1>2. ASSUME NEW k \in Celery, StartTask(k, c) PROVE RunningRowHasSync'
  <2>1. /\ k \in Processes /\ pc[k] = "idle" /\ c \in credentials
        /\ job' = Begun(k, c, last + 2, last + 1) /\ UNCHANGED dropped
        /\ pc' = [pc EXCEPT ![k] = "login"]
    BY <1>2 DEF StartTask, Processes
  <2>2. last + 2 \in Ids /\ last + 1 \in Ids
    BY <1>2, SyncAssumption DEF StartTask, RowsInv, TypeInv, TypeOK, Ids
  <2>3. \A r \in DOMAIN rows' :
           (r \in DOMAIN rows /\ rows'[r] = rows[r]) \/ r \in {last + 2, last + 1}
    BY <1>2 DEF StartTask, With
  <2>4. QED
    BY <2>1, <2>2, <2>3, BeginRows
<1>3. QED
  BY <1>1, <1>2

\* The steps after which a synchronisation goes on.
LEMMA GoesOnRows ==
    ASSUME RowsInv, NEW p \in Working, NEW step \in Steps \ {"idle"},
           pc' = [pc EXCEPT ![p] = step], UNCHANGED dropped,
           \A q \in Working : job'[q].row = job[q].row /\ job'[q].outer = job[q].outer,
           rows' = SavedAs(job[p].row, "running") \/ UNCHANGED rows
    PROVE  RunningRowHasSync'
<1>1. Working' = Working
  BY DEF RowsInv, TypeInv, TypeOK, Working
<1>2. CASE rows' = SavedAs(job[p].row, "running")
  BY <1>1, <1>2, SavesRow
<1>3. CASE UNCHANGED rows
  BY <1>1, <1>3, KeepsRows DEF RowsInv
<1>4. QED
  BY <1>2, <1>3

LEMMA WorkRows == ASSUME RowsInv, NEW p \in Processes, Work(p) PROVE RunningRowHasSync'
<1>1. p \in Working
  BY DEF Work, Login, FetchFirst, FetchPage, FetchEnds, CheckStopped, ProcessUser,
         CollectStale, DeleteStale, Complete, FailSync, LoseRow, Working
<1>2. TypeInv /\ RunningRowHasSync /\ \A q \in Working : q \in Processes /\ job[q] \in Job
  BY DEF RowsInv, TypeInv, TypeOK, Working
<1>3. ASSUME NEW status \in {"completed", "error"}, Return(p, status, "error"),
             dropped \subseteq dropped'
      PROVE  RunningRowHasSync'
  <2>1. status \in Endings /\ "error" \in Outcomes
    BY DEF Endings, Outcomes, Statuses
  <2>2. QED
    BY <1>1, <1>2, <1>3, <2>1, ReturnsRows
<1>4. ASSUME NEW status \in {"running", "as it is"}, Return(p, status, "error"),
             dropped' = dropped \cup {job[p].row}
      PROVE  RunningRowHasSync'
  <2>1. status \in Endings /\ "error" \in Outcomes
    BY DEF Endings, Outcomes, Statuses
  <2>2. job[p].row \in dropped' /\ dropped \subseteq dropped'
    BY <1>4
  <2>3. QED
    BY <1>1, <1>2, <1>4, <2>1, <2>2, ReturnsRows
<1>5. ASSUME NEW outer \in Outcomes, Return(p, "as it is", outer), UNCHANGED dropped,
             HasRow(p) => rows[job[p].row].status # "running"
      PROVE  RunningRowHasSync'
  <2>1. "as it is" \in Endings
    BY DEF Endings
  <2>2. QED
    BY <1>1, <1>2, <1>5, <2>1, ReturnsRows
<1>6. ASSUME NEW step \in Steps \ {"idle"}, Goto(p, step), UNCHANGED dropped,
             rows' = SavedAs(job[p].row, "running") \/ UNCHANGED rows
      PROVE  RunningRowHasSync'
  BY <1>1, <1>6, GoesOnRows DEF Goto, RowsInv
<1>7. CASE Login(p)
  <2>1. CASE Goto(p, "fetch") /\ rows' = SavedAs(job[p].row, "running") /\ UNCHANGED dropped
    BY <1>6, <2>1 DEF Steps
  <2>2. QED
    BY <1>3, <1>4, <1>7, <2>1 DEF Login
<1>8. CASE FetchFirst(p) \/ FetchPage(p)
  <2>1. CASE Reads(p)
    <3>1. /\ pc' = [pc EXCEPT ![p] = "pages"] /\ UNCHANGED dropped
          /\ rows' = SavedAs(job[p].row, "running") \/ UNCHANGED rows
          /\ "pages" \in Steps \ {"idle"}
      BY <2>1 DEF Reads, Steps
    <3>2. \A q \in Working : job'[q].row = job[q].row /\ job'[q].outer = job[q].outer
      BY <1>2, <2>1 DEF Reads
    <3>3. QED
      BY <1>1, <3>1, <3>2, GoesOnRows
  <2>2. QED
    BY <1>2, <1>3, <1>4, <1>8, <2>1, FetchSteps
<1>9. CASE FetchEnds(p)
  <2>1. /\ pc' = [pc EXCEPT ![p] = "check"] /\ UNCHANGED <<rows, dropped>>
        /\ "check" \in Steps \ {"idle"}
    BY <1>9 DEF FetchEnds, Steps
  <2>2. \A q \in Working : job'[q].row = job[q].row /\ job'[q].outer = job[q].outer
    BY <1>2, <1>9, ReadJob DEF TypeInv
  <2>3. QED
    BY <1>1, <2>1, <2>2, GoesOnRows
<1>10. CASE CheckStopped(p)
  <2>1. UNCHANGED dropped /\ "remove" \in Steps \ {"idle"} /\ "user" \in Steps \ {"idle"}
    BY <1>10 DEF CheckStopped, Steps
  <2>2. CASE UNCHANGED rows /\ (Goto(p, "remove") \/ Goto(p, "user"))
    BY <1>6, <2>1, <2>2
  <2>3. CASE rows[job[p].row].status = "stopped" /\ Return(p, "as it is", "completed")
    BY <1>5, <2>1, <2>3 DEF Outcomes
  <2>4. QED
    BY <1>10, <2>2, <2>3 DEF CheckStopped
<1>11. CASE ProcessUser(p)
  <2>1. /\ rows' = SavedAs(job[p].row, "running") /\ UNCHANGED dropped
        /\ pc' = [pc EXCEPT ![p] = "check"] /\ "check" \in Steps \ {"idle"}
    BY <1>11 DEF ProcessUser, Steps
  <2>2. PICK u \in job[p].todo :
           \/ job' = [job EXCEPT ![p].todo = @ \ {u}]
           \/ job' = [job EXCEPT ![p].todo = @ \ {u}, ![p].alone = FALSE]
    BY <1>11 DEF ProcessUser
  <2> DEFINE some == [job[p] EXCEPT !.todo = @ \ {u}]
             other == [job[p] EXCEPT !.todo = @ \ {u}, !.alone = FALSE]
  <2>3. /\ some.row = job[p].row /\ some.outer = job[p].outer
        /\ other.row = job[p].row /\ other.outer = job[p].outer
    BY <1>1, <1>2 DEF Job
  <2>4. job' = [job EXCEPT ![p] = some] \/ job' = [job EXCEPT ![p] = other]
    BY <2>2
  <2> HIDE DEF some, other
  <2>5. \A q \in Working : job'[q].row = job[q].row /\ job'[q].outer = job[q].outer
    BY <1>2, <2>3, <2>4 DEF TypeInv, TypeOK
  <2>6. QED
    BY <1>1, <2>1, <2>5, GoesOnRows
<1>12. CASE CollectStale(p)
  <2>1. pc' = [pc EXCEPT ![p] = "delete"] /\ UNCHANGED <<rows, dropped>>
        /\ "delete" \in Steps \ {"idle"}
    BY <1>12 DEF CollectStale, Steps
  <2>2. \A q \in Working : job'[q].row = job[q].row /\ job'[q].outer = job[q].outer
    BY <1>2, <1>12, CollectedJob DEF TypeInv
  <2>3. QED
    BY <1>1, <2>1, <2>2, GoesOnRows
<1>13. CASE DeleteStale(p)
  <2>1. pc' = [pc EXCEPT ![p] = "finish"] /\ UNCHANGED <<rows, dropped>>
        /\ "finish" \in Steps \ {"idle"}
    BY <1>13 DEF DeleteStale, Steps
  <2>2. \A q \in Working : job'[q].row = job[q].row /\ job'[q].outer = job[q].outer
    BY <1>2, <1>13, ForgottenJobs DEF TypeInv
  <2>3. QED
    BY <1>1, <2>1, <2>2, GoesOnRows
<1>14. CASE Complete(p) \/ FailSync(p)
  BY <1>3, <1>14 DEF Complete, FailSync
<1>15. CASE LoseRow(p)
  BY <1>5, <1>15 DEF LoseRow, Outcomes
<1>16. QED
  BY <1>7, <1>8, <1>9, <1>10, <1>11, <1>12, <1>13, <1>14, <1>15 DEF Work

LEMMA KillRows == ASSUME RowsInv, NEW p \in Processes, Kill(p) PROVE RunningRowHasSync'
<1>1. /\ p \in Working /\ rows' = rows
      /\ dropped' = dropped \cup ({job[p].row, job[p].outer} \ {0})
      /\ pc' = [pc EXCEPT ![p] = "idle"] /\ job' = [job EXCEPT ![p] = NoJob]
  BY DEF Kill
<1>2. Working' = Working \ {p} /\ \A q \in Working' : job'[q] = job[q]
  BY <1>1 DEF Working, RowsInv, TypeInv, TypeOK
<1> SUFFICES ASSUME NEW r \in DOMAIN rows', rows'[r].status = "running"
             PROVE  Accounted(r)'
  BY DEF RunningRowHasSync, Accounted
<1>3. r # 0
  BY <1>1 DEF RowsInv, TypeInv, TypeOK
<1>4. Accounted(r)
  BY <1>1 DEF RowsInv, RunningRowHasSync, Accounted
<1>5. CASE r \in {job[p].row, job[p].outer}
  BY <1>1, <1>3, <1>5 DEF Accounted
<1>6. CASE r \notin {job[p].row, job[p].outer}
  BY <1>1, <1>2, <1>4, <1>6 DEF Accounted
<1>7. QED
  BY <1>5, <1>6

LEMMA RowsNext == RowsInv /\ [Next]_vars => RowsInv'
<1> SUFFICES ASSUME RowsInv, [Next]_vars PROVE RowsInv'
  OBVIOUS
<1>1. TypeInv'
  BY NextType DEF RowsInv
<1>2. ASSUME NEW c \in Credentials, NEW list \in Lists, ApiChange(c, list) PROVE RunningRowHasSync'
  <2>1. UNCHANGED <<rows, dropped>> /\ Working' = Working
    BY <1>2 DEF ApiChange, Working
  <2>2. ASSUME NEW q \in Working
        PROVE  job'[q].row = job[q].row /\ job'[q].outer = job[q].outer
    BY <1>2, ChangedJobs DEF RowsInv
  <2>3. QED
    BY <2>1, <2>2, KeepsRows DEF RowsInv
<1>3. ASSUME NEW c \in Credentials, StopSync(c) \/ DeleteApiCredential(c)
      PROVE  RunningRowHasSync'
  BY <1>3, PagesRows
<1>4. ASSUME ClearSyncData PROVE RunningRowHasSync'
  <2>1. /\ UNCHANGED <<rows, dropped>> /\ Working' = Working
        /\ job' = Forget(Disturbed(job), Local)
    BY <1>4 DEF ClearSyncData, Working
  <2>2. \A q \in Working : job'[q].row = job[q].row /\ job'[q].outer = job[q].outer
    BY <2>1, PageJobs DEF RowsInv, TypeInv
  <2>3. QED
    BY <2>1, <2>2, KeepsRows DEF RowsInv
<1>5. ASSUME NEW c \in Credentials,
             (\E w \in Web : StartRequest(w, c)) \/ \E k \in Celery : StartTask(k, c)
      PROVE  RunningRowHasSync'
  BY <1>5, StartRows
<1>6. ASSUME NEW p \in Processes, Work(p) \/ Kill(p) PROVE RunningRowHasSync'
  BY <1>6, WorkRows, KillRows
<1>7. ASSUME UNCHANGED vars PROVE RunningRowHasSync'
  BY <1>7 DEF vars, RowsInv, RunningRowHasSync, Working
<1>8. RunningRowHasSync'
  BY <1>2, <1>3, <1>4, <1>5, <1>6, <1>7 DEF Next
<1>9. QED
  BY <1>1, <1>8 DEF RowsInv

\* Every row that says "running" has a synchronisation at work, or was left by
\* one that was killed, refused or not given a list.
THEOREM RunningRowsHaveSyncs == Spec => []RunningRowHasSync
<1>1. Init => RowsInv
  <2>1. Init => DOMAIN rows = {}
    BY DEF Init
  <2>2. QED
    BY <2>1, InitType DEF RowsInv, RunningRowHasSync
<1>2. RowsInv /\ [Next]_vars => RowsInv'
  BY RowsNext
<1>3. RowsInv => RunningRowHasSync
  BY DEF RowsInv
<1>4. QED
  BY <1>1, <1>2, <1>3, PTL DEF Spec
=============================================================================
