-------------------------- MODULE ScheduledReports --------------------------
(***************************************************************************)
(* One scheduled report of app_risk: the Celery task that looks for due    *)
(* reports every minute, the tasks that run the report, and the pages that *)
(* edit it, delete it or send it at once.                                  *)
(*                                                                         *)
(* A task loads the report into an object when it starts and saves the     *)
(* whole object when it ends, minutes later; the pages that edit and list  *)
(* reports do alike.  A save that finds no row inserts one.  Tasks and     *)
(* these pages are a step per statement that others can tell apart, the    *)
(* pages that send and delete a report are one step.                       *)
(***************************************************************************)
EXTENDS NextRun

CONSTANTS
    Workers,     \* Celery worker processes
    Pages,       \* gunicorn processes
    Gone,        \* the report has been deleted
    Schedules,   \* the schedules reports have been created with, and when
    EditedTo,    \* the schedules users change to
    Times,       \* bound: the parts of days in which something happens
    MaxQueued,   \* bound: waiting messages of one kind
    MaxEvents    \* bound: reports sent by hand, edits and killed tasks

ASSUME InputsAssumption ==
    /\ \A s \in Schedules :
          s.schedule \in Schedule /\ s.created \in Nat /\ \A t \in Times : s.created <= t
    /\ EditedTo \subseteq Schedule
    /\ MaxQueued \in Nat /\ MaxEvents \in Nat

\* The calendar of the model ends; dates do not.  Behaviours end a year before
\* it does, and the creations and start days of all schedules lie in it.
ASSUME CalendarSuffices ==
    /\ \A t \in Times : HasSpareYear(t)
    /\ \A s \in Schedules : HasSpareYear(s.created) /\ InCalendar(s.schedule.start)
    /\ \A s \in EditedTo : InCalendar(s.start)

VARIABLES
    report,    \* the ScheduledReport row
    now,       \* the clock
    selected,  \* check_scheduled_reports has found the report due
    queued,    \* messages of execute_scheduled_report: by manual_execution
    pc, mem,   \* where each worker's task is, and the report object it holds
    page,      \* what each page does, and the report object it holds
    running,   \* the tasks whose execution row is "running"
    left,      \* execution rows "running" of no running task: who left them
    events,    \* counter for the bound
    stopped    \* what the report was when all was quiet (ghost)

vars == <<report, now, selected, queued, pc, mem, page, running, left, events, stopped>>

Statuses == {"active", "paused", "completed", "failed"}
Report == [schedule : Schedule, status : Statuses, nextRun : Nat \cup {Unset},
           ran : BOOLEAN]

Steps == {"idle", "generate", "mail", "close", "failRow", "failReport"}
NoMemory == [manual |-> FALSE, copy |-> Gone]
Idle(w) == pc[w] = "idle"

NoPage == [does |-> "nothing", copy |-> Gone]
Visits == {NoPage} \cup [does : {"list", "edit"}, copy : Report]

\* Nobody holds a copy of the report.
AllIdle == (\A w \in Workers : Idle(w)) /\ \A p \in Pages : page[p] = NoPage

\* Beyond the types: an execution row is somebody's or counted in `left`.
TypeOK ==
    /\ report \in Report \cup {Gone}
    /\ now \in Nat /\ events \in Nat
    /\ left \in SUBSET {"page", "task"}
    /\ selected \in BOOLEAN
    /\ queued \in [BOOLEAN -> 0..MaxQueued]
    /\ pc \in [Workers -> Steps]
    /\ running \subseteq {w \in Workers : ~Idle(w)}
    /\ mem \in [Workers -> [manual : BOOLEAN, copy : Report \cup {Gone}]]
    /\ \A w \in Workers : Idle(w) => mem[w] = NoMemory
    /\ page \in [Pages -> Visits]
    /\ stopped \in {"no", "inactive", "gone"}

Quiet == AllIdle /\ ~selected /\ queued = [m \in BOOLEAN |-> 0]

\* Conjoined to every step but an edit, which starts anew.
StoppedNow ==
    IF report' = Gone
    THEN IF AllIdle' THEN "gone" ELSE "no"
    ELSE IF Quiet' /\ report'.status # "active" THEN "inactive" ELSE "no"
Remember == stopped' = IF StoppedNow = "no" THEN stopped ELSE StoppedNow

-----------------------------------------------------------------------------
(* ScheduledReport.save().                                                 *)

IsDone(r) == r.status = "completed" /\ r.schedule.frequency = "once"
Recalculates(r) == ~IsDone(r) /\ (r.nextRun = Unset \/ r.nextRun <= now)
SaveRaises(r) == Recalculates(r) /\ ~CanCalculate(r.schedule, now)

Saved(r) ==
    IF IsDone(r) THEN [r EXCEPT !.nextRun = Unset]
    ELSE IF Recalculates(r)
    THEN [r EXCEPT !.nextRun = CalculateNextRun(r.schedule, now, r.ran)]
    ELSE r

Due(r) ==
    r # Gone /\ r.status = "active" /\ r.nextRun # Unset /\ r.nextRun <= now

\* create_scheduled_report, after which the site may have been down.
Init ==
    /\ now \in Times /\ \A t \in Times : now <= t
    /\ \E s \in Schedules :
          /\ CanCalculate(s.schedule, s.created)
          /\ report = [schedule |-> s.schedule, status |-> "active", ran |-> FALSE,
                       nextRun |-> CalculateNextRun(s.schedule, s.created, FALSE)]
    /\ selected = FALSE
    /\ queued = [m \in BOOLEAN |-> 0]
    /\ pc = [w \in Workers |-> "idle"]
    /\ mem = [w \in Workers |-> NoMemory]
    /\ page = [p \in Pages |-> NoPage]
    /\ running = {}
    /\ left = {}
    /\ events = 0
    /\ stopped = "no"

Tick ==
    /\ \E t \in Times :
          /\ t > now /\ \A u \in Times : u > now => t <= u
          /\ now' = t
    /\ UNCHANGED <<report, selected, queued, pc, mem, page, running, left, events>>
    /\ Remember

-----------------------------------------------------------------------------
(* check_scheduled_reports: the query, then the loop over what it found.   *)

TasksUnchanged == UNCHANGED <<pc, mem, running>>

CheckSelect ==
    /\ ~selected
    /\ Due(report)
    /\ selected' = TRUE
    /\ UNCHANGED <<report, now, queued, page, left, events>> /\ TasksUnchanged
    /\ Remember

AnyRunning == left # {} \/ running # {}

\* A report that has a running execution is skipped.
CheckTrigger ==
    /\ selected
    /\ selected' = FALSE
    /\ IF AnyRunning THEN UNCHANGED queued
       ELSE /\ queued[FALSE] < MaxQueued
            /\ queued' = [queued EXCEPT ![FALSE] = @ + 1]
    /\ UNCHANGED <<report, now, page, left, events>> /\ TasksUnchanged
    /\ Remember

-----------------------------------------------------------------------------
(* The pages.                                                              *)

\* The page creates a "running" row of its own before it queues the task.
SendNow ==
    /\ report # Gone
    /\ events < MaxEvents /\ queued[TRUE] < MaxQueued
    /\ events' = events + 1
    /\ left' = left \cup {"page"}
    /\ queued' = [queued EXCEPT ![TRUE] = @ + 1]
    /\ UNCHANGED <<report, now, selected, page>> /\ TasksUnchanged
    /\ Remember

\* A page loads the report, and later saves what it holds, or inserts it again.
Holds(p, does, copy) ==
    /\ page' = [page EXCEPT ![p] = [does |-> does, copy |-> copy]]
    /\ UNCHANGED <<now, selected, queued, left>> /\ TasksUnchanged

\* update_scheduled_report.
LoadEdit(p) ==
    /\ page[p] = NoPage
    /\ report # Gone
    /\ events < MaxEvents
    /\ events' = events + 1
    /\ UNCHANGED report /\ Holds(p, "edit", report)
    /\ Remember

\* The form gives the schedule and the status.
SaveEdit(p, schedule, status) ==
    LET copy == page[p].copy
        edited == [copy EXCEPT !.schedule = schedule, !.status = status,
                       !.nextRun = CalculateNextRun(schedule, now, copy.ran)]
    IN
    /\ page[p].does = "edit"
    /\ CanCalculate(schedule, now)
    /\ report' = Saved(edited)
    /\ UNCHANGED events /\ Holds(p, "nothing", Gone)
    /\ stopped' = StoppedNow

\* get_scheduled_reports loads all reports, and then gives each that has been
\* loaded without a next run one.
LoadList(p) ==
    /\ page[p] = NoPage
    /\ report # Gone
    /\ report.nextRun = Unset
    /\ UNCHANGED <<report, events>> /\ Holds(p, "list", report)
    /\ Remember

SaveList(p) ==
    LET copy == page[p].copy
        listed == [copy EXCEPT !.nextRun =
                      CalculateNextRun(copy.schedule, now, copy.ran)]
    IN
    /\ page[p].does = "list"
    /\ CanCalculate(copy.schedule, now)
    /\ report' = Saved(listed)
    /\ UNCHANGED events /\ Holds(p, "nothing", Gone)
    /\ Remember

\* A form that is refused, a next run that cannot be computed, a lost process.
EndPage(p) ==
    /\ page[p] # NoPage
    /\ UNCHANGED <<report, events>> /\ Holds(p, "nothing", Gone)
    /\ Remember

\* delete(): the execution rows go with the report.
DeleteReport ==
    /\ report # Gone
    /\ report' = Gone
    /\ left' = {}
    /\ running' = {}
    /\ UNCHANGED <<now, selected, queued, pc, mem, page, events>>
    /\ Remember

-----------------------------------------------------------------------------
(* execute_scheduled_report on worker w.                                   *)

\* The task goes on at `step` holding m; its execution row is running or not.
Goto(w, step, m, runs) ==
    /\ pc' = [pc EXCEPT ![w] = step]
    /\ mem' = [mem EXCEPT ![w] = IF step = "idle" THEN NoMemory ELSE m]
    /\ running' = IF runs THEN running \cup {w} ELSE running \ {w}

\* The report and its new "running" row; a deleted report ends the task.
StartTask(w, manual) ==
    /\ Idle(w)
    /\ queued[manual] > 0
    /\ queued' = [queued EXCEPT ![manual] = @ - 1]
    /\ IF report = Gone THEN TasksUnchanged
       ELSE Goto(w, "generate", [manual |-> manual, copy |-> report], TRUE)
    /\ UNCHANGED <<report, now, selected, page, left, events>>
    /\ Remember

\* The rest of a task, which queues nothing.
TaskStep == UNCHANGED <<now, selected, queued, page, left, events>> /\ Remember

\* The report is generated and the row completed; the row of a deleted report
\* cannot be saved, and generating may fail or exceed the soft time limit.
Generate(w) ==
    /\ pc[w] = "generate"
    /\ \/ report # Gone /\ Goto(w, "mail", mem[w], FALSE)
       \/ Goto(w, "failRow", mem[w], w \in running)
    /\ UNCHANGED report
    /\ TaskStep

Ran(m) == [m EXCEPT !.copy.ran = TRUE]

\* Variant: a run that succeeds makes the report active.
AdvancedActive(m) ==
    IF m.manual THEN [Ran(m) EXCEPT !.copy.status = "active"]
    ELSE IF m.copy.schedule.frequency = "once"
    THEN [Ran(m) EXCEPT !.copy.status = "completed", !.copy.nextRun = Unset]
    ELSE [Ran(m) EXCEPT !.copy.nextRun =
              CalculateNextRun(m.copy.schedule, now, TRUE)]

\* The statistics and the schedule of the held object after a run.
Advanced(m) ==
    IF m.manual THEN Ran(m)
    ELSE IF m.copy.schedule.frequency = "once"
    THEN [Ran(m) EXCEPT !.copy.status = "completed", !.copy.nextRun = Unset]
    ELSE [Ran(m) EXCEPT !.copy.nextRun =
              CalculateNextRun(m.copy.schedule, now, TRUE)]

AdvanceRaises(m) == ~m.manual /\ ~CanCalculate(m.copy.schedule, now)

\* The mail is sent, its errors noted in the row; report.save() writes the
\* report back whole, or inserts it again.  The time limit may strike before,
\* and the row of a deleted report cannot be saved.
FinishTask(w) ==
    LET m == mem[w]
        ran == IF AdvanceRaises(m) THEN Ran(m) ELSE Advanced(m)
        saves == ~AdvanceRaises(m) /\ ~SaveRaises(ran.copy)
    IN
    /\ pc[w] = "mail"
    /\ \/ /\ saves
          /\ report' = Saved(ran.copy)
          /\ Goto(w, "close", [ran EXCEPT !.copy = Saved(ran.copy)], FALSE)
       \/ UNCHANGED report /\ Goto(w, "failRow", ran, FALSE)
    /\ TaskStep

\* The last save of the row, with the time of the end.
CloseTask(w) ==
    /\ pc[w] = "close"
    /\ \/ report # Gone /\ Goto(w, "idle", mem[w], FALSE)
       \/ Goto(w, "failRow", mem[w], FALSE)
    /\ UNCHANGED report
    /\ TaskStep

\* The handler of any exception; it cannot save the row of a deleted report.
FailRow(w) ==
    /\ pc[w] = "failRow"
    /\ Goto(w, IF report = Gone THEN "idle" ELSE "failReport", mem[w], FALSE)
    /\ UNCHANGED report
    /\ TaskStep

\* Variant: the report of a failed run stays on the schedule.
FailRun(w) ==
    /\ pc[w] = "failReport"
    /\ UNCHANGED report
    /\ Goto(w, "idle", mem[w], FALSE)
    /\ TaskStep

\* A save that raises again leaves the report as it was: active and due.
FailReport(w) ==
    LET failed == [mem[w].copy EXCEPT !.status = "failed"] IN
    /\ pc[w] = "failReport"
    /\ report' = IF SaveRaises(failed) THEN report ELSE Saved(failed)
    /\ Goto(w, "idle", mem[w], FALSE)
    /\ TaskStep

\* Variant: the row of a killed task is forgotten.
KillForgets(w) ==
    /\ ~Idle(w)
    /\ events < MaxEvents
    /\ events' = events + 1
    /\ pc' = [pc EXCEPT ![w] = "idle"]
    /\ UNCHANGED <<report, now, selected, queued, mem, page, running, left>>
    /\ Remember

\* The worker process is lost, or the hard time limit kills it; the message
\* was acknowledged when the task began.
Kill(w) ==
    /\ ~Idle(w)
    /\ events < MaxEvents
    /\ events' = events + 1
    /\ left' = IF w \in running THEN left \cup {"task"} ELSE left
    /\ Goto(w, "idle", NoMemory, FALSE)
    /\ UNCHANGED <<report, now, selected, queued, page>>
    /\ Remember

-----------------------------------------------------------------------------
Check == CheckSelect \/ CheckTrigger

\* A worker process takes a message when it is idle, or goes on with its task.
Work(w) ==
    \/ \E manual \in BOOLEAN : StartTask(w, manual)
    \/ Generate(w) \/ FinishTask(w) \/ CloseTask(w)
    \/ FailRow(w) \/ FailReport(w)

\* A page that edits or lists reports.
Visit(p) ==
    \/ LoadEdit(p) \/ LoadList(p) \/ SaveList(p) \/ EndPage(p)
    \/ \E s \in EditedTo, status \in {"active", "paused"} : SaveEdit(p, s, status)

Next ==
    \/ Tick \/ Check
    \/ SendNow \/ DeleteReport
    \/ \E p \in Pages : Visit(p)
    \/ \E w \in Workers : Work(w) \/ Kill(w)
    \/ Quiet /\ UNCHANGED vars

Spec == Init /\ [][Next]_vars

\* Time passes, beat sends the check every minute, and workers work.  Nobody
\* has to use the pages.
FairSpec ==
    Spec /\ WF_vars(Tick) /\ WF_vars(Check) /\ \A w \in Workers : WF_vars(Work(w))

-----------------------------------------------------------------------------
\* A report that is paused, completed, failed or deleted while no check, message,
\* task or page of it is under way (for a deletion: no task or page) stays so: no
\* later run, sent by hand or left in the queue, and no listing makes it active
\* or brings it back.
StoppedStays ==
    /\ stopped = "gone" => report = Gone
    /\ stopped = "inactive" => report = Gone \/ report.status # "active"

\* A scheduled run that saves the report leaves it due only between the local
\* and the UTC midnight, and then for the execution time of the local day that
\* has begun: whatever the frequency and however old the copy, it is not run
\* again once the dates agree.
RunLeavesNotDue ==
    [][\A w \in Workers :
          pc[w] = "mail" /\ pc'[w] = "close" /\ ~mem[w].manual /\ Due(report') =>
              /\ UtcDay(now) < LocalDay(now)
              /\ report'.nextRun = At(LocalDay(now), report'.schedule)]_vars

\* A due report is run, rescheduled or taken off the schedule, unless an
\* execution row has been left "running" that no task will close.
DueIsHandled == Due(report) ~> (~Due(report) \/ left # {})

\* Comment at report_views.py:5331 "The task will execute asynchronously and
\* update the execution record": when everything has ended, the row of a
\* report sent by hand is not left running.
SentRunsFinish == Quiet => "page" \notin left
=============================================================================
