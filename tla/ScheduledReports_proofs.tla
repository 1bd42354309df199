---------------------- MODULE ScheduledReports_proofs ----------------------
(***************************************************************************)
(* Proofs about ScheduledReports, for every number of workers, every set   *)
(* of schedules, every calendar and every bound.  What a next run is does  *)
(* not matter to the stops, and when it lies ahead is all that matters to  *)
(* the runs: CalculateNextRun is never expanded.                           *)
(***************************************************************************)
EXTENDS ScheduledReports, NextRun_proofs, TLAPS

-----------------------------------------------------------------------------
(* The inductive invariant.                                                *)

NextRuns == {Unset} \cup
    {CalculateNextRun(s, n, ran) : s \in Schedule, n \in Nat, ran \in BOOLEAN}

\* A report whose next run is whatever the calendar computes.
Shape == [schedule : Schedule, status : Statuses, nextRun : NextRuns, ran : BOOLEAN]
Held == [manual : BOOLEAN, copy : Shape \cup {Gone}]
Visited == {NoPage} \cup [does : {"list", "edit"}, copy : Shape]

\* The report and its copies are reports; a task that runs holds one, and so
\* does a page that edits or lists.
Shaped ==
    /\ now \in Nat
    /\ report \in Shape \cup {Gone}
    /\ pc \in [Workers -> Steps]
    /\ mem \in [Workers -> Held]
    /\ \A w \in Workers : ~Idle(w) => mem[w].copy \in Shape
    /\ page \in [Pages -> Visited]

\* Who could undo a stop holds nothing to undo it with: after a deletion no task
\* runs and no page is open, and every copy loaded since the report became
\* inactive is of an inactive report, but for those that edits start anew from.
NothingToUndoWith ==
    /\ stopped = "gone" => AllIdle
    /\ stopped = "inactive" =>
          /\ \A w \in Workers : ~Idle(w) => mem[w].copy.status # "active"
          /\ \A p \in Pages : page[p].does = "list" => page[p].copy.status # "active"

IInv == Shaped /\ NothingToUndoWith /\ StoppedStays

-----------------------------------------------------------------------------
(* The operators.                                                          *)

\* A next run that has been computed is one of the next runs there are.
LEMMA CalculatedType ==
    ASSUME NEW s \in Schedule, NEW n \in Nat, NEW ran \in BOOLEAN
    PROVE  CalculateNextRun(s, n, ran) \in NextRuns
BY DEF NextRuns

\* ScheduledReport.save() writes a report, of the status it has been given.
LEMMA SavedShape ==
    ASSUME now \in Nat, NEW r \in Shape
    PROVE  Saved(r) \in Shape /\ Saved(r).status = r.status
<1>1. Unset \in NextRuns
  BY DEF NextRuns
<1>2. CalculateNextRun(r.schedule, now, r.ran) \in NextRuns
  BY CalculatedType DEF Shape
<1>3. ASSUME NEW n \in NextRuns
      PROVE  /\ [r EXCEPT !.nextRun = n] \in Shape
             /\ [r EXCEPT !.nextRun = n].status = r.status
  BY DEF Shape
<1>4. \/ Saved(r) = [r EXCEPT !.nextRun = Unset]
      \/ Saved(r) = [r EXCEPT !.nextRun = CalculateNextRun(r.schedule, now, r.ran)]
      \/ Saved(r) = r
  BY DEF Saved
<1>5. CASE Saved(r) = [r EXCEPT !.nextRun = Unset]
  BY <1>1, <1>3, <1>5
<1>6. CASE Saved(r) = [r EXCEPT !.nextRun = CalculateNextRun(r.schedule, now, r.ran)]
  BY <1>2, <1>3, <1>6
<1>7. CASE Saved(r) = r
  BY <1>7
<1>8. QED
  BY <1>4, <1>5, <1>6, <1>7

\* After a run the held object is a report; the run has not made it active.
LEMMA AdvancedShape ==
    ASSUME now \in Nat, NEW m \in Held, m.copy \in Shape
    PROVE  /\ Ran(m) \in Held /\ Ran(m).copy \in Shape
           /\ Ran(m).copy.status = m.copy.status
           /\ Advanced(m) \in Held /\ Advanced(m).copy \in Shape
           /\ Advanced(m).copy.status \in {m.copy.status, "completed"}
<1>1. /\ Ran(m) \in Held /\ Ran(m).copy \in Shape
      /\ Ran(m).copy.status = m.copy.status
      /\ Ran(m).manual = m.manual
  BY DEF Ran, Held, Shape
<1>2. Unset \in NextRuns /\ CalculateNextRun(m.copy.schedule, now, TRUE) \in NextRuns
  <2>1. Unset \in NextRuns
    BY DEF NextRuns
  <2>2. m.copy.schedule \in Schedule
    BY DEF Shape
  <2>3. QED
    BY <2>1, <2>2, CalculatedType
<1>3. ASSUME NEW n \in NextRuns
      PROVE  /\ [Ran(m) EXCEPT !.copy.nextRun = n] \in Held
             /\ [Ran(m) EXCEPT !.copy.nextRun = n].copy \in Shape
             /\ [Ran(m) EXCEPT !.copy.nextRun = n].copy.status = m.copy.status
  BY <1>1 DEF Held, Shape
<1>4. ASSUME NEW n \in NextRuns
      PROVE  LET done == [Ran(m) EXCEPT !.copy.status = "completed",
                                        !.copy.nextRun = n]
             IN done \in Held /\ done.copy \in Shape /\ done.copy.status = "completed"
  BY <1>1 DEF Held, Shape, Statuses
<1>5. \/ Advanced(m) = Ran(m)
      \/ Advanced(m) = [Ran(m) EXCEPT !.copy.status = "completed",
                                      !.copy.nextRun = Unset]
      \/ Advanced(m) = [Ran(m) EXCEPT !.copy.nextRun =
                            CalculateNextRun(m.copy.schedule, now, TRUE)]
  BY DEF Advanced
<1>6. QED
  BY <1>1, <1>2, <1>3, <1>4, <1>5

\* A worker that moves on with a report, or ends, keeps the shape.
LEMMA GotoShaped ==
    ASSUME Shaped, NEW w \in Workers, NEW step \in Steps, NEW m, NEW s,
           step # "idle" => m \in Held /\ m.copy \in Shape,
           Goto(w, step, m, s)
    PROVE  /\ pc' \in [Workers -> Steps] /\ mem' \in [Workers -> Held]
           /\ \A v \in Workers : pc'[v] # "idle" => mem'[v].copy \in Shape
           /\ pc'[w] = step
           /\ step # "idle" => mem'[w] = m
           /\ \A v \in Workers \ {w} : pc'[v] = pc[v] /\ mem'[v] = mem[v]
<1>1. NoMemory \in Held
  BY DEF NoMemory, Held
<1>2. QED
  BY <1>1 DEF Shaped, Goto, Idle

\* A page that does nothing does not list.
LEMMA NoPageLists == NoPage.does # "list"
BY DEF NoPage

\* Whatever a step does: if it leaves a stop that is remembered in place, and
\* nobody with something to undo it with, so it is with what it remembers now.
LEMMA RememberKeeps ==
    ASSUME Remember,
           stopped = "gone" => report' = Gone /\ AllIdle',
           stopped = "inactive" =>
               /\ report' = Gone \/ report'.status # "active"
               /\ \A w \in Workers : pc'[w] # "idle" => mem'[w].copy.status # "active"
               /\ \A p \in Pages : page'[p].does = "list" =>
                                         page'[p].copy.status # "active"
    PROVE  NothingToUndoWith' /\ StoppedStays'
<1>1. CASE StoppedNow = "no"
  BY <1>1 DEF Remember, NothingToUndoWith, StoppedStays, Idle
<1>2. CASE StoppedNow = "gone"
  <2>1. report' = Gone /\ AllIdle' /\ stopped' = "gone"
    BY <1>2 DEF Remember, StoppedNow
  <2>2. QED
    BY <2>1 DEF NothingToUndoWith, StoppedStays
<1>3. CASE StoppedNow = "inactive"
  <2>1. report'.status # "active" /\ AllIdle' /\ stopped' = "inactive"
    BY <1>3 DEF Remember, StoppedNow, Quiet
  <2>2. QED
    BY <2>1, NoPageLists DEF NothingToUndoWith, StoppedStays, AllIdle
<1>4. QED
  BY <1>1, <1>2, <1>3 DEF StoppedNow

\* A step that changes neither the report nor a copy.
LEMMA QuietKeeps ==
    ASSUME IInv, Remember, now' \in Nat, UNCHANGED <<report, pc, mem, page>>
    PROVE  IInv'
<1>1. Shaped'
  BY DEF IInv, Shaped, Idle
<1>2. NothingToUndoWith' /\ StoppedStays'
  BY RememberKeeps DEF IInv, NothingToUndoWith, StoppedStays, AllIdle, Idle
<1>3. QED
  BY <1>1, <1>2 DEF IInv

\* A step of worker w that goes on with its own copy of the report, or ends,
\* and leaves the report alone or saves what is no more active than that copy.
LEMMA TaskKeeps ==
    ASSUME IInv, Remember, UNCHANGED <<now, page>>,
           NEW w \in Workers, ~Idle(w), NEW step \in Steps, NEW m, NEW s,
           Goto(w, step, m, s),
           step # "idle" => /\ m \in Held /\ m.copy \in Shape
                            /\ m.copy.status \in {mem[w].copy.status, "completed"},
           \/ report' = report
           \/ /\ report' \in Shape
              /\ report'.status \in {mem[w].copy.status, "completed", "failed"}
    PROVE  IInv'
<1>1. Shaped'
  BY GotoShaped DEF IInv, Shaped, Idle
<1>2. stopped # "gone"
  BY DEF IInv, NothingToUndoWith, AllIdle
<1>3. ASSUME stopped = "inactive"
      PROVE  /\ report' = Gone \/ report'.status # "active"
             /\ \A v \in Workers : pc'[v] # "idle" => mem'[v].copy.status # "active"
             /\ \A p \in Pages : page'[p].does = "list" =>
                                       page'[p].copy.status # "active"
  <2>1. /\ \A v \in Workers : pc[v] # "idle" => mem[v].copy.status # "active"
        /\ \A p \in Pages : page[p].does = "list" => page[p].copy.status # "active"
        /\ report = Gone \/ report.status # "active"
    BY <1>3 DEF IInv, NothingToUndoWith, StoppedStays, Idle
  <2>2. mem[w].copy.status # "active"
    BY <2>1 DEF Idle
  <2>3. report' = Gone \/ report'.status # "active"
    BY <2>1, <2>2
  <2>4. ASSUME NEW v \in Workers, pc'[v] # "idle"
        PROVE  mem'[v].copy.status # "active"
    <3>1. CASE v = w
      <4>1. pc'[w] = step /\ (step # "idle" => mem'[w] = m)
        BY GotoShaped DEF IInv
      <4>2. QED
        BY <2>2, <2>4, <3>1, <4>1
    <3>2. CASE v # w
      BY <2>1, <2>4, <3>2, GotoShaped DEF IInv
    <3>3. QED
      BY <3>1, <3>2
  <2>5. QED
    BY <2>1, <2>3, <2>4
<1>4. QED
  BY <1>1, <1>2, <1>3, RememberKeeps DEF IInv

\* A step of page p that loads the report as it is, or ends, and leaves the
\* report alone or saves what is no more active than the copy of a listing.
LEMMA PageKeeps ==
    ASSUME IInv, Remember, UNCHANGED <<now, pc, mem>>,
           NEW p \in Pages, NEW does, NEW copy, page' = [page EXCEPT ![p] = [does |-> does, copy |-> copy]],
           \/ does = "nothing" /\ copy = Gone /\ page[p] # NoPage
           \/ does \in {"list", "edit"} /\ copy = report /\ report # Gone,
           \/ report' = report
           \/ /\ page[p].does = "list" /\ does = "nothing"
              /\ report' \in Shape /\ report'.status = page[p].copy.status
    PROVE  IInv'
<1> DEFINE visit == [does |-> does, copy |-> copy]
<1>1. /\ visit \in Visited /\ page' = [page EXCEPT ![p] = visit]
      /\ visit.does = "list" => report # Gone /\ visit.copy = report
  BY DEF IInv, Shaped, Visited, NoPage
<1> HIDE DEF visit
<1>2. page \in [Pages -> Visited] /\ page'[p] = visit
      /\ page' \in [Pages -> Visited]
      /\ \A q \in Pages \ {p} : page'[q] = page[q]
  BY <1>1 DEF IInv, Shaped
<1>3. Shaped'
  BY <1>2 DEF IInv, Shaped, Idle
<1>4. stopped # "gone"
  BY NoPageLists DEF IInv, NothingToUndoWith, StoppedStays, AllIdle
<1>5. ASSUME stopped = "inactive"
      PROVE  /\ report' = Gone \/ report'.status # "active"
             /\ \A v \in Workers : pc'[v] # "idle" => mem'[v].copy.status # "active"
             /\ \A q \in Pages : page'[q].does = "list" =>
                                       page'[q].copy.status # "active"
  <2>1. /\ \A v \in Workers : pc[v] # "idle" => mem[v].copy.status # "active"
        /\ \A q \in Pages : page[q].does = "list" => page[q].copy.status # "active"
        /\ report = Gone \/ report.status # "active"
    BY <1>5 DEF IInv, NothingToUndoWith, StoppedStays, Idle
  <2>2. report' = Gone \/ report'.status # "active"
    BY <2>1
  <2>3. \A q \in Pages : page'[q].does = "list" => page'[q].copy.status # "active"
    BY <1>1, <1>2, <2>1
  <2>4. QED
    BY <2>1, <2>2, <2>3
<1>6. QED
  BY <1>3, <1>4, <1>5, RememberKeeps DEF IInv

-----------------------------------------------------------------------------
(* The invariant is inductive.                                             *)

LEMMA InitInv == Init => IInv
<1> SUFFICES ASSUME Init PROVE IInv
  OBVIOUS
<1>1. PICK s \in Schedules :
        report = [schedule |-> s.schedule, status |-> "active", ran |-> FALSE,
                  nextRun |-> CalculateNextRun(s.schedule, s.created, FALSE)]
  BY DEF Init
<1>2. s.schedule \in Schedule /\ s.created \in Nat
  BY InputsAssumption
<1>3. report \in Shape
  <2>1. CalculateNextRun(s.schedule, s.created, FALSE) \in NextRuns
    BY <1>2, CalculatedType
  <2>2. QED
    BY <1>1, <1>2, <2>1 DEF Shape, Statuses
<1>4. Shaped
  <2>1. now \in Nat
    BY CalendarSuffices DEF Init, HasSpareYear
  <2>2. QED
    BY <1>3, <2>1 DEF Init, Shaped, Steps, Held, NoMemory, Idle, Visited
<1>5. QED
  BY <1>4 DEF Init, IInv, NothingToUndoWith, StoppedStays

\* The clock, the check, and the pages that send and delete the report.
LEMMA RestKeeps ==
    ASSUME IInv, Tick \/ Check \/ SendNow \/ DeleteReport
    PROVE  IInv'
<1>1. CASE Tick
  <2>1. now' \in Nat
    BY <1>1, CalendarSuffices DEF Tick, HasSpareYear
  <2>2. QED
    BY <1>1, <2>1, QuietKeeps DEF Tick
<1>2. CASE Check
  BY <1>2, QuietKeeps
  DEF Check, CheckSelect, CheckTrigger, TasksUnchanged, IInv, Shaped
<1>3. CASE SendNow
  BY <1>3, QuietKeeps DEF SendNow, TasksUnchanged, IInv, Shaped
<1>4. CASE DeleteReport
  <2>1. UNCHANGED <<now, pc, mem, page>> /\ Remember /\ report' = Gone
    BY <1>4 DEF DeleteReport, TasksUnchanged
  <2>2. Shaped'
    BY <2>1 DEF IInv, Shaped, Idle
  <2>3. NothingToUndoWith' /\ StoppedStays'
    BY <2>1, RememberKeeps DEF IInv, NothingToUndoWith, AllIdle, Idle
  <2>4. QED
    BY <2>2, <2>3 DEF IInv
<1>5. QED
  BY <1>1, <1>2, <1>3, <1>4

\* The pages that edit and list.
LEMMA VisitsKeep ==
    ASSUME IInv, NEW p \in Pages, Visit(p) PROVE IInv'
<1> USE DEF Holds, TasksUnchanged
<1>1. /\ now \in Nat /\ page[p] \in Visited /\ report \in Shape \cup {Gone}
      /\ page[p].does # "nothing" => page[p].copy \in Shape
  BY DEF IInv, Shaped, Visited, NoPage
<1>2. CASE LoadEdit(p) \/ LoadList(p)
  BY <1>2, PageKeeps DEF LoadEdit, LoadList
<1>3. CASE EndPage(p)
  BY <1>3, PageKeeps DEF EndPage
<1>4. CASE SaveList(p)
  <2> DEFINE copy == page[p].copy
             next == CalculateNextRun(copy.schedule, now, copy.ran)
             listed == [copy EXCEPT !.nextRun = next]
  <2>1. page[p].does = "list" /\ copy \in Shape
    BY <1>1, <1>4 DEF SaveList
  <2>2. next \in NextRuns
    BY <1>1, <2>1, CalculatedType DEF Shape
  <2>3. report' = Saved(listed)
    BY <1>4 DEF SaveList
  <2> HIDE DEF next
  <2>4. listed \in Shape /\ listed.status = copy.status
    BY <2>1, <2>2 DEF Shape
  <2> HIDE DEF listed
  <2>5. report' \in Shape /\ report'.status = page[p].copy.status
    BY <1>1, <2>3, <2>4, SavedShape
  <2>6. /\ UNCHANGED <<now, pc, mem>> /\ Remember
        /\ page' = [page EXCEPT ![p] = [does |-> "nothing", copy |-> Gone]]
    BY <1>4 DEF SaveList
  <2>7. page[p] # NoPage
    BY <2>1, NoPageLists
  <2>8. QED
    BY <2>1, <2>5, <2>6, <2>7, PageKeeps
\* An edit starts anew: it remembers a stop only if nothing is under way.
<1>5. ASSUME NEW s \in EditedTo, NEW status \in {"active", "paused"},
             SaveEdit(p, s, status)
      PROVE  IInv'
  <2> DEFINE copy == page[p].copy
             next == CalculateNextRun(s, now, copy.ran)
             edited == [copy EXCEPT !.schedule = s, !.status = status, !.nextRun = next]
  <2>1. copy \in Shape /\ s \in Schedule
    BY <1>1, <1>5, InputsAssumption DEF SaveEdit
  <2>2. next \in NextRuns
    BY <1>1, <2>1, CalculatedType DEF Shape
  <2>3. report' = Saved(edited)
    BY <1>5 DEF SaveEdit
  <2> HIDE DEF next
  <2>4. edited \in Shape
    BY <2>1, <2>2 DEF Shape, Statuses
  <2> HIDE DEF edited
  <2>5. report' \in Shape
    BY <1>1, <2>3, <2>4, SavedShape
  <2>6. /\ UNCHANGED <<now, pc, mem>> /\ stopped' = StoppedNow
        /\ page' = [page EXCEPT ![p] = NoPage]
    BY <1>5 DEF SaveEdit, NoPage
  <2>7. Shaped'
    BY <2>5, <2>6 DEF IInv, Shaped, Idle, Visited
  <2>8. NothingToUndoWith' /\ StoppedStays'
    <3>1. CASE StoppedNow = "no"
      BY <2>6, <3>1 DEF NothingToUndoWith, StoppedStays
    <3>2. CASE StoppedNow # "no"
      <4>1. AllIdle'
        BY <3>2 DEF StoppedNow, Quiet
      <4>2. StoppedStays'
        BY <2>6 DEF StoppedNow, StoppedStays
      <4>3. QED
        BY <4>1, <4>2, NoPageLists DEF NothingToUndoWith, AllIdle
    <3>3. QED
      BY <3>1, <3>2
  <2>9. QED
    BY <2>7, <2>8 DEF IInv
<1>6. QED
  BY <1>2, <1>3, <1>4, <1>5 DEF Visit

\* The tasks.
LEMMA TasksKeep ==
    ASSUME IInv, NEW w \in Workers, Work(w) \/ Kill(w) PROVE IInv'
<1>1. ASSUME NEW manual \in BOOLEAN, StartTask(w, manual) PROVE IInv'
  <2>1. Idle(w) /\ UNCHANGED <<report, now, page>> /\ Remember
    BY <1>1 DEF StartTask
  <2>2. CASE report = Gone
    BY <1>1, <2>1, <2>2, QuietKeeps DEF StartTask, TasksUnchanged, IInv, Shaped
  <2>3. CASE report # Gone
    <3> DEFINE m == [manual |-> manual, copy |-> report]
    <3>1. m \in Held /\ m.copy \in Shape /\ m.copy = report
      BY <2>3 DEF Held, IInv, Shaped
    <3>2. Goto(w, "generate", m, TRUE)
      BY <1>1, <2>3 DEF StartTask
    <3> HIDE DEF m
    <3>3. /\ pc' \in [Workers -> Steps] /\ mem' \in [Workers -> Held]
          /\ \A v \in Workers : pc'[v] # "idle" => mem'[v].copy \in Shape
          /\ mem'[w] = m
          /\ \A v \in Workers \ {w} : pc'[v] = pc[v] /\ mem'[v] = mem[v]
      BY <3>1, <3>2, GotoShaped DEF IInv, Steps
    <3>4. Shaped'
      BY <2>1, <3>3 DEF IInv, Shaped, Idle
    <3>5. stopped # "gone"
      BY <2>3 DEF IInv, StoppedStays
    <3>6. ASSUME stopped = "inactive"
          PROVE  /\ report'.status # "active"
                 /\ \A v \in Workers : pc'[v] # "idle" => mem'[v].copy.status # "active"
                 /\ \A p \in Pages : page'[p].does = "list" =>
                                           page'[p].copy.status # "active"
      <4>1. report.status # "active"
        BY <2>3, <3>6 DEF IInv, StoppedStays
      <4>2. /\ \A v \in Workers : pc[v] # "idle" => mem[v].copy.status # "active"
            /\ \A p \in Pages : page[p].does = "list" => page[p].copy.status # "active"
        BY <3>6 DEF IInv, NothingToUndoWith, Idle
      <4>3. QED
        BY <2>1, <3>1, <3>3, <4>1, <4>2
    <3>7. QED
      BY <2>1, <3>4, <3>5, <3>6, RememberKeeps DEF IInv
  <2>4. QED
    BY <2>2, <2>3
<1>2. CASE ~Idle(w) /\ ~\E manual \in BOOLEAN : StartTask(w, manual)
  <2> DEFINE m == mem[w]
  <2>1. now \in Nat /\ m \in Held /\ m.copy \in Shape
    BY <1>2 DEF IInv, Shaped
  <2> HIDE DEF m
  <2>2. ASSUME Generate(w) PROVE IInv'
    <3>1. UNCHANGED <<now, page>> /\ Remember /\ report' = report
      BY <2>2 DEF Generate, TaskStep
    <3>2. \/ Goto(w, "mail", m, FALSE)
          \/ Goto(w, "failRow", m, w \in running)
      BY <2>2 DEF Generate, m
    <3>3. m.copy.status = mem[w].copy.status
      BY DEF m
    <3>4. "mail" \in Steps /\ "failRow" \in Steps
      BY DEF Steps
    <3>5. QED
      BY <1>2, <2>1, <3>1, <3>2, <3>3, <3>4, TaskKeeps
  <2>3. ASSUME FinishTask(w) PROVE IInv'
    <3> DEFINE ran == IF AdvanceRaises(m) THEN Ran(m) ELSE Advanced(m)
    <3>1. UNCHANGED <<now, page>> /\ Remember
      BY <2>3 DEF FinishTask, TaskStep
    <3>2. /\ ran \in Held /\ ran.copy \in Shape
          /\ ran.copy.status \in {mem[w].copy.status, "completed"}
      BY <2>1, AdvancedShape DEF m
    <3>3. \/ /\ report' = Saved(ran.copy)
             /\ Goto(w, "close", [ran EXCEPT !.copy = Saved(ran.copy)], FALSE)
          \/ report' = report /\ Goto(w, "failRow", ran, FALSE)
      BY <2>3 DEF FinishTask, m
    <3> HIDE DEF ran
    <3>4. "close" \in Steps /\ "failRow" \in Steps
      BY DEF Steps
    <3>5. CASE /\ report' = Saved(ran.copy)
               /\ Goto(w, "close", [ran EXCEPT !.copy = Saved(ran.copy)], FALSE)
      <4> DEFINE held == [ran EXCEPT !.copy = Saved(ran.copy)]
      <4>1. Saved(ran.copy) \in Shape /\ Saved(ran.copy).status = ran.copy.status
        BY <2>1, <3>2, SavedShape
      <4>2. held \in Held /\ held.copy = Saved(ran.copy)
        BY <3>2, <4>1 DEF Held
      <4>3. Goto(w, "close", held, FALSE)
        BY <3>5
      <4> HIDE DEF held
      <4>4. QED
        BY <1>2, <3>1, <3>2, <3>4, <3>5, <4>1, <4>2, <4>3, TaskKeeps
    <3>6. CASE report' = report /\ Goto(w, "failRow", ran, FALSE)
      BY <1>2, <3>1, <3>2, <3>4, <3>6, TaskKeeps
    <3>7. QED
      BY <3>3, <3>5, <3>6
  <2>4. ASSUME FailRow(w) PROVE IInv'
    <3>1. UNCHANGED <<now, page>> /\ Remember /\ report' = report
      BY <2>4 DEF FailRow, TaskStep
    <3>2. \/ Goto(w, "idle", m, FALSE)
          \/ Goto(w, "failReport", m, FALSE)
      BY <2>4 DEF FailRow, m
    <3>3. m.copy.status = mem[w].copy.status
      BY DEF m
    <3>4. "idle" \in Steps /\ "failReport" \in Steps
      BY DEF Steps
    <3>5. QED
      BY <1>2, <2>1, <3>1, <3>2, <3>3, <3>4, TaskKeeps
  <2>5. ASSUME FailReport(w) PROVE IInv'
    <3> DEFINE failed == [m.copy EXCEPT !.status = "failed"]
    <3>1. UNCHANGED <<now, page>> /\ Remember /\ Goto(w, "idle", m, FALSE)
      BY <2>5 DEF FailReport, TaskStep, m
    <3>2. failed \in Shape /\ failed.status = "failed"
      BY <2>1 DEF Shape, Statuses
    <3>3. report' = report \/ report' = Saved(failed)
      BY <2>5 DEF FailReport, m
    <3> HIDE DEF failed
    <3>4. report' # report => report' \in Shape /\ report'.status = "failed"
      BY <2>1, <3>2, <3>3, SavedShape
    <3>5. "idle" \in Steps
      BY DEF Steps
    <3>6. QED
      BY <1>2, <3>1, <3>4, <3>5, TaskKeeps
  <2>6. ASSUME Kill(w) PROVE IInv'
    <3>1. /\ UNCHANGED <<now, page>> /\ Remember /\ report' = report
          /\ Goto(w, "idle", NoMemory, FALSE)
      BY <2>6 DEF Kill
    <3>2. "idle" \in Steps
      BY DEF Steps
    <3>3. QED
      BY <1>2, <3>1, <3>2, TaskKeeps
  <2>7. ASSUME CloseTask(w) PROVE IInv'
    <3>1. UNCHANGED <<now, page>> /\ Remember /\ report' = report
      BY <2>7 DEF CloseTask, TaskStep
    <3>2. Goto(w, "idle", m, FALSE) \/ Goto(w, "failRow", m, FALSE)
      BY <2>7 DEF CloseTask, m
    <3>3. m.copy.status = mem[w].copy.status
      BY DEF m
    <3>4. "idle" \in Steps /\ "failRow" \in Steps
      BY DEF Steps
    <3>5. QED
      BY <1>2, <2>1, <3>1, <3>2, <3>3, <3>4, TaskKeeps
  <2>8. QED
    BY <1>2, <2>2, <2>3, <2>4, <2>5, <2>6, <2>7 DEF Work
<1>3. ~Idle(w) \/ \E manual \in BOOLEAN : StartTask(w, manual)
  BY DEF Work, Generate, FinishTask, CloseTask, FailRow, FailReport, Kill, Idle
<1>4. QED
  BY <1>1, <1>2, <1>3

\* A stop stays: a report that is deleted with no task running and no page open,
\* or that stops being active with nothing of it under way, is neither brought back
\* nor made active but by an edit.
THEOREM StopsStay == Spec => []StoppedStays
<1>1. IInv /\ [Next]_vars => IInv'
  <2> SUFFICES ASSUME IInv, [Next]_vars PROVE IInv'
    OBVIOUS
  <2>1. CASE UNCHANGED vars
    BY <2>1 DEF vars, IInv, Shaped, NothingToUndoWith, StoppedStays, AllIdle, Idle
  <2>2. QED
    BY <2>1, RestKeeps, VisitsKeep, TasksKeep DEF Next
<1>2. IInv => StoppedStays
  BY DEF IInv
<1>3. QED
  BY <1>1, <1>2, InitInv, PTL DEF Spec

-----------------------------------------------------------------------------
(* Types, and next runs.  Their invariant keeps the days in the calendar.  *)

DatedReport == {r \in Report : InCalendar(r.schedule.start)}
Memory == [manual : BOOLEAN, copy : Report \cup {Gone}]
DatedVisits == {NoPage} \cup [does : {"list", "edit"}, copy : DatedReport]

\* A task that runs holds a report, one that does not holds nothing.
TaskTypes ==
    /\ pc \in [Workers -> Steps]
    /\ running \subseteq {w \in Workers : ~Idle(w)}
    /\ mem \in [Workers -> Memory]
    /\ \A w \in Workers : Idle(w) => mem[w] = NoMemory
    /\ \A w \in Workers : ~Idle(w) => mem[w].copy \in DatedReport

RestTypes ==
    /\ events \in Nat
    /\ page \in [Pages -> DatedVisits]
    /\ left \in SUBSET {"page", "task"}
    /\ selected \in BOOLEAN
    /\ queued \in [BOOLEAN -> 0..MaxQueued]
    /\ stopped \in {"no", "inactive", "gone"}

Clocked == now \in Times
Typed == TaskTypes /\ RestTypes /\ Clocked /\ report \in DatedReport \cup {Gone}

\* Due, if at all, for the execution time of the local day, whose UTC date is
\* still to begin.
LeftForToday(r) ==
    Due(r) => UtcDay(now) < LocalDay(now) /\ r.nextRun = At(LocalDay(now), r.schedule)

\* What is computed until the behaviours end has a spare year ahead.
LEMMA CalculatedAhead ==
    ASSUME NEW t, HasSpareYear(t),
           NEW s \in Schedule, InCalendar(s.start), NEW ran \in BOOLEAN
    PROVE  /\ CalculateNextRun(s, t, ran) \in Nat \cup {Unset}
           /\ s.frequency # "once" =>
                 \/ CalculateNextRun(s, t, ran) = Unset
                 \/ CalculateNextRun(s, t, ran) > t
                 \/ /\ UtcDay(t) < LocalDay(t)
                    /\ CalculateNextRun(s, t, ran) = At(LocalDay(t), s)
BY NextRunIsAhead

\* The clock.
LEMMA TimesSpare == Clocked => HasSpareYear(now) /\ now \in Nat
BY CalendarSuffices DEF Clocked, HasSpareYear

\* save() writes a report of the calendar.  Of one that runs more than once it
\* recalculates a next run that has come, so that it is not left due, or for today.
LEMMA SavedIsNotDue ==
    ASSUME Clocked, NEW r \in DatedReport
    PROVE  /\ Saved(r) \in DatedReport /\ Saved(r).status = r.status
           /\ r.schedule.frequency # "once" => LeftForToday(Saved(r))
<1> DEFINE next == CalculateNextRun(r.schedule, now, r.ran)
<1>1. /\ r \in Report /\ r.schedule \in Schedule /\ r.nextRun \in Nat \cup {Unset}
      /\ r.ran \in BOOLEAN /\ InCalendar(r.schedule.start)
      /\ HasSpareYear(now) /\ now \in Nat
  BY TimesSpare DEF DatedReport, Report
<1>2. /\ next \in Nat \cup {Unset}
      /\ r.schedule.frequency # "once" =>
            \/ next = Unset \/ next > now
            \/ UtcDay(now) < LocalDay(now) /\ next = At(LocalDay(now), r.schedule)
  BY <1>1, CalculatedAhead
<1> HIDE DEF next
<1>3. ASSUME NEW n \in Nat \cup {Unset}
      PROVE  /\ [r EXCEPT !.nextRun = n] \in DatedReport
             /\ [r EXCEPT !.nextRun = n].status = r.status
             /\ [r EXCEPT !.nextRun = n].nextRun = n
             /\ [r EXCEPT !.nextRun = n].schedule = r.schedule
  BY <1>1 DEF DatedReport, Report
<1>4. CASE IsDone(r)
  <2>1. Saved(r) = [r EXCEPT !.nextRun = Unset] /\ r.schedule.frequency = "once"
    BY <1>4 DEF Saved, IsDone
  <2>2. QED
    BY <1>3, <2>1
<1>5. CASE ~IsDone(r) /\ Recalculates(r)
  <2>1. Saved(r) = [r EXCEPT !.nextRun = next]
    BY <1>5 DEF Saved, next
  <2>2. /\ Saved(r) \in DatedReport /\ Saved(r).status = r.status
        /\ Saved(r).nextRun = next /\ Saved(r).schedule = r.schedule
    BY <1>2, <1>3, <2>1
  <2>3. ASSUME r.schedule.frequency # "once", Due(Saved(r))
        PROVE  UtcDay(now) < LocalDay(now) /\ next = At(LocalDay(now), r.schedule)
    <3>1. next # Unset /\ next <= now
      BY <2>2, <2>3 DEF Due
    <3>2. ~(next > now)
      BY <1>1, <1>2, <3>1 DEF Unset
    <3>3. QED
      BY <1>2, <2>3, <3>1, <3>2
  <2>4. QED
    BY <2>2, <2>3 DEF LeftForToday
<1>6. CASE ~IsDone(r) /\ ~Recalculates(r)
  <2>1. Saved(r) = r
    BY <1>6 DEF Saved
  <2>2. ~(r.nextRun <= now)
    BY <1>6 DEF Recalculates
  <2>3. QED
    BY <2>1, <2>2 DEF Due, LeftForToday
<1>7. QED
  BY <1>4, <1>5, <1>6

\* What a task holds after a run: a report of the calendar and, unless it was
\* sent by hand, one that runs again or has been completed.
LEMMA AdvancedTyped ==
    ASSUME Clocked, NEW m \in Memory, m.copy \in DatedReport
    PROVE  /\ Ran(m) \in Memory /\ Ran(m).copy \in DatedReport
           /\ Advanced(m) \in Memory /\ Advanced(m).copy \in DatedReport
           /\ ~m.manual => \/ Advanced(m).copy.schedule.frequency # "once"
                           \/ Advanced(m).copy.status = "completed"
<1> DEFINE next == CalculateNextRun(m.copy.schedule, now, TRUE)
<1>1. /\ m.copy.schedule \in Schedule /\ InCalendar(m.copy.schedule.start)
      /\ m.copy \in Report /\ HasSpareYear(now)
  BY TimesSpare DEF DatedReport, Report
<1>2. /\ Ran(m) \in Memory /\ Ran(m).copy \in DatedReport
      /\ Ran(m).copy.schedule = m.copy.schedule
  BY <1>1 DEF Ran, Memory, DatedReport, Report
<1>3. next \in Nat \cup {Unset} /\ Unset \in Nat \cup {Unset}
  BY <1>1, CalculatedAhead
<1> HIDE DEF next
<1>4. ASSUME NEW n \in Nat \cup {Unset}
      PROVE  /\ [Ran(m) EXCEPT !.copy.nextRun = n] \in Memory
             /\ [Ran(m) EXCEPT !.copy.nextRun = n].copy \in DatedReport
             /\ [Ran(m) EXCEPT !.copy.nextRun = n].copy.schedule = m.copy.schedule
  BY <1>2 DEF Memory, DatedReport, Report
<1>5. ASSUME NEW n \in Nat \cup {Unset}
      PROVE  LET done == [Ran(m) EXCEPT !.copy.status = "completed",
                                        !.copy.nextRun = n]
             IN  /\ done \in Memory /\ done.copy \in DatedReport
                 /\ done.copy.status = "completed"
  BY <1>2 DEF Memory, DatedReport, Report, Statuses
<1>6. CASE m.manual
  <2>1. Advanced(m) = Ran(m)
    BY <1>6 DEF Advanced
  <2>2. QED
    BY <1>2, <1>6, <2>1
<1>7. CASE ~m.manual /\ m.copy.schedule.frequency = "once"
  <2>1. Advanced(m) = [Ran(m) EXCEPT !.copy.status = "completed",
                                     !.copy.nextRun = Unset]
    BY <1>7 DEF Advanced
  <2>2. QED
    BY <1>2, <1>3, <1>5, <2>1
<1>8. CASE ~m.manual /\ m.copy.schedule.frequency # "once"
  <2>1. Advanced(m) = [Ran(m) EXCEPT !.copy.nextRun = next]
    BY <1>8 DEF Advanced, next
  <2>2. QED
    BY <1>2, <1>3, <1>4, <1>8, <2>1
<1>9. QED
  BY <1>6, <1>7, <1>8

\* A worker that moves on with a report, or ends.
LEMMA GotoTyped ==
    ASSUME TaskTypes, NEW w \in Workers, NEW step \in Steps, NEW m,
           NEW runs \in BOOLEAN, step = "idle" => ~runs,
           step # "idle" => m \in Memory /\ m.copy \in DatedReport,
           Goto(w, step, m, runs)
    PROVE  TaskTypes'
<1>1. NoMemory \in Memory
  BY DEF NoMemory, Memory
<1>2. pc' \in [Workers -> Steps] /\ mem' \in [Workers -> Memory]
  BY <1>1 DEF TaskTypes, Goto
<1>3. ASSUME NEW v \in Workers
      PROVE  /\ pc'[v] = "idle" => mem'[v] = NoMemory
             /\ pc'[v] # "idle" => mem'[v].copy \in DatedReport
  BY DEF TaskTypes, Goto, Idle
<1>4. running' \subseteq {v \in Workers : pc'[v] # "idle"}
  <2>1. /\ running' \subseteq running \cup {w}
        /\ w \in running' => runs
        /\ pc'[w] = step /\ \A v \in Workers \ {w} : pc'[v] = pc[v]
    BY DEF TaskTypes, Goto
  <2>2. QED
    BY <2>1 DEF TaskTypes, Idle
<1>5. QED
  BY <1>2, <1>3, <1>4 DEF TaskTypes, Idle

\* A step that changes no task.
LEMMA TasksStay == TaskTypes /\ TasksUnchanged => TaskTypes'
BY DEF TaskTypes, TasksUnchanged, Idle

\* What is remembered is one of the three.
LEMMA RememberTyped ==
    ASSUME RestTypes, Remember \/ stopped' = StoppedNow
    PROVE  stopped' \in {"no", "inactive", "gone"}
BY DEF RestTypes, Remember, StoppedNow

\* A message more, as long as there is room.
LEMMA OneMoreQueued ==
    ASSUME RestTypes, NEW manual \in BOOLEAN, queued[manual] < MaxQueued,
           queued' = [queued EXCEPT ![manual] = @ + 1]
    PROVE  queued' \in [BOOLEAN -> 0..MaxQueued]
<1>1. MaxQueued \in Nat /\ queued \in [BOOLEAN -> 0..MaxQueued]
  BY InputsAssumption DEF RestTypes
<1>2. queued[manual] + 1 \in 0..MaxQueued
  BY <1>1
<1>3. QED
  BY <1>1, <1>2

-----------------------------------------------------------------------------
LEMMA InitTyped == Init => Typed
<1> SUFFICES ASSUME Init PROVE Typed
  OBVIOUS
<1>1. PICK s \in Schedules :
        report = [schedule |-> s.schedule, status |-> "active", ran |-> FALSE,
                  nextRun |-> CalculateNextRun(s.schedule, s.created, FALSE)]
  BY DEF Init
<1>2. /\ s.schedule \in Schedule /\ InCalendar(s.schedule.start)
      /\ HasSpareYear(s.created)
  BY InputsAssumption, CalendarSuffices
<1>3. CalculateNextRun(s.schedule, s.created, FALSE) \in Nat \cup {Unset}
  BY <1>2, CalculatedAhead
<1>4. report \in DatedReport
  BY <1>1, <1>2, <1>3 DEF DatedReport, Report, Statuses
<1>5. Clocked
  BY DEF Init, Clocked
<1>6. TaskTypes
  <2>1. NoMemory \in Memory /\ "idle" \in Steps
    BY DEF NoMemory, Memory, Steps
  <2>2. QED
    BY <2>1 DEF Init, TaskTypes, Idle
<1>7. RestTypes
  <2>1. queued \in [BOOLEAN -> 0..MaxQueued] /\ events \in Nat
    BY InputsAssumption DEF Init
  <2>2. selected \in BOOLEAN /\ page \in [Pages -> DatedVisits]
    BY DEF Init, DatedVisits
  <2>3. QED
    BY <2>1, <2>2 DEF Init, RestTypes
<1>8. QED
  BY <1>4, <1>5, <1>6, <1>7 DEF Typed

\* The clock, the check, and the pages that send and delete the report.
LEMMA RestTyped ==
    ASSUME Typed, Tick \/ Check \/ SendNow \/ DeleteReport
    PROVE  Typed'
<1> USE DEF Typed
<1>1. CASE Tick
  <2>1. Clocked'
    BY <1>1 DEF Tick, Clocked
  <2>2. TaskTypes'
    BY <1>1, TasksStay DEF Tick, TasksUnchanged
  <2>3. RestTypes'
    BY <1>1, RememberTyped DEF Tick, RestTypes
  <2>4. QED
    BY <1>1, <2>1, <2>2, <2>3 DEF Tick
<1>2. CASE Check
  <2>1. UNCHANGED <<report, now, page, left, events>> /\ TasksUnchanged /\ Remember
    BY <1>2 DEF Check, CheckSelect, CheckTrigger
  <2>2. selected' \in BOOLEAN
    BY <1>2 DEF Check, CheckSelect, CheckTrigger
  <2>3. queued' \in [BOOLEAN -> 0..MaxQueued]
    <3>1. CASE UNCHANGED queued
      BY <3>1 DEF RestTypes
    <3>2. CASE /\ queued[FALSE] < MaxQueued
               /\ queued' = [queued EXCEPT ![FALSE] = @ + 1]
      BY <3>2, OneMoreQueued
    <3>3. QED
      BY <1>2, <3>1, <3>2 DEF Check, CheckSelect, CheckTrigger
  <2>4. RestTypes'
    BY <2>1, <2>2, <2>3, RememberTyped DEF RestTypes
  <2>5. TaskTypes' /\ Clocked'
    BY <2>1, TasksStay DEF Clocked
  <2>6. QED
    BY <2>1, <2>4, <2>5
<1>3. CASE SendNow
  <2>1. UNCHANGED <<report, now, selected, page>> /\ TasksUnchanged /\ Remember
    BY <1>3 DEF SendNow
  <2>2. left' \in SUBSET {"page", "task"} /\ events' \in Nat
    BY <1>3 DEF SendNow, RestTypes
  <2>3. queued' \in [BOOLEAN -> 0..MaxQueued]
    BY <1>3, OneMoreQueued DEF SendNow
  <2>4. RestTypes'
    BY <2>1, <2>2, <2>3, RememberTyped DEF RestTypes
  <2>5. TaskTypes' /\ Clocked'
    BY <2>1, TasksStay DEF Clocked
  <2>6. QED
    BY <2>1, <2>4, <2>5
<1>4. CASE DeleteReport
  <2>1. /\ UNCHANGED <<now, selected, queued, pc, mem, page, events>> /\ Remember
        /\ report' = Gone /\ left' = {} /\ running' = {}
    BY <1>4 DEF DeleteReport
  <2>2. RestTypes'
    BY <2>1, RememberTyped DEF RestTypes
  <2>3. TaskTypes' /\ Clocked'
    BY <2>1 DEF TaskTypes, Clocked, Idle
  <2>4. QED
    BY <2>1, <2>2, <2>3
<1>5. QED
  BY <1>1, <1>2, <1>3, <1>4

\* The pages that edit and list hold reports of the calendar, and save such.
LEMMA VisitsTyped ==
    ASSUME Typed, NEW p \in Pages, Visit(p)
    PROVE  Typed'
<1> USE DEF Typed
<1>1. /\ page \in [Pages -> DatedVisits] /\ Clocked /\ HasSpareYear(now)
      /\ page[p].does \in {"list", "edit"} => page[p].copy \in DatedReport
  BY TimesSpare DEF RestTypes, DatedVisits, NoPage
<1>2. UNCHANGED <<now, selected, queued, left>> /\ TasksUnchanged
  BY DEF Visit, LoadEdit, LoadList, SaveEdit, SaveList, EndPage, Holds
<1>3. TaskTypes' /\ Clocked'
  BY <1>2, TasksStay DEF Clocked
<1>4. events' \in Nat /\ stopped' \in {"no", "inactive", "gone"}
  <2>1. events' \in {events, events + 1}
    BY DEF Visit, LoadEdit, LoadList, SaveEdit, SaveList, EndPage
  <2>2. Remember \/ stopped' = StoppedNow
    BY DEF Visit, LoadEdit, LoadList, SaveEdit, SaveList, EndPage
  <2>3. QED
    BY <2>1, <2>2, RememberTyped DEF RestTypes
<1>5. page' \in [Pages -> DatedVisits]
  <2>1. NoPage \in DatedVisits
    BY DEF DatedVisits
  <2>2. CASE LoadEdit(p) \/ LoadList(p)
    <3>1. PICK does \in {"list", "edit"} :
            page' = [page EXCEPT ![p] = [does |-> does, copy |-> report]]
      BY <2>2 DEF LoadEdit, LoadList, Holds
    <3>2. report \in DatedReport
      BY <2>2 DEF LoadEdit, LoadList
    <3>3. [does |-> does, copy |-> report] \in DatedVisits
      BY <3>2 DEF DatedVisits
    <3>4. QED
      BY <1>1, <3>1, <3>3
  <2>3. CASE page' = [page EXCEPT ![p] = NoPage]
    BY <1>1, <2>1, <2>3
  <2>4. QED
    BY <2>2, <2>3 DEF Visit, SaveEdit, SaveList, EndPage, Holds, NoPage
<1>6. report' \in DatedReport \cup {Gone}
  <2>1. CASE UNCHANGED report
    BY <2>1
  <2>2. CASE SaveList(p)
    <3> DEFINE copy == page[p].copy
               next == CalculateNextRun(copy.schedule, now, copy.ran)
               listed == [copy EXCEPT !.nextRun = next]
    <3>1. /\ copy \in DatedReport /\ copy.schedule \in Schedule
          /\ InCalendar(copy.schedule.start) /\ copy.ran \in BOOLEAN
      BY <1>1, <2>2 DEF SaveList, DatedReport, Report
    <3>2. next \in Nat \cup {Unset}
      BY <1>1, <3>1, CalculatedAhead
    <3>3. report' = Saved(listed)
      BY <2>2 DEF SaveList
    <3> HIDE DEF next
    <3>4. listed \in DatedReport
      BY <3>1, <3>2 DEF DatedReport, Report
    <3> HIDE DEF listed
    <3>5. QED
      BY <1>1, <3>3, <3>4, SavedIsNotDue
  <2>3. ASSUME NEW s \in EditedTo, NEW status \in {"active", "paused"},
               SaveEdit(p, s, status)
        PROVE  report' \in DatedReport
    <3> DEFINE copy == page[p].copy
               next == CalculateNextRun(s, now, copy.ran)
               edited == [copy EXCEPT !.schedule = s, !.status = status,
                              !.nextRun = next]
    <3>1. /\ copy \in DatedReport /\ copy \in Report /\ copy.ran \in BOOLEAN
          /\ s \in Schedule /\ InCalendar(s.start)
      BY <1>1, <2>3, InputsAssumption, CalendarSuffices DEF SaveEdit, DatedReport, Report
    <3>2. next \in Nat \cup {Unset}
      BY <1>1, <3>1, CalculatedAhead
    <3>3. report' = Saved(edited)
      BY <2>3 DEF SaveEdit
    <3> HIDE DEF next
    <3>4. edited \in DatedReport
      BY <3>1, <3>2 DEF DatedReport, Report, Statuses
    <3> HIDE DEF edited
    <3>5. QED
      BY <1>1, <3>3, <3>4, SavedIsNotDue
  <2>4. QED
    BY <2>1, <2>2, <2>3 DEF Visit, LoadEdit, LoadList, EndPage
<1>7. QED
  BY <1>2, <1>3, <1>4, <1>5, <1>6 DEF RestTypes

\* The tasks.
LEMMA TasksTyped ==
    ASSUME Typed, NEW w \in Workers, Work(w) \/ Kill(w)
    PROVE  Typed'
<1> DEFINE m == mem[w]
<1>1. /\ TaskTypes /\ RestTypes /\ Clocked
      /\ {"idle", "generate", "mail", "close", "failRow", "failReport"} \subseteq Steps
      /\ {TRUE, FALSE} \subseteq BOOLEAN /\ (w \in running) \in BOOLEAN
  BY DEF Typed, Steps
<1>2. ASSUME NEW manual \in BOOLEAN, StartTask(w, manual) PROVE Typed'
  <2>1. /\ UNCHANGED <<report, now, selected, page, left, events>> /\ Remember
        /\ queued[manual] > 0 /\ queued' = [queued EXCEPT ![manual] = @ - 1]
    BY <1>2 DEF StartTask
  <2>2. queued' \in [BOOLEAN -> 0..MaxQueued]
    <3>1. MaxQueued \in Nat /\ queued \in [BOOLEAN -> 0..MaxQueued]
      BY InputsAssumption DEF Typed, RestTypes
    <3>2. queued[manual] - 1 \in 0..MaxQueued
      BY <2>1, <3>1
    <3>3. QED
      BY <2>1, <3>1, <3>2
  <2>3. RestTypes'
    BY <1>1, <2>1, <2>2, RememberTyped DEF RestTypes
  <2>4. TaskTypes'
    <3>1. CASE report = Gone
      BY <1>1, <1>2, <3>1, TasksStay DEF StartTask
    <3>2. CASE report # Gone
      <4> DEFINE held == [manual |-> manual, copy |-> report]
      <4>1. Goto(w, "generate", held, TRUE)
        BY <1>2, <3>2 DEF StartTask
      <4>2. held \in Memory /\ held.copy \in DatedReport
        BY <3>2 DEF Typed, Memory, DatedReport
      <4> HIDE DEF held
      <4>3. QED
        BY <1>1, <4>1, <4>2, GotoTyped
    <3>3. QED
      BY <3>1, <3>2
  <2>5. QED
    BY <2>1, <2>3, <2>4 DEF Typed, Clocked
<1>3. CASE ~Idle(w) /\ ~\E manual \in BOOLEAN : StartTask(w, manual)
  <2>1. m \in Memory /\ m.copy \in DatedReport
    BY <1>1, <1>3 DEF TaskTypes
  <2> HIDE DEF m
  <2>2. ASSUME TaskTypes', TaskStep, report' \in DatedReport \cup {Gone} PROVE Typed'
    <3>1. UNCHANGED <<now, selected, queued, page, left, events>> /\ Remember
      BY <2>2 DEF TaskStep
    <3>2. RestTypes'
      BY <1>1, <3>1, RememberTyped DEF RestTypes
    <3>3. QED
      BY <1>1, <2>2, <3>1, <3>2 DEF Typed, Clocked
  <2>3. report \in DatedReport \cup {Gone}
    BY DEF Typed
  <2>4. ASSUME Generate(w) PROVE Typed'
    <3>1. report' = report /\ TaskStep
      BY <2>4 DEF Generate
    <3>2. Goto(w, "mail", m, FALSE) \/ Goto(w, "failRow", m, w \in running)
      BY <2>4 DEF Generate, m
    <3>3. TaskTypes'
      BY <1>1, <2>1, <3>2, GotoTyped
    <3>4. QED
      BY <2>2, <2>3, <3>1, <3>3
  <2>5. ASSUME FinishTask(w) PROVE Typed'
    <3> DEFINE ran == IF AdvanceRaises(m) THEN Ran(m) ELSE Advanced(m)
    <3>1. ran \in Memory /\ ran.copy \in DatedReport
      BY <1>1, <2>1, AdvancedTyped
    <3>2. \/ /\ report' = Saved(ran.copy)
             /\ Goto(w, "close", [ran EXCEPT !.copy = Saved(ran.copy)], FALSE)
          \/ report' = report /\ Goto(w, "failRow", ran, FALSE)
      BY <2>5 DEF FinishTask, m
    <3>3. TaskStep
      BY <2>5 DEF FinishTask
    <3> HIDE DEF ran
    <3>4. Saved(ran.copy) \in DatedReport
      BY <1>1, <3>1, SavedIsNotDue
    <3>5. TaskTypes'
      <4> DEFINE held == [ran EXCEPT !.copy = Saved(ran.copy)]
      <4>1. held \in Memory /\ held.copy \in DatedReport
        BY <3>1, <3>4 DEF Memory, DatedReport
      <4>2. Goto(w, "close", held, FALSE) \/ Goto(w, "failRow", ran, FALSE)
        BY <3>2
      <4> HIDE DEF held
      <4>3. QED
        BY <1>1, <3>1, <4>1, <4>2, GotoTyped
    <3>6. report' \in DatedReport \cup {Gone}
      BY <2>3, <3>2, <3>4
    <3>7. QED
      BY <2>2, <3>3, <3>5, <3>6
  <2>6. ASSUME FailRow(w) PROVE Typed'
    <3>1. report' = report /\ TaskStep
      BY <2>6 DEF FailRow
    <3>2. Goto(w, "idle", m, FALSE) \/ Goto(w, "failReport", m, FALSE)
      BY <2>6 DEF FailRow, m
    <3>3. TaskTypes'
      BY <1>1, <2>1, <3>2, GotoTyped
    <3>4. QED
      BY <2>2, <2>3, <3>1, <3>3
  <2>7. ASSUME FailReport(w) PROVE Typed'
    <3> DEFINE failed == [m.copy EXCEPT !.status = "failed"]
    <3>1. TaskStep /\ Goto(w, "idle", m, FALSE)
      BY <2>7 DEF FailReport, m
    <3>2. report' = report \/ report' = Saved(failed)
      BY <2>7 DEF FailReport, m
    <3>3. failed \in DatedReport
      BY <2>1 DEF DatedReport, Report, Statuses
    <3> HIDE DEF failed
    <3>4. TaskTypes'
      BY <1>1, <2>1, <3>1, GotoTyped
    <3>5. report' \in DatedReport \cup {Gone}
      BY <1>1, <2>3, <3>2, <3>3, SavedIsNotDue
    <3>6. QED
      BY <2>2, <3>1, <3>4, <3>5
  <2>8. ASSUME Kill(w) PROVE Typed'
    <3>1. /\ UNCHANGED <<report, now, selected, queued, page>> /\ Remember
          /\ events' = events + 1
          /\ left' = IF w \in running THEN left \cup {"task"} ELSE left
          /\ Goto(w, "idle", NoMemory, FALSE)
      BY <2>8 DEF Kill
    <3>2. TaskTypes'
      BY <1>1, <3>1, GotoTyped
    <3>3. RestTypes'
      BY <1>1, <3>1, RememberTyped DEF RestTypes
    <3>4. QED
      BY <1>1, <2>3, <3>1, <3>2, <3>3 DEF Typed, Clocked
  <2>9. ASSUME CloseTask(w) PROVE Typed'
    <3>1. report' = report /\ TaskStep
      BY <2>9 DEF CloseTask
    <3>2. Goto(w, "idle", m, FALSE) \/ Goto(w, "failRow", m, FALSE)
      BY <2>9 DEF CloseTask, m
    <3>3. TaskTypes'
      BY <1>1, <2>1, <3>2, GotoTyped
    <3>4. QED
      BY <2>2, <2>3, <3>1, <3>3
  <2>10. QED
    BY <1>3, <2>4, <2>5, <2>6, <2>7, <2>8, <2>9 DEF Work
<1>4. ~Idle(w) \/ \E manual \in BOOLEAN : StartTask(w, manual)
  BY DEF Work, Generate, FinishTask, CloseTask, FailRow, FailReport, Kill, Idle
<1>5. QED
  BY <1>2, <1>3, <1>4

\* Nothing changes when nothing happens.
LEMMA StutterTyped == Typed /\ UNCHANGED vars => Typed'
BY TasksStay DEF vars, Typed, RestTypes, Clocked, TasksUnchanged

LEMMA NextTyped == Typed /\ [Next]_vars => Typed'
BY RestTyped, VisitsTyped, TasksTyped, StutterTyped DEF Next

LEMMA TypedImpliesTypes == Typed => TypeOK
<1> SUFFICES ASSUME Typed PROVE TypeOK
  OBVIOUS
<1>1. now \in Nat
  BY TimesSpare DEF Typed
<1>2. page \in [Pages -> Visits]
  <2>1. DatedVisits \subseteq Visits
    BY DEF DatedVisits, Visits, DatedReport
  <2>2. QED
    BY <2>1 DEF Typed, RestTypes
<1>3. QED
  BY <1>1, <1>2 DEF Typed, TaskTypes, RestTypes, TypeOK, DatedReport, Memory

\* Everything has the type it should have: in particular what is saved as the
\* next run of a report is a date, whenever and from whatever copy it is saved.
THEOREM TypeCorrect == Spec => []TypeOK
BY InitTyped, NextTyped, TypedImpliesTypes, PTL DEF Spec

\* The save of a scheduled run: a report that runs again has a next run ahead, or
\* today's; a single one is completed.
LEMMA FinishLeavesNotDue ==
    ASSUME Typed, NEW w \in Workers, FinishTask(w), pc'[w] = "close", ~mem[w].manual
    PROVE  LeftForToday(report')
<1> DEFINE m == mem[w]
           ran == IF AdvanceRaises(m) THEN Ran(m) ELSE Advanced(m)
<1>1. Clocked /\ m \in Memory /\ m.copy \in DatedReport
  BY DEF FinishTask, Typed, TaskTypes, Idle
<1>2. ~(Goto(w, "failRow", ran, FALSE))
  BY DEF Goto, Typed, TaskTypes
<1>3. ~AdvanceRaises(m) /\ report' = Saved(ran.copy)
  BY <1>2 DEF FinishTask
<1>4. ran = Advanced(m)
  BY <1>3
<1> HIDE DEF ran, m
<1>5. /\ ran.copy \in DatedReport
      /\ ran.copy.schedule.frequency # "once" \/ ran.copy.status = "completed"
  BY <1>1, <1>4, AdvancedTyped DEF m
<1>6. CASE ran.copy.schedule.frequency # "once"
  <2>1. LeftForToday(Saved(ran.copy))
    BY <1>1, <1>5, <1>6, SavedIsNotDue
  <2>2. QED
    BY <1>3, <2>1
<1>7. CASE ran.copy.status = "completed"
  <2>1. Saved(ran.copy).status = "completed"
    BY <1>1, <1>5, <1>7, SavedIsNotDue
  <2>2. QED
    BY <1>3, <2>1 DEF Due, LeftForToday
<1>8. QED
  BY <1>5, <1>6, <1>7

\* Whatever the frequency and however old the copy a task has saved, its report is
\* due then only between the local and the UTC midnight, for the execution time of
\* the local day: the checks repeat the run until the UTC date changes, not after.
THEOREM RunsLeaveNotDue == Spec => RunLeavesNotDue
<1>1. ASSUME Typed, [Next]_vars, NEW w \in Workers,
             pc[w] = "mail", pc'[w] = "close", ~mem[w].manual
      PROVE  LeftForToday(report')
  <2>1. pc' # pc
    BY <1>1
  <2>2. PICK v \in Workers : Work(v) \/ Kill(v)
    BY <1>1, <2>1
    DEF Next, vars, Tick, Check, CheckSelect, CheckTrigger, SendNow, Visit, LoadEdit,
        LoadList, SaveEdit, SaveList, EndPage, Holds, DeleteReport, TasksUnchanged
  <2>3. v = w
    BY <1>1, <2>2
    DEF Typed, TaskTypes, Work, StartTask, Generate, FinishTask, CloseTask, FailRow,
        FailReport, Kill, Goto, TasksUnchanged
  <2>4. FinishTask(w)
    BY <1>1, <2>2, <2>3
    DEF Work, StartTask, Generate, CloseTask, FailRow, FailReport, Kill, Goto, Idle,
        Typed, TaskTypes
  <2>5. QED
    BY <1>1, <2>4, FinishLeavesNotDue
<1>2. Typed /\ [Next]_vars =>
        [\A w \in Workers :
            pc[w] = "mail" /\ pc'[w] = "close" /\ ~mem[w].manual /\ Due(report') =>
                /\ UtcDay(now) < LocalDay(now)
                /\ report'.nextRun = At(LocalDay(now), report'.schedule)]_vars
  BY <1>1 DEF LeftForToday
<1>3. QED
  BY <1>2, InitTyped, NextTyped, PTL DEF Spec, RunLeavesNotDue
=============================================================================
