------------------- MODULE AccessApprovalConcurrent_proofs -------------------
(***************************************************************************)
(* Proofs about AccessApprovalConcurrent, for every number of workers and  *)
(* approvers and every value of the bounds.                                *)
(***************************************************************************)
EXTENDS AccessApprovalRow, FiniteSetTheorems, TLAPS

-----------------------------------------------------------------------------
(* Types of the operators on rows.                                         *)

\* What stands for a missing row is a row.
LEMMA AbsentType == Absent \in Row
BY NonemptyAssumption, LevelAssumption DEF Absent, Row, Levels

\* Changing a status to one a row can have keeps the rows well-typed.
LEMMA MarkType ==
    ASSUME NEW rs \in [Approvers -> Row], NEW who, NEW s \in Decisions
    PROVE  Mark(rs, who, s) \in [Approvers -> Row]
BY DEF Mark, Row

\* An approver list gives rows.
LEMMA CopyType ==
    ASSUME NEW list \in Lists, NEW r \in Records
    PROVE  /\ CopyList(list, r) \in [Approvers -> Row]
           /\ \A u \in Approvers : CopyOf(list, r, u) \in Row
<1> SUFFICES ASSUME NEW u \in Approvers PROVE CopyOf(list, r, u) \in Row
  BY DEF CopyList
<1>1. list[u] \in 0..MaxLevel
  BY ListsAssumption
<1>2. CASE list[u] = 0
  BY <1>2, AbsentType DEF CopyOf
<1>3. CASE list[u] # 0
  BY <1>1, <1>3, LevelAssumption DEF CopyOf, Row, Decisions, Levels
<1>4. QED
  BY <1>2, <1>3

\* Deleting an approver list and synchronising with one keep rows well-typed.
LEMMA ListChangeType ==
    ASSUME NEW rs \in [Approvers -> Row], NEW list \in Lists, NEW r \in Records
    PROVE  /\ Cascade(rs, r) \in [Approvers -> Row]
           /\ Synced(rs, list, r) \in [Approvers -> Row]
<1>1. Cascade(rs, r) \in [Approvers -> Row]
  BY AbsentType DEF Cascade
<1>2. ASSUME NEW u \in Approvers PROVE Synced(rs, list, r)[u] \in Row
  <2>1. CopyOf(list, r, u) \in Row
    BY CopyType
  <2>2. list[u] # 0 => list[u] \in Levels
    BY ListsAssumption, LevelAssumption DEF Levels
  <2>3. list[u] # 0 => [rs[u] EXCEPT !.order = list[u]] \in Row
    BY <2>2 DEF Row
  <2>4. [rs[u] EXCEPT !.status = "cancelled"] \in Row
    BY DEF Row, Decisions
  <2>5. QED
    BY <2>1, <2>3, <2>4 DEF Synced
<1>3. QED
  BY <1>1, <1>2 DEF Synced

-----------------------------------------------------------------------------
(* What a worker holds fits where it is in its handler.                    *)

Sound(step, m) ==
    /\ step \notin {"idle", "check"} => m.req \in Request
    /\ step \in {"check", "row"} => m.choice \in Decisions
    /\ step = "admin" => m.choice \in AdminStatuses

WorkersSound == \A w \in Workers : Sound(pc[w], mem[w])

\* An idle worker holds nothing that has to fit.
LEMMA NoMemoryType == NoMemory \in Memory /\ Sound("idle", NoMemory)
<1>1. (CHOOSE u \in Approvers : TRUE) \in Approvers
  BY NonemptyAssumption
<1>2. NotHeld \in Held
  BY AbsentType DEF NotHeld, Held
<1>3. QED
  BY <1>1, <1>2 DEF NoMemory, Memory, Sound

\* A worker that moves to a step with memory that fits stays well-typed.
LEMMA MoveType ==
    ASSUME TypeOK, WorkersSound,
           NEW w \in Workers, NEW step \in Steps, NEW m \in Memory,
           Sound(step, m),
           pc' = [pc EXCEPT ![w] = step], mem' = [mem EXCEPT ![w] = m]
    PROVE  /\ pc' \in [Workers -> Steps] /\ mem' \in [Workers -> Memory]
           /\ WorkersSound'
BY DEF TypeOK, WorkersSound

\* The same for the two ways the handlers move a worker.
LEMMA GotoType ==
    ASSUME TypeOK, WorkersSound,
           NEW w \in Workers, NEW step \in Steps, NEW m,
           step # "idle" => m \in Memory /\ Sound(step, m),
           Goto(w, step, m)
    PROVE  /\ pc' \in [Workers -> Steps] /\ mem' \in [Workers -> Memory]
           /\ WorkersSound'
           /\ started' = started /\ kills' = kills
<1>1. CASE step = "idle"
  BY <1>1, MoveType, NoMemoryType DEF Goto
<1>2. CASE step # "idle"
  BY <1>2, MoveType DEF Goto
<1>3. QED
  BY <1>1, <1>2

LEMMA StartType ==
    ASSUME TypeOK, WorkersSound,
           NEW w \in Workers, NEW step \in Steps, NEW m \in Memory,
           Sound(step, m), Start(w, step, m)
    PROVE  /\ pc' \in [Workers -> Steps] /\ mem' \in [Workers -> Memory]
           /\ WorkersSound'
           /\ started' \in Nat /\ kills' = kills /\ UNCHANGED db
<1>1. pc' \in [Workers -> Steps] /\ mem' \in [Workers -> Memory] /\ WorkersSound'
  BY MoveType DEF Start
<1>2. started' \in Nat /\ kills' = kills /\ UNCHANGED db
  BY DEF Start, TypeOK
<1>3. QED
  BY <1>1, <1>2

\* The copies a query returns.
LEMMA LoadType ==
    ASSUME TypeOK, NEW who PROVE Load(who) \in [Approvers -> Held]
<1>1. NotHeld \in Held
  BY AbsentType DEF NotHeld, Held
<1>2. ASSUME NEW u \in Approvers
      PROVE  [row |-> rows[u], pk |-> pk[u], fk |-> listPk[rows[u].source]] \in Held
  <2>1. rows[u] \in Row /\ rows[u].source \in Records
    BY DEF TypeOK, Row
  <2>2. QED
    BY <2>1 DEF TypeOK, Held
<1>3. QED
  BY <1>1, <1>2 DEF Load

\* Saving a copy keeps the rows and the keys well-typed.
LEMMA SavedType ==
    ASSUME TypeOK, NEW u \in Approvers, NEW copy \in Held, NEW s \in Decisions,
           Saved(u, copy, s)
    PROVE  rows' \in [Approvers -> Row] /\ pk' \in [Approvers -> Nat]
<1>1. [copy.row EXCEPT !.status = s] \in Row
  BY DEF Held, Row
<1>2. copy.pk \in Nat
  BY DEF Held
<1>3. QED
  BY <1>1, <1>2 DEF Saved, TypeOK

\* What the properties remember has its type.
LEMMA RememberType ==
    ASSUME TypeOK, rows' \in [Approvers -> Row], Remember
    PROVE  /\ everApproved' \in BOOLEAN /\ mixedCounts' \in BOOLEAN
           /\ approvedOnce' \in SUBSET Approvers
           /\ final' \in SUBSET {"cancelled", "denied", "revoked"}
<1>1. everApproved' \in BOOLEAN /\ mixedCounts' \in BOOLEAN
  BY DEF Remember, TypeOK, FullyApproved
<1>2. approvedOnce' \in SUBSET Approvers
  BY DEF Remember, TypeOK, WithStatus
<1>3. final' \in SUBSET {"cancelled", "denied", "revoked"}
  BY DEF Remember, TypeOK
<1>4. QED
  BY <1>1, <1>2, <1>3

-----------------------------------------------------------------------------
(* The types, with what the workers hold, are inductive.                   *)

Types == TypeOK /\ WorkersSound

LEMMA InitTypes == Init => Types
<1> SUFFICES ASSUME Init PROVE Types
  OBVIOUS
<1>1. rows \in [Approvers -> Row]
  <2>1. PICK first \in records : rows = CopyList(lists[first], first)
    BY DEF Init
  <2>2. first \in Records /\ lists[first] \in Lists
    BY DEF Init
  <2>3. QED
    BY <2>1, <2>2, CopyType
<1>2. /\ pc \in [Workers -> Steps] /\ mem \in [Workers -> Memory]
      /\ WorkersSound
  BY NoMemoryType DEF Init, WorkersSound, Steps
<1>3. QED
  BY <1>1, <1>2 DEF Init, Types, TypeOK, Request, Decisions, AdminStatuses

\* A step that leaves the database as it is.
LEMMA StayTypes ==
    ASSUME Types, Stay, Remember,
           pc' \in [Workers -> Steps], mem' \in [Workers -> Memory],
           WorkersSound', started' \in Nat, kills' \in Nat
    PROVE  Types'
<1>1. rows' \in [Approvers -> Row]
  BY DEF Types, TypeOK, Stay, db
<1>2. QED
  BY <1>1, RememberType DEF Types, TypeOK, Stay, db

\* A step that writes the request row.
LEMMA ReqTypes ==
    ASSUME Types, OnlyReq, Remember, req' \in Request,
           pc' \in [Workers -> Steps], mem' \in [Workers -> Memory],
           WorkersSound', started' \in Nat, kills' \in Nat
    PROVE  Types'
<1>1. rows' \in [Approvers -> Row]
  BY DEF Types, TypeOK, OnlyReq
<1>2. QED
  BY <1>1, RememberType DEF Types, TypeOK, OnlyReq

\* A step that writes approver rows.
LEMMA RowsTypes ==
    ASSUME Types, OnlyRows, Remember,
           rows' \in [Approvers -> Row], pk' \in [Approvers -> Nat],
           pc' \in [Workers -> Steps], mem' \in [Workers -> Memory],
           WorkersSound', started' \in Nat, kills' \in Nat
    PROVE  Types'
BY RememberType DEF Types, TypeOK, OnlyRows

\* A step that moves a worker on and writes nothing, the request or rows.
LEMMA StepTypes ==
    ASSUME Types, NEW w \in Workers, NEW step \in Steps, NEW m,
           step # "idle" => m \in Memory /\ Sound(step, m),
           Goto(w, step, m), Remember,
           \/ Stay
           \/ OnlyReq /\ req' \in Request
           \/ OnlyRows /\ rows' \in [Approvers -> Row] /\ pk' \in [Approvers -> Nat]
    PROVE  Types'
<1>1. TypeOK /\ WorkersSound /\ started \in Nat /\ kills \in Nat
  BY DEF Types, TypeOK
<1>2. /\ pc' \in [Workers -> Steps] /\ mem' \in [Workers -> Memory]
      /\ WorkersSound' /\ started' \in Nat /\ kills' \in Nat
  BY <1>1, GotoType
<1>3. CASE Stay
  BY <1>2, <1>3, StayTypes
<1>4. CASE OnlyReq /\ req' \in Request
  BY <1>2, <1>4, ReqTypes
<1>5. CASE OnlyRows /\ rows' \in [Approvers -> Row] /\ pk' \in [Approvers -> Nat]
  BY <1>2, <1>5, RowsTypes
<1>6. QED
  BY <1>3, <1>4, <1>5

\* The start of a handler.
LEMMA BeginTypes ==
    ASSUME Types, NEW w \in Workers, NEW step \in Steps, NEW m \in Memory,
           Sound(step, m), Start(w, step, m), Remember
    PROVE  Types'
<1>1. TypeOK /\ WorkersSound /\ kills \in Nat
  BY DEF Types, TypeOK
<1>2. /\ pc' \in [Workers -> Steps] /\ mem' \in [Workers -> Memory]
      /\ WorkersSound' /\ started' \in Nat /\ kills' = kills /\ UNCHANGED db
  BY <1>1, StartType
<1>3. QED
  BY <1>1, <1>2, StayTypes DEF Stay

\* The steps of update_request_status before its save().
Recounts(w) == Recount(w) \/ AnyRow(w) \/ CountApproved(w) \/ CountAll(w)

\* They write nothing; only the last one of them sets a status.
LEMMA RecountStep ==
    ASSUME Types, NEW w \in Workers, Recounts(w)
    PROVE  /\ Stay /\ Remember
           /\ pc[w] \in {"recount", "anyRow", "countApproved", "countAll"}
           /\ mem[w].req \in Request
           /\ \E step \in {"anyRow", "countApproved", "countAll", "write"}, m \in Memory :
                /\ Goto(w, step, m) /\ Sound(step, m)
                /\ m.held = mem[w].held /\ m.choice = mem[w].choice
                /\ m.req \in Request /\ m.req.admin = mem[w].req.admin
                /\ step # "write" => m.req = mem[w].req
                /\ step = "write" => m.req.status \in {"pending", "approved", "rejected"}
                /\ step = "countApproved" => Present(rows) # {}
                /\ step = "countAll" =>
                      /\ pc[w] = "countApproved"
                      /\ m.count = Cardinality(WithStatus(rows, "approved"))
                /\ step = "write" /\ m.req.status = "approved" =>
                      /\ pc[w] = "countAll"
                      /\ mem[w].count = Cardinality(Present(rows))
<1>m. mem[w] \in Memory /\ Sound(pc[w], mem[w])
  BY DEF Types, TypeOK, WorkersSound
<1>p. /\ pc[w] \in {"recount", "anyRow", "countApproved", "countAll"}
      /\ Stay /\ Remember
  BY DEF Recounts, Recount, AnyRow, CountApproved, CountAll
<1>r. mem[w].req \in Request
  BY <1>m, <1>p DEF Sound
<1>1. CASE \/ Goto(w, "anyRow", mem[w])
           \/ Goto(w, "countApproved", mem[w]) /\ Present(rows) # {}
  <2>1. Sound("anyRow", mem[w]) /\ Sound("countApproved", mem[w])
    BY <1>r DEF Sound
  <2>2. QED
    BY <1>1, <1>m, <1>p, <1>r, <2>1
<1>2. CASE CountApproved(w)
  <2> DEFINE m == [mem[w] EXCEPT !.count = Cardinality(WithStatus(rows, "approved"))]
  <2>1. Cardinality(WithStatus(rows, "approved")) \in Nat
    BY FiniteAssumption, FS_Subset, FS_CardinalityType DEF WithStatus
  <2>2. /\ m \in Memory /\ m.req = mem[w].req /\ m.held = mem[w].held
        /\ m.choice = mem[w].choice
        /\ m.count = Cardinality(WithStatus(rows, "approved"))
    BY <1>m, <2>1 DEF Memory
  <2>3. Goto(w, "countAll", m) /\ pc[w] = "countApproved"
    BY <1>2 DEF CountApproved
  <2> HIDE DEF m
  <2>4. Sound("countAll", m)
    BY <1>r, <2>2 DEF Sound
  <2>5. QED
    BY <1>p, <1>r, <2>2, <2>3, <2>4
<1>3. ASSUME NEW s \in {"pending", "approved", "rejected"}, SetStatus(w, s),
             s = "approved" => /\ pc[w] = "countAll"
                               /\ mem[w].count = Cardinality(Present(rows))
      PROVE  \E m \in Memory :
                /\ Goto(w, "write", m) /\ Sound("write", m)
                /\ m.held = mem[w].held /\ m.choice = mem[w].choice
                /\ m.req \in Request /\ m.req.admin = mem[w].req.admin
                /\ m.req.status = s
  <2> DEFINE m == [mem[w] EXCEPT !.req.status = s, !.count = 0]
  <2>1. [mem[w].req EXCEPT !.status = s] \in Request
    BY <1>r DEF Request, Decisions
  <2>2. m.req = [mem[w].req EXCEPT !.status = s]
    BY <1>m DEF Memory
  <2>3. m.req.status = s /\ m.req.admin = mem[w].req.admin
    BY <1>r, <2>2 DEF Request
  <2>4. /\ m \in Memory /\ m.held = mem[w].held /\ m.choice = mem[w].choice
    BY <1>m, <2>1, <2>2 DEF Memory
  <2>5. Goto(w, "write", m)
    BY <1>3 DEF SetStatus
  <2> HIDE DEF m
  <2>6. Sound("write", m)
    BY <2>1, <2>2 DEF Sound
  <2>7. QED
    BY <2>1, <2>2, <2>3, <2>4, <2>5, <2>6
<1>4. ASSUME NEW s \in {"pending", "approved", "rejected"}, SetStatus(w, s),
             s = "approved" => /\ pc[w] = "countAll"
                               /\ mem[w].count = Cardinality(Present(rows))
      PROVE  \E m \in Memory :
                /\ Goto(w, "write", m) /\ Sound("write", m)
                /\ m.held = mem[w].held /\ m.choice = mem[w].choice
                /\ m.req \in Request /\ m.req.admin = mem[w].req.admin
                /\ m.req.status \in {"pending", "approved", "rejected"}
                /\ m.req.status = "approved" => /\ pc[w] = "countAll"
                                               /\ mem[w].count = Cardinality(Present(rows))
  BY <1>3, <1>4
<1>5. CASE \E s \in {"pending", "approved", "rejected"} :
             /\ SetStatus(w, s)
             /\ s = "approved" => /\ pc[w] = "countAll"
                                  /\ mem[w].count = Cardinality(Present(rows))
  BY <1>p, <1>r, <1>4, <1>5
<1>6. QED
  BY <1>1, <1>2, <1>5 DEF Recounts, Recount, AnyRow, CountAll

\* Every step of a handler preserves the types.
LEMMA HandlerTypes ==
    ASSUME Types, NEW w \in Workers, StartHandler(w) \/ Continue(w) \/ Kill(w)
    PROVE  Types'
<1>0. TypeOK /\ WorkersSound /\ started \in Nat /\ kills \in Nat
  BY DEF Types, TypeOK
<1>m. mem[w] \in Memory /\ Sound(pc[w], mem[w])
  BY DEF Types, TypeOK, WorkersSound
<1>r. req \in Request
  BY DEF Types, TypeOK
<1>n. NoMemory \in Memory
  BY NoMemoryType
<1>1. ASSUME NEW u \in Approvers, NEW s \in Decisions, StartSetStatus(w, u, s)
      PROVE  Types'
  <2>1. PICK request \in {req, NotFetched} :
          Start(w, "check", [who |-> u, choice |-> s, req |-> request,
                             held |-> Load({u}), count |-> 0])
    BY <1>1 DEF StartSetStatus
  <2> DEFINE m == [who |-> u, choice |-> s, req |-> request,
                   held |-> Load({u}), count |-> 0]
  <2>2. m \in Memory
    BY <1>0, <1>r, LoadType DEF Memory
  <2>3. Sound("check", m)
    BY DEF Sound
  <2>4. "check" \in Steps
    BY DEF Steps
  <2> HIDE DEF m
  <2>5. Start(w, "check", m)
    BY <2>1 DEF m
  <2>6. Remember
    BY <1>1 DEF StartSetStatus
  <2>7. QED
    BY <2>2, <2>3, <2>4, <2>5, <2>6, BeginTypes
<1>2. CASE CheckStatus(w)
  <2> DEFINE request == Fetched(mem[w])
             m == [mem[w] EXCEPT !.req = request]
  <2>1. request \in Request
    BY <1>m, <1>r DEF Memory, Fetched
  <2>2. m \in Memory /\ Sound("row", m)
    BY <1>2, <1>m, <2>1 DEF Memory, Sound, CheckStatus
  <2>3. Goto(w, "row", m) \/ Goto(w, "idle", mem[w])
    BY <1>2 DEF CheckStatus
  <2> HIDE DEF m
  <2>4. Stay /\ Remember
    BY <1>2 DEF CheckStatus
  <2>5. QED
    BY <2>2, <2>3, <2>4, StepTypes DEF Steps
<1>3. CASE SaveDecision(w)
  <2> DEFINE m == mem[w]
             step == IF m.choice = "rejected" THEN "others" ELSE "recount"
  <2>1. /\ m.held[m.who] \in Held /\ m.who \in Approvers
        /\ m.choice \in Decisions /\ step \in Steps /\ Sound(step, m)
    BY <1>3, <1>m DEF Memory, Sound, SaveDecision, Steps
  <2>2. CASE Saved(m.who, m.held[m.who], m.choice) /\ Goto(w, step, m)
    <3>1. rows' \in [Approvers -> Row] /\ pk' \in [Approvers -> Nat]
      BY <1>0, <2>1, <2>2, SavedType
    <3>2. OnlyRows /\ Remember
      BY <1>3, <2>2 DEF Saved, SaveDecision
    <3>3. QED
      BY <1>m, <2>1, <2>2, <3>1, <3>2, StepTypes
  <2>3. CASE SaveFails(w, m.who, m.held[m.who])
    BY <1>3, <2>3, StepTypes DEF SaveFails, SaveDecision, Steps
  <2>4. QED
    BY <1>3, <2>2, <2>3 DEF SaveDecision
<1>4. CASE LoadOthers(w)
  <2> DEFINE m == [mem[w] EXCEPT !.held =
                     Load(WithStatus(rows, "pending") \ {mem[w].who})]
  <2>1. m \in Memory /\ Sound("sweep", m)
    BY <1>0, <1>4, <1>m, LoadType DEF Memory, Sound, LoadOthers
  <2>2. Goto(w, "sweep", m) /\ Stay /\ Remember
    BY <1>4 DEF LoadOthers
  <2> HIDE DEF m
  <2>3. QED
    BY <2>1, <2>2, StepTypes DEF Steps
<1>5. CASE Recounts(w)
  <2>1. PICK step \in {"anyRow", "countApproved", "countAll", "write"}, m \in Memory :
          Goto(w, step, m) /\ Sound(step, m)
    BY <1>5, RecountStep
  <2>2. Stay /\ Remember /\ step \in Steps
    BY <1>5, RecountStep DEF Steps, Counting
  <2>3. QED
    BY <2>1, <2>2, StepTypes
<1>6. CASE WriteRequest(w)
  BY <1>6, <1>m, StepTypes DEF WriteRequest, Sound, Steps
<1>7. CASE SweepNext(w)
  <2>1. PICK u \in ToSave(w) :
          \/ /\ Saved(u, mem[w].held[u], SweepStatus(w))
             /\ Goto(w, "sweep", AfterSaving(w, u))
          \/ SaveFails(w, u, mem[w].held[u])
    BY <1>7 DEF SweepNext
  <2> DEFINE m == AfterSaving(w, u)
  <2>2. u \in Approvers /\ mem[w].held[u] \in Held /\ NotHeld \in Held
    BY <1>m, AbsentType DEF ToSave, Memory, NotHeld, Held
  <2>3. m \in Memory /\ Sound("sweep", m)
    BY <1>7, <1>m, <2>2 DEF Memory, Sound, SweepNext, AfterSaving
  <2>4. SweepStatus(w) \in Decisions
    BY DEF SweepStatus, Decisions
  <2>5. Remember
    BY <1>7 DEF SweepNext
  <2> HIDE DEF m
  <2>6. CASE Saved(u, mem[w].held[u], SweepStatus(w)) /\ Goto(w, "sweep", m)
    <3>1. rows' \in [Approvers -> Row] /\ pk' \in [Approvers -> Nat]
      BY <1>0, <2>2, <2>4, <2>6, SavedType
    <3>2. OnlyRows /\ "sweep" \in Steps
      BY <2>6 DEF Saved, Steps
    <3>3. QED
      BY <2>3, <2>5, <2>6, <3>1, <3>2, StepTypes
  <2>7. CASE SaveFails(w, u, mem[w].held[u])
    BY <2>5, <2>7, StepTypes DEF SaveFails, Steps
  <2>8. QED
    BY <2>1, <2>6, <2>7 DEF m
<1>8. CASE SweepEnds(w)
  <2> DEFINE m == [mem[w] EXCEPT !.choice = "revoked"]
  <2>1. m \in Memory /\ Sound("approvers", m) /\ Sound("recount", mem[w])
    BY <1>8, <1>m DEF Memory, Sound, SweepEnds
  <2>2. \/ Goto(w, "recount", mem[w])
        \/ Goto(w, "approvers", m)
        \/ Goto(w, "idle", mem[w])
    BY <1>8 DEF SweepEnds
  <2>3. Stay /\ Remember
    BY <1>8 DEF SweepEnds
  <2> HIDE DEF m
  <2>4. QED
    BY <1>m, <2>1, <2>2, <2>3, StepTypes DEF Steps
<1>9. CASE StartCancel(w)
  <2> DEFINE m == [NoMemory EXCEPT !.req = req]
  <2>1. m \in Memory /\ Sound("recheck", m)
    BY <1>n, <1>r DEF Memory, Sound
  <2>2. Start(w, "recheck", m) /\ Remember
    BY <1>9 DEF StartCancel
  <2> HIDE DEF m
  <2>3. QED
    BY <2>1, <2>2, BeginTypes DEF Steps
<1>10. CASE RecheckCancel(w)
  <2>1. Sound("cancel", mem[w])
    BY <1>10, <1>m DEF RecheckCancel, Sound
  <2>2. QED
    BY <1>10, <1>m, <2>1, StepTypes DEF RecheckCancel, Steps
<1>11. CASE CancelRequest(w)
  <2>1. mem[w].req \in Request /\ Sound("cancelRows", mem[w])
    BY <1>11, <1>m DEF CancelRequest, Sound
  <2>2. req' \in Request
    BY <1>11, <2>1 DEF CancelRequest, Request, Decisions
  <2>3. QED
    BY <1>11, <1>m, <2>1, <2>2, StepTypes DEF CancelRequest, Steps
<1>12. CASE CancelRows(w)
  <2>1. rows' \in [Approvers -> Row] /\ pk' \in [Approvers -> Nat]
    BY <1>0, <1>12, MarkType DEF CancelRows, TypeOK, Decisions
  <2>2. QED
    BY <1>12, <2>1, StepTypes DEF CancelRows, Steps
<1>13. CASE StartEdit(w)
  <2> DEFINE m == [NoMemory EXCEPT !.req = req]
  <2>1. m \in Memory /\ Sound("edit", m)
    BY <1>n, <1>r DEF Memory, Sound
  <2>2. Start(w, "edit", m) /\ Remember
    BY <1>13 DEF StartEdit
  <2> HIDE DEF m
  <2>3. QED
    BY <2>1, <2>2, BeginTypes DEF Steps
<1>14. ASSUME NEW wanted \in (SUBSET Records) \ {{}}, CommitEdit(w, wanted)
       PROVE  Types'
  <2>1. mem[w].req \in Request
    BY <1>14, <1>m DEF CommitEdit, Sound
  <2>2. /\ pc' \in [Workers -> Steps] /\ mem' \in [Workers -> Memory]
        /\ WorkersSound' /\ started' = started /\ kills' = kills
    BY <1>0, <1>14, GotoType DEF CommitEdit, Steps
  <2>3. /\ rows' \in [Approvers -> Row] /\ pk' \in [Approvers -> Nat]
        /\ made' \in Nat
    <3>1. CASE wanted = records
      BY <1>0, <1>14, <3>1 DEF CommitEdit, TypeOK
    <3>2. CASE wanted # records
      <4>1. PICK first \in wanted : rows' = CopyList(lists[first], first)
        BY <1>14, <3>2 DEF CommitEdit
      <4>2. first \in Records /\ lists[first] \in Lists
        BY <1>0 DEF TypeOK
      <4>3. rows' \in [Approvers -> Row]
        BY <4>1, <4>2, CopyType
      <4>4. made' = made + 1 /\ pk' = Keys(rows', Approvers)
        BY <1>14, <3>2 DEF CommitEdit
      <4>5. QED
        BY <1>0, <4>3, <4>4 DEF Keys, TypeOK
    <3>3. QED
      BY <3>1, <3>2
  <2>4. Remember
    BY <1>14 DEF CommitEdit
  <2>5. /\ everApproved' \in BOOLEAN /\ mixedCounts' \in BOOLEAN
        /\ approvedOnce' \in SUBSET Approvers
        /\ final' \in SUBSET {"cancelled", "denied", "revoked"}
    BY <1>0, <2>3, <2>4, RememberType
  <2>6. QED
    BY <1>0, <1>14, <2>1, <2>2, <2>3, <2>5 DEF CommitEdit, Types, TypeOK
<1>15. ASSUME NEW s \in AdminStatuses, StartAdmin(w, s)
       PROVE  Types'
  <2> DEFINE m == [NoMemory EXCEPT !.req = req, !.choice = s]
  <2>1. m \in Memory /\ Sound("admin", m)
    BY <1>n, <1>r DEF Memory, Sound
  <2>2. Start(w, "admin", m) /\ Remember
    BY <1>15 DEF StartAdmin
  <2> HIDE DEF m
  <2>3. QED
    BY <2>1, <2>2, BeginTypes DEF Steps
<1>16. CASE SaveAdmin(w)
  <2>1. mem[w].req \in Request /\ mem[w].choice \in AdminStatuses
    BY <1>16, <1>m DEF SaveAdmin, Sound
  <2>2. Sound("approvers", mem[w])
    BY <2>1 DEF Sound
  <2>3. req' \in Request
    BY <1>16, <2>1 DEF SaveAdmin, Request
  <2>4. OnlyReq /\ Remember
    BY <1>16 DEF SaveAdmin
  <2>5. Goto(w, "approvers", mem[w]) \/ Goto(w, "idle", mem[w])
    BY <1>16 DEF SaveAdmin
  <2>6. QED
    BY <1>m, <2>2, <2>3, <2>4, <2>5, StepTypes DEF Steps
<1>17. CASE LoadApprovers(w)
  <2> DEFINE m == [mem[w] EXCEPT !.held = Load(WithStatus(rows, "pending"))]
  <2>1. m \in Memory /\ Sound("sweep", m)
    BY <1>0, <1>17, <1>m, LoadType DEF Memory, Sound, LoadApprovers
  <2>2. Goto(w, "sweep", m) /\ Stay /\ Remember
    BY <1>17 DEF LoadApprovers
  <2> HIDE DEF m
  <2>3. QED
    BY <2>1, <2>2, StepTypes DEF Steps
<1>18. CASE Kill(w)
  <2>1. /\ pc' \in [Workers -> Steps] /\ mem' \in [Workers -> Memory]
        /\ WorkersSound'
    BY <1>0, <1>18, MoveType, NoMemoryType DEF Kill, Steps
  <2>2. Stay /\ Remember /\ started' \in Nat /\ kills' \in Nat
    BY <1>0, <1>18 DEF Kill, Stay
  <2>3. QED
    BY <2>1, <2>2, StayTypes
<1>19. QED
  BY <1>1, <1>2, <1>3, <1>4, <1>5, <1>6, <1>7, <1>8, <1>9, <1>10, <1>11, <1>12,
     <1>13, <1>14, <1>15, <1>16, <1>17, <1>18 DEF StartHandler, Continue, Recounts

LEMMA ChangeTypes ==
    ASSUME Types, NEW r \in Records, NEW list \in Lists, NEW sync \in BOOLEAN,
           ChangeList(r, list, sync)
    PROVE  Types'
<1> DEFINE remaining == Cascade(rows, r)
<1>1. TypeOK /\ WorkersSound
  BY DEF Types
<1>2. remaining \in [Approvers -> Row]
  BY <1>1, ListChangeType DEF TypeOK
<1>3. Synced(remaining, list, r) \in [Approvers -> Row]
  BY <1>2, ListChangeType
<1>4. rows' \in [Approvers -> Row]
  BY <1>2, <1>3 DEF ChangeList
<1>5. /\ everApproved' \in BOOLEAN /\ mixedCounts' \in BOOLEAN
      /\ approvedOnce' \in SUBSET Approvers
      /\ final' \in SUBSET {"cancelled", "denied", "revoked"}
  BY <1>1, <1>4, RememberType DEF ChangeList
<1>6. made' \in Nat /\ lists' \in [Records -> Lists] /\ listPk' \in [Records -> Nat]
  BY <1>1 DEF ChangeList, TypeOK
<1>7. pk' \in [Approvers -> Nat]
  <2>1. pk' = Keys(rows', Approvers \ Present(remaining))
    BY DEF ChangeList
  <2> HIDE DEF remaining
  <2>2. QED
    BY <1>1, <2>1 DEF Keys, TypeOK
<1>8. /\ UNCHANGED <<kind, records, req, pc, mem, started, kills>>
  BY DEF ChangeList
<1> HIDE DEF remaining
<1>9. QED
  BY <1>1, <1>4, <1>5, <1>6, <1>7, <1>8 DEF Types, TypeOK, WorkersSound

LEMMA NextTypes == Types /\ [Next]_vars => Types'
<1> SUFFICES ASSUME Types, [Next]_vars PROVE Types'
  OBVIOUS
<1>1. CASE UNCHANGED vars
  BY <1>1 DEF vars, db, ghosts, Types, TypeOK, WorkersSound
<1>2. CASE Next
  BY <1>1, <1>2, HandlerTypes, ChangeTypes DEF Next, Quiet
<1>3. QED
  BY <1>1, <1>2

\* Every variable keeps its type in every interleaving.
THEOREM TypeCorrect == Spec => []TypeOK
<1>1. Spec => []Types
  BY InitTypes, NextTypes, PTL DEF Spec
<1>2. Types => TypeOK
  BY DEF Types
<1>3. QED
  BY <1>1, <1>2, PTL

-----------------------------------------------------------------------------
(* Decisions need the consent of every approver.  Until all of them have   *)
(* approved at one moment, no copy of the request that a handler may write *)
(* back, and not the request itself, is approved or decided.               *)

Clean(r) == r.status # "approved" /\ r.admin \in {"pending", "none"}

\* A handler that counts has found a row, and fewer approvals than rows.
CountFits(rs, step, m) ==
    /\ step = "countApproved" => Present(rs) # {}
    /\ step = "countAll" => m.count < Cardinality(Present(rs))

Unconsented ==
    /\ ~FullyApproved(rows)
    /\ Clean(req)
    /\ \A w \in Workers : /\ Clean(mem[w].req) /\ pc[w] # "admin"
                           /\ CountFits(rows, pc[w], mem[w])

Consent == ~everApproved /\ ~mixedCounts => Unconsented

\* The count of the approvals is that of the rows only if all have approved.
LEMMA FewerApprovals ==
    ASSUME ~FullyApproved(rows), Present(rows) # {}
    PROVE  Cardinality(WithStatus(rows, "approved")) < Cardinality(Present(rows))
<1>1. WithStatus(rows, "approved") \subseteq Present(rows)
  BY DEF WithStatus, Present
<1>2. WithStatus(rows, "approved") # Present(rows)
  BY DEF FullyApproved
<1>3. IsFiniteSet(Present(rows))
  BY FiniteAssumption, FS_Subset DEF Present
<1>4. QED
  BY <1>1, <1>2, <1>3, FS_Subset, FS_CardinalityType

\* As long as no row comes or goes, what a handler has counted stays true.
LEMMA CountKept ==
    ASSUME Remember, ~mixedCounts', NEW v \in Workers, CountFits(rows, pc[v], mem[v])
    PROVE  CountFits(rows', pc[v], mem[v])
<1>1. pc[v] \in Counting => Present(rows') = Present(rows)
  BY DEF Remember
<1>2. QED
  BY <1>1 DEF CountFits, Counting

LEMMA InitConsent == Init => Consent
<1> SUFFICES ASSUME Init PROVE Unconsented
  BY DEF Consent
<1>1. PICK first \in records : rows = CopyList(lists[first], first)
  BY DEF Init
<1>2. WithStatus(rows, "approved") = {}
  BY <1>1 DEF WithStatus, CopyList, CopyOf, Absent
<1>3. ~FullyApproved(rows)
  BY <1>2 DEF FullyApproved
<1>4. QED
  BY <1>3 DEF Init, Unconsented, Clean, CountFits, NoMemory, NotFetched

\* A step of a worker that holds and writes no decision keeps it so.
LEMMA ConsentMove ==
    ASSUME Types, Consent, NEW w \in Workers, NEW step, NEW m,
           Goto(w, step, m) \/ Start(w, step, m), Remember,
           Unconsented =>
              /\ Clean(req') /\ Clean(m.req) /\ step # "admin"
              /\ step \in {"countApproved", "countAll"} =>
                    rows' = rows /\ CountFits(rows, step, m)
    PROVE  Consent'
<1> SUFFICES ASSUME ~everApproved', ~mixedCounts' PROVE Unconsented'
  BY DEF Consent
<1>1. ~everApproved /\ ~mixedCounts /\ ~FullyApproved(rows')
  BY DEF Remember
<1>2. Unconsented
  BY <1>1 DEF Consent
<1>3. Clean(NoMemory.req)
  BY DEF NoMemory, NotFetched, Clean
<1>4. PICK k \in {m, NoMemory} :
        /\ pc' = [pc EXCEPT ![w] = step] /\ mem' = [mem EXCEPT ![w] = k]
        /\ step \in {"countApproved", "countAll"} => k = m
  BY DEF Goto, Start
<1>5. Clean(k.req) /\ CountFits(rows', step, k)
  BY <1>2, <1>3, <1>4 DEF CountFits
<1>6. ASSUME NEW v \in Workers
      PROVE  /\ Clean(mem'[v].req) /\ pc'[v] # "admin"
             /\ CountFits(rows', pc'[v], mem'[v])
  <2>1. CASE v = w
    BY <1>2, <1>4, <1>5, <2>1 DEF Types, TypeOK
  <2>2. CASE v # w
    <3>1. pc'[v] = pc[v] /\ mem'[v] = mem[v]
      BY <1>4, <2>2 DEF Types, TypeOK
    <3>2. QED
      BY <1>2, <3>1, CountKept DEF Unconsented
  <2>3. QED
    BY <2>1, <2>2
<1>7. ~FullyApproved(rows)'
  BY <1>1 DEF FullyApproved, Present, WithStatus
<1>8. \A v \in Workers : CountFits(rows, pc[v], mem[v])'
  BY <1>6 DEF CountFits, Present
<1>9. QED
  BY <1>2, <1>6, <1>7, <1>8 DEF Unconsented, Clean

LEMMA HandlerConsent ==
    ASSUME Types, Consent, NEW w \in Workers,
           StartHandler(w) \/ Continue(w) \/ Kill(w)
    PROVE  Consent'
<1>m. mem[w] \in Memory /\ Sound(pc[w], mem[w])
  BY DEF Types, TypeOK, WorkersSound
<1>n. NoMemory \in Memory /\ Clean(NoMemory.req)
  BY NoMemoryType DEF NoMemory, NotFetched, Clean
<1>c. Unconsented => Clean(req) /\ Clean(mem[w].req) /\ pc[w] # "admin"
  BY DEF Unconsented
<1>1. ASSUME NEW u \in Approvers, NEW s \in Decisions, StartSetStatus(w, u, s)
      PROVE  Consent'
  <2>1. PICK request \in {req, NotFetched} :
          Start(w, "check", [who |-> u, choice |-> s, req |-> request,
                             held |-> Load({u}), count |-> 0])
    BY <1>1 DEF StartSetStatus
  <2> DEFINE m == [who |-> u, choice |-> s, req |-> request,
                   held |-> Load({u}), count |-> 0]
  <2>2. m.req = request /\ (Unconsented => Clean(request))
    BY <1>c DEF Clean, NotFetched
  <2>3. Start(w, "check", m) /\ Remember /\ req' = req
    BY <1>1, <2>1 DEF StartSetStatus, Start, db
  <2> HIDE DEF m
  <2>4. QED
    BY <1>c, <2>2, <2>3, ConsentMove
<1>2. CASE CheckStatus(w)
  <2> DEFINE request == Fetched(mem[w])
             m == [mem[w] EXCEPT !.req = request]
  <2>1. m.req = request /\ (Unconsented => Clean(request))
    BY <1>c, <1>m DEF Memory, Fetched
  <2>2. Goto(w, "row", m) \/ Goto(w, "idle", mem[w])
    BY <1>2 DEF CheckStatus
  <2>3. Remember /\ req' = req
    BY <1>2 DEF CheckStatus, Stay, db
  <2> HIDE DEF m, request
  <2>4. QED
    BY <1>c, <2>1, <2>2, <2>3, ConsentMove
<1>3. CASE SaveDecision(w)
  <2>1. Remember /\ req' = req
    BY <1>3 DEF SaveDecision, Saved, SaveFails, OnlyRows, Stay, db
  <2>2. \/ Goto(w, "others", mem[w]) \/ Goto(w, "recount", mem[w])
        \/ Goto(w, "idle", NoMemory)
    BY <1>3 DEF SaveDecision, SaveFails
  <2>3. QED
    BY <1>c, <1>n, <2>1, <2>2, ConsentMove
<1>4. CASE LoadOthers(w) \/ LoadApprovers(w)
  <2>1. PICK who : Goto(w, "sweep", [mem[w] EXCEPT !.held = Load(who)])
    BY <1>4 DEF LoadOthers, LoadApprovers
  <2>2. Remember /\ req' = req
    BY <1>4 DEF LoadOthers, LoadApprovers, Stay, db
  <2> DEFINE m == [mem[w] EXCEPT !.held = Load(who)]
  <2>3. m.req = mem[w].req
    BY <1>m DEF Memory
  <2>4. Goto(w, "sweep", m)
    BY <2>1
  <2> HIDE DEF m
  <2>5. QED
    BY <1>c, <2>2, <2>3, <2>4, ConsentMove
<1>5. CASE Recounts(w)
  <2>1. PICK step \in {"anyRow", "countApproved", "countAll", "write"}, m \in Memory :
          /\ Goto(w, step, m)
          /\ m.req \in Request /\ m.req.admin = mem[w].req.admin
          /\ step # "write" => m.req = mem[w].req
          /\ step = "countApproved" => Present(rows) # {}
          /\ step = "countAll" =>
                /\ pc[w] = "countApproved"
                /\ m.count = Cardinality(WithStatus(rows, "approved"))
          /\ step = "write" /\ m.req.status = "approved" =>
                /\ pc[w] = "countAll"
                /\ mem[w].count = Cardinality(Present(rows))
    BY <1>5, RecountStep
  <2>2. Remember /\ req' = req /\ rows' = rows
    BY <1>5, RecountStep DEF Stay, db
  <2>3. Unconsented => CountFits(rows, pc[w], mem[w])
    BY DEF Unconsented
  <2>4. Cardinality(Present(rows)) \in Nat /\ mem[w].count \in Nat
    BY <1>m, FiniteAssumption, FS_Subset, FS_CardinalityType DEF Present, Memory
  <2>5. Unconsented => Clean(m.req)
    BY <1>c, <2>1, <2>3, <2>4 DEF Clean, CountFits
  <2>6. Unconsented => CountFits(rows, step, m)
    BY <2>1, <2>3, FewerApprovals DEF Unconsented, CountFits
  <2>7. QED
    BY <1>c, <2>1, <2>2, <2>5, <2>6, ConsentMove
<1>6. CASE WriteRequest(w)
  BY <1>6, <1>c, <1>n, ConsentMove DEF WriteRequest
<1>7. CASE SweepNext(w)
  <2>1. PICK u \in ToSave(w) :
          \/ Goto(w, "sweep", AfterSaving(w, u))
          \/ Goto(w, "idle", NoMemory)
    BY <1>7 DEF SweepNext, SaveFails
  <2>2. Remember /\ req' = req
    BY <1>7 DEF SweepNext, Saved, SaveFails, OnlyRows, Stay, db
  <2> DEFINE m == AfterSaving(w, u)
  <2>3. m.req = mem[w].req
    BY <1>m DEF Memory, AfterSaving
  <2>4. Goto(w, "sweep", m) \/ Goto(w, "idle", NoMemory)
    BY <2>1
  <2> HIDE DEF m
  <2>5. QED
    BY <1>c, <1>n, <2>2, <2>3, <2>4, ConsentMove
<1>8. CASE SweepEnds(w)
  <2> DEFINE m == [mem[w] EXCEPT !.choice = "revoked"]
  <2>1. m.req = mem[w].req
    BY <1>m DEF Memory
  <2>2. \/ Goto(w, "recount", mem[w])
        \/ Goto(w, "approvers", m)
        \/ Goto(w, "idle", mem[w])
    BY <1>8 DEF SweepEnds
  <2>3. Remember /\ req' = req
    BY <1>8 DEF SweepEnds, Stay, db
  <2> HIDE DEF m
  <2>4. QED
    BY <1>c, <2>1, <2>2, <2>3, ConsentMove
<1>9. CASE StartCancel(w) \/ StartEdit(w)
  <2> DEFINE m == [NoMemory EXCEPT !.req = req]
  <2>1. m.req = req
    BY <1>n DEF Memory
  <2>2. Start(w, "recheck", m) \/ Start(w, "edit", m)
    BY <1>9 DEF StartCancel, StartEdit
  <2>3. Remember /\ req' = req
    BY <1>9 DEF StartCancel, StartEdit, Start, db
  <2> HIDE DEF m
  <2>4. QED
    BY <1>c, <2>1, <2>2, <2>3, ConsentMove
<1>10. CASE RecheckCancel(w)
  <2>1. Goto(w, "cancel", mem[w]) \/ Goto(w, "idle", mem[w])
    BY <1>10 DEF RecheckCancel
  <2>2. Remember /\ req' = req
    BY <1>10 DEF RecheckCancel, Stay, db
  <2>3. QED
    BY <1>c, <2>1, <2>2, ConsentMove
<1>11. CASE CancelRequest(w)
  <2>1. mem[w].req \in Request
    BY <1>11, <1>m DEF CancelRequest, Sound
  <2>2. Unconsented => Clean(req')
    BY <1>11, <1>c, <2>1 DEF CancelRequest, Clean, Request
  <2>3. QED
    BY <1>11, <1>c, <2>2, ConsentMove DEF CancelRequest
<1>12. CASE CancelRows(w)
  BY <1>12, <1>c, <1>n, ConsentMove DEF CancelRows, OnlyRows
<1>13. ASSUME NEW wanted, CommitEdit(w, wanted)
       PROVE  Consent'
  BY <1>13, <1>c, <1>n, ConsentMove DEF CommitEdit
<1>14. ASSUME NEW s, StartAdmin(w, s) PROVE Consent'
  <2> DEFINE m == [NoMemory EXCEPT !.req = req, !.choice = s]
  <2>1. ~Unconsented
    BY <1>14, <1>c DEF StartAdmin, MayDecide, Clean
  <2>2. Start(w, "admin", m) /\ Remember
    BY <1>14 DEF StartAdmin
  <2> HIDE DEF m
  <2>3. QED
    BY <2>1, <2>2, ConsentMove
<1>15. CASE SaveAdmin(w)
  <2>1. ~Unconsented
    BY <1>15, <1>c DEF SaveAdmin
  <2>2. Goto(w, "approvers", mem[w]) \/ Goto(w, "idle", mem[w])
    BY <1>15 DEF SaveAdmin
  <2>3. Remember
    BY <1>15 DEF SaveAdmin
  <2>4. QED
    BY <2>1, <2>2, <2>3, ConsentMove
<1>16. CASE Kill(w)
  <2>1. Unconsented /\ ~everApproved' => Unconsented'
    <3>1. pc' = [pc EXCEPT ![w] = "idle"] /\ mem' = [mem EXCEPT ![w] = NoMemory]
          /\ req' = req /\ rows' = rows
      BY <1>16 DEF Kill, db
    <3>2. Unconsented => \A v \in Workers : CountFits(rows, pc[v], mem[v])'
      BY <3>1 DEF Unconsented, Types, TypeOK, CountFits, Present
    <3>3. QED
      BY <1>n, <3>1, <3>2 DEF Unconsented, Types, TypeOK, Clean, FullyApproved, Present,
                       WithStatus
  <2>2. (everApproved => everApproved') /\ (mixedCounts => mixedCounts')
    BY <1>16 DEF Kill, Remember
  <2>3. QED
    BY <2>1, <2>2 DEF Consent
<1>17. QED
  BY <1>1, <1>2, <1>3, <1>4, <1>5, <1>6, <1>7, <1>8, <1>9, <1>10, <1>11, <1>12,
     <1>13, <1>14, <1>15, <1>16 DEF StartHandler, Continue, Recounts

LEMMA NextConsent == Types /\ Consent /\ [Next]_vars => Consent'
<1> SUFFICES ASSUME Types, Consent, [Next]_vars PROVE Consent'
  OBVIOUS
<1>1. CASE UNCHANGED vars
  BY <1>1 DEF vars, db, ghosts, Consent, Unconsented, FullyApproved, Present,
              WithStatus, Clean, CountFits
<1>2. ASSUME NEW r \in Records, NEW list \in Lists, NEW sync \in BOOLEAN,
             ChangeList(r, list, sync)
      PROVE  Consent'
  <2>1. UNCHANGED <<req, pc, mem>> /\ Remember
    BY <1>2 DEF ChangeList
  <2> SUFFICES ASSUME ~everApproved', ~mixedCounts' PROVE Unconsented'
    BY DEF Consent
  <2>2. Unconsented /\ ~FullyApproved(rows')
    BY <2>1 DEF Remember, Consent
  <2>3. \A v \in Workers : CountFits(rows', pc[v], mem[v])
    BY <2>1, <2>2, CountKept DEF Unconsented
  <2>4. \A v \in Workers : CountFits(rows, pc[v], mem[v])'
    BY <2>1, <2>3 DEF CountFits, Present
  <2>5. QED
    BY <2>1, <2>2, <2>4 DEF Unconsented, FullyApproved, Present, WithStatus, Clean
<1>3. QED
  BY <1>1, <1>2, HandlerConsent DEF Next, Quiet

\* Whatever the interleaving, the stale copies and the lost updates, the
\* administrators decide only requests all of whose approvers agreed, unless
\* approver rows came or went between two counts of one handler.
THEOREM ConsentBeforeDecision == Spec => []DecidedOnlyAfterConsent
<1>1. Spec => [](Types /\ Consent)
  BY InitTypes, NextTypes, InitConsent, NextConsent, PTL DEF Spec
<1>2. Types /\ Consent => DecidedOnlyAfterConsent
  BY DEF Types, TypeOK, Request, AdminStatuses, Consent, Unconsented, Clean,
         DecidedOnlyAfterConsent
<1>3. QED
  BY <1>1, <1>2, PTL

-----------------------------------------------------------------------------
(* A decision that was in place while no handler ran stays: every handler  *)
(* started since has loaded it, and none that loaded it can change it.     *)

Finals == {"cancelled", "denied", "revoked"}

InPlace(f) ==
    \/ f = "cancelled" /\ req.status = "cancelled"
    \/ f = "denied" /\ req.admin = "denied"
    \/ f = "revoked" /\ kind = "revoke" /\ req.admin = "granted"

\* What a running handler may hold then.
Harmless(step, m, f) ==
    \/ step = "idle"
    \/ f = "cancelled" /\ step = "check" /\ m.req.status \in {"none", "cancelled"}
    \/ f = "denied" /\ step # "admin" /\ m.req.admin \in {"none", "denied"}
    \/ /\ f = "revoked" /\ m.req.admin \in {"none", "granted"}
       /\ step = "admin" => m.choice = "granted"

Settled(f) == InPlace(f) /\ \A w \in Workers : Harmless(pc[w], mem[w], f)

FinalSettled == \A f \in final : Settled(f)

LEMMA SettledMove ==
    ASSUME Types, NEW f \in Finals, Settled(f),
           NEW w \in Workers, NEW step, NEW m,
           Goto(w, step, m) \/ (Start(w, step, m) /\ step # "idle"),
           InPlace(f)', Harmless(step, m, f)
    PROVE  Settled(f)'
<1>1. PICK k : /\ pc' = [pc EXCEPT ![w] = step] /\ mem' = [mem EXCEPT ![w] = k]
               /\ step # "idle" => k = m
  BY DEF Goto, Start
<1>2. Harmless(step, k, f)
  BY <1>1 DEF Harmless
<1>3. ASSUME NEW v \in Workers PROVE Harmless(pc[v], mem[v], f)'
  <2>1. CASE v = w
    BY <1>1, <1>2, <2>1 DEF Types, TypeOK, Harmless
  <2>2. CASE v # w
    BY <1>1, <2>2 DEF Types, TypeOK, Settled, Harmless
  <2>3. QED
    BY <2>1, <2>2
<1>4. QED
  BY <1>3 DEF Settled

LEMMA HandlerSettled ==
    ASSUME Types, NEW f \in Finals, Settled(f), NEW w \in Workers,
           StartHandler(w) \/ Continue(w) \/ Kill(w)
    PROVE  Settled(f)'
<1>m. mem[w] \in Memory /\ Sound(pc[w], mem[w])
  BY DEF Types, TypeOK, WorkersSound
<1>n. NoMemory \in Memory
  BY NoMemoryType
<1>r. req \in Request
  BY DEF Types, TypeOK
<1>h. InPlace(f) /\ Harmless(pc[w], mem[w], f)
  BY DEF Settled
<1>p. UNCHANGED <<kind, req>> => InPlace(f)'
  BY <1>h DEF InPlace
<1>1. ASSUME NEW u \in Approvers, NEW s \in Decisions, StartSetStatus(w, u, s)
      PROVE  Settled(f)'
  <2>1. PICK request \in {req, NotFetched} :
          Start(w, "check", [who |-> u, choice |-> s, req |-> request,
                             held |-> Load({u}), count |-> 0])
    BY <1>1 DEF StartSetStatus
  <2> DEFINE m == [who |-> u, choice |-> s, req |-> request,
                   held |-> Load({u}), count |-> 0]
  <2>2. Harmless("check", m, f)
    BY <1>h DEF InPlace, Harmless, NotFetched
  <2>3. Start(w, "check", m) /\ UNCHANGED <<kind, req>>
    BY <2>1 DEF Start, db
  <2> HIDE DEF m
  <2>4. QED
    BY <1>p, <2>2, <2>3, SettledMove
<1>2. CASE CheckStatus(w)
  <2> DEFINE request == Fetched(mem[w])
             m == [mem[w] EXCEPT !.req = request]
  <2>0. pc[w] = "check" /\ UNCHANGED <<kind, req>>
    BY <1>2 DEF CheckStatus, Stay, db
  <2>1. m.req = request /\ request \in Request
    BY <1>m, <1>r DEF Memory, Fetched
  <2>2. \/ Goto(w, "row", m) /\ request.status # "cancelled"
        \/ Goto(w, "idle", mem[w])
    BY <1>2 DEF CheckStatus, MaySetStatus
  <2>3. f = "cancelled" => request.status = "cancelled"
    BY <1>h, <1>m, <2>0 DEF InPlace, Harmless, Memory, Request, Decisions, Fetched
  <2>4. f = "denied" => request.admin = "denied"
    BY <1>h, <1>m, <2>0 DEF InPlace, Harmless, Memory, Request, AdminStatuses, Fetched
  <2>5. f = "revoked" => request.admin = "granted"
    BY <1>h, <1>m, <2>0 DEF InPlace, Harmless, Memory, Request, AdminStatuses, Fetched
  <2>6. Harmless("row", m, f) \/ f = "cancelled"
    BY <2>1, <2>4, <2>5 DEF Harmless, Finals
  <2>7. Harmless("idle", mem[w], f)
    BY DEF Harmless
  <2> HIDE DEF m, request
  <2>8. QED
    BY <1>p, <2>0, <2>2, <2>3, <2>6, <2>7, SettledMove
<1>3. CASE SaveDecision(w)
  <2>1. UNCHANGED <<kind, req>> /\ pc[w] = "row"
    BY <1>3 DEF SaveDecision, Saved, SaveFails, OnlyRows, Stay, db
  <2>2. PICK step \in {"others", "recount"} :
          Goto(w, step, mem[w]) \/ Goto(w, "idle", NoMemory)
    BY <1>3 DEF SaveDecision, SaveFails
  <2>3. Harmless(step, mem[w], f) /\ Harmless("idle", NoMemory, f)
    BY <1>h, <2>1 DEF Harmless
  <2>4. QED
    BY <1>p, <2>1, <2>2, <2>3, SettledMove
<1>4. CASE LoadOthers(w) \/ LoadApprovers(w)
  <2>1. PICK who : Goto(w, "sweep", [mem[w] EXCEPT !.held = Load(who)])
    BY <1>4 DEF LoadOthers, LoadApprovers
  <2>2. UNCHANGED <<kind, req>> /\ pc[w] \in {"others", "approvers"}
    BY <1>4 DEF LoadOthers, LoadApprovers, Stay, db
  <2> DEFINE m == [mem[w] EXCEPT !.held = Load(who)]
  <2>3. m.req = mem[w].req
    BY <1>m DEF Memory
  <2>4. Harmless("sweep", m, f)
    BY <1>h, <2>2, <2>3 DEF Harmless
  <2>5. Goto(w, "sweep", m)
    BY <2>1
  <2> HIDE DEF m
  <2>6. QED
    BY <1>p, <2>2, <2>4, <2>5, SettledMove
<1>5. CASE Recounts(w)
  <2>1. PICK step \in {"anyRow", "countApproved", "countAll", "write"}, m \in Memory :
          Goto(w, step, m) /\ m.req.admin = mem[w].req.admin
    BY <1>5, RecountStep
  <2>2. /\ pc[w] \in {"recount", "anyRow", "countApproved", "countAll"}
        /\ UNCHANGED <<kind, req>>
    BY <1>5, RecountStep DEF Stay, db
  <2>3. Harmless(step, m, f)
    BY <1>h, <2>1, <2>2 DEF Harmless
  <2>4. QED
    BY <1>p, <2>1, <2>2, <2>3, SettledMove
<1>6. CASE WriteRequest(w)
  <2>1. mem[w].req \in Request /\ pc[w] = "write"
    BY <1>6, <1>m DEF Sound, WriteRequest
  <2>2. req' = mem[w].req /\ kind' = kind /\ Goto(w, "idle", NoMemory)
    BY <1>6 DEF WriteRequest, OnlyReq
  <2>3. InPlace(f)'
    BY <1>h, <2>1, <2>2 DEF InPlace, Harmless, Request, AdminStatuses
  <2>4. Harmless("idle", NoMemory, f)
    BY DEF Harmless
  <2>5. QED
    BY <2>2, <2>3, <2>4, SettledMove
<1>7. CASE SweepNext(w)
  <2>1. PICK u \in ToSave(w) :
          \/ Goto(w, "sweep", AfterSaving(w, u))
          \/ Goto(w, "idle", NoMemory)
    BY <1>7 DEF SweepNext, SaveFails
  <2>2. UNCHANGED <<kind, req>> /\ pc[w] = "sweep"
    BY <1>7 DEF SweepNext, Saved, SaveFails, OnlyRows, Stay, db
  <2> DEFINE m == AfterSaving(w, u)
  <2>3. m.req = mem[w].req
    BY <1>m DEF Memory, AfterSaving
  <2>4. Harmless("sweep", m, f) /\ Harmless("idle", NoMemory, f)
    BY <1>h, <2>2, <2>3 DEF Harmless
  <2>5. Goto(w, "sweep", m) \/ Goto(w, "idle", NoMemory)
    BY <2>1
  <2> HIDE DEF m
  <2>6. QED
    BY <1>p, <2>2, <2>4, <2>5, SettledMove
<1>8. CASE SweepEnds(w)
  <2> DEFINE m == [mem[w] EXCEPT !.choice = "revoked"]
  <2>1. m.req = mem[w].req
    BY <1>m DEF Memory
  <2>2. \/ Goto(w, "recount", mem[w])
        \/ Goto(w, "approvers", m)
        \/ Goto(w, "idle", mem[w])
    BY <1>8 DEF SweepEnds
  <2>3. UNCHANGED <<kind, req>> /\ pc[w] = "sweep"
    BY <1>8 DEF SweepEnds, Stay, db
  <2>4. /\ Harmless("recount", mem[w], f) /\ Harmless("approvers", m, f)
        /\ Harmless("idle", mem[w], f)
    BY <1>h, <2>1, <2>3 DEF Harmless
  <2> HIDE DEF m
  <2>5. QED
    BY <1>p, <2>2, <2>3, <2>4, SettledMove
<1>9. CASE StartCancel(w) \/ StartEdit(w)
  <2> DEFINE m == [NoMemory EXCEPT !.req = req]
  <2>1. m.req = req /\ req.status = "pending"
    BY <1>9, <1>n DEF Memory, StartCancel, StartEdit
  <2>2. PICK step \in {"recheck", "edit"} : Start(w, step, m)
    BY <1>9 DEF StartCancel, StartEdit
  <2>3. UNCHANGED <<kind, req>>
    BY <1>9 DEF StartCancel, StartEdit, Start, db
  <2>4. Harmless(step, m, f)
    BY <1>h, <2>1 DEF InPlace, Harmless
  <2> HIDE DEF m
  <2>5. QED
    BY <1>p, <2>2, <2>3, <2>4, SettledMove
<1>10. CASE RecheckCancel(w)
  <2>1. Goto(w, "cancel", mem[w]) \/ Goto(w, "idle", mem[w])
    BY <1>10 DEF RecheckCancel
  <2>2. UNCHANGED <<kind, req>> /\ pc[w] = "recheck"
    BY <1>10 DEF RecheckCancel, Stay, db
  <2>3. Harmless("cancel", mem[w], f) /\ Harmless("idle", mem[w], f)
    BY <1>h, <2>2 DEF Harmless
  <2>4. QED
    BY <1>p, <2>1, <2>2, <2>3, SettledMove
<1>11. CASE CancelRequest(w)
  <2>1. mem[w].req \in Request /\ pc[w] = "cancel"
    BY <1>11, <1>m DEF CancelRequest, Sound
  <2>2. /\ req' = [mem[w].req EXCEPT !.status = "cancelled"] /\ kind' = kind
        /\ Goto(w, "cancelRows", mem[w])
    BY <1>11 DEF CancelRequest, OnlyReq
  <2>3. InPlace(f)' /\ Harmless("cancelRows", mem[w], f)
    BY <1>h, <2>1, <2>2 DEF InPlace, Harmless, Request, AdminStatuses
  <2>4. QED
    BY <2>2, <2>3, SettledMove
<1>12. CASE CancelRows(w)
  <2>1. UNCHANGED <<kind, req>> /\ Goto(w, "idle", NoMemory)
    BY <1>12 DEF CancelRows, OnlyRows
  <2>2. QED
    BY <1>p, <2>1, SettledMove DEF Harmless
<1>13. ASSUME NEW wanted, CommitEdit(w, wanted) PROVE Settled(f)'
  <2>1. mem[w].req \in Request /\ pc[w] = "edit"
    BY <1>13, <1>m DEF CommitEdit, Sound
  <2>2. req' = mem[w].req /\ kind' = kind /\ Goto(w, "idle", NoMemory)
    BY <1>13 DEF CommitEdit
  <2>3. InPlace(f)' /\ Harmless("idle", NoMemory, f)
    BY <1>h, <2>1, <2>2 DEF InPlace, Harmless, Request, AdminStatuses
  <2>4. QED
    BY <2>2, <2>3, SettledMove
<1>14. ASSUME NEW s, StartAdmin(w, s) PROVE Settled(f)'
  <2> DEFINE m == [NoMemory EXCEPT !.req = req, !.choice = s]
  <2>1. m.req = req /\ m.choice = s
    BY <1>n DEF Memory
  <2>2. Start(w, "admin", m) /\ UNCHANGED <<kind, req>>
    BY <1>14 DEF StartAdmin, Start, db
  <2>3. Harmless("admin", m, f)
    BY <1>14, <1>h, <2>1 DEF StartAdmin, MayDecide, InPlace, Harmless
  <2> HIDE DEF m
  <2>4. QED
    BY <1>p, <2>2, <2>3, SettledMove
<1>15. CASE SaveAdmin(w)
  <2>1. mem[w].req \in Request /\ pc[w] = "admin"
    BY <1>15, <1>m DEF SaveAdmin, Sound
  <2>2. req' = [mem[w].req EXCEPT !.admin = mem[w].choice] /\ kind' = kind
    BY <1>15 DEF SaveAdmin, OnlyReq
  <2>3. InPlace(f)' /\ Harmless("approvers", mem[w], f)
    BY <1>h, <2>1, <2>2 DEF InPlace, Harmless, Request
  <2>4. Goto(w, "approvers", mem[w]) \/ Goto(w, "idle", mem[w])
    BY <1>15 DEF SaveAdmin
  <2>5. Harmless("idle", mem[w], f)
    BY DEF Harmless
  <2>6. QED
    BY <2>3, <2>4, <2>5, SettledMove
<1>16. CASE Kill(w)
  <2>1. /\ UNCHANGED <<kind, req>> /\ pc' = [pc EXCEPT ![w] = "idle"]
        /\ mem' = [mem EXCEPT ![w] = NoMemory]
    BY <1>16 DEF Kill, db
  <2>2. ASSUME NEW v \in Workers PROVE Harmless(pc[v], mem[v], f)'
    BY <2>1 DEF Types, TypeOK, Settled, Harmless
  <2>3. QED
    BY <1>p, <2>1, <2>2 DEF Settled
<1>17. QED
  BY <1>1, <1>2, <1>3, <1>4, <1>5, <1>6, <1>7, <1>8, <1>9, <1>10, <1>11, <1>12,
     <1>13, <1>14, <1>15, <1>16 DEF StartHandler, Continue, Recounts

LEMMA NextSettled == Types /\ FinalSettled /\ [Next]_vars => FinalSettled'
<1> SUFFICES ASSUME Types, FinalSettled, [Next]_vars, NEW f \in final'
             PROVE  Settled(f)'
  BY DEF FinalSettled
<1>1. CASE UNCHANGED vars
  BY <1>1 DEF vars, db, ghosts, FinalSettled, Settled, InPlace, Harmless
<1>2. CASE Next /\ ~UNCHANGED vars
  <2>1. Remember
    BY <1>2 DEF Next, Quiet, StartHandler, Continue, Kill, ChangeList,
       StartSetStatus, StartCancel, StartEdit, StartAdmin, CheckStatus,
       SaveDecision, LoadOthers, SweepNext, SweepEnds, Recount, AnyRow,
       CountApproved, CountAll, WriteRequest, RecheckCancel, CancelRequest, CancelRows, CommitEdit, SaveAdmin,
       LoadApprovers
  <2>2. kind' = kind
    BY <1>2 DEF Next, Quiet, StartHandler, Continue, Kill, ChangeList,
       StartSetStatus, StartCancel, StartEdit, StartAdmin, CheckStatus,
       SaveDecision, LoadOthers, SweepNext, SweepEnds, Recount, AnyRow,
       CountApproved, CountAll, WriteRequest, RecheckCancel, CancelRequest, CancelRows, CommitEdit, SaveAdmin,
       LoadApprovers, Start, Saved, SaveFails, Stay, OnlyReq, OnlyRows, db
  <2>3. CASE f \in final
    <3>1. f \in Finals /\ Settled(f)
      BY <2>3 DEF Types, TypeOK, Finals, FinalSettled
    <3>2. ASSUME NEW r \in Records, NEW list \in Lists, NEW sync \in BOOLEAN,
                 ChangeList(r, list, sync)
          PROVE  Settled(f)'
      <4>1. UNCHANGED <<kind, req, pc, mem>>
        BY <3>2 DEF ChangeList
      <4>2. QED
        BY <3>1, <4>1 DEF Settled, InPlace, Harmless
    <3>3. QED
      BY <1>2, <3>1, <3>2, HandlerSettled DEF Next, Quiet
  <2>4. CASE f \notin final
    <3>1. \A w \in Workers : pc'[w] = "idle"
      BY <2>1, <2>4 DEF Remember
    <3>2. InPlace(f)'
      BY <2>1, <2>2, <2>4 DEF Remember, InPlace
    <3>3. QED
      BY <3>1, <3>2 DEF Settled, Harmless
  <2>5. QED
    BY <2>3, <2>4
<1>3. QED
  BY <1>1, <1>2

\* A cancellation, a denial or a revocation that no handler was still busy
\* with is never undone, whatever interleaves afterwards.
THEOREM FinalStays == Spec => []FinalDecisionsStay
<1>1. Init => FinalSettled
  BY DEF Init, FinalSettled
<1>2. Spec => [](Types /\ FinalSettled)
  BY <1>1, InitTypes, NextTypes, NextSettled, PTL DEF Spec
<1>3. FinalSettled => FinalDecisionsStay
  BY DEF FinalSettled, Settled, InPlace, FinalDecisionsStay
<1>4. QED
  BY <1>2, <1>3, PTL

-----------------------------------------------------------------------------
(* No level is skipped.  As long as the approvers are those first listed,  *)
(* every copy of an approver row has the level of the row, so that what    *)
(* can_approve has found of the copy's level is true of the row when it is *)
(* saved: lower levels may have been reset since, but did approve once.    *)

\* Everybody below this level has approved once.
Passable(rs, once, level) == level = 1 \/ Below(rs, level) \subseteq once

\* What a worker at a step holds, when the approver rows are rs.
Fit(rs, once, step, m) ==
    /\ \A u \in Approvers : m.held[u].row.status # "absent" =>
          rs[u].status # "absent" /\ m.held[u].row.order = rs[u].order
    /\ \A u \in Approvers : m.held[u] # NotHeld => m.held[u].row.status # "absent"
    /\ step \in {"check", "row"} => m.held[m.who].row.status # "absent"
    /\ step = "row" /\ m.choice = "approved" =>
          Passable(rs, once, m.held[m.who].row.order)
    /\ step \in {"admin", "approvers"} \/ (step = "sweep" /\ m.choice # "rejected") =>
          Present(rs) \subseteq once
    /\ step = "others" => m.choice = "rejected"

LevelsHeld ==
    /\ ~mixedCounts
    /\ WithStatus(rows, "approved") \subseteq approvedOnce
    /\ everApproved => Present(rows) \subseteq approvedOnce
    /\ \A w \in Workers : Fit(rows, approvedOnce, pc[w], mem[w])
    /\ \A u \in WithStatus(rows, "approved") :
          Passable(rows, approvedOnce, rows[u].order)

LevelsInv == made = 0 => LevelsHeld

\* rs2 has the same approvers as rs, on the same levels.
SameApprovers(rs, rs2) ==
    \A u \in Approvers : /\ rs2[u].order = rs[u].order
                         /\ rs2[u].status = "absent" <=> rs[u].status = "absent"

LEMMA SameLevels ==
    ASSUME NEW rs, NEW rs2, SameApprovers(rs, rs2)
    PROVE  /\ Present(rs2) = Present(rs)
           /\ \A level : Below(rs2, level) = Below(rs, level)
BY DEF SameApprovers, Present, Below

LEMMA FitKept ==
    ASSUME NEW rs, NEW rs2, NEW once, NEW once2, NEW step, NEW m,
           SameApprovers(rs, rs2), once \subseteq once2, Fit(rs, once, step, m)
    PROVE  Fit(rs2, once2, step, m)
<1>1. /\ Present(rs2) = Present(rs)
      /\ \A level : Below(rs2, level) = Below(rs, level)
  BY SameLevels
<1>2. \A level : Passable(rs, once, level) => Passable(rs2, once2, level)
  BY <1>1 DEF Passable
<1>3. \A u \in Approvers : m.held[u].row.status # "absent" =>
          rs2[u].status # "absent" /\ m.held[u].row.order = rs2[u].order
  BY DEF Fit, SameApprovers
<1>4. QED
  BY <1>1, <1>2, <1>3 DEF Fit

LEMMA NoMemoryFit ==
    ASSUME NEW rs, NEW once PROVE Fit(rs, once, "idle", NoMemory)
<1>1. \A u \in Approvers : NoMemory.held[u] = NotHeld
  BY DEF NoMemory
<1>2. NotHeld.row.status = "absent"
  BY DEF NotHeld, Absent
<1>3. QED
  BY <1>1, <1>2 DEF Fit

\* The copies a query returns, of rows that there are.
LEMMA LoadFit ==
    ASSUME TypeOK, NEW who \in SUBSET Approvers, who \subseteq Present(rows)
    PROVE  /\ \A u \in Approvers : Load(who)[u].row.status # "absent" =>
                 /\ rows[u].status # "absent"
                 /\ Load(who)[u].row.order = rows[u].order
           /\ \A u \in Approvers : Load(who)[u] # NotHeld =>
                 Load(who)[u].row.status # "absent"
           /\ \A u \in who : Load(who)[u].row.status # "absent"
<1>1. NotHeld.row.status = "absent"
  BY DEF NotHeld, Absent
<1>2. \A u \in who : Load(who)[u].row = rows[u] /\ rows[u].status # "absent"
  BY DEF Load, Present
<1>3. \A u \in Approvers \ who : Load(who)[u] = NotHeld
  BY DEF Load
<1>4. QED
  BY <1>1, <1>2, <1>3

\* A save by primary key of a copy that fits keeps the approvers and levels.
LEMMA SavedSame ==
    ASSUME Types, NEW w \in Workers, Fit(rows, approvedOnce, pc[w], mem[w]),
           NEW u \in Approvers, NEW s \in Decisions,
           mem[w].held[u].row.status # "absent", Saved(u, mem[w].held[u], s)
    PROVE  /\ SameApprovers(rows, rows')
           /\ \A v \in Approvers :
                 rows'[v].status = "approved" /\ rows[v].status # "approved" =>
                     v = u /\ s = "approved"
<1> DEFINE copy == mem[w].held[u]
<1>1. copy.row \in Row
  BY DEF Types, TypeOK, Memory, Held
<1>2. rows[u].status # "absent" /\ copy.row.order = rows[u].order
  BY DEF Fit
<1>3. rows' = [rows EXCEPT ![u] = [copy.row EXCEPT !.status = s]]
  BY DEF Saved
<1> HIDE DEF copy
<1>4. /\ [copy.row EXCEPT !.status = s].status = s
      /\ [copy.row EXCEPT !.status = s].order = copy.row.order
  BY <1>1 DEF Row
<1>5. s # "absent"
  BY DEF Decisions
<1>6. rows \in [Approvers -> Row]
  BY DEF Types, TypeOK
<1>7. rows'[u].status = s /\ rows'[u].order = rows[u].order
  BY <1>2, <1>3, <1>4, <1>6
<1>8. \A v \in Approvers \ {u} : rows'[v] = rows[v]
  BY <1>3, <1>6
<1>9. QED
  BY <1>2, <1>5, <1>7, <1>8 DEF SameApprovers

\* A step of a worker that keeps the approvers and their levels, approves only
\* where the level is open, and goes on with memory that fits.
LEMMA LevelsMove ==
    ASSUME Types, LevelsHeld, Remember, SameApprovers(rows, rows'),
           NEW w \in Workers, NEW step, NEW m,
           Goto(w, step, m) \/ (Start(w, step, m) /\ step # "idle"),
           step # "idle" => Fit(rows, approvedOnce, step, m),
           \A u \in Approvers :
              rows'[u].status = "approved" /\ rows[u].status # "approved" =>
                  Passable(rows, approvedOnce, rows[u].order)
    PROVE  LevelsHeld'
<1>1. /\ Present(rows') = Present(rows)
      /\ \A level : Below(rows', level) = Below(rows, level)
  BY SameLevels
<1>2. /\ approvedOnce \subseteq approvedOnce'
      /\ WithStatus(rows', "approved") \subseteq approvedOnce'
  BY DEF Remember
<1>3. \A level : Passable(rows, approvedOnce, level) =>
                 Passable(rows', approvedOnce', level)
  BY <1>1, <1>2 DEF Passable
<1>4. everApproved' => Present(rows') \subseteq approvedOnce'
  <2>1. CASE everApproved
    BY <1>1, <1>2, <2>1 DEF LevelsHeld
  <2>2. CASE FullyApproved(rows')
    BY <1>2, <2>2 DEF FullyApproved
  <2>3. QED
    BY <2>1, <2>2 DEF Remember
<1>5. ASSUME NEW u \in WithStatus(rows', "approved")
      PROVE  Passable(rows', approvedOnce', rows'[u].order)
  <2>1. u \in Approvers /\ rows'[u].status = "approved"
    BY DEF WithStatus
  <2>2. Passable(rows, approvedOnce, rows[u].order)
    BY <2>1 DEF LevelsHeld, WithStatus
  <2>3. rows'[u].order = rows[u].order
    BY <2>1 DEF SameApprovers
  <2>4. QED
    BY <1>3, <2>2, <2>3
<1>6. ASSUME NEW v \in Workers PROVE Fit(rows', approvedOnce', pc'[v], mem'[v])
  <2>1. PICK k : /\ pc' = [pc EXCEPT ![w] = step] /\ mem' = [mem EXCEPT ![w] = k]
                 /\ step = "idle" => k = NoMemory
                 /\ step # "idle" => k = m
    BY DEF Goto, Start
  <2>2. Fit(rows, approvedOnce, step, k)
    BY <2>1, NoMemoryFit
  <2>3. Fit(rows, approvedOnce, pc'[v], mem'[v])
    <3>1. CASE v = w
      BY <2>1, <2>2, <3>1 DEF Types, TypeOK
    <3>2. CASE v # w
      <4>1. pc'[v] = pc[v] /\ mem'[v] = mem[v]
        BY <2>1, <3>2 DEF Types, TypeOK
      <4>2. QED
        BY <4>1 DEF LevelsHeld
    <3>3. QED
      BY <3>1, <3>2
  <2>4. QED
    BY <1>2, <2>3, FitKept
<1>7. ~mixedCounts'
  BY <1>1 DEF Remember, LevelsHeld
<1>8. QED
  BY <1>2, <1>4, <1>5, <1>6, <1>7 DEF LevelsHeld

LEMMA InitLevels == Init => LevelsInv
<1> SUFFICES ASSUME Init PROVE LevelsHeld
  BY DEF LevelsInv
<1>1. PICK first \in records : rows = CopyList(lists[first], first)
  BY DEF Init
<1>2. WithStatus(rows, "approved") = {}
  BY <1>1 DEF WithStatus, CopyList, CopyOf, Absent
<1>3. \A w \in Workers : Fit(rows, approvedOnce, pc[w], mem[w])
  BY NoMemoryFit DEF Init
<1>4. QED
  BY <1>2, <1>3 DEF Init, LevelsHeld

\* A step of a handler that leaves the rows alone.
LEMMA LevelsStill ==
    ASSUME Types, LevelsHeld, Remember, UNCHANGED rows,
           NEW w \in Workers, NEW step, NEW m,
           Goto(w, step, m) \/ (Start(w, step, m) /\ step # "idle"),
           step # "idle" => Fit(rows, approvedOnce, step, m)
    PROVE  LevelsHeld'
BY LevelsMove DEF SameApprovers

LEMMA HandlerLevels ==
    ASSUME Types, Consent, LevelsHeld, made = 0, made' = 0, NEW w \in Workers,
           StartHandler(w) \/ Continue(w) \/ Kill(w)
    PROVE  LevelsHeld'
<1>m. /\ mem[w] \in Memory /\ Sound(pc[w], mem[w])
      /\ mem[w].who \in Approvers
      /\ Fit(rows, approvedOnce, pc[w], mem[w])
  BY DEF Types, TypeOK, WorkersSound, LevelsHeld, Memory
<1>n. NoMemory \in Memory /\ Fit(rows, approvedOnce, "idle", NoMemory)
  BY NoMemoryType, NoMemoryFit
<1>t. TypeOK
  BY DEF Types
<1>1. ASSUME NEW u \in Approvers, NEW s \in Decisions, StartSetStatus(w, u, s)
      PROVE  LevelsHeld'
  <2>1. PICK request \in {req, NotFetched} :
          Start(w, "check", [who |-> u, choice |-> s, req |-> request,
                             held |-> Load({u}), count |-> 0])
    BY <1>1 DEF StartSetStatus
  <2> DEFINE m == [who |-> u, choice |-> s, req |-> request,
                   held |-> Load({u}), count |-> 0]
  <2>2. {u} \subseteq Present(rows)
    BY <1>1 DEF StartSetStatus
  <2>3. m.held = Load({u}) /\ m.who = u
    OBVIOUS
  <2>4. Start(w, "check", m) /\ Remember /\ rows' = rows
    BY <1>1, <2>1 DEF StartSetStatus, Start, db
  <2> HIDE DEF m
  <2>5. Fit(rows, approvedOnce, "check", m)
    BY <1>t, <2>2, <2>3, LoadFit DEF Fit
  <2>6. QED
    BY <2>4, <2>5, LevelsStill
<1>2. CASE CheckStatus(w)
  <2> DEFINE m == [mem[w] EXCEPT !.req = Fetched(mem[w])]
  <2>1. m.held = mem[w].held /\ m.who = mem[w].who /\ m.choice = mem[w].choice
    BY <1>m DEF Memory
  <2>2. \/ Goto(w, "row", m) /\ MaySetStatus(mem[w])
        \/ Goto(w, "idle", mem[w])
    BY <1>2 DEF CheckStatus
  <2>3. Remember /\ rows' = rows /\ pc[w] = "check"
    BY <1>2 DEF CheckStatus, Stay, db
  <2> HIDE DEF m
  <2>4. ASSUME MaySetStatus(mem[w]), m.choice = "approved"
        PROVE  Passable(rows, approvedOnce, m.held[m.who].row.order)
    BY <2>1, <2>4
    DEF MaySetStatus, IsDecision, LevelOpen, Passable, LevelsHeld
  <2>5. MaySetStatus(mem[w]) => Fit(rows, approvedOnce, "row", m)
    BY <1>m, <2>1, <2>3, <2>4 DEF Fit
  <2>6. QED
    BY <2>2, <2>3, <2>5, LevelsStill
<1>3. CASE SaveDecision(w)
  <2> DEFINE m == mem[w]
             u == m.who
             step == IF m.choice = "rejected" THEN "others" ELSE "recount"
  <2>1. pc[w] = "row" /\ Remember /\ m.choice \in Decisions
    BY <1>3, <1>m DEF SaveDecision, Sound
  <2>2. m.held[u].row.status # "absent" /\ m.held[u].row.order = rows[u].order
    BY <1>m, <2>1 DEF Fit
  <2>3. CASE Saved(u, m.held[u], m.choice) /\ Goto(w, step, m)
    <3>1. /\ SameApprovers(rows, rows')
          /\ \A v \in Approvers :
                rows'[v].status = "approved" /\ rows[v].status # "approved" =>
                    v = u /\ m.choice = "approved"
      BY <1>m, <2>1, <2>2, <2>3, SavedSame
    <3>2. m.choice = "approved" => Passable(rows, approvedOnce, rows[u].order)
      BY <1>m, <2>1, <2>2 DEF Fit
    <3>3. Fit(rows, approvedOnce, step, m)
      BY <1>m DEF Fit
    <3>4. QED
      BY <2>1, <2>3, <3>1, <3>2, <3>3, LevelsMove
  <2>4. CASE SaveFails(w, u, m.held[u])
    BY <2>1, <2>4, LevelsStill DEF SaveFails, Stay, db
  <2>5. QED
    BY <1>3, <2>3, <2>4 DEF SaveDecision
<1>4. CASE LoadOthers(w) \/ LoadApprovers(w)
  <2>1. PICK who \in SUBSET Approvers :
          /\ who \subseteq Present(rows)
          /\ Goto(w, "sweep", [mem[w] EXCEPT !.held = Load(who)])
    BY <1>4 DEF LoadOthers, LoadApprovers, WithStatus, Present
  <2>2. Remember /\ rows' = rows /\ pc[w] \in {"others", "approvers"}
    BY <1>4 DEF LoadOthers, LoadApprovers, Stay, db
  <2> DEFINE m == [mem[w] EXCEPT !.held = Load(who)]
  <2>3. m.held = Load(who) /\ m.choice = mem[w].choice
    BY <1>m DEF Memory
  <2>4. Goto(w, "sweep", m)
    BY <2>1
  <2> HIDE DEF m
  <2>5. m.choice = "rejected" \/ Present(rows) \subseteq approvedOnce
    BY <1>m, <2>2, <2>3 DEF Fit
  <2>6. Fit(rows, approvedOnce, "sweep", m)
    BY <1>t, <2>1, <2>3, <2>5, LoadFit DEF Fit
  <2>7. QED
    BY <2>2, <2>4, <2>6, LevelsStill
<1>5. CASE Recounts(w)
  <2>1. PICK step \in {"anyRow", "countApproved", "countAll", "write"}, m \in Memory :
          Goto(w, step, m) /\ m.held = mem[w].held
    BY <1>5, RecountStep
  <2>2. Remember /\ rows' = rows
    BY <1>5, RecountStep DEF Stay, db
  <2>3. Fit(rows, approvedOnce, step, m)
    BY <1>m, <2>1 DEF Fit
  <2>4. QED
    BY <2>1, <2>2, <2>3, LevelsStill
<1>6. CASE WriteRequest(w)
  BY <1>6, LevelsStill DEF WriteRequest, OnlyReq
<1>7. CASE SweepNext(w)
  <2>1. PICK u \in ToSave(w) :
          \/ /\ Saved(u, mem[w].held[u], SweepStatus(w))
             /\ Goto(w, "sweep", AfterSaving(w, u))
          \/ SaveFails(w, u, mem[w].held[u])
    BY <1>7 DEF SweepNext
  <2> DEFINE m == AfterSaving(w, u)
  <2>2. pc[w] = "sweep" /\ Remember
    BY <1>7 DEF SweepNext
  <2>3. /\ u \in Approvers /\ mem[w].held[u] # NotHeld
        /\ mem[w].held[u].row.status # "absent"
    BY <1>m DEF ToSave, Fit
  <2>4. /\ SweepStatus(w) \in Decisions
        /\ SweepStatus(w) = "approved" => mem[w].choice # "rejected"
    BY DEF SweepStatus, Decisions
  <2>5. /\ m.choice = mem[w].choice
        /\ m.held = [mem[w].held EXCEPT ![u] = NotHeld]
        /\ mem[w].held \in [Approvers -> Held]
    BY <1>m DEF Memory, AfterSaving
  <2> HIDE DEF m
  <2>6. Fit(rows, approvedOnce, "sweep", m)
    <3>1. NotHeld.row.status = "absent"
      BY DEF NotHeld, Absent
    <3>2. \A v \in Approvers : m.held[v] \in {mem[w].held[v], NotHeld}
      BY <2>5
    <3>3. \A v \in Approvers : m.held[v].row.status # "absent" =>
              rows[v].status # "absent" /\ m.held[v].row.order = rows[v].order
      BY <1>m, <3>1, <3>2 DEF Fit
    <3>4. \A v \in Approvers : m.held[v] # NotHeld => m.held[v].row.status # "absent"
      BY <1>m, <3>2 DEF Fit
    <3>5. m.choice # "rejected" => Present(rows) \subseteq approvedOnce
      BY <1>m, <2>2, <2>5 DEF Fit
    <3>6. QED
      BY <3>3, <3>4, <3>5 DEF Fit
  <2>7. CASE Saved(u, mem[w].held[u], SweepStatus(w)) /\ Goto(w, "sweep", m)
    <3>1. /\ SameApprovers(rows, rows')
          /\ \A v \in Approvers :
                rows'[v].status = "approved" /\ rows[v].status # "approved" =>
                    v = u /\ SweepStatus(w) = "approved"
      BY <1>m, <2>3, <2>4, <2>7, SavedSame
    <3>2. SweepStatus(w) = "approved" => Passable(rows, approvedOnce, rows[u].order)
      BY <1>m, <2>2, <2>4 DEF Fit, Passable, Below
    <3>3. QED
      BY <2>2, <2>6, <2>7, <3>1, <3>2, LevelsMove
  <2>8. CASE SaveFails(w, u, mem[w].held[u])
    BY <2>2, <2>8, LevelsStill DEF SaveFails, Stay, db
  <2>9. QED
    BY <2>1, <2>7, <2>8 DEF m
<1>8. CASE SweepEnds(w)
  <2> DEFINE m == [mem[w] EXCEPT !.choice = "revoked"]
  <2>1. m.held = mem[w].held
    BY <1>m DEF Memory
  <2>2. \/ Goto(w, "recount", mem[w])
        \/ Goto(w, "approvers", m) /\ mem[w].choice # "rejected"
        \/ Goto(w, "idle", mem[w])
    BY <1>8 DEF SweepEnds
  <2>3. Remember /\ rows' = rows /\ pc[w] = "sweep"
    BY <1>8 DEF SweepEnds, Stay, db
  <2> HIDE DEF m
  <2>4. /\ Fit(rows, approvedOnce, "recount", mem[w])
        /\ mem[w].choice # "rejected" => Fit(rows, approvedOnce, "approvers", m)
    BY <1>m, <2>1, <2>3 DEF Fit
  <2>5. QED
    BY <2>2, <2>3, <2>4, LevelsStill
<1>9. CASE StartCancel(w) \/ StartEdit(w)
  <2> DEFINE m == [NoMemory EXCEPT !.req = req]
  <2>1. m.held = NoMemory.held
    BY <1>n DEF Memory
  <2>2. PICK step \in {"recheck", "edit"} : Start(w, step, m)
    BY <1>9 DEF StartCancel, StartEdit
  <2>3. Remember /\ rows' = rows
    BY <1>9 DEF StartCancel, StartEdit, Start, db
  <2> HIDE DEF m
  <2>4. Fit(rows, approvedOnce, step, m)
    BY <1>n, <2>1 DEF Fit
  <2>5. QED
    BY <2>2, <2>3, <2>4, LevelsStill
<1>10. CASE RecheckCancel(w)
  <2>1. Goto(w, "cancel", mem[w]) \/ Goto(w, "idle", mem[w])
    BY <1>10 DEF RecheckCancel
  <2>2. Remember /\ rows' = rows
    BY <1>10 DEF RecheckCancel, Stay, db
  <2>3. Fit(rows, approvedOnce, "cancel", mem[w])
    BY <1>m DEF Fit
  <2>4. QED
    BY <2>1, <2>2, <2>3, LevelsStill
<1>11. CASE CancelRequest(w)
  <2>1. Goto(w, "cancelRows", mem[w]) /\ Remember /\ rows' = rows
    BY <1>11 DEF CancelRequest, OnlyReq
  <2>2. Fit(rows, approvedOnce, "cancelRows", mem[w])
    BY <1>m DEF Fit
  <2>3. QED
    BY <2>1, <2>2, LevelsStill
<1>12. CASE CancelRows(w)
  <2>1. /\ rows' = Mark(rows, WithStatus(rows, "pending"), "cancelled")
        /\ Goto(w, "idle", NoMemory) /\ Remember
    BY <1>12 DEF CancelRows
  <2>2. rows \in [Approvers -> Row]
    BY <1>t DEF TypeOK
  <2>3. SameApprovers(rows, rows')
    BY <2>1, <2>2 DEF Mark, WithStatus, SameApprovers, Row
  <2>4. \A u \in Approvers : rows'[u].status = "approved" => rows[u].status = "approved"
    BY <2>1, <2>2 DEF Mark, WithStatus, Row
  <2>5. QED
    BY <2>1, <2>3, <2>4, LevelsMove
<1>13. ASSUME NEW wanted \in (SUBSET Records) \ {{}}, CommitEdit(w, wanted)
       PROVE  LevelsHeld'
  <2>1. rows' = rows
    BY <1>13 DEF CommitEdit
  <2>2. Goto(w, "idle", NoMemory) /\ Remember
    BY <1>13 DEF CommitEdit
  <2>3. QED
    BY <2>1, <2>2, LevelsStill
<1>14. ASSUME NEW s \in AdminStatuses, StartAdmin(w, s)
       PROVE  LevelsHeld'
  <2> DEFINE m == [NoMemory EXCEPT !.req = req, !.choice = s]
  <2>1. m.held = NoMemory.held
    BY <1>n DEF Memory
  <2>2. Start(w, "admin", m) /\ Remember /\ rows' = rows
    BY <1>14 DEF StartAdmin, Start, db
  <2>3. everApproved
    BY <1>14 DEF StartAdmin, MayDecide, Consent, Unconsented, Clean, LevelsHeld
  <2> HIDE DEF m
  <2>4. Fit(rows, approvedOnce, "admin", m)
    BY <1>n, <2>1, <2>3 DEF Fit, LevelsHeld
  <2>5. QED
    BY <2>2, <2>4, LevelsStill
<1>15. CASE SaveAdmin(w)
  <2>1. Goto(w, "approvers", mem[w]) \/ Goto(w, "idle", mem[w])
    BY <1>15 DEF SaveAdmin
  <2>2. Remember /\ rows' = rows /\ pc[w] = "admin"
    BY <1>15 DEF SaveAdmin, OnlyReq
  <2>3. Fit(rows, approvedOnce, "approvers", mem[w])
    BY <1>m, <2>2 DEF Fit
  <2>4. QED
    BY <2>1, <2>2, <2>3, LevelsStill
<1>16. CASE Kill(w)
  <2>1. /\ pc' = [pc EXCEPT ![w] = "idle"] /\ mem' = [mem EXCEPT ![w] = NoMemory]
        /\ rows' = rows /\ Remember
    BY <1>16 DEF Kill, db
  <2>2. approvedOnce \subseteq approvedOnce' /\ SameApprovers(rows, rows')
    BY <2>1 DEF Remember, SameApprovers
  <2>3. ASSUME NEW v \in Workers PROVE Fit(rows', approvedOnce', pc'[v], mem'[v])
    <3>1. Fit(rows, approvedOnce, pc'[v], mem'[v])
      <4>1. CASE v = w
        BY <1>n, <1>t, <2>1, <4>1 DEF TypeOK
      <4>2. CASE v # w
        BY <1>t, <2>1, <4>2 DEF TypeOK, LevelsHeld
      <4>3. QED
        BY <4>1, <4>2
    <3>2. QED
      BY <2>2, <3>1, FitKept
  <2>4. everApproved' => Present(rows') \subseteq approvedOnce'
    BY <2>1, <2>2 DEF LevelsHeld, Remember, FullyApproved
  <2>5. \A u \in WithStatus(rows', "approved") :
            Passable(rows', approvedOnce', rows'[u].order)
    BY <2>1, <2>2 DEF LevelsHeld, Passable
  <2>6. ~mixedCounts'
    BY <2>1 DEF LevelsHeld, Remember
  <2>7. QED
    BY <2>1, <2>3, <2>4, <2>5, <2>6 DEF LevelsHeld, Remember
<1>17. QED
  BY <1>1, <1>2, <1>3, <1>4, <1>5, <1>6, <1>7, <1>8, <1>9, <1>10, <1>11, <1>12,
     <1>13, <1>14, <1>15, <1>16 DEF StartHandler, Continue, Recounts

LEMMA NextLevels == Types /\ Consent /\ LevelsInv /\ [Next]_vars => LevelsInv'
<1> SUFFICES ASSUME Types, Consent, LevelsInv, [Next]_vars, made' = 0
             PROVE  LevelsHeld'
  BY DEF LevelsInv
<1>t. made \in Nat
  BY DEF Types, TypeOK
<1>1. CASE UNCHANGED vars
  BY <1>1 DEF vars, db, ghosts, LevelsInv, LevelsHeld, Fit, Passable, Present,
              Below, WithStatus
<1>2. ASSUME NEW w \in Workers, StartHandler(w) \/ Continue(w) \/ Kill(w)
      PROVE  LevelsHeld'
  <2>1. made = 0
    <3>1. ASSUME NEW wanted \in (SUBSET Records) \ {{}}, CommitEdit(w, wanted)
          PROVE  made = 0
      BY <1>t, <3>1 DEF CommitEdit
    <3>2. CASE StartHandler(w) \/ Kill(w)
      BY <3>2 DEF StartHandler, Kill, StartSetStatus, StartCancel, StartEdit,
         StartAdmin, Start, db
    <3>3. CASE Continue(w) /\ ~\E wanted \in (SUBSET Records) \ {{}} :
                                 CommitEdit(w, wanted)
      BY <3>3 DEF Continue, CheckStatus, SaveDecision, LoadOthers, SweepNext,
         SweepEnds, Recount, AnyRow, CountApproved, CountAll, WriteRequest,
         RecheckCancel, CancelRequest,
         CancelRows, SaveAdmin, LoadApprovers, Saved, SaveFails, Stay, OnlyReq,
         OnlyRows, db
    <3>4. QED
      BY <1>2, <3>1, <3>2, <3>3
  <2>2. QED
    BY <1>2, <2>1, HandlerLevels DEF LevelsInv
<1>3. ASSUME NEW r \in Records, NEW list \in Lists, NEW sync \in BOOLEAN,
             ChangeList(r, list, sync)
      PROVE  FALSE
  BY <1>t, <1>3 DEF ChangeList
<1>4. QED
  BY <1>1, <1>2, <1>3 DEF Next, Quiet

\* Nobody's approval counts before every lower level has approved once, however
\* late the row is saved after can_approve was asked, and although granting a
\* request approves all pending rows.
THEOREM LevelsInOrder == Spec => []NoLevelSkipped
<1>1. Spec => [](Types /\ Consent /\ LevelsInv)
  BY InitTypes, NextTypes, InitConsent, NextConsent, InitLevels, NextLevels,
     PTL DEF Spec
<1>2. LevelsInv => NoLevelSkipped
  BY DEF LevelsInv, LevelsHeld, Passable, NoLevelSkipped
<1>3. QED
  BY <1>1, <1>2, PTL
-----------------------------------------------------------------------------
(* The request row among the objects of the workers: RequestRow.           *)

Copies == [w \in Workers |-> mem[w].req]

IsUsable(r) == r # NotFetched /\ r.status # "cancelled"

\* What the object of the request is like at each place in a handler.
CopyFit(step, m) ==
    /\ step = "idle" => m.req = NotFetched
    /\ step \in {"row", "others", "recount", "anyRow", "countApproved", "countAll",
                 "write"} => IsUsable(m.req)
    /\ step = "sweep" /\ m.choice = "rejected" => IsUsable(m.req)
    /\ step \in {"recheck", "cancel", "edit"} => m.req.status = "pending"
    /\ step = "admin" =>
          /\ m.req.status = "approved" /\ m.req.admin # "denied"
          /\ kind = "revoke" /\ m.req.admin = "granted" => m.choice = "granted"
    /\ step \in {"admin", "approvers"} => m.choice # "rejected"

CopiesFit == \A w \in Workers : CopyFit(pc[w], mem[w])

\* A step of w is one of RequestRow if it does this to the row and to the
\* object of w.
LEMMA ObjectStep ==
    ASSUME Types, NEW w \in Workers, NEW new, kind' = kind,
           \A v \in Workers : Copies'[v] = IF v = w THEN new ELSE Copies[v],
           \/ req' = req /\ new \in {Copies[w], NotFetched}
           \/ req' = req /\ Copies[w] = NotFetched /\ new = req
           \/ /\ req' = req /\ IsUsable(Copies[w])
              /\ new \in Request /\ new.admin = Copies[w].admin
              /\ new.status \in {"pending", "approved", "rejected"}
           \/ IsUsable(Copies[w]) /\ req' = Copies[w] /\ new = NotFetched
           \/ /\ Copies[w].status = "pending" /\ new = Copies[w]
              /\ req' \in Request /\ req'.status = "cancelled"
              /\ req'.admin = Copies[w].admin
           \/ /\ Copies[w].status = "approved" /\ Copies[w].admin # "denied"
              /\ kind = "revoke" /\ Copies[w].admin = "granted" => req'.admin = "granted"
              /\ req' \in Request /\ req'.status = "approved"
              /\ new \in {Copies[w], NotFetched}
    PROVE  [Objects!Next]_<<kind, req, Copies>>
<1> DEFINE c == Copies[w]
<1>1. Copies' = [Copies EXCEPT ![w] = new]
  BY DEF Copies
<1>2. /\ Copies = [v \in Workers |-> mem[v].req]
      /\ c \in Request \cup {NotFetched}
  BY DEF Copies, Types, TypeOK, Memory
<1>3. NotFetched.status = "none" /\ NotFetched.admin = "none"
  BY DEF NotFetched
<1>4. new = c => Copies' = Copies
  BY <1>1, <1>2
<1>5. CASE \/ Objects!Load(w) \/ Objects!Drop(w) \/ Objects!Save(w) \/ Objects!Cancel(w)
           \/ \E s \in {"pending", "approved", "rejected"} : Objects!Recount(w, s)
           \/ \E s \in {"pending", "granted", "denied", "in_progress"} : Objects!Decide(w, s)
  BY <1>5 DEF Objects!Next, Copies
<1>6. CASE req' = req /\ new \in {c, NotFetched}
  <2>1. CASE new = c
    BY <1>4, <1>6, <2>1
  <2>2. CASE new = NotFetched
    <3>1. Objects!Drop(w)
      BY <1>1, <1>6, <2>2 DEF Objects!Drop, Copies
    <3>2. QED
      BY <1>5, <3>1
  <2>3. QED
    BY <1>6, <2>1, <2>2
<1>7. CASE req' = req /\ c = NotFetched /\ new = req
  <2>1. Objects!Load(w)
    BY <1>1, <1>7 DEF Objects!Load, Copies
  <2>2. QED
    BY <1>5, <2>1
<1>8. CASE /\ req' = req /\ IsUsable(c)
           /\ new \in Request /\ new.admin = c.admin
           /\ new.status \in {"pending", "approved", "rejected"}
  <2>1. c \in Request
    BY <1>2, <1>8 DEF IsUsable
  <2>2. new = [c EXCEPT !.status = new.status]
    BY <1>8, <2>1 DEF Request
  <2>3. Copies' = [Copies EXCEPT ![w].status = new.status]
    BY <1>1, <1>2, <2>2
  <2>4. Objects!Recount(w, new.status)
    BY <1>8, <2>3 DEF Objects!Recount, Objects!Usable, IsUsable, Copies
  <2>5. QED
    BY <1>5, <1>8, <2>4
<1>9. CASE IsUsable(c) /\ req' = c /\ new = NotFetched
  <2>1. Objects!Save(w)
    BY <1>1, <1>9 DEF Objects!Save, Objects!Usable, IsUsable, Copies
  <2>2. QED
    BY <1>5, <2>1
<1>10. CASE /\ c.status = "pending" /\ new = c
            /\ req' \in Request /\ req'.status = "cancelled" /\ req'.admin = c.admin
  <2>1. c \in Request
    BY <1>2, <1>3, <1>10
  <2>2. req' = [c EXCEPT !.status = "cancelled"]
    BY <1>10, <2>1 DEF Request
  <2>3. Objects!Cancel(w)
    BY <1>3, <1>4, <1>10, <2>2 DEF Objects!Cancel, Copies
  <2>4. QED
    BY <1>5, <2>3
<1>11. CASE /\ c.status = "approved" /\ c.admin # "denied"
            /\ kind = "revoke" /\ c.admin = "granted" => req'.admin = "granted"
            /\ req' \in Request /\ req'.status = "approved"
            /\ new \in {c, NotFetched}
  <2>1. c \in Request
    BY <1>2, <1>3, <1>11
  <2>2. req' = [c EXCEPT !.admin = req'.admin]
    BY <1>11, <2>1 DEF Request
  <2>3. Copies' \in {Copies, [Copies EXCEPT ![w] = NotFetched]}
    BY <1>1, <1>4, <1>11
  <2>4. PICK s \in {"pending", "granted", "denied", "in_progress"} : s = req'.admin
    BY <1>11 DEF Request, AdminStatuses
  <2>5. Objects!Decide(w, s)
    BY <1>3, <1>11, <2>2, <2>3, <2>4 DEF Objects!Decide, Copies
  <2>6. QED
    BY <1>5, <2>4, <2>5
<1>12. QED
  BY <1>6, <1>7, <1>8, <1>9, <1>10, <1>11

\* What becomes of the objects when w moves on.
LEMMA ObjectMove ==
    ASSUME Types, CopiesFit, NEW w \in Workers, NEW step, NEW m,
           Goto(w, step, m) \/ (Start(w, step, m) /\ step # "idle"),
           kind' = kind, step # "idle" => CopyFit(step, m)
    PROVE  /\ CopiesFit'
           /\ \A v \in Workers : Copies'[v] =
                 IF v = w THEN IF step = "idle" THEN NotFetched ELSE m.req ELSE Copies[v]
<1>1. NoMemory.req = NotFetched
  BY DEF NoMemory
<1>2. PICK k : /\ pc' = [pc EXCEPT ![w] = step] /\ mem' = [mem EXCEPT ![w] = k]
               /\ k = IF step = "idle" THEN NoMemory ELSE m
  BY DEF Goto, Start
<1>3. CopyFit(step, k)
  BY <1>1, <1>2 DEF CopyFit
<1>4. pc \in [Workers -> Steps] /\ mem \in [Workers -> Memory]
  BY DEF Types, TypeOK
<1>5. ASSUME NEW v \in Workers PROVE CopyFit(pc[v], mem[v])'
  <2>1. CASE v = w
    BY <1>2, <1>3, <1>4, <2>1 DEF CopyFit
  <2>2. CASE v # w
    BY <1>2, <1>4, <2>2 DEF CopiesFit, CopyFit
  <2>3. QED
    BY <2>1, <2>2
<1>6. k.req = IF step = "idle" THEN NotFetched ELSE m.req
  BY <1>1, <1>2
<1>7. QED
  BY <1>2, <1>4, <1>5, <1>6 DEF CopiesFit, Copies

\* A step of a handler leaves the objects fit and is one of RequestRow.
LEMMA HandlerObjects ==
    ASSUME Types, CopiesFit, NEW w \in Workers,
           StartHandler(w) \/ Continue(w) \/ Kill(w)
    PROVE  CopiesFit' /\ [Objects!Next]_<<kind, req, Copies>>
<1> DEFINE Holds == CopiesFit' /\ [Objects!Next]_<<kind, req, Copies>>
<1>m. /\ mem[w] \in Memory /\ Sound(pc[w], mem[w]) /\ CopyFit(pc[w], mem[w])
      /\ Copies[w] = mem[w].req /\ Copies[w] \in Request \cup {NotFetched}
  BY DEF Types, TypeOK, WorkersSound, CopiesFit, Copies, Memory
<1>n. NoMemory \in Memory /\ NoMemory.req = NotFetched
  BY NoMemoryType DEF NoMemory
<1>r. req \in Request
  BY DEF Types, TypeOK
<1>f. NotFetched.status = "none"
  BY DEF NotFetched
<1>1. ASSUME NEW u \in Approvers, NEW s \in Decisions, StartSetStatus(w, u, s)
      PROVE  Holds
  <2>1. PICK request \in {req, NotFetched} :
          Start(w, "check", [who |-> u, choice |-> s, req |-> request,
                             held |-> Load({u}), count |-> 0])
    BY <1>1 DEF StartSetStatus
  <2> DEFINE m == [who |-> u, choice |-> s, req |-> request,
                   held |-> Load({u}), count |-> 0]
  <2>2. Start(w, "check", m) /\ UNCHANGED <<kind, req>> /\ pc[w] = "idle"
    BY <2>1 DEF Start, Idle, db
  <2>3. m.req = request /\ CopyFit("check", m)
    BY DEF CopyFit
  <2> HIDE DEF m
  <2>4. Copies[w] = NotFetched
    BY <1>m, <2>2 DEF CopyFit
  <2>5. CopiesFit' /\ \A v \in Workers : Copies'[v] = IF v = w THEN request ELSE Copies[v]
    BY <2>2, <2>3, ObjectMove
  <2>6. QED
    BY <2>2, <2>4, <2>5, ObjectStep
<1>2. CASE CheckStatus(w)
  <2> DEFINE request == Fetched(mem[w])
             m == [mem[w] EXCEPT !.req = request]
  <2>1. pc[w] = "check" /\ UNCHANGED <<kind, req>>
    BY <1>2 DEF CheckStatus, Stay, db
  <2>2. m.req = request /\ request \in Request
        /\ (request = Copies[w] \/ (Copies[w] = NotFetched /\ request = req))
    BY <1>m, <1>r DEF Memory, Fetched
  <2>3. CASE Goto(w, "row", m) /\ request.status # "cancelled"
    <3>1. request # NotFetched
      BY <2>2, <1>f DEF Request, Decisions
    <3>2. CopyFit("row", m)
      BY <2>2, <2>3, <3>1 DEF CopyFit, IsUsable
    <3> HIDE DEF m, request
    <3>3. CopiesFit' /\ \A v \in Workers : Copies'[v] = IF v = w THEN request ELSE Copies[v]
      BY <2>1, <2>2, <2>3, <3>2, ObjectMove
    <3>4. QED
      BY <2>1, <2>2, <3>3, ObjectStep
  <2>4. CASE Goto(w, "idle", mem[w])
    <3>1. CopiesFit' /\ \A v \in Workers : Copies'[v] = IF v = w THEN NotFetched ELSE Copies[v]
      BY <2>1, <2>4, ObjectMove
    <3>2. QED
      BY <2>1, <3>1, ObjectStep
  <2>5. QED
    BY <1>2, <2>3, <2>4 DEF CheckStatus, MaySetStatus
<1>3. CASE SaveDecision(w)
  <2>1. UNCHANGED <<kind, req>> /\ pc[w] = "row"
    BY <1>3 DEF SaveDecision, Saved, SaveFails, OnlyRows, Stay, db
  <2>2. PICK step \in {"others", "recount"} :
          Goto(w, step, mem[w]) \/ Goto(w, "idle", NoMemory)
    BY <1>3 DEF SaveDecision, SaveFails
  <2>3. CopyFit(step, mem[w])
    BY <1>m, <2>1 DEF CopyFit
  <2>4. PICK new \in {Copies[w], NotFetched} :
          CopiesFit' /\ \A v \in Workers : Copies'[v] = IF v = w THEN new ELSE Copies[v]
    BY <1>m, <2>1, <2>2, <2>3, ObjectMove
  <2>5. QED
    BY <2>1, <2>4, ObjectStep
<1>4. CASE LoadOthers(w) \/ LoadApprovers(w)
  <2>1. PICK who : Goto(w, "sweep", [mem[w] EXCEPT !.held = Load(who)])
    BY <1>4 DEF LoadOthers, LoadApprovers
  <2>2. UNCHANGED <<kind, req>> /\ pc[w] \in {"others", "approvers"}
    BY <1>4 DEF LoadOthers, LoadApprovers, Stay, db
  <2> DEFINE m == [mem[w] EXCEPT !.held = Load(who)]
  <2>3. m.req = mem[w].req /\ m.choice = mem[w].choice
    BY <1>m DEF Memory
  <2>4. CopyFit("sweep", m)
    BY <1>m, <2>2, <2>3 DEF CopyFit
  <2>5. Goto(w, "sweep", m)
    BY <2>1
  <2> HIDE DEF m
  <2>6. CopiesFit' /\ \A v \in Workers : Copies'[v] = IF v = w THEN Copies[w] ELSE Copies[v]
    BY <1>m, <2>2, <2>3, <2>4, <2>5, ObjectMove
  <2>7. QED
    BY <2>2, <2>6, ObjectStep
<1>5. CASE Recounts(w)
  <2>1. PICK step \in {"anyRow", "countApproved", "countAll", "write"}, m \in Memory :
          /\ Goto(w, step, m)
          /\ m.req \in Request /\ m.req.admin = mem[w].req.admin
          /\ step # "write" => m.req = mem[w].req
          /\ step = "write" => m.req.status \in {"pending", "approved", "rejected"}
    BY <1>5, RecountStep
  <2>2. /\ UNCHANGED <<kind, req>>
        /\ pc[w] \in {"recount", "anyRow", "countApproved", "countAll"}
    BY <1>5, RecountStep DEF Stay, db
  <2>3. IsUsable(mem[w].req)
    BY <1>m, <2>2 DEF CopyFit
  <2>4. IsUsable(m.req)
    BY <2>1, <2>3, <1>f DEF IsUsable, Request, Decisions
  <2>5. CopyFit(step, m)
    BY <2>1, <2>4 DEF CopyFit
  <2>6. CopiesFit' /\ \A v \in Workers : Copies'[v] = IF v = w THEN m.req ELSE Copies[v]
    BY <2>1, <2>2, <2>5, ObjectMove
  <2>7. QED
    BY <1>m, <2>1, <2>2, <2>3, <2>6, ObjectStep
<1>6. CASE WriteRequest(w)
  <2>1. IsUsable(mem[w].req) /\ pc[w] = "write"
    BY <1>6, <1>m DEF CopyFit, WriteRequest
  <2>2. req' = mem[w].req /\ kind' = kind /\ Goto(w, "idle", NoMemory)
    BY <1>6 DEF WriteRequest, OnlyReq
  <2>3. CopiesFit' /\ \A v \in Workers : Copies'[v] = IF v = w THEN NotFetched ELSE Copies[v]
    BY <2>2, ObjectMove
  <2>4. QED
    BY <1>m, <2>1, <2>2, <2>3, ObjectStep
<1>7. CASE SweepNext(w)
  <2>1. PICK u \in ToSave(w) :
          \/ Goto(w, "sweep", AfterSaving(w, u))
          \/ Goto(w, "idle", NoMemory)
    BY <1>7 DEF SweepNext, SaveFails
  <2>2. UNCHANGED <<kind, req>> /\ pc[w] = "sweep"
    BY <1>7 DEF SweepNext, Saved, SaveFails, OnlyRows, Stay, db
  <2> DEFINE m == AfterSaving(w, u)
  <2>3. m.req = mem[w].req /\ m.choice = mem[w].choice
    BY <1>m DEF Memory, AfterSaving
  <2>4. CopyFit("sweep", m)
    BY <1>m, <2>2, <2>3 DEF CopyFit
  <2>5. Goto(w, "sweep", m) \/ Goto(w, "idle", NoMemory)
    BY <2>1
  <2> HIDE DEF m
  <2>6. PICK new \in {Copies[w], NotFetched} :
          CopiesFit' /\ \A v \in Workers : Copies'[v] = IF v = w THEN new ELSE Copies[v]
    BY <1>m, <2>2, <2>3, <2>4, <2>5, ObjectMove
  <2>7. QED
    BY <2>2, <2>6, ObjectStep
<1>8. CASE SweepEnds(w)
  <2> DEFINE m == [mem[w] EXCEPT !.choice = "revoked"]
  <2>1. m.req = mem[w].req /\ m.choice = "revoked"
    BY <1>m DEF Memory
  <2>2. \/ Goto(w, "recount", mem[w]) /\ mem[w].choice = "rejected"
        \/ Goto(w, "approvers", m)
        \/ Goto(w, "idle", mem[w])
    BY <1>8 DEF SweepEnds
  <2>3. UNCHANGED <<kind, req>> /\ pc[w] = "sweep"
    BY <1>8 DEF SweepEnds, Stay, db
  <2>4. /\ mem[w].choice = "rejected" => CopyFit("recount", mem[w])
        /\ CopyFit("approvers", m)
    BY <1>m, <2>1, <2>3 DEF CopyFit
  <2> HIDE DEF m
  <2>5. PICK new \in {Copies[w], NotFetched} :
          CopiesFit' /\ \A v \in Workers : Copies'[v] = IF v = w THEN new ELSE Copies[v]
    BY <1>m, <2>1, <2>2, <2>3, <2>4, ObjectMove
  <2>6. QED
    BY <2>3, <2>5, ObjectStep
<1>9. CASE StartCancel(w) \/ StartEdit(w)
  <2> DEFINE m == [NoMemory EXCEPT !.req = req]
  <2>1. m.req = req /\ req.status = "pending"
    BY <1>9, <1>n DEF Memory, StartCancel, StartEdit
  <2>2. PICK step \in {"recheck", "edit"} : Start(w, step, m)
    BY <1>9 DEF StartCancel, StartEdit
  <2>3. UNCHANGED <<kind, req>> /\ pc[w] = "idle"
    BY <2>2 DEF Start, Idle, db
  <2>4. CopyFit(step, m) /\ Copies[w] = NotFetched
    BY <1>m, <2>1, <2>3 DEF CopyFit
  <2> HIDE DEF m
  <2>5. CopiesFit' /\ \A v \in Workers : Copies'[v] = IF v = w THEN req ELSE Copies[v]
    BY <2>1, <2>2, <2>3, <2>4, ObjectMove
  <2>6. QED
    BY <2>3, <2>4, <2>5, ObjectStep
<1>10. CASE RecheckCancel(w)
  <2>1. Goto(w, "cancel", mem[w]) \/ Goto(w, "idle", mem[w])
    BY <1>10 DEF RecheckCancel
  <2>2. UNCHANGED <<kind, req>> /\ pc[w] = "recheck"
    BY <1>10 DEF RecheckCancel, Stay, db
  <2>3. CopyFit("cancel", mem[w])
    BY <1>m, <2>2 DEF CopyFit
  <2>4. PICK new \in {Copies[w], NotFetched} :
          CopiesFit' /\ \A v \in Workers : Copies'[v] = IF v = w THEN new ELSE Copies[v]
    BY <1>m, <2>1, <2>2, <2>3, ObjectMove
  <2>5. QED
    BY <2>2, <2>4, ObjectStep
<1>11. CASE CancelRequest(w)
  <2>1. mem[w].req \in Request /\ pc[w] = "cancel"
    BY <1>11, <1>m DEF CancelRequest, Sound
  <2>2. /\ req' = [mem[w].req EXCEPT !.status = "cancelled"] /\ kind' = kind
        /\ Goto(w, "cancelRows", mem[w])
    BY <1>11 DEF CancelRequest, OnlyReq
  <2>3. /\ req' \in Request /\ req'.status = "cancelled" /\ req'.admin = mem[w].req.admin
        /\ mem[w].req.status = "pending" /\ CopyFit("cancelRows", mem[w])
    BY <1>m, <2>1, <2>2 DEF CopyFit, Request, Decisions
  <2>4. CopiesFit' /\ \A v \in Workers : Copies'[v] = IF v = w THEN Copies[w] ELSE Copies[v]
    BY <1>m, <2>2, <2>3, ObjectMove
  <2>5. QED
    BY <1>m, <2>2, <2>3, <2>4, ObjectStep
<1>12. CASE CancelRows(w)
  <2>1. UNCHANGED <<kind, req>> /\ Goto(w, "idle", NoMemory)
    BY <1>12 DEF CancelRows, OnlyRows
  <2>2. CopiesFit' /\ \A v \in Workers : Copies'[v] = IF v = w THEN NotFetched ELSE Copies[v]
    BY <2>1, ObjectMove
  <2>3. QED
    BY <2>1, <2>2, ObjectStep
<1>13. ASSUME NEW wanted, CommitEdit(w, wanted) PROVE Holds
  <2>1. mem[w].req.status = "pending" /\ pc[w] = "edit"
    BY <1>13, <1>m DEF CommitEdit, CopyFit
  <2>2. req' = mem[w].req /\ kind' = kind /\ Goto(w, "idle", NoMemory)
    BY <1>13 DEF CommitEdit
  <2>3. IsUsable(mem[w].req)
    BY <2>1, <1>f DEF IsUsable
  <2>4. CopiesFit' /\ \A v \in Workers : Copies'[v] = IF v = w THEN NotFetched ELSE Copies[v]
    BY <2>2, ObjectMove
  <2>5. QED
    BY <1>m, <2>2, <2>3, <2>4, ObjectStep
<1>14. ASSUME NEW s \in AdminStatuses, StartAdmin(w, s) PROVE Holds
  <2> DEFINE m == [NoMemory EXCEPT !.req = req, !.choice = s]
  <2>1. m.req = req /\ m.choice = s
    BY <1>n DEF Memory
  <2>2. Start(w, "admin", m) /\ UNCHANGED <<kind, req>> /\ pc[w] = "idle"
    BY <1>14 DEF StartAdmin, Start, Idle, db
  <2>3. CopyFit("admin", m) /\ Copies[w] = NotFetched
    BY <1>14, <1>m, <2>1, <2>2 DEF StartAdmin, MayDecide, CopyFit, AdminStatuses
  <2> HIDE DEF m
  <2>4. CopiesFit' /\ \A v \in Workers : Copies'[v] = IF v = w THEN req ELSE Copies[v]
    BY <2>1, <2>2, <2>3, ObjectMove
  <2>5. QED
    BY <2>2, <2>3, <2>4, ObjectStep
<1>15. CASE SaveAdmin(w)
  <2>1. mem[w].req \in Request /\ pc[w] = "admin" /\ mem[w].choice \in AdminStatuses
    BY <1>15, <1>m DEF SaveAdmin, Sound
  <2>2. req' = [mem[w].req EXCEPT !.admin = mem[w].choice] /\ kind' = kind
    BY <1>15 DEF SaveAdmin, OnlyReq
  <2>3. /\ mem[w].req.status = "approved" /\ mem[w].req.admin # "denied"
        /\ kind = "revoke" /\ mem[w].req.admin = "granted" => mem[w].choice = "granted"
        /\ CopyFit("approvers", mem[w])
    BY <1>m, <2>1 DEF CopyFit
  <2>4. req' \in Request /\ req'.status = "approved" /\ req'.admin = mem[w].choice
    BY <2>1, <2>2, <2>3 DEF Request
  <2>5. Goto(w, "approvers", mem[w]) \/ Goto(w, "idle", mem[w])
    BY <1>15 DEF SaveAdmin
  <2>6. PICK new \in {Copies[w], NotFetched} :
          CopiesFit' /\ \A v \in Workers : Copies'[v] = IF v = w THEN new ELSE Copies[v]
    BY <1>m, <2>2, <2>3, <2>5, ObjectMove
  <2>7. QED
    BY <1>m, <2>2, <2>3, <2>4, <2>6, ObjectStep
<1>16. CASE Kill(w)
  <2>1. /\ UNCHANGED <<kind, req>> /\ pc' = [pc EXCEPT ![w] = "idle"]
        /\ mem' = [mem EXCEPT ![w] = NoMemory]
    BY <1>16 DEF Kill, db
  <2>2. CopiesFit'
    BY <2>1, <1>n DEF Types, TypeOK, CopiesFit, CopyFit
  <2>3. \A v \in Workers : Copies'[v] = IF v = w THEN NotFetched ELSE Copies[v]
    BY <2>1, <1>n DEF Types, TypeOK, Copies
  <2>4. QED
    BY <2>1, <2>2, <2>3, ObjectStep
<1>17. QED
  BY <1>1, <1>2, <1>3, <1>4, <1>5, <1>6, <1>7, <1>8, <1>9, <1>10, <1>11, <1>12,
     <1>13, <1>14, <1>15, <1>16 DEF StartHandler, Continue, Recounts

\* Overlapping handlers do to the request what RequestRow says, no worse: the
\* row is only ever overwritten with a copy that was loaded from it, not
\* cancelled, and decided by who loaded it approved and not yet denied.
THEOREM RowOfCopies == Spec => ImplementsRow
<1>1. Init => Objects!Init /\ CopiesFit
  <2> SUFFICES ASSUME Init PROVE Objects!Init /\ CopiesFit
    OBVIOUS
  <2>1. NoMemory.req = NotFetched
    BY DEF NoMemory
  <2>2. CopiesFit
    BY <2>1 DEF Init, CopiesFit, CopyFit
  <2>3. Copies = [w \in Workers |-> NotFetched]
    BY <2>1 DEF Init, Copies
  <2>4. QED
    BY <2>2, <2>3 DEF Init, Objects!Init, Copies
<1>2. Types /\ CopiesFit /\ [Next]_vars =>
        CopiesFit' /\ [Objects!Next]_<<kind, req, Copies>>
  <2> SUFFICES ASSUME Types, CopiesFit, [Next]_vars
               PROVE  CopiesFit' /\ [Objects!Next]_<<kind, req, Copies>>
    OBVIOUS
  <2>1. CASE UNCHANGED <<kind, req, pc, mem>>
    BY <2>1 DEF CopiesFit, CopyFit, Copies
  <2>2. CASE UNCHANGED vars
    BY <2>1, <2>2 DEF vars, db
  <2>3. ASSUME NEW r \in Records, NEW list \in Lists, NEW sync \in BOOLEAN,
               ChangeList(r, list, sync)
        PROVE  UNCHANGED <<kind, req, pc, mem>>
    BY <2>3 DEF ChangeList
  <2>4. QED
    BY <2>1, <2>2, <2>3, HandlerObjects DEF Next, Quiet
<1>3. [Objects!Next]_<<kind, req, Copies>> => [Objects!Next]_(Objects!vars)
  BY DEF Objects!vars, Copies
<1>4. QED
  BY <1>1, <1>2, <1>3, InitTypes, NextTypes, PTL
  DEF Spec, ImplementsRow, Objects!Spec
=============================================================================
