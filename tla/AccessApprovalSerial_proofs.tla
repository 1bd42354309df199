--------------------- MODULE AccessApprovalSerial_proofs ---------------------
(***************************************************************************)
(* The refinement of AccessApprovalSerial, proved for every set of         *)
(* approvers, records and lists and any number of handlers.                *)
(***************************************************************************)
EXTENDS AccessApprovalSerial, AccessApprovalConcurrent_proofs, FiniteSetTheorems

-----------------------------------------------------------------------------
(* The operators of ApproverRows are those of the instance.                *)

LEMMA SameSets ==
    /\ Workflow!Decisions = Decisions
    /\ Workflow!AdminStatuses = AdminStatuses
BY DEF Workflow!Decisions, Decisions, Workflow!AdminStatuses, AdminStatuses

LEMMA SameQueries ==
    ASSUME NEW rs
    PROVE  /\ Workflow!Present(rs) = Present(rs)
           /\ \A s : Workflow!WithStatus(rs, s) = WithStatus(rs, s)
           /\ \A u : Workflow!CanApprove(rs, u) <=> CanApprove(rs, u)
           /\ Workflow!SomeNotApproved(rs) <=> SomeNotApproved(rs)
           /\ Workflow!StatusFrom(rs) = StatusFrom(rs)
<1>1. Workflow!Present(rs) = Present(rs)
  BY DEF Workflow!Present, Present
<1>2. \A s : Workflow!WithStatus(rs, s) = WithStatus(rs, s)
  BY DEF Workflow!WithStatus, WithStatus
<1>3. \A level : Workflow!Below(rs, level) = Below(rs, level)
  BY <1>1 DEF Workflow!Below, Below
<1>4. \A u : Workflow!CanApprove(rs, u) <=> CanApprove(rs, u)
  BY <1>2, <1>3 DEF Workflow!CanApprove, CanApprove, Workflow!LevelOpen, LevelOpen
<1>5. Workflow!SomeNotApproved(rs) <=> SomeNotApproved(rs)
  BY <1>1, <1>2 DEF Workflow!SomeNotApproved, SomeNotApproved
<1>6. Workflow!StatusFrom(rs) = StatusFrom(rs)
  BY <1>1, <1>2
  DEF Workflow!StatusFrom, StatusFrom, Workflow!FullyApproved, FullyApproved
<1>7. QED
  BY <1>1, <1>2, <1>4, <1>5, <1>6

LEMMA SameUpdates ==
    /\ \A rs, who, s : Workflow!Mark(rs, who, s) = Mark(rs, who, s)
    /\ \A rs, u, s : Workflow!Decide(rs, u, s) = Decide(rs, u, s)
    /\ \A list, r, u : Workflow!CopyOf(list, r, u) = CopyOf(list, r, u)
    /\ \A list, r : Workflow!CopyList(list, r) = CopyList(list, r)
    /\ \A rs, r : Workflow!Cascade(rs, r) = Cascade(rs, r)
    /\ \A rs, list, r : Workflow!Synced(rs, list, r) = Synced(rs, list, r)
<1>1. \A rs, who, s : Workflow!Mark(rs, who, s) = Mark(rs, who, s)
  BY DEF Workflow!Mark, Mark
<1>2. \A rs, u : Workflow!Reject(rs, u) = Reject(rs, u)
  BY <1>1, SameQueries DEF Workflow!Reject, Reject
<1>3. \A rs, u, s : Workflow!Decide(rs, u, s) = Decide(rs, u, s)
  BY <1>1, <1>2 DEF Workflow!Decide, Decide
<1>4. Workflow!Absent = Absent
  BY DEF Workflow!Absent, Absent
<1>5. \A list, r, u : Workflow!CopyOf(list, r, u) = CopyOf(list, r, u)
  BY <1>4 DEF Workflow!CopyOf, CopyOf
<1>6. \A list, r : Workflow!CopyList(list, r) = CopyList(list, r)
  BY <1>5 DEF Workflow!CopyList, CopyList
<1>7. \A rs, r : Workflow!Cascade(rs, r) = Cascade(rs, r)
  BY <1>4 DEF Workflow!Cascade, Cascade
<1>8. \A rs, list, r : Workflow!Synced(rs, list, r) = Synced(rs, list, r)
  BY <1>4, <1>5 DEF Workflow!Synced, Synced
<1>9. QED
  BY <1>1, <1>3, <1>5, <1>6, <1>7, <1>8

-----------------------------------------------------------------------------
(* Half-way through a handler: how the database differs from what it was   *)
(* before the handler began, and what is still to be done.                 *)

Untouched == before = Seen
ListsUntouched == records = before.records /\ lists = before.lists

\* set_approver_status has passed its checks: m.who decides m.choice.
Deciding(m) ==
    /\ ListsUntouched /\ req = before.req
    /\ m.who \in Present(before.rows) /\ m.choice \in Decisions
    /\ before.req.status # "cancelled"
    /\ IsDecision(m.choice) => CanApprove(before.rows, m.who)

\* set_admin_status has saved "granted" and is left with the approver rows.
Granting ==
    /\ ListsUntouched
    /\ before.req.status = "approved"
    /\ before.req.admin \notin {"denied", "granted"}
    /\ req = [before.req EXCEPT !.admin = "granted"]

Granted(rs) == Mark(rs, WithStatus(rs, "pending"), "approved")

\* The loop's copies are the rows as they are.
Kept(m) == {u \in Approvers : m.held[u] # NotHeld}
Loaded(m) ==
    \A u \in Kept(m) : /\ m.held[u].row = rows[u] /\ m.held[u].pk = pk[u]
                       /\ rows[u].status # "absent"

AtCheck(m) ==
    /\ Untouched
    /\ m.who \in Present(rows)
    /\ IsDecision(m.choice) => CanApprove(rows, m.who)
    /\ m.req \in {req, NotFetched}
    /\ m.held[m.who].row = rows[m.who]
AtRow(m) ==
    /\ Untouched /\ Deciding(m) /\ m.req = req
    /\ m.held[m.who].row = rows[m.who]
AtOthers(m) ==
    /\ Deciding(m) /\ m.req = req /\ m.choice = "rejected"
    /\ rows = Mark(before.rows, {m.who}, "rejected")
AtReject(m) ==
    /\ Deciding(m) /\ m.req = req /\ Loaded(m)
    /\ Mark(rows, Kept(m), "cancelled") = Reject(before.rows, m.who)
AtRecount(m) ==
    /\ Deciding(m) /\ m.req = req
    /\ rows = Decide(before.rows, m.who, m.choice)
AtCount(step, m) ==
    /\ AtRecount(m) /\ WithStatus(rows, "rejected") = {}
    /\ step # "anyRow" => Present(rows) # {}
    /\ step = "countAll" => m.count = Cardinality(WithStatus(rows, "approved"))
AtWrite(m) ==
    /\ Deciding(m) /\ m.req = [before.req EXCEPT !.status = StatusFrom(rows)]
    /\ rows = Decide(before.rows, m.who, m.choice)
AtCancel(m) ==
    /\ Untouched /\ m.req = req
    /\ req.status = "pending" /\ SomeNotApproved(rows)
AtCancelRows ==
    /\ ListsUntouched /\ rows = before.rows
    /\ before.req.status = "pending" /\ SomeNotApproved(before.rows)
    /\ req = [before.req EXCEPT !.status = "cancelled"]
AtEdit(m) ==
    /\ Untouched /\ m.req = req
    /\ kind = "grant" /\ req.status = "pending"
    /\ WithStatus(rows, "approved") = {}
AtAdmin(m) == Untouched /\ m.req = req /\ MayDecide(m.choice)
AtApprovers(m) ==
    /\ Granting /\ m.choice # "rejected"
    /\ Granted(rows) = Granted(before.rows)
AtGrant(m) ==
    /\ Granting /\ Loaded(m)
    /\ Mark(rows, Kept(m), "approved") = Granted(before.rows)

Progress(step, m) ==
    /\ step = "idle" => Untouched
    /\ step = "check" => AtCheck(m)
    /\ step = "row" => AtRow(m)
    /\ step = "others" => AtOthers(m)
    /\ step = "sweep" /\ m.choice = "rejected" => AtReject(m)
    /\ step = "recount" => AtRecount(m)
    /\ step \in {"anyRow", "countApproved", "countAll"} => AtCount(step, m)
    /\ step = "write" => AtWrite(m)
    /\ step \in {"recheck", "cancel"} => AtCancel(m)
    /\ step = "cancelRows" => AtCancelRows
    /\ step = "edit" => AtEdit(m)
    /\ step = "admin" => AtAdmin(m)
    /\ step = "approvers" => AtApprovers(m)
    /\ step = "sweep" /\ m.choice # "rejected" => AtGrant(m)

HalfWay == \A w \in Workers : Progress(pc[w], mem[w])

Before == [records : (SUBSET Records) \ {{}}, lists : [Records -> Lists],
           rows : [Approvers -> Row], req : Request]

SerialInv == Types /\ before \in Before /\ HalfWay

-----------------------------------------------------------------------------
(* Marking rows one by one or all at once.                                 *)

LEMMA MarkNobody ==
    ASSUME NEW rs \in [Approvers -> Row], NEW s PROVE Mark(rs, {}, s) = rs
BY DEF Mark

LEMMA MarkRest ==
    ASSUME NEW rs \in [Approvers -> Row], NEW who \in SUBSET Approvers,
           NEW u \in Approvers, u \in who, NEW s, NEW saved,
           saved[u] = [rs[u] EXCEPT !.status = s],
           \A v \in Approvers \ {u} : saved[v] = rs[v]
    PROVE  Mark(saved, who \ {u}, s) = Mark(rs, who, s)
BY DEF Mark

\* Granting a second time changes nothing.
LEMMA GrantedTwice ==
    ASSUME NEW rs \in [Approvers -> Row] PROVE Granted(Granted(rs)) = Granted(rs)
<1> DEFINE g == Granted(rs)
<1>1. g \in [Approvers -> Row]
  BY MarkType DEF Granted, Decisions
<1>2. WithStatus(g, "pending") = {}
  BY DEF Granted, Mark, WithStatus, Row
<1> HIDE DEF g
<1>3. Granted(g) = g
  BY <1>1, <1>2, MarkNobody DEF Granted
<1>4. QED
  BY <1>3 DEF g

\* What a rejection leaves once the rejecting row is saved.
LEMMA RejectRest ==
    ASSUME NEW rs \in [Approvers -> Row], NEW u \in Approvers
    PROVE  LET now == Mark(rs, {u}, "rejected")
           IN Mark(now, WithStatus(now, "pending") \ {u}, "cancelled")
                  = Reject(rs, u)
<1> DEFINE now == Mark(rs, {u}, "rejected")
<1>1. WithStatus(now, "pending") \ {u} = WithStatus(rs, "pending") \ {u}
  BY DEF Mark, WithStatus
<1>2. QED
  BY <1>1 DEF Reject

\* The copies a query returns of pending rows.
LEMMA LoadPending ==
    ASSUME NEW who \in SUBSET WithStatus(rows, "pending"), NEW m,
           m.held = Load(who)
    PROVE  Kept(m) = who /\ Loaded(m)
<1>1. who \subseteq Approvers /\ \A u \in who : rows[u].status = "pending"
  BY DEF WithStatus
<1>2. ASSUME NEW u \in who
      PROVE  m.held[u].row = rows[u] /\ m.held[u].pk = pk[u]
  <2>1. m.held[u] = [row |-> rows[u], pk |-> pk[u], fk |-> listPk[rows[u].source]]
    BY <1>1 DEF Load
  <2>2. QED
    BY <2>1
<1>3. NotHeld.row.status = "absent"
  BY DEF NotHeld, Absent
<1>4. \A u \in who : m.held[u] # NotHeld
  BY <1>1, <1>2, <1>3
<1>5. \A u \in Approvers \ who : m.held[u] = NotHeld
  BY DEF Load
<1>6. QED
  BY <1>1, <1>2, <1>4, <1>5 DEF Kept, Loaded

-----------------------------------------------------------------------------
(* A step of a handler either goes on, which AccessApproval does not see,  *)
(* or returns, which is the handler's step there.                          *)

Observe == before' = IF AllIdle' THEN Seen' ELSE before

Simulates == HalfWay' /\ [Workflow!Next]_(Workflow!vars)

LEMMA Moved ==
    ASSUME Types, NEW w \in Workers, NEW step, NEW m,
           Goto(w, step, m) \/ Start(w, step, m)
    PROVE  pc'[w] = step /\ (step # "idle" => mem'[w] = m)
BY DEF Types, TypeOK, Goto, Start

LEMMA GoesOn ==
    ASSUME NEW w \in Workers, pc'[w] # "idle", Observe, UNCHANGED kind
    PROVE  /\ before' = before
           /\ Progress(pc[w], mem[w])' => Simulates
<1>1. before' = before
  BY DEF Observe, AllIdle, Idle
<1>2. Workers = {w}
  BY SerialAssumption
<1>3. UNCHANGED Workflow!vars
  BY <1>1 DEF Workflow!vars
<1>4. Progress(pc[w], mem[w])' => HalfWay'
  BY <1>2 DEF HalfWay
<1>5. QED
  BY <1>1, <1>3, <1>4 DEF Simulates

LEMMA Returns ==
    ASSUME NEW w \in Workers, pc'[w] = "idle", Observe
    PROVE  /\ HalfWay'
           /\ before'.records = records' /\ before'.lists = lists'
           /\ before'.rows = rows' /\ before'.req = req'
<1>1. Workers = {w}
  BY SerialAssumption
<1>2. before' = Seen'
  BY <1>1 DEF Observe, AllIdle, Idle
<1>3. HalfWay'
  BY <1>1, <1>2 DEF HalfWay, Progress, Untouched
<1>4. QED
  BY <1>2, <1>3 DEF Seen

\* A handler that returns having changed nothing.
LEMMA ReturnsUnseen ==
    ASSUME NEW w \in Workers, pc'[w] = "idle", Observe, UNCHANGED kind,
           Untouched, Stay
    PROVE  Simulates
<1>1. Workers = {w}
  BY SerialAssumption
<1>2. before' = Seen'
  BY <1>1 DEF Observe, AllIdle, Idle
<1>3. before' = before
  BY <1>2 DEF Untouched, Seen, Stay, db
<1>4. UNCHANGED Workflow!vars
  BY <1>3 DEF Workflow!vars
<1>5. QED
  BY <1>4, Returns DEF Simulates

-----------------------------------------------------------------------------
(* Handlers that start.                                                    *)

LEMMA StartSim ==
    ASSUME SerialInv, Observe, NEW w \in Workers, StartHandler(w)
    PROVE  Simulates
<1>t. Types
  BY DEF SerialInv
<1>1. Idle(w) /\ Untouched
  <2>1. Idle(w)
    BY DEF StartHandler, StartSetStatus, StartCancel, StartEdit, StartAdmin, Start
  <2>2. QED
    BY <2>1 DEF SerialInv, HalfWay, Progress, Idle
<1>n. NoMemory \in Memory
  BY NoMemoryType
<1>2. ASSUME NEW u \in Approvers, NEW s \in Decisions, StartSetStatus(w, u, s)
      PROVE  Simulates
  <2>1. PICK request \in {req, NotFetched} :
          Start(w, "check", [who |-> u, choice |-> s, req |-> request,
                             held |-> Load({u}), count |-> 0])
    BY <1>2 DEF StartSetStatus
  <2> DEFINE m == [who |-> u, choice |-> s, req |-> request,
                   held |-> Load({u}), count |-> 0]
  <2>2. /\ m.who = u /\ m.choice = s /\ m.req = request
        /\ m.held[u].row = rows[u]
    BY DEF Load
  <2>3. UNCHANGED <<db, kind>> /\ Start(w, "check", m)
    BY <2>1 DEF Start, db
  <2> HIDE DEF m
  <2>4. pc'[w] = "check" /\ mem'[w] = m
    BY <1>t, <2>3, Moved
  <2>5. before' = before
    BY <2>3, <2>4, GoesOn
  <2>6. AtCheck(mem[w])'
    <3>1. Untouched'
      BY <1>1, <2>3, <2>5 DEF Untouched, Seen, db
    <3>2. u \in Present(rows') /\ (IsDecision(s) => CanApprove(rows', u))
      BY <1>2, <2>3 DEF StartSetStatus, db
    <3>3. m.req \in {req', NotFetched} /\ m.held[m.who].row = rows'[m.who]
      BY <2>2, <2>3 DEF db
    <3>4. QED
      BY <2>2, <2>4, <3>1, <3>2, <3>3 DEF AtCheck
  <2>7. QED
    BY <2>3, <2>4, <2>6, GoesOn DEF Progress
<1>3. CASE StartCancel(w)
  <2> DEFINE m == [NoMemory EXCEPT !.req = req]
  <2>1. m.req = req
    BY <1>n DEF Memory
  <2>2. UNCHANGED <<db, kind>> /\ Start(w, "recheck", m)
    BY <1>3 DEF StartCancel, Start, db
  <2> HIDE DEF m
  <2>3. pc'[w] = "recheck" /\ mem'[w] = m
    BY <1>t, <2>2, Moved
  <2>4. before' = before
    BY <2>2, <2>3, GoesOn
  <2>5. AtCancel(mem[w])'
    BY <1>1, <1>3, <2>1, <2>2, <2>3, <2>4
    DEF AtCancel, StartCancel, Untouched, Seen, db
  <2>6. QED
    BY <2>2, <2>3, <2>5, GoesOn DEF Progress
<1>4. CASE StartEdit(w)
  <2> DEFINE m == [NoMemory EXCEPT !.req = req]
  <2>1. m.req = req
    BY <1>n DEF Memory
  <2>2. UNCHANGED <<db, kind>> /\ Start(w, "edit", m)
    BY <1>4 DEF StartEdit, Start, db
  <2> HIDE DEF m
  <2>3. pc'[w] = "edit" /\ mem'[w] = m
    BY <1>t, <2>2, Moved
  <2>4. before' = before
    BY <2>2, <2>3, GoesOn
  <2>5. AtEdit(mem[w])'
    BY <1>1, <1>4, <2>1, <2>2, <2>3, <2>4
    DEF AtEdit, StartEdit, Untouched, Seen, db
  <2>6. QED
    BY <2>2, <2>3, <2>5, GoesOn DEF Progress
<1>5. ASSUME NEW s \in AdminStatuses, StartAdmin(w, s)
      PROVE  Simulates
  <2> DEFINE m == [NoMemory EXCEPT !.req = req, !.choice = s]
  <2>1. m.req = req /\ m.choice = s
    BY <1>n DEF Memory
  <2>2. UNCHANGED <<db, kind>> /\ Start(w, "admin", m)
    BY <1>5 DEF StartAdmin, Start, db
  <2> HIDE DEF m
  <2>3. pc'[w] = "admin" /\ mem'[w] = m
    BY <1>t, <2>2, Moved
  <2>4. before' = before
    BY <2>2, <2>3, GoesOn
  <2>5. Untouched' /\ req' = req
    BY <1>1, <2>2, <2>4 DEF Untouched, Seen, db
  <2>6. MayDecide(s)'
    BY <1>5, <2>2, <2>5 DEF StartAdmin, MayDecide
  <2>7. AtAdmin(mem[w])'
    BY <2>1, <2>3, <2>5, <2>6 DEF AtAdmin, MayDecide
  <2>8. QED
    BY <2>2, <2>3, <2>7, GoesOn DEF Progress
<1>6. QED
  BY <1>2, <1>3, <1>4, <1>5 DEF StartHandler

-----------------------------------------------------------------------------
(* set_approver_status, up to the rows that a rejection stops.             *)

LEMMA CheckSim ==
    ASSUME SerialInv, Observe, NEW w \in Workers, CheckStatus(w)
    PROVE  Simulates
<1>t. Types /\ mem[w] \in Memory /\ Sound(pc[w], mem[w])
  BY DEF SerialInv, Types, TypeOK, WorkersSound
<1> DEFINE m == [mem[w] EXCEPT !.req = Fetched(mem[w])]
<1>1. pc[w] = "check" /\ Stay /\ UNCHANGED <<db, kind>>
  BY DEF CheckStatus, Stay, db
<1>2. AtCheck(mem[w])
  BY <1>1 DEF SerialInv, HalfWay, Progress
<1>3. /\ m.who = mem[w].who /\ m.choice = mem[w].choice /\ m.held = mem[w].held
      /\ m.req = req
  BY <1>t, <1>2 DEF Memory, AtCheck, Fetched
<1>4. mem[w].choice \in Decisions
  BY <1>t, <1>1 DEF Sound
<1>5. \/ Goto(w, "row", m) /\ MaySetStatus(mem[w])
      \/ Goto(w, "idle", mem[w])
  BY DEF CheckStatus
<1>6. MaySetStatus(mem[w]) => req.status # "cancelled"
  BY <1>2 DEF MaySetStatus, Fetched, AtCheck
<1> HIDE DEF m
<1>7. CASE Goto(w, "row", m) /\ MaySetStatus(mem[w])
  <2>1. pc'[w] = "row" /\ mem'[w] = m
    BY <1>t, <1>7, Moved
  <2>2. before' = before
    BY <1>1, <2>1, GoesOn
  <2>3. Untouched'
    BY <1>1, <1>2, <2>2 DEF AtCheck, Untouched, Seen, db
  <2>4. before.rows = rows /\ before.req = req /\ ListsUntouched
    BY <1>2 DEF AtCheck, Untouched, Seen, ListsUntouched
  <2>5. Deciding(mem[w])'
    <3>1. m.who \in Present(before.rows)
      BY <1>2, <1>3, <2>4 DEF AtCheck
    <3>2. IsDecision(m.choice) => CanApprove(before.rows, m.who)
      BY <1>2, <1>3, <2>4 DEF AtCheck
    <3>3. ListsUntouched' /\ req' = req
      BY <1>1, <2>2, <2>4 DEF ListsUntouched, db
    <3>4. QED
      BY <1>3, <1>4, <1>6, <1>7, <2>1, <2>2, <2>4, <3>1, <3>2, <3>3 DEF Deciding
  <2>6. AtRow(mem[w])'
    BY <1>1, <1>2, <1>3, <2>1, <2>3, <2>5 DEF AtRow, AtCheck, db
  <2>7. QED
    BY <1>1, <2>1, <2>6, GoesOn DEF Progress
<1>8. CASE Goto(w, "idle", mem[w])
  BY <1>t, <1>1, <1>2, <1>8, Moved, ReturnsUnseen DEF AtCheck
<1>9. QED
  BY <1>5, <1>7, <1>8

LEMMA SaveSim ==
    ASSUME SerialInv, Observe, NEW w \in Workers, SaveDecision(w)
    PROVE  Simulates
<1>t. /\ Types /\ mem[w] \in Memory /\ rows \in [Approvers -> Row]
      /\ mem[w].who \in Approvers
  BY DEF SerialInv, Types, TypeOK, Memory
<1> DEFINE m == mem[w]
           u == m.who
           step == IF m.choice = "rejected" THEN "others" ELSE "recount"
<1>1. pc[w] = "row"
  BY DEF SaveDecision
<1>2. AtRow(m)
  BY <1>1 DEF SerialInv, HalfWay, Progress
<1>3. before.rows = rows /\ before.req = req
  BY <1>2 DEF AtRow, Untouched, Seen
<1>4. CASE Saved(u, m.held[u], m.choice) /\ Goto(w, step, m)
  <2>1. /\ rows' = [rows EXCEPT ![u] = [rows[u] EXCEPT !.status = m.choice]]
        /\ UNCHANGED <<kind, records, lists, req>>
    BY <1>2, <1>4 DEF Saved, OnlyRows, AtRow
  <2>2. pc'[w] = step /\ mem'[w] = m
    BY <1>t, <1>4, Moved
  <2>3. before' = before
    BY <2>1, <2>2, GoesOn
  <2>4. rows' = Mark(before.rows, {u}, m.choice)
    <3>1. Mark(rows, {u}, m.choice)
              = [rows EXCEPT ![u] = [rows[u] EXCEPT !.status = m.choice]]
      BY <1>t DEF Mark
    <3>2. QED
      BY <1>3, <2>1, <3>1
  <2>5. Deciding(mem[w])' /\ mem'[w].req = req'
    BY <1>2, <2>1, <2>2, <2>3 DEF AtRow, Deciding, ListsUntouched
  <2>6. CASE m.choice = "rejected"
    <3>1. AtOthers(mem[w])'
      BY <2>2, <2>3, <2>4, <2>5, <2>6 DEF AtOthers
    <3>2. QED
      BY <2>1, <2>2, <2>6, <3>1, GoesOn DEF Progress
  <2>7. CASE m.choice # "rejected"
    <3>1. AtRecount(mem[w])'
      BY <2>2, <2>3, <2>4, <2>5, <2>7 DEF AtRecount, Decide
    <3>2. QED
      BY <2>1, <2>2, <2>7, <3>1, GoesOn DEF Progress
  <2>8. QED
    BY <2>6, <2>7
<1>5. CASE SaveFails(w, u, m.held[u])
  <2>1. Stay /\ UNCHANGED kind /\ pc'[w] = "idle"
    BY <1>t, <1>5, Moved DEF SaveFails, Stay, db
  <2>2. QED
    BY <1>2, <2>1, ReturnsUnseen DEF AtRow
<1>6. QED
  BY <1>4, <1>5 DEF SaveDecision

LEMMA LoadOthersSim ==
    ASSUME SerialInv, Observe, NEW w \in Workers, LoadOthers(w)
    PROVE  Simulates
<1>t. /\ Types /\ mem[w] \in Memory /\ mem[w].who \in Approvers
      /\ before.rows \in [Approvers -> Row]
  BY DEF SerialInv, Types, TypeOK, Memory, Before
<1> DEFINE who == WithStatus(rows, "pending") \ {mem[w].who}
           m == [mem[w] EXCEPT !.held = Load(who)]
<1>1. pc[w] = "others" /\ UNCHANGED <<db, kind>> /\ Goto(w, "sweep", m)
  BY DEF LoadOthers, Stay, db
<1>2. AtOthers(mem[w])
  BY <1>1 DEF SerialInv, HalfWay, Progress
<1>3. /\ m.who = mem[w].who /\ m.choice = mem[w].choice /\ m.req = mem[w].req
      /\ m.held = Load(who)
  BY <1>t DEF Memory
<1>4. who \in SUBSET WithStatus(rows, "pending")
  OBVIOUS
<1>5. Mark(rows, who, "cancelled") = Reject(before.rows, m.who)
  BY <1>t, <1>2, <1>3, RejectRest DEF AtOthers
<1> HIDE DEF m, who
<1>6. Kept(m) = who /\ Loaded(m)
  BY <1>3, <1>4, LoadPending
<1>7. pc'[w] = "sweep" /\ mem'[w] = m
  BY <1>t, <1>1, Moved
<1>8. before' = before
  BY <1>1, <1>7, GoesOn
<1>9. Deciding(mem[w])' /\ mem'[w].req = req' /\ mem'[w].choice = "rejected"
  BY <1>1, <1>2, <1>3, <1>7, <1>8 DEF AtOthers, Deciding, ListsUntouched, db
<1>10. Loaded(mem[w])' /\ Kept(mem[w])' = who
  BY <1>1, <1>6, <1>7 DEF Loaded, Kept, db
<1>11. rows' = rows
  BY <1>1 DEF db
<1>12. AtReject(mem[w])'
  BY <1>5, <1>7, <1>8, <1>9, <1>10, <1>11 DEF AtReject
<1>13. QED
  BY <1>1, <1>7, <1>9, <1>12, GoesOn DEF Progress

LEMMA RecountSim ==
    ASSUME SerialInv, Observe, NEW w \in Workers, Recounts(w)
    PROVE  Simulates
<1>t. /\ Types /\ mem[w] \in Memory /\ before.req \in Request
  BY DEF SerialInv, Types, TypeOK, Before
<1>0. /\ UNCHANGED <<db, kind>>
      /\ pc[w] \in {"recount", "anyRow", "countApproved", "countAll"}
  BY <1>t, RecountStep DEF Stay, db
<1>1. AtRecount(mem[w]) /\ (pc[w] # "recount" => AtCount(pc[w], mem[w]))
  BY <1>0 DEF SerialInv, HalfWay, Progress, AtCount
<1>2. CASE SetStatus(w, StatusFrom(rows))
  <2> DEFINE m == [mem[w] EXCEPT !.req.status = StatusFrom(rows), !.count = 0]
  <2>1. /\ m.who = mem[w].who /\ m.choice = mem[w].choice
        /\ m.req = [before.req EXCEPT !.status = StatusFrom(rows)]
    BY <1>t, <1>1 DEF Memory, AtRecount, Deciding
  <2>2. Goto(w, "write", m)
    BY <1>2 DEF SetStatus
  <2> HIDE DEF m
  <2>3. pc'[w] = "write" /\ mem'[w] = m
    BY <1>t, <2>2, Moved
  <2>4. before' = before /\ rows' = rows
    BY <1>0, <2>3, GoesOn DEF db
  <2>5. Deciding(mem[w])'
    BY <1>0, <1>1, <2>1, <2>3, <2>4 DEF AtRecount, Deciding, ListsUntouched, db
  <2>6. AtWrite(mem[w])'
    BY <1>1, <2>1, <2>3, <2>4, <2>5 DEF AtRecount, AtWrite
  <2>7. QED
    BY <1>0, <2>3, <2>6, GoesOn DEF Progress
<1>3. ASSUME NEW step \in {"anyRow", "countApproved", "countAll"}, NEW m \in Memory,
             Goto(w, step, m),
             m.who = mem[w].who, m.choice = mem[w].choice, m.req = mem[w].req,
             WithStatus(rows, "rejected") = {},
             step # "anyRow" => Present(rows) # {},
             step = "countAll" => m.count = Cardinality(WithStatus(rows, "approved"))
      PROVE  Simulates
  <2>1. pc'[w] = step /\ mem'[w] = m
    BY <1>t, <1>3, Moved
  <2>2. before' = before /\ rows' = rows
    BY <1>0, <2>1, GoesOn DEF db
  <2>3. AtRecount(mem[w])'
    BY <1>0, <1>1, <1>3, <2>1, <2>2 DEF AtRecount, Deciding, ListsUntouched, db
  <2>4. AtCount(step, mem[w])'
    <3>1. WithStatus(rows', "rejected") = {} /\ (step # "anyRow" => Present(rows') # {})
      BY <1>3, <2>2
    <3>2. step = "countAll" => mem'[w].count = Cardinality(WithStatus(rows', "approved"))
      BY <1>3, <2>1, <2>2
    <3>3. QED
      BY <2>3, <3>1, <3>2 DEF AtCount
  <2>5. AtCount(pc[w], mem[w])'
    BY <2>1, <2>4 DEF AtCount
  <2>6. QED
    BY <1>0, <2>1, <2>5, GoesOn DEF Progress
<1>4. CASE Recount(w)
  <2>1. WithStatus(rows, "rejected") # {} => StatusFrom(rows) = "rejected"
    BY DEF StatusFrom
  <2>2. QED
    BY <1>t, <1>2, <1>3, <1>4, <2>1 DEF Recount
<1>5. CASE AnyRow(w)
  <2>1. pc[w] = "anyRow" /\ WithStatus(rows, "rejected") = {}
    BY <1>1, <1>5 DEF AnyRow, AtCount
  <2>2. Present(rows) = {} => StatusFrom(rows) = "pending"
    BY <2>1 DEF StatusFrom, FullyApproved
  <2>3. QED
    BY <1>t, <1>2, <1>3, <1>5, <2>1, <2>2 DEF AnyRow
<1>6. CASE CountApproved(w)
  <2>1. WithStatus(rows, "rejected") = {} /\ Present(rows) # {}
    BY <1>1, <1>6 DEF CountApproved, AtCount
  <2> DEFINE n == Cardinality(WithStatus(rows, "approved"))
             m == [mem[w] EXCEPT !.count = n]
  <2>2. n \in Nat
    BY FiniteAssumption, FS_Subset, FS_CardinalityType DEF WithStatus
  <2> HIDE DEF n
  <2>3. /\ m \in Memory /\ m.who = mem[w].who /\ m.choice = mem[w].choice
        /\ m.req = mem[w].req /\ m.count = n
    BY <1>t, <2>2 DEF Memory
  <2>4. Goto(w, "countAll", m)
    BY <1>6 DEF CountApproved, n
  <2> HIDE DEF m
  <2>5. QED
    BY <1>3, <2>1, <2>3, <2>4 DEF n
<1>7. CASE CountAll(w)
  <2>1. /\ WithStatus(rows, "rejected") = {} /\ Present(rows) # {}
        /\ mem[w].count = Cardinality(WithStatus(rows, "approved"))
    BY <1>1, <1>7 DEF CountAll, AtCount
  <2>2. mem[w].count = Cardinality(Present(rows)) <=> FullyApproved(rows)
    <3>1. Cardinality(WithStatus(rows, "approved")) \in Nat
          /\ Cardinality(Present(rows)) \in Nat
      BY FiniteAssumption, FS_Subset, FS_CardinalityType DEF WithStatus, Present
    <3>2. QED
      BY <2>1, <3>1, FewerApprovals DEF FullyApproved
  <2>3. StatusFrom(rows) = IF mem[w].count = Cardinality(Present(rows))
                           THEN "approved" ELSE "pending"
    BY <2>1, <2>2 DEF StatusFrom
  <2>4. QED
    BY <1>2, <1>7, <2>3 DEF CountAll
<1>8. QED
  BY <1>4, <1>5, <1>6, <1>7 DEF Recounts

\* The last statement of set_approver_status completes SetApproverStatus.
LEMMA WriteSim ==
    ASSUME SerialInv, Observe, NEW w \in Workers, WriteRequest(w)
    PROVE  Simulates
<1>t. Types /\ before.req \in Request /\ mem[w].who \in Approvers
  BY DEF SerialInv, Types, TypeOK, Before, Memory
<1> DEFINE m == mem[w]
<1>1. /\ pc[w] = "write" /\ req' = m.req /\ Goto(w, "idle", NoMemory)
      /\ UNCHANGED <<kind, records, lists, rows>>
  BY DEF WriteRequest, OnlyReq
<1>2. AtWrite(m)
  BY <1>1 DEF SerialInv, HalfWay, Progress
<1>3. pc'[w] = "idle"
  BY <1>t, <1>1, Moved
<1>4. /\ HalfWay'
      /\ before'.records = records /\ before'.lists = lists
      /\ before'.rows = rows /\ before'.req = m.req
  BY <1>1, <1>3, Returns
<1>5. /\ before'.records = before.records /\ before'.lists = before.lists
      /\ before'.rows = Decide(before.rows, m.who, m.choice)
      /\ before'.req = [before.req EXCEPT !.status = StatusFrom(before'.rows)]
  BY <1>2, <1>4 DEF AtWrite, Deciding, ListsUntouched
<1>6. /\ before'.req.status = StatusFrom(before'.rows)
      /\ before'.req.admin = before.req.admin
  BY <1>t, <1>5 DEF Request
<1>7. Workflow!SetApproverStatus(m.who, m.choice)
  <2>1. Workflow!MaySetStatus(m.who, m.choice)
    BY <1>2, SameQueries DEF AtWrite, Deciding, Workflow!MaySetStatus, IsDecision
  <2>2. m.who \in Workflow!Present(before.rows)
    BY <1>2, SameQueries DEF AtWrite, Deciding
  <2>3. before'.rows = Workflow!Decide(before.rows, m.who, m.choice)
    BY <1>5, SameUpdates
  <2>4. before'.req.status = Workflow!StatusFrom(before'.rows)
    BY <1>6, SameQueries
  <2>5. QED
    BY <1>1, <1>5, <1>6, <2>1, <2>2, <2>3, <2>4 DEF Workflow!SetApproverStatus
<1>8. m.choice \in Workflow!Decisions
  BY <1>2, SameSets DEF AtWrite, Deciding
<1>9. Workflow!Next
  BY <1>t, <1>7, <1>8 DEF Workflow!Next
<1>10. QED
  BY <1>4, <1>9 DEF Simulates

-----------------------------------------------------------------------------
(* The loop over loaded rows.                                              *)

\* One save of the loop: it succeeds, and leaves the rest of the loop to do.
LEMMA LoopSaves ==
    ASSUME Types, NEW w \in Workers, SweepNext(w), Loaded(mem[w])
    PROVE  /\ UNCHANGED <<kind, records, lists, req>>
           /\ pc'[w] = "sweep" /\ Loaded(mem[w])'
           /\ mem'[w].who = mem[w].who /\ mem'[w].choice = mem[w].choice
           /\ mem'[w].req = mem[w].req
           /\ Mark(rows', Kept(mem'[w]), SweepStatus(w))
                  = Mark(rows, Kept(mem[w]), SweepStatus(w))
<1>t. /\ mem[w] \in Memory /\ rows \in [Approvers -> Row]
      /\ pk \in [Approvers -> Nat]
  BY DEF Types, TypeOK
<1>1. PICK u \in ToSave(w) :
        \/ /\ Saved(u, mem[w].held[u], SweepStatus(w))
           /\ Goto(w, "sweep", AfterSaving(w, u))
        \/ SaveFails(w, u, mem[w].held[u])
  BY DEF SweepNext
<1> DEFINE m == AfterSaving(w, u)
           copy == mem[w].held[u]
           s == SweepStatus(w)
<1>2. u \in Kept(mem[w]) /\ u \in Approvers
  BY DEF ToSave, Kept
<1>3. copy.row = rows[u] /\ copy.pk = pk[u] /\ rows[u].status # "absent"
  BY <1>2 DEF Loaded
<1>4. Saved(u, copy, s) /\ Goto(w, "sweep", m)
  BY <1>1, <1>3 DEF SaveFails, CanUpdate
<1>5. /\ rows' = [rows EXCEPT ![u] = [rows[u] EXCEPT !.status = s]]
      /\ pk' = pk
      /\ UNCHANGED <<kind, records, lists, req>>
  <2>1. rows' = [rows EXCEPT ![u] = [copy.row EXCEPT !.status = s]]
    BY <1>4 DEF Saved
  <2>2. pk' = [pk EXCEPT ![u] = copy.pk]
    BY <1>4 DEF Saved
  <2>3. QED
    BY <1>t, <1>2, <1>3, <1>4, <2>1, <2>2 DEF Saved, OnlyRows
<1>6. /\ m.who = mem[w].who /\ m.choice = mem[w].choice /\ m.req = mem[w].req
      /\ m.held = [mem[w].held EXCEPT ![u] = NotHeld]
      /\ mem[w].held \in [Approvers -> Held]
  BY <1>t DEF AfterSaving, Memory
<1> HIDE DEF m
<1>7. pc'[w] = "sweep" /\ mem'[w] = m
  BY <1>4, Moved
<1>8. Kept(m) = Kept(mem[w]) \ {u}
  BY <1>6 DEF Kept
<1>9. ASSUME NEW v \in Kept(m)
      PROVE  m.held[v].row = rows'[v] /\ m.held[v].pk = pk'[v]
             /\ rows'[v].status # "absent"
  <2>1. v \in Kept(mem[w]) /\ v # u /\ v \in Approvers
    BY <1>8 DEF Kept
  <2>2. m.held[v] = mem[w].held[v] /\ rows'[v] = rows[v]
    BY <1>t, <1>5, <1>6, <2>1
  <2>3. QED
    BY <1>5, <2>1, <2>2 DEF Loaded
<1>10. Loaded(mem[w])'
  BY <1>7, <1>9 DEF Loaded, Kept
<1>11. Mark(rows', Kept(m), s) = Mark(rows, Kept(mem[w]), s)
  <2>1. Kept(mem[w]) \in SUBSET Approvers
    BY DEF Kept
  <2>2. rows'[u] = [rows[u] EXCEPT !.status = s]
    BY <1>t, <1>2, <1>5
  <2>3. \A v \in Approvers \ {u} : rows'[v] = rows[v]
    BY <1>t, <1>5
  <2> HIDE DEF s
  <2>4. Mark(rows', Kept(mem[w]) \ {u}, s) = Mark(rows, Kept(mem[w]), s)
    BY <1>t, <1>2, <2>1, <2>2, <2>3, MarkRest
  <2>5. QED
    BY <1>8, <2>4
<1>12. QED
  BY <1>5, <1>6, <1>7, <1>10, <1>11

LEMMA SweepNextSim ==
    ASSUME SerialInv, Observe, NEW w \in Workers, SweepNext(w)
    PROVE  Simulates
<1>t. Types
  BY DEF SerialInv
<1>1. pc[w] = "sweep"
  BY DEF SweepNext
<1>2. CASE mem[w].choice = "rejected"
  <2>1. AtReject(mem[w])
    BY <1>1, <1>2 DEF SerialInv, HalfWay, Progress
  <2>2. SweepStatus(w) = "cancelled"
    BY <1>2 DEF SweepStatus
  <2>3. /\ UNCHANGED <<kind, records, lists, req>>
        /\ pc'[w] = "sweep" /\ Loaded(mem[w])'
        /\ mem'[w].who = mem[w].who /\ mem'[w].choice = mem[w].choice
        /\ mem'[w].req = mem[w].req
        /\ Mark(rows', Kept(mem'[w]), "cancelled") = Mark(rows, Kept(mem[w]), "cancelled")
    BY <1>t, <2>1, <2>2, LoopSaves DEF AtReject
  <2>4. before' = before
    BY <2>3, GoesOn
  <2>5. AtReject(mem[w])'
    BY <2>1, <2>3, <2>4 DEF AtReject, Deciding, ListsUntouched
  <2>6. QED
    BY <1>2, <2>3, <2>5, GoesOn DEF Progress
<1>3. CASE mem[w].choice # "rejected"
  <2>1. AtGrant(mem[w])
    BY <1>1, <1>3 DEF SerialInv, HalfWay, Progress
  <2>2. SweepStatus(w) = "approved"
    BY <1>3 DEF SweepStatus
  <2>3. /\ UNCHANGED <<kind, records, lists, req>>
        /\ pc'[w] = "sweep" /\ Loaded(mem[w])'
        /\ mem'[w].choice = mem[w].choice
        /\ Mark(rows', Kept(mem'[w]), "approved") = Mark(rows, Kept(mem[w]), "approved")
    BY <1>t, <2>1, <2>2, LoopSaves DEF AtGrant
  <2>4. before' = before
    BY <2>3, GoesOn
  <2>5. AtGrant(mem[w])'
    BY <2>1, <2>3, <2>4 DEF AtGrant, Granting, ListsUntouched
  <2>6. QED
    BY <1>3, <2>3, <2>5, GoesOn DEF Progress
<1>4. QED
  BY <1>2, <1>3

\* set_admin_status has granted: what AccessApproval says of it.
LEMMA GrantReturns ==
    ASSUME SerialInv, Observe, NEW w \in Workers, pc'[w] = "idle",
           UNCHANGED <<kind, records, lists, rows, req>>,
           Granting, rows = Granted(before.rows),
           kind = "revoke" => before.req.admin # "granted"
    PROVE  Simulates
<1>t. before.req \in Request /\ before.rows \in [Approvers -> Row]
  BY DEF SerialInv, Before
<1>1. /\ HalfWay'
      /\ before'.records = records /\ before'.lists = lists
      /\ before'.rows = rows /\ before'.req = req
  BY Returns
<1>2. /\ before'.records = before.records /\ before'.lists = before.lists
      /\ before'.rows = Granted(before.rows)
      /\ before'.req.status = before.req.status
      /\ before'.req.admin = "granted"
  BY <1>t, <1>1 DEF Granting, ListsUntouched, Request
<1>3. before'.rows = Workflow!Mark(before.rows,
                         Workflow!WithStatus(before.rows, "pending"), "approved")
  BY <1>2, SameQueries, SameUpdates DEF Granted
<1>4. Workflow!SetAdminStatus("granted")
  BY <1>2, <1>3 DEF Workflow!SetAdminStatus, Granting
<1>5. Workflow!Next
  BY <1>4 DEF Workflow!Next, Workflow!AdminStatuses
<1>6. QED
  BY <1>1, <1>5 DEF Simulates

LEMMA SweepEndsSim ==
    ASSUME SerialInv, Observe, NEW w \in Workers, SweepEnds(w)
    PROVE  Simulates
<1>t. Types /\ mem[w] \in Memory /\ rows \in [Approvers -> Row]
      /\ before.rows \in [Approvers -> Row]
  BY DEF SerialInv, Types, TypeOK, Before
<1>1. pc[w] = "sweep" /\ UNCHANGED <<db, kind>>
  BY DEF SweepEnds, Stay, db
<1>2. \A s : Mark(rows, Kept(mem[w]), s) = rows
  <2>1. Kept(mem[w]) = {}
    BY DEF SweepEnds, ToSave, Kept
  <2>2. QED
    BY <1>t, <2>1, MarkNobody
<1>3. CASE mem[w].choice = "rejected"
  <2>1. AtReject(mem[w])
    BY <1>1, <1>3 DEF SerialInv, HalfWay, Progress
  <2>2. Goto(w, "recount", mem[w])
    BY <1>3 DEF SweepEnds
  <2>3. pc'[w] = "recount" /\ mem'[w] = mem[w]
    BY <1>t, <2>2, Moved
  <2>4. before' = before
    BY <1>1, <2>3, GoesOn
  <2>5. rows = Decide(before.rows, mem[w].who, mem[w].choice)
    BY <1>2, <1>3, <2>1 DEF AtReject, Decide
  <2>6. AtRecount(mem[w])'
    BY <1>1, <2>1, <2>3, <2>4, <2>5
    DEF AtReject, AtRecount, Deciding, ListsUntouched, db
  <2>7. QED
    BY <1>1, <2>3, <2>6, GoesOn DEF Progress
<1>4. CASE mem[w].choice # "rejected"
  <2> DEFINE m == [mem[w] EXCEPT !.choice = "revoked"]
  <2>1. AtGrant(mem[w])
    BY <1>1, <1>4 DEF SerialInv, HalfWay, Progress
  <2>2. rows = Granted(before.rows)
    BY <1>2, <2>1 DEF AtGrant
  <2>3. m.choice = "revoked"
    BY <1>t DEF Memory
  <2>4. Goto(w, "approvers", m) \/ Goto(w, "idle", mem[w])
    BY <1>4 DEF SweepEnds
  <2> HIDE DEF m
  <2>5. CASE Goto(w, "approvers", m)
    <3>1. pc'[w] = "approvers" /\ mem'[w] = m
      BY <1>t, <2>5, Moved
    <3>2. before' = before
      BY <1>1, <3>1, GoesOn
    <3>3. Granted(rows) = Granted(before.rows)
      BY <1>t, <2>2, GrantedTwice
    <3>4. AtApprovers(mem[w])'
      BY <1>1, <2>1, <2>3, <3>1, <3>2, <3>3
      DEF AtGrant, AtApprovers, Granting, ListsUntouched, db
    <3>5. QED
      BY <1>1, <3>1, <3>4, GoesOn DEF Progress
  <2>6. CASE Goto(w, "idle", mem[w])
    <3>1. pc'[w] = "idle"
      BY <1>t, <2>6, Moved
    <3>2. Granting
      BY <2>1 DEF AtGrant
    <3>3. before.req.admin # "granted"
      BY <3>2 DEF Granting
    <3>4. QED
      BY <1>1, <2>2, <3>1, <3>2, <3>3, GrantReturns DEF db
  <2>7. QED
    BY <2>4, <2>5, <2>6
<1>5. QED
  BY <1>3, <1>4

-----------------------------------------------------------------------------
(* cancel_access_request, edit_access_request, set_admin_status.           *)

LEMMA CancelSim ==
    ASSUME SerialInv, Observe, NEW w \in Workers,
           RecheckCancel(w) \/ CancelRequest(w) \/ CancelRows(w)
    PROVE  Simulates
<1>t. Types /\ before.req \in Request
  BY DEF SerialInv, Before
<1>1. CASE RecheckCancel(w)
  <2>1. pc[w] = "recheck" /\ UNCHANGED <<db, kind>> /\ Stay
    BY <1>1 DEF RecheckCancel, Stay, db
  <2>2. AtCancel(mem[w])
    BY <2>1 DEF SerialInv, HalfWay, Progress
  <2>3. Goto(w, "cancel", mem[w])
    BY <1>1, <2>2 DEF RecheckCancel, AtCancel
  <2>4. pc'[w] = "cancel" /\ mem'[w] = mem[w]
    BY <1>t, <2>3, Moved
  <2>5. before' = before
    BY <2>1, <2>4, GoesOn
  <2>6. AtCancel(mem[w])'
    BY <2>1, <2>2, <2>4, <2>5 DEF AtCancel, Untouched, Seen, db
  <2>7. QED
    BY <2>1, <2>4, <2>6, GoesOn DEF Progress
<1>2. CASE CancelRequest(w)
  <2>1. /\ pc[w] = "cancel" /\ UNCHANGED <<kind, records, lists, rows>>
        /\ req' = [mem[w].req EXCEPT !.status = "cancelled"]
        /\ Goto(w, "cancelRows", mem[w])
    BY <1>2 DEF CancelRequest, OnlyReq
  <2>2. AtCancel(mem[w])
    BY <2>1 DEF SerialInv, HalfWay, Progress
  <2>3. pc'[w] = "cancelRows"
    BY <1>t, <2>1, Moved
  <2>4. before' = before
    BY <2>1, <2>3, GoesOn
  <2>5. AtCancelRows'
    BY <2>1, <2>2, <2>4 DEF AtCancel, AtCancelRows, ListsUntouched, Untouched, Seen
  <2>6. QED
    BY <2>1, <2>3, <2>5, GoesOn DEF Progress
<1>3. CASE CancelRows(w)
  <2>1. /\ pc[w] = "cancelRows" /\ UNCHANGED <<kind, records, lists, req>>
        /\ rows' = Mark(rows, WithStatus(rows, "pending"), "cancelled")
        /\ Goto(w, "idle", NoMemory)
    BY <1>3 DEF CancelRows, OnlyRows
  <2>2. AtCancelRows
    BY <2>1 DEF SerialInv, HalfWay, Progress
  <2>3. pc'[w] = "idle"
    BY <1>t, <2>1, Moved
  <2>4. /\ HalfWay'
        /\ before'.records = before.records /\ before'.lists = before.lists
        /\ before'.rows = rows' /\ before'.req = before'.req
        /\ before'.req = [before.req EXCEPT !.status = "cancelled"]
    BY <2>1, <2>2, <2>3, Returns DEF AtCancelRows, ListsUntouched
  <2>5. before'.rows = Workflow!Mark(before.rows,
                           Workflow!WithStatus(before.rows, "pending"), "cancelled")
    BY <2>1, <2>2, <2>4, SameQueries, SameUpdates DEF AtCancelRows
  <2>6. Workflow!SomeNotApproved(before.rows)
    BY <2>2, SameQueries DEF AtCancelRows
  <2>7. before'.req.status = "cancelled" /\ before'.req.admin = before.req.admin
    BY <1>t, <2>4 DEF Request
  <2>8. Workflow!CancelRequest
    BY <2>1, <2>2, <2>4, <2>5, <2>6, <2>7
    DEF Workflow!CancelRequest, AtCancelRows
  <2>9. QED
    BY <2>4, <2>8 DEF Simulates, Workflow!Next
<1>4. QED
  BY <1>1, <1>2, <1>3

LEMMA EditSim ==
    ASSUME SerialInv, Observe, NEW w \in Workers,
           NEW wanted \in (SUBSET Records) \ {{}}, CommitEdit(w, wanted)
    PROVE  Simulates
<1>t. Types
  BY DEF SerialInv
<1>1. /\ pc[w] = "edit" /\ req' = mem[w].req /\ records' = wanted
      /\ UNCHANGED <<kind, lists>> /\ Goto(w, "idle", NoMemory)
  BY DEF CommitEdit
<1>2. AtEdit(mem[w])
  BY <1>1 DEF SerialInv, HalfWay, Progress
<1>3. /\ before.records = records /\ before.lists = lists
      /\ before.rows = rows /\ before.req = req
  BY <1>2 DEF AtEdit, Untouched, Seen
<1>4. pc'[w] = "idle"
  BY <1>t, <1>1, Moved
<1>5. /\ HalfWay'
      /\ before'.records = wanted /\ before'.lists = before.lists
      /\ before'.rows = rows' /\ before'.req = before.req
  BY <1>1, <1>2, <1>3, <1>4, Returns DEF AtEdit
<1>6. before'.rows \in Workflow!RowsAfterEdit(wanted)
  <2>1. CASE wanted = records
    BY <1>3, <1>5, <2>1 DEF CommitEdit, Workflow!RowsAfterEdit
  <2>2. CASE wanted # records
    <3>1. PICK first \in wanted : rows' = CopyList(lists[first], first)
      BY <2>2 DEF CommitEdit
    <3>2. rows' = Workflow!CopyList(before.lists[first], first)
      BY <1>3, <3>1, SameUpdates
    <3>3. QED
      BY <1>3, <1>5, <2>2, <3>2 DEF Workflow!RowsAfterEdit
  <2>3. QED
    BY <2>1, <2>2
<1>7. Workflow!CanBeEdited
  BY <1>2, <1>3, SameQueries DEF AtEdit, Workflow!CanBeEdited
<1>8. Workflow!EditRequest(wanted)
  BY <1>1, <1>5, <1>6, <1>7 DEF Workflow!EditRequest
<1>9. QED
  BY <1>5, <1>8 DEF Simulates, Workflow!Next

LEMMA AdminSim ==
    ASSUME SerialInv, Observe, NEW w \in Workers, SaveAdmin(w)
    PROVE  Simulates
<1>t. /\ Types /\ Sound(pc[w], mem[w]) /\ before.req \in Request
      /\ before.rows \in [Approvers -> Row]
  BY DEF SerialInv, Types, WorkersSound, Before
<1> DEFINE s == mem[w].choice
<1>1. /\ pc[w] = "admin" /\ UNCHANGED <<kind, records, lists, rows>>
      /\ req' = [mem[w].req EXCEPT !.admin = s]
      /\ Goto(w, IF s = "granted" /\ mem[w].req.admin # "granted"
                 THEN "approvers" ELSE "idle", mem[w])
  BY DEF SaveAdmin, OnlyReq
<1>2. AtAdmin(mem[w]) /\ s \in AdminStatuses
  BY <1>t, <1>1 DEF SerialInv, HalfWay, Progress, Sound
<1>3. /\ before.records = records /\ before.lists = lists
      /\ before.rows = rows /\ before.req = req /\ mem[w].req = req
  BY <1>2 DEF AtAdmin, Untouched, Seen
<1>4. MayDecide(s)
  BY <1>2 DEF AtAdmin
<1>5. CASE s = "granted" /\ req.admin # "granted"
  <2>1. pc'[w] = "approvers" /\ mem'[w] = mem[w]
    BY <1>t, <1>1, <1>3, <1>5, Moved
  <2>2. before' = before
    BY <1>1, <2>1, GoesOn
  <2>3. Granting'
    BY <1>1, <1>3, <1>4, <1>5, <2>2 DEF Granting, MayDecide, ListsUntouched
  <2>4. AtApprovers(mem[w])'
    BY <1>1, <1>3, <1>5, <2>1, <2>2, <2>3 DEF AtApprovers
  <2>5. QED
    BY <1>1, <2>1, <2>4, GoesOn DEF Progress
<1>6. CASE ~(s = "granted" /\ req.admin # "granted")
  <2>1. pc'[w] = "idle"
    BY <1>t, <1>1, <1>3, <1>6, Moved
  <2>2. /\ HalfWay'
        /\ before'.records = before.records /\ before'.lists = before.lists
        /\ before'.rows = before.rows
        /\ before'.req = [before.req EXCEPT !.admin = s]
    BY <1>1, <1>3, <2>1, Returns
  <2>3. before'.req.status = before.req.status /\ before'.req.admin = s
    BY <1>t, <2>2 DEF Request
  <2>4. Workflow!SetAdminStatus(s)
    BY <1>1, <1>3, <1>4, <1>6, <2>2, <2>3 DEF Workflow!SetAdminStatus, MayDecide
  <2>5. Workflow!Next
    BY <1>2, <2>4, SameSets DEF Workflow!Next
  <2>6. QED
    BY <2>2, <2>5 DEF Simulates
<1>7. QED
  BY <1>5, <1>6

LEMMA LoadApproversSim ==
    ASSUME SerialInv, Observe, NEW w \in Workers, LoadApprovers(w)
    PROVE  Simulates
<1>t. Types /\ mem[w] \in Memory
  BY DEF SerialInv, Types, TypeOK
<1> DEFINE who == WithStatus(rows, "pending")
           m == [mem[w] EXCEPT !.held = Load(who)]
<1>1. pc[w] = "approvers" /\ UNCHANGED <<db, kind>> /\ Goto(w, "sweep", m)
  BY DEF LoadApprovers, Stay, db
<1>2. AtApprovers(mem[w])
  BY <1>1 DEF SerialInv, HalfWay, Progress
<1>3. m.choice = mem[w].choice /\ m.held = Load(who)
  BY <1>t DEF Memory
<1>4. Mark(rows, who, "approved") = Granted(before.rows)
  BY <1>2 DEF AtApprovers, Granted
<1> HIDE DEF m
<1>5. Kept(m) = who /\ Loaded(m)
  BY <1>3, LoadPending
<1> HIDE DEF who
<1>6. pc'[w] = "sweep" /\ mem'[w] = m
  BY <1>t, <1>1, Moved
<1>7. before' = before /\ rows' = rows
  BY <1>1, <1>6, GoesOn DEF db
<1>8. Granting'
  BY <1>1, <1>2, <1>7 DEF AtApprovers, Granting, ListsUntouched, db
<1>9. Loaded(mem[w])' /\ Kept(mem[w])' = who
  BY <1>1, <1>5, <1>6 DEF Loaded, Kept, db
<1>10. AtGrant(mem[w])'
  BY <1>4, <1>7, <1>8, <1>9 DEF AtGrant
<1>11. mem'[w].choice # "rejected"
  BY <1>2, <1>3, <1>6 DEF AtApprovers
<1>12. QED
  BY <1>1, <1>6, <1>10, <1>11, GoesOn DEF Progress

\* The transaction that replaces an approver list is one step in both.
LEMMA ChangeSim ==
    ASSUME SerialInv, Observe,
           NEW r \in Records, NEW list \in Lists, NEW sync \in BOOLEAN,
           ChangeList(r, list, sync)
    PROVE  Simulates
<1>1. PICK w \in Workers : Idle(w)
  BY DEF ChangeList
<1>2. /\ pc'[w] = "idle" /\ UNCHANGED <<kind, records, req>>
      /\ lists' = [lists EXCEPT ![r] = list]
      /\ rows' = IF sync /\ req.status = "pending" /\ r \in records
                 THEN Synced(Cascade(rows, r), list, r) ELSE Cascade(rows, r)
  BY <1>1 DEF ChangeList, Idle
<1>3. /\ before.records = records /\ before.lists = lists
      /\ before.rows = rows /\ before.req = req
  BY <1>1 DEF SerialInv, HalfWay, Progress, Idle, Untouched, Seen
<1>4. /\ HalfWay'
      /\ before'.records = before.records
      /\ before'.lists = [before.lists EXCEPT ![r] = list]
      /\ before'.rows = rows' /\ before'.req = before.req
  BY <1>2, <1>3, Returns
<1>5. /\ \A rs : Workflow!Cascade(rs, r) = Cascade(rs, r)
      /\ \A rs : Workflow!Synced(rs, list, r) = Synced(rs, list, r)
  BY SameUpdates
<1>6. CASE sync
  <2>1. Workflow!UpdateRecordApprovers(r, list)
    BY <1>2, <1>3, <1>4, <1>5, <1>6 DEF Workflow!UpdateRecordApprovers
  <2>2. QED
    BY <1>4, <2>1 DEF Simulates, Workflow!Next
<1>7. CASE ~sync
  <2>1. Workflow!ReplaceRecordApprovers(r, list)
    BY <1>2, <1>3, <1>4, <1>5, <1>7 DEF Workflow!ReplaceRecordApprovers
  <2>2. QED
    BY <1>4, <2>1 DEF Simulates, Workflow!Next
<1>8. QED
  BY <1>6, <1>7

-----------------------------------------------------------------------------
(* The refinement.                                                         *)

LEMMA SerialStarts == SerialInit => SerialInv /\ Workflow!Init
<1> SUFFICES ASSUME SerialInit PROVE SerialInv /\ Workflow!Init
  OBVIOUS
<1>1. Init /\ before = Seen /\ Types
  BY InitTypes DEF SerialInit
<1>2. SerialInv
  BY <1>1 DEF SerialInv, Init, HalfWay, Progress, Untouched, Before, Seen, Types, TypeOK
<1>3. /\ before.records = records /\ before.lists = lists
      /\ before.rows = rows /\ before.req = req
  BY <1>1 DEF Seen
<1>4. PICK first \in records : rows = CopyList(lists[first], first)
  BY <1>1 DEF Init
<1>5. CASE kind = "grant"
  <2>1. Workflow!SubmitGrant
    BY <1>3, <1>4, <1>5, SameUpdates DEF Workflow!SubmitGrant
  <2>2. QED
    BY <1>1, <1>2, <1>3, <2>1 DEF Init, Workflow!Init
<1>6. CASE kind = "revoke"
  <2>1. Cardinality(records) = 1 /\ records \subseteq Records
    BY <1>1, <1>6 DEF Init
  <2>2. records = {first}
    <3>1. IsFiniteSet(records)
      BY <2>1, SerialAssumption, FS_Subset
    <3>2. PICK x : records = {x}
      BY <2>1, <3>1, FS_Singleton
    <3>3. QED
      BY <3>2
  <2> DEFINE age == [q \in records |-> 1]
             from == [u \in Approvers |-> first]
  <2>3. /\ age \in [records -> 1..Workflow!Cardinality(records)]
        /\ from \in [Approvers -> records]
    <3>1. Workflow!Cardinality(records) = Cardinality(records)
      BY DEF Workflow!Cardinality, Cardinality
    <3>2. QED
      BY <2>1, <3>1
  <2>4. \A q, r \in records : age[q] = age[r] => q = r
    BY <2>2
  <2>5. \A u \in Approvers, r \in records :
            lists[r][u] # 0 => lists[from[u]][u] # 0 /\ age[from[u]] <= age[r]
    BY <2>2
  <2>6. rows = [u \in Approvers |->
                  Workflow!CopyOf(lists[from[u]], from[u], u)]
    BY <1>4, SameUpdates DEF CopyList
  <2> HIDE DEF age, from
  <2>7. Workflow!SubmitRevoke
    BY <1>3, <1>6, <2>3, <2>4, <2>5, <2>6 DEF Workflow!SubmitRevoke
  <2>8. QED
    BY <1>1, <1>2, <1>3, <2>7 DEF Init, Workflow!Init
<1>7. QED
  BY <1>1, <1>5, <1>6 DEF Init

LEMMA SerialStep ==
    SerialInv /\ [SerialNext]_<<vars, before>> => SerialInv' /\ Simulates
<1> SUFFICES ASSUME SerialInv, [SerialNext]_<<vars, before>>
             PROVE  SerialInv' /\ Simulates
  OBVIOUS
<1>1. Types'
  <2>1. [Next]_vars
    BY DEF SerialNext
  <2>2. QED
    BY <2>1, NextTypes DEF SerialInv
<1>2. Simulates
  <2>1. CASE UNCHANGED <<vars, before>>
    <3>1. UNCHANGED <<kind, records, lists, rows, req, pk, pc, mem, before>>
      BY <2>1 DEF vars, db
    <3>2. UNCHANGED Workflow!vars
      BY <3>1 DEF Workflow!vars
    <3>3. ASSUME NEW w \in Workers PROVE Progress(pc[w], mem[w])'
      <4>1. Progress(pc[w], mem[w])
        BY DEF SerialInv, HalfWay
      <4>2. (Untouched' <=> Untouched) /\ (ListsUntouched' <=> ListsUntouched)
        BY <3>1 DEF Untouched, Seen, ListsUntouched
      <4>3. (Deciding(mem[w])' <=> Deciding(mem[w])) /\ (Granting' <=> Granting)
        BY <3>1, <4>2 DEF Deciding, Granting
      <4>4. Loaded(mem[w])' <=> Loaded(mem[w])
        BY <3>1 DEF Loaded, Kept
      <4>5. /\ AtCheck(mem[w])' <=> AtCheck(mem[w])
            /\ AtRow(mem[w])' <=> AtRow(mem[w])
            /\ AtOthers(mem[w])' <=> AtOthers(mem[w])
            /\ AtRecount(mem[w])' <=> AtRecount(mem[w])
            /\ AtWrite(mem[w])' <=> AtWrite(mem[w])
        BY <3>1, <4>2, <4>3 DEF AtCheck, AtRow, AtOthers, AtRecount, AtWrite
      <4>9. \A step : AtCount(step, mem[w])' <=> AtCount(step, mem[w])
        BY <3>1, <4>5 DEF AtCount
      <4>6. /\ AtReject(mem[w])' <=> AtReject(mem[w])
            /\ AtGrant(mem[w])' <=> AtGrant(mem[w])
            /\ AtApprovers(mem[w])' <=> AtApprovers(mem[w])
        BY <3>1, <4>3, <4>4 DEF AtReject, AtGrant, AtApprovers, Kept
      <4>7. /\ AtCancel(mem[w])' <=> AtCancel(mem[w])
            /\ AtCancelRows' <=> AtCancelRows
            /\ AtEdit(mem[w])' <=> AtEdit(mem[w])
            /\ AtAdmin(mem[w])' <=> AtAdmin(mem[w])
        BY <3>1, <4>2 DEF AtCancel, AtCancelRows, AtEdit, AtAdmin, MayDecide
      <4>8. QED
        BY <3>1, <4>1, <4>2, <4>5, <4>6, <4>7, <4>9 DEF Progress
    <3>4. QED
      BY <3>2, <3>3 DEF Simulates, HalfWay
  <2>2. CASE SerialNext
    <3>1. Next /\ Observe
      BY <2>2 DEF SerialNext, Observe
    <3>2. ASSUME NEW w \in Workers, Kill(w) PROVE FALSE
      BY <3>2, SerialAssumption DEF Kill, SerialInv, Types, TypeOK
    <3>3. CASE Quiet
      <4>1. PICK w \in Workers : Workers = {w}
        BY SerialAssumption
      <4>2. pc'[w] = "idle" /\ UNCHANGED kind /\ Stay /\ pc[w] = "idle"
        BY <3>3 DEF Quiet, AllIdle, Idle, vars, Stay, db
      <4>3. Untouched
        BY <4>2 DEF SerialInv, HalfWay, Progress
      <4>4. QED
        BY <3>1, <4>2, <4>3, ReturnsUnseen
    <3>4. QED
      BY <3>1, <3>2, <3>3, StartSim, CheckSim, SaveSim, LoadOthersSim, RecountSim,
         WriteSim, SweepNextSim, SweepEndsSim, CancelSim, EditSim, AdminSim,
         LoadApproversSim, ChangeSim
      DEF Next, Continue, Recounts
  <2>3. QED
    BY <2>1, <2>2
<1>3. before' \in Before
  <2>1. before' \in {before, Seen'}
    BY DEF SerialNext, vars
  <2>2. Seen' \in Before
    BY <1>1 DEF Types, TypeOK, Seen, Before
  <2>3. QED
    BY <2>1, <2>2 DEF SerialInv
<1>4. QED
  BY <1>1, <1>2, <1>3 DEF SerialInv, Simulates

\* Handlers that do not overlap do what AccessApproval says: from any state,
\* the statements of a handler add up to its one step.
THEOREM HandlersImplementWorkflow == SerialSpec => ImplementsWorkflow
<1>1. SerialInv /\ [SerialNext]_<<vars, before>>
          => SerialInv' /\ [Workflow!Next]_(Workflow!vars)
  BY SerialStep DEF Simulates
<1>2. QED
  BY <1>1, SerialStarts, PTL DEF SerialSpec, ImplementsWorkflow, Workflow!Spec
=============================================================================
