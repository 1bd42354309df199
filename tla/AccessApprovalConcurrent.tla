---------------------- MODULE AccessApprovalConcurrent ----------------------
(***************************************************************************)
(* The handlers of AccessApproval as the processes run them.  The site is  *)
(* served by several gunicorn workers over one MySQL database in autocommit*)
(* mode: a handler loads rows into Python objects, checks what it loaded,  *)
(* and writes whole rows back with save(), one committed statement at a    *)
(* time.  Between two statements of a handler any other handler may run,   *)
(* and a worker may be killed.                                             *)
(*                                                                         *)
(* A step of a worker is one write together with nothing else, or one      *)
(* evaluation of the rows or of the request; the four queries that recount *)
(* the approvals are four steps.  transaction.atomic() blocks are single   *)
(* steps.  The two counts of can_be_cancelled are one step: their answer   *)
(* is not stored, and the handler asks it a second time.                   *)
(* The period of the request is left out: it only ever refuses a decision. *)
(***************************************************************************)
EXTENDS ApproverRows, FiniteSets

CONSTANTS
    Workers,    \* gunicorn workers
    MaxStarts,  \* bound: handlers started in a behaviour
    MaxMade,    \* bound: times approver rows are re-created
    MaxKills    \* bound: workers killed in the middle of a handler

ASSUME FiniteAssumption == IsFiniteSet(Approvers)
ASSUME BoundsAssumption == MaxStarts \in Nat /\ MaxMade \in Nat /\ MaxKills \in Nat

VARIABLES
    kind, records, lists, rows,  \* as in AccessApproval
    req,      \* the AccessRequest row: [status, admin]
    pk,       \* primary key of every user's approver row
    listPk,   \* primary key of the AccessApprover rows of every record
    made,     \* AUTO_INCREMENT: the last primary key handed out
    pc,       \* where each worker is in its handler
    mem,      \* the Python objects its handler holds
    started, kills   \* counters for the bounds

db == <<kind, records, lists, rows, req, pk, listPk, made>>

\* What the properties remember of the past; no handler reads these.
VARIABLES
    everApproved,   \* all approvers of the request had approved at one moment
    mixedCounts,    \* rows came or went between the counts of one handler
    approvedOnce,   \* approvers whose row has been "approved"
    final           \* decisions that were in place while no handler ran

ghosts == <<everApproved, mixedCounts, approvedOnce, final>>
vars == <<db, pc, mem, started, kills, ghosts>>

AdminStatuses == {"pending", "granted", "denied", "in_progress"}
Request == [status : Decisions, admin : AdminStatuses]

\* A related object that has not been fetched, and a row that is not held.
NotFetched == [status |-> "none", admin |-> "none"]
NotHeld == [row |-> Absent, pk |-> 0, fk |-> 0]
Held == [row : Row, pk : Nat, fk : Nat]

Memory == [who : Approvers,
           choice : Decisions \cup AdminStatuses \cup {"none", "revoked"},
           req : Request \cup {NotFetched},
           held : [Approvers -> Held],
           count : Nat]

NoMemory == [who |-> CHOOSE u \in Approvers : TRUE, choice |-> "none",
             req |-> NotFetched, held |-> [u \in Approvers |-> NotHeld],
             count |-> 0]

\* The places between the queries of is_fully_approved.
Counting == {"countApproved", "countAll"}

Steps == Counting \cup
         {"idle", "check", "row", "others", "sweep", "recount", "anyRow", "write",
          "recheck", "cancel", "cancelRows", "edit", "admin", "approvers"}

TypeOK ==
    /\ kind \in {"grant", "revoke"}
    /\ records \in (SUBSET Records) \ {{}}
    /\ lists \in [Records -> Lists]
    /\ rows \in [Approvers -> Row]
    /\ req \in Request
    /\ pk \in [Approvers -> Nat] /\ listPk \in [Records -> Nat]
    /\ made \in Nat /\ started \in Nat /\ kills \in Nat
    /\ pc \in [Workers -> Steps]
    /\ mem \in [Workers -> Memory]
    /\ everApproved \in BOOLEAN /\ mixedCounts \in BOOLEAN
    /\ approvedOnce \in SUBSET Approvers
    /\ final \in SUBSET {"cancelled", "denied", "revoked"}

Idle(w) == pc[w] = "idle"
AllIdle == \A w \in Workers : Idle(w)

\* Conjoined to every step: what the step adds to the memory of the past.
Remember ==
    /\ everApproved' = (everApproved \/ FullyApproved(rows'))
    /\ mixedCounts' = (mixedCounts
         \/ (Present(rows') # Present(rows) /\ \E w \in Workers : pc[w] \in Counting))
    /\ approvedOnce' = approvedOnce \cup WithStatus(rows', "approved")
    /\ final' = final \cup
         (IF \E w \in Workers : pc'[w] # "idle" THEN {}
          ELSE {f \in {"cancelled", "denied", "revoked"} :
                  \/ f = "cancelled" /\ req'.status = "cancelled"
                  \/ f = "denied" /\ req'.admin = "denied"
                  \/ f = "revoked" /\ kind = "revoke" /\ req'.admin = "granted"})

\* The request has been submitted from the list of its first record (a revoke
\* request here is one for a single record).
Init ==
    /\ kind \in {"grant", "revoke"}
    /\ records \in (SUBSET Records) \ {{}}
    /\ kind = "revoke" => Cardinality(records) = 1
    /\ lists \in [Records -> Lists]
    /\ \E first \in records : rows = CopyList(lists[first], first)
    /\ req = [status |-> "pending", admin |-> "pending"]
    /\ pk = [u \in Approvers |-> 0]
    /\ listPk = [r \in Records |-> 0]
    /\ made = 0 /\ started = 0 /\ kills = 0
    /\ pc = [w \in Workers |-> "idle"]
    /\ mem = [w \in Workers |-> NoMemory]
    /\ everApproved = FALSE /\ mixedCounts = FALSE /\ approvedOnce = {} /\ final = {}

-----------------------------------------------------------------------------
(* Moving a worker through its handler.                                    *)

\* A handler starts on an idle worker, which keeps m.
Start(w, step, m) ==
    /\ Idle(w)
    /\ started < MaxStarts
    /\ started' = started + 1
    /\ pc' = [pc EXCEPT ![w] = step]
    /\ mem' = [mem EXCEPT ![w] = m]
    /\ UNCHANGED <<db, kills>>

\* The worker goes on at `step` holding m; the handler returns at "idle".
Goto(w, step, m) ==
    /\ pc' = [pc EXCEPT ![w] = step]
    /\ mem' = [mem EXCEPT ![w] = IF step = "idle" THEN NoMemory ELSE m]
    /\ UNCHANGED <<started, kills>>

Stay == UNCHANGED db
OnlyReq == UNCHANGED <<kind, records, lists, rows, pk, listPk, made>>
OnlyRows == UNCHANGED <<kind, records, lists, req, listPk, made>>

\* The copies a query over the approver rows of the users in who returns.
Load(who) ==
    [u \in Approvers |->
        IF u \in who
        THEN [row |-> rows[u], pk |-> pk[u], fk |-> listPk[rows[u].source]]
        ELSE NotHeld]

\* Model.save() of a loaded approver row with status s: UPDATE by primary key;
\* when no row matches, INSERT under the old key.
CanUpdate(u, copy) == rows[u].status # "absent" /\ pk[u] = copy.pk
\* unique (access_request, cabinet_user), and the AccessApprover still exists
CanInsert(u, copy) ==
    rows[u].status = "absent" /\ listPk[copy.row.source] = copy.fk

Saved(u, copy, s) ==
    /\ CanUpdate(u, copy) \/ CanInsert(u, copy)
    /\ rows' = [rows EXCEPT ![u] = [copy.row EXCEPT !.status = s]]
    /\ pk' = [pk EXCEPT ![u] = copy.pk]
    /\ OnlyRows

\* save() raises IntegrityError: the handler answers 500, what it has
\* committed so far stays.
SaveFails(w, u, copy) ==
    /\ ~CanUpdate(u, copy) /\ ~CanInsert(u, copy)
    /\ Stay
    /\ Goto(w, "idle", NoMemory)

-----------------------------------------------------------------------------
(* set_approver_status by u, and AccessRequestApprover.set_status.         *)

IsDecision(s) == s \in {"approved", "rejected"}

\* get_object_or_404 and the first can_approve.  The related request is
\* fetched when it is first asked for: at once for an owner's permission or
\* by can_approve above level 1, otherwise in set_status.
StartSetStatus(w, u, s) ==
    /\ u \in Present(rows)
    /\ IsDecision(s) => CanApprove(rows, u)
    /\ \E request \in {req, NotFetched} :
        /\ IsDecision(s) /\ rows[u].order # 1 => request = req
        /\ Start(w, "check", [who |-> u, choice |-> s, req |-> request,
                              held |-> Load({u}), count |-> 0])
    /\ Remember

\* Variant: the related request is taken for fetched.
NeverFetched(m) == m.req

\* self.access_request: cached once it has been fetched.
Fetched(m) == IF m.req = NotFetched THEN req ELSE m.req

\* Variant: a cancelled request is not refused.
LevelAllows(m) == IsDecision(m.choice) => LevelOpen(rows, m.held[m.who].row.order)

\* set_status: is_cancelled on the (cached) request, then can_approve again.
MaySetStatus(m) ==
    /\ Fetched(m).status # "cancelled"
    /\ IsDecision(m.choice) => LevelOpen(rows, m.held[m.who].row.order)

CheckStatus(w) ==
    /\ pc[w] = "check"
    /\ IF MaySetStatus(mem[w])
       THEN Goto(w, "row", [mem[w] EXCEPT !.req = Fetched(mem[w])])
       ELSE Goto(w, "idle", mem[w])
    /\ Stay
    /\ Remember

\* self.save(); a rejection goes on to _reject_all_pending_approvers.
SaveDecision(w) ==
    LET m == mem[w] IN
    /\ pc[w] = "row"
    /\ \/ /\ Saved(m.who, m.held[m.who], m.choice)
          /\ Goto(w, IF m.choice = "rejected" THEN "others" ELSE "recount", m)
       \/ SaveFails(w, m.who, m.held[m.who])
    /\ Remember

\* other_approvers is evaluated once; its pending rows will be saved.
LoadOthers(w) ==
    /\ pc[w] = "others"
    /\ Goto(w, "sweep",
            [mem[w] EXCEPT !.held =
                Load(WithStatus(rows, "pending") \ {mem[w].who})])
    /\ Stay
    /\ Remember

\* update_request_status sets the status on the cached request, from queries
\* that are committed statements of their own.
SetStatus(w, s) == Goto(w, "write", [mem[w] EXCEPT !.req.status = s, !.count = 0])

\* filter(current_status='rejected').exists()
Recount(w) ==
    /\ pc[w] = "recount"
    /\ IF WithStatus(rows, "rejected") # {} THEN SetStatus(w, "rejected")
       ELSE Goto(w, "anyRow", mem[w])
    /\ Stay
    /\ Remember

\* is_fully_approved: count() > 0
AnyRow(w) ==
    /\ pc[w] = "anyRow"
    /\ IF Present(rows) = {} THEN SetStatus(w, "pending")
       ELSE Goto(w, "countApproved", mem[w])
    /\ Stay
    /\ Remember

\* Variant: all that is not rejected is counted as approved.
CountUndecided(w) ==
    /\ pc[w] = "countApproved"
    /\ Goto(w, "countAll", [mem[w] EXCEPT
            !.count = Cardinality(Present(rows) \ WithStatus(rows, "rejected"))])
    /\ Stay
    /\ Remember

\* filter(current_status='approved').count()
CountApproved(w) ==
    /\ pc[w] = "countApproved"
    /\ Goto(w, "countAll", [mem[w] EXCEPT
            !.count = Cardinality(WithStatus(rows, "approved"))])
    /\ Stay
    /\ Remember

\* == count()
CountAll(w) ==
    /\ pc[w] = "countAll"
    /\ SetStatus(w, IF mem[w].count = Cardinality(Present(rows))
                    THEN "approved" ELSE "pending")
    /\ Stay
    /\ Remember

\* update_request_status: self.save() of the whole request row.
WriteRequest(w) ==
    /\ pc[w] = "write"
    /\ req' = mem[w].req
    /\ Goto(w, "idle", NoMemory)
    /\ OnlyReq
    /\ Remember

-----------------------------------------------------------------------------
(* A loop that saves loaded approver rows one by one in their order: the   *)
(* pending rows a rejection stops, or those a granted request approves.    *)

ToSave(w) == {u \in Approvers : mem[w].held[u] # NotHeld}
SweepStatus(w) == IF mem[w].choice = "rejected" THEN "cancelled" ELSE "approved"

\* Variant: the loop forgets that it has saved the row of u.
StillToSave(w, u) == mem[w]

\* The loop after it has saved the row of u.
AfterSaving(w, u) == [mem[w] EXCEPT !.held[u] = NotHeld]

SweepNext(w) ==
    /\ pc[w] = "sweep"
    /\ \E u \in ToSave(w) :
        LET copy == mem[w].held[u] IN
        /\ \A v \in ToSave(w) : copy.row.order <= mem[w].held[v].row.order
        /\ \/ /\ Saved(u, copy, SweepStatus(w))
              /\ Goto(w, "sweep", AfterSaving(w, u))
           \/ SaveFails(w, u, copy)
    /\ Remember

\* After the loop a rejection recounts; a granted revocation, once processed,
\* runs the loop a second time.
SweepEnds(w) ==
    LET m == mem[w] IN
    /\ pc[w] = "sweep"
    /\ ToSave(w) = {}
    /\ CASE m.choice = "rejected" -> Goto(w, "recount", m)
         [] m.choice = "granted" /\ kind = "revoke" ->
                Goto(w, "approvers", [m EXCEPT !.choice = "revoked"])
         [] OTHER -> Goto(w, "idle", m)
    /\ Stay
    /\ Remember

-----------------------------------------------------------------------------
(* cancel_access_request and AccessRequest.cancel_request.                 *)

StartCancel(w) ==
    /\ req.status = "pending"
    /\ SomeNotApproved(rows)
    /\ Start(w, "recheck", [NoMemory EXCEPT !.req = req])
    /\ Remember

\* cancel_request asks can_be_cancelled again, of the same request object.
RecheckCancel(w) ==
    /\ pc[w] = "recheck"
    /\ Goto(w, IF SomeNotApproved(rows) THEN "cancel" ELSE "idle", mem[w])
    /\ Stay
    /\ Remember

CancelRequest(w) ==
    /\ pc[w] = "cancel"
    /\ req' = [mem[w].req EXCEPT !.status = "cancelled"]
    /\ Goto(w, "cancelRows", mem[w])
    /\ OnlyReq
    /\ Remember

\* Variant: the UPDATE has no WHERE clause.
CancelAllRows(w) ==
    /\ pc[w] = "cancelRows"
    /\ rows' = Mark(rows, Present(rows), "cancelled")
    /\ Goto(w, "idle", NoMemory)
    /\ OnlyRows /\ UNCHANGED pk
    /\ Remember

\* One UPDATE ... WHERE current_status = 'pending'.
CancelRows(w) ==
    /\ pc[w] = "cancelRows"
    /\ rows' = Mark(rows, WithStatus(rows, "pending"), "cancelled")
    /\ Goto(w, "idle", NoMemory)
    /\ OnlyRows /\ UNCHANGED pk
    /\ Remember

-----------------------------------------------------------------------------
(* edit_access_request: can_be_edited is asked before the transaction.     *)

StartEdit(w) ==
    /\ kind = "grant"
    /\ req.status = "pending"
    /\ WithStatus(rows, "approved") = {}
    /\ Start(w, "edit", [NoMemory EXCEPT !.req = req])
    /\ Remember

\* Keys of the present rows of `new`: those in `fresh` are just inserted.
Keys(new, fresh) ==
    [u \in Approvers |-> IF u \notin Present(new) THEN 0
                         ELSE IF u \in fresh THEN made + 1 ELSE pk[u]]

CommitEdit(w, wanted) ==
    /\ pc[w] = "edit"
    /\ req' = mem[w].req
    /\ records' = wanted
    /\ IF wanted = records
       THEN UNCHANGED <<rows, pk, made>>
       ELSE /\ made < MaxMade
            /\ made' = made + 1
            /\ \E first \in wanted : rows' = CopyList(lists[first], first)
            /\ pk' = Keys(rows', Approvers)
    /\ Goto(w, "idle", NoMemory)
    /\ UNCHANGED <<kind, lists, listPk>>
    /\ Remember

-----------------------------------------------------------------------------
(* set_admin_status.                                                       *)

\* Variant: the approvers need not have agreed.
MayDecideEarly(s) ==
    /\ req.admin # "denied"
    /\ kind = "revoke" /\ req.admin = "granted" => s = "granted"

\* Variant: a denial may be changed.
MayDecideAgain(s) ==
    /\ req.status = "approved"
    /\ kind = "revoke" /\ req.admin = "granted" => s = "granted"

\* The checks of set_admin_status on the request it has loaded.
MayDecide(s) ==
    /\ req.status = "approved"
    /\ req.admin # "denied"
    /\ kind = "revoke" /\ req.admin = "granted" => s = "granted"

StartAdmin(w, s) ==
    /\ MayDecide(s)
    /\ Start(w, "admin", [NoMemory EXCEPT !.req = req, !.choice = s])
    /\ Remember

\* access_request.save() of the whole row loaded at the start.
SaveAdmin(w) ==
    LET m == mem[w] IN
    /\ pc[w] = "admin"
    /\ req' = [m.req EXCEPT !.admin = m.choice]
    /\ Goto(w, IF m.choice = "granted" /\ m.req.admin # "granted"
               THEN "approvers" ELSE "idle", m)
    /\ OnlyReq
    /\ Remember

\* request_approvers.all(), of which the pending rows will be approved.
LoadApprovers(w) ==
    /\ pc[w] = "approvers"
    /\ Goto(w, "sweep",
            [mem[w] EXCEPT !.held = Load(WithStatus(rows, "pending"))])
    /\ Stay
    /\ Remember

-----------------------------------------------------------------------------
(* The approver list of record r is replaced: with the sync of a pending   *)
(* request (update_access_record_approvers) or without it (the others).    *)

ChangeList(r, list, sync) ==
    /\ \E w \in Workers : Idle(w)
    /\ made < MaxMade
    /\ made' = made + 1
    /\ lists' = [lists EXCEPT ![r] = list]
    /\ listPk' = [listPk EXCEPT ![r] = made + 1]
    /\ LET remaining == Cascade(rows, r) IN
        /\ rows' = IF sync /\ req.status = "pending" /\ r \in records
                   THEN Synced(remaining, list, r) ELSE remaining
        /\ pk' = Keys(rows', Approvers \ Present(remaining))
    /\ UNCHANGED <<kind, records, req, pc, mem, started, kills>>
    /\ Remember

\* The arbiter kills a worker whose handler takes too long (timeout = 120).
Kill(w) ==
    /\ ~Idle(w)
    /\ kills < MaxKills
    /\ kills' = kills + 1
    /\ pc' = [pc EXCEPT ![w] = "idle"]
    /\ mem' = [mem EXCEPT ![w] = NoMemory]
    /\ UNCHANGED <<db, started>>
    /\ Remember

-----------------------------------------------------------------------------
StartHandler(w) ==
    \/ \E u \in Approvers, s \in Decisions : StartSetStatus(w, u, s)
    \/ StartCancel(w)
    \/ StartEdit(w)
    \/ \E s \in AdminStatuses : StartAdmin(w, s)

\* The steps a handler takes by itself once it runs.
Continue(w) ==
    \/ CheckStatus(w) \/ SaveDecision(w) \/ LoadOthers(w)
    \/ SweepNext(w) \/ SweepEnds(w) \/ WriteRequest(w)
    \/ Recount(w) \/ AnyRow(w) \/ CountApproved(w) \/ CountAll(w)
    \/ RecheckCancel(w) \/ CancelRequest(w) \/ CancelRows(w)
    \/ \E wanted \in (SUBSET Records) \ {{}} : CommitEdit(w, wanted)
    \/ SaveAdmin(w) \/ LoadApprovers(w)

\* No handler runs and nobody asks for one.
Quiet == AllIdle /\ UNCHANGED vars

Next ==
    \/ \E w \in Workers : StartHandler(w) \/ Continue(w) \/ Kill(w)
    \/ \E r \in Records, list \in Lists, sync \in BOOLEAN :
          ChangeList(r, list, sync)
    \/ Quiet

Spec == Init /\ [][Next]_vars

\* A running handler is scheduled until it returns: nothing in the handlers
\* blocks, and the operating system runs every worker process.
FairSpec == Spec /\ \A w \in Workers : WF_vars(Continue(w))

-----------------------------------------------------------------------------
(* What holds whatever the handlers' statements interleave to.             *)

\* No administrator decision on a request its approvers never agreed on: an
\* admin status other than "pending" means that at some moment every approver
\* of the request had approved, stale copies and lost updates included.  There
\* is one way around it: approver rows that come or go between two counts of
\* is_fully_approved (one approval of two, then one row in all).
DecidedOnlyAfterConsent == req.admin # "pending" => everApproved \/ mixedCounts

\* can_approve is checked some time before the row is saved, and lower levels
\* may be reset meanwhile; still nobody has approved before every lower level
\* had approved once (as long as the approvers are those first listed).
NoLevelSkipped ==
    made = 0 =>
        \A u \in WithStatus(rows, "approved") :
            rows[u].order # 1 => Below(rows, rows[u].order) \subseteq approvedOnce

\* A cancellation, a denial or a revocation that is in place when no handler
\* is under way is never undone: only handlers that loaded the request before
\* it can overwrite it.
FinalDecisionsStay ==
    /\ "cancelled" \in final => req.status = "cancelled"
    /\ "denied" \in final => req.admin = "denied"
    /\ "revoked" \in final => req.admin = "granted"

\* Every handler returns: the saving loops end, whatever other handlers do to
\* the rows they save.
HandlersReturn == \A w \in Workers : ~Idle(w) ~> Idle(w)

-----------------------------------------------------------------------------
(* What the code says of itself and an interleaving refutes.               *)

\* Comment at models.py:1889 "do not update the status of cancelled requests".
CancelledStays == [][req.status = "cancelled" => req'.status = "cancelled"]_vars
=============================================================================
