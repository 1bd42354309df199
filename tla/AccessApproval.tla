--------------------------- MODULE AccessApproval ---------------------------
(***************************************************************************)
(* The approval workflow of one access request (app_access), every HTTP    *)
(* handler taken as one indivisible step: what the workflow promises when  *)
(* two requests never overlap.  AccessApprovalConcurrent splits the same   *)
(* handlers into their database statements.                                *)
(*                                                                         *)
(* The request asks for (or revokes) access to the records in `records`.   *)
(* Its approver rows are copied from the approver lists of these records;  *)
(* the lists themselves can be edited while the request is being decided.  *)
(***************************************************************************)
EXTENDS ApproverRows, FiniteSets

VARIABLES
    kind,       \* AccessRequest.request_type
    records,    \* AccessRequest.access_records
    status,     \* AccessRequest.status
    admin,      \* AccessRequest.admin_status
    expired,    \* AccessRequest.is_period_expired
    rows,       \* AccessRequest.request_approvers
    lists       \* SystemAccess.approvers of every record

vars == <<kind, records, status, admin, expired, rows, lists>>

AdminStatuses == {"pending", "granted", "denied", "in_progress"}

TypeOK ==
    /\ kind \in {"grant", "revoke"}
    /\ records \in (SUBSET Records) \ {{}}
    /\ status \in Decisions
    /\ admin \in AdminStatuses
    /\ expired \in BOOLEAN
    /\ rows \in [Approvers -> Row]
    /\ lists \in [Records -> Lists]

-----------------------------------------------------------------------------
(* The request as it is submitted.                                         *)

\* submit_access_request: the approvers of accessible_records.first(), which
\* is the record modified last (SystemAccess.Meta.ordering), hence any.
SubmitGrant ==
    /\ kind = "grant"
    /\ \E first \in records : rows = CopyList(lists[first], first)

\* handle_granular_revoke_request: the approvers of all selected records,
\* most recently modified record first; get_or_create keeps the first row.
SubmitRevoke ==
    /\ kind = "revoke"
    /\ \E age \in [records -> 1..Cardinality(records)],
          from \in [Approvers -> records] :
        /\ \A q, r \in records : age[q] = age[r] => q = r
        /\ \A u \in Approvers, r \in records :
              lists[r][u] # 0 => /\ lists[from[u]][u] # 0
                                 /\ age[from[u]] <= age[r]
        /\ rows = [u \in Approvers |-> CopyOf(lists[from[u]], from[u], u)]

Init ==
    /\ kind \in {"grant", "revoke"}
    /\ records \in (SUBSET Records) \ {{}}
    /\ lists \in [Records -> Lists]
    /\ status = "pending"
    /\ admin = "pending"
    /\ expired = FALSE
    /\ SubmitGrant \/ SubmitRevoke

-----------------------------------------------------------------------------
(* Handlers of the requester and of the approvers.                         *)

\* Variant: the status of the request is not looked at.
LevelAllows(u, s) == s \in {"approved", "rejected"} => CanApprove(rows, u)

\* What AccessRequestApprover.set_status checks.
MaySetStatus(u, s) ==
    /\ status # "cancelled"
    /\ s \in {"approved", "rejected"} => CanApprove(rows, u)

\* set_approver_status: u (or an owner for u) decides s.
SetApproverStatus(u, s) ==
    /\ u \in Present(rows)
    /\ MaySetStatus(u, s)
    /\ rows' = Decide(rows, u, s)
    /\ status' = StatusFrom(rows')
    /\ UNCHANGED <<kind, records, admin, expired, lists>>

\* cancel_access_request by the requester: can_be_cancelled, cancel_request.
CancelRequest ==
    /\ status = "pending"
    /\ SomeNotApproved(rows)
    /\ status' = "cancelled"
    /\ rows' = Mark(rows, WithStatus(rows, "pending"), "cancelled")
    /\ UNCHANGED <<kind, records, admin, expired, lists>>

\* AccessRequest.can_be_edited
CanBeEdited ==
    /\ kind = "grant"
    /\ status = "pending"
    /\ WithStatus(rows, "approved") = {}

\* Variant: records_changed is computed after access_records.set().
RowsKept(wanted) == {rows}

\* The approver rows after the edit: if other records are wanted, they are
\* rebuilt from one of these.
RowsAfterEdit(wanted) ==
    IF wanted = records THEN {rows}
                        ELSE {CopyList(lists[first], first) : first \in wanted}

\* edit_access_request: new records wanted.  A changed period ends later.
EditRequest(wanted) ==
    /\ CanBeEdited
    /\ records' = wanted
    /\ expired' \in {expired, FALSE}
    /\ rows' \in RowsAfterEdit(wanted)
    /\ UNCHANGED <<kind, status, admin, lists>>

-----------------------------------------------------------------------------
(* Handlers of the administrators.                                         *)

\* set_admin_status; what "granted" does to the access records is the
\* subject of AccessGrants.
SetAdminStatus(s) ==
    /\ status = "approved"
    /\ admin # "denied"
    /\ expired => s \notin {"granted", "in_progress"}
    /\ kind = "revoke" /\ admin = "granted" => s = "granted"
    /\ admin' = s
    /\ rows' = IF s = "granted" /\ admin # "granted"
               THEN Mark(rows, WithStatus(rows, "pending"), "approved")
               ELSE rows
    /\ UNCHANGED <<kind, records, status, expired, lists>>

\* update_access_record_approvers: record r gets a new approver list.
UpdateRecordApprovers(r, list) ==
    /\ lists' = [lists EXCEPT ![r] = list]
    /\ rows' = IF status = "pending" /\ r \in records
               THEN Synced(Cascade(rows, r), list, r)
               ELSE Cascade(rows, r)
    /\ UNCHANGED <<kind, records, status, admin, expired>>

\* update_access_approvers, save_access_approvers and the access record
\* form: the list is replaced and no request is synchronised.
ReplaceRecordApprovers(r, list) ==
    /\ lists' = [lists EXCEPT ![r] = list]
    /\ rows' = Cascade(rows, r)
    /\ UNCHANGED <<kind, records, status, admin, expired>>

\* timezone.now() passes end_date.
PeriodEnds ==
    /\ ~expired
    /\ expired' = TRUE
    /\ UNCHANGED <<kind, records, status, admin, rows, lists>>

-----------------------------------------------------------------------------
Next ==
    \/ \E u \in Approvers, s \in Decisions : SetApproverStatus(u, s)
    \/ CancelRequest
    \/ \E wanted \in (SUBSET Records) \ {{}} : EditRequest(wanted)
    \/ \E s \in AdminStatuses : SetAdminStatus(s)
    \/ \E r \in Records, list \in Lists : UpdateRecordApprovers(r, list)
    \/ \E r \in Records, list \in Lists : ReplaceRecordApprovers(r, list)
    \/ PeriodEnds

Spec == Init /\ [][Next]_vars

-----------------------------------------------------------------------------
(* What the workflow promises.                                             *)

\* A request counts as approved only while every approver it still has has
\* approved it: no approver can withdraw, be added or be reset without the
\* request leaving "approved" (set_status, the list handlers, set_admin_status).
ApprovedByAll ==
    status = "approved" => Present(rows) = WithStatus(rows, "approved")

\* A rejection is never hidden by a request that still looks undecided: no
\* handler leaves a rejected row in a pending request, whatever is edited,
\* synchronised or reset in between.
NoHiddenRejection ==
    status = "pending" => WithStatus(rows, "rejected") = {}

\* Levels never lock a request: as long as approvers are left, can_approve
\* lets somebody through who has not approved yet, or all have approved.
SomebodyMayDecide ==
    Present(rows) = WithStatus(rows, "approved")
    \/ \E u \in Present(rows) \ WithStatus(rows, "approved") : CanApprove(rows, u)

\* After cancel_request no handler changes the request or a decision on it;
\* only the deletion of an approver list can take rows away.
CancelledIsFinal ==
    [][status = "cancelled" =>
          /\ status' = "cancelled" /\ admin' = admin /\ records' = records
          /\ \A u \in Approvers : rows'[u] \in {rows[u], Absent}]_vars

\* Whoever decides on a request is an approver of a record it asks for: edits
\* of the request and of the approver lists, in any order, leave no approver
\* of other records behind.
ApproversOfTheRecords == \A u \in Present(rows) : rows[u].source \in records
=============================================================================
