---------------------------- MODULE ApproverRows ----------------------------
(***************************************************************************)
(* The AccessRequestApprover rows of ONE access request as a value, and    *)
(* the questions app_access/models.py asks of them.                        *)
(*                                                                         *)
(* An AccessRequestApprover row is keyed by the cabinet user (the table is *)
(* unique on (access_request, cabinet_user)), so the rows of a request are *)
(* a function from Approvers; a user without a row has status "absent".    *)
(* A row remembers its level ("order") and the access record whose         *)
(* AccessApprover row it references ("source").                            *)
(***************************************************************************)
EXTENDS Naturals

CONSTANTS
    Approvers,  \* cabinet users that may be listed as approvers
    Records,    \* SystemAccess records
    MaxLevel,   \* highest approval level (AccessApprover.MAX_APPROVAL_LEVELS)
    Lists       \* the approver lists an administrator may save on a record

Levels == 1..MaxLevel
Decisions == {"pending", "approved", "rejected", "cancelled"}

\* An approver list gives every listed user a level and every other user 0.
ASSUME LevelAssumption == MaxLevel \in Nat \ {0}
ASSUME NonemptyAssumption == Records # {} /\ Approvers # {}
ASSUME ListsAssumption == Lists \subseteq [Approvers -> 0..MaxLevel]

Row == [status : Decisions \cup {"absent"}, order : Levels, source : Records]

\* What stands for a missing row; its level and source mean nothing.
Absent == [status |-> "absent", order |-> 1, source |-> CHOOSE r \in Records : TRUE]

-----------------------------------------------------------------------------
(* Queries on request_approvers.                                           *)

Present(rows) == {u \in Approvers : rows[u].status # "absent"}

WithStatus(rows, s) == {u \in Approvers : rows[u].status = s}

\* Variant: order__lte, an approver waits for its own level and itself.
NotAbove(rows, level) == {v \in Present(rows) : rows[v].order <= level}

\* order__lt=self.order
Below(rows, level) == {v \in Present(rows) : rows[v].order < level}

\* Variant: only a rejection on a lower level keeps a level closed.
OpenUnlessRejected(rows, level) ==
    Below(rows, level) \cap WithStatus(rows, "rejected") = {}

\* AccessRequestApprover.can_approve for a row of this level
LevelOpen(rows, level) ==
    \/ level = 1
    \/ Below(rows, level) \subseteq WithStatus(rows, "approved")

CanApprove(rows, u) == LevelOpen(rows, rows[u].order)

\* Variant: one approval is enough.
SomeApproved(rows) == WithStatus(rows, "approved") # {}

\* AccessRequest.is_fully_approved: count > 0 and approved count = count
FullyApproved(rows) ==
    /\ Present(rows) # {}
    /\ Present(rows) = WithStatus(rows, "approved")

\* AccessRequest.can_be_cancelled: the part asked of the approver rows
SomeNotApproved(rows) == Present(rows) # WithStatus(rows, "approved")

\* Variant: a rejected approver is one that has not approved yet.
StatusFromApprovals(rows) ==
    IF FullyApproved(rows) THEN "approved" ELSE "pending"

\* AccessRequest.update_request_status for a request that is not cancelled
StatusFrom(rows) ==
    IF WithStatus(rows, "rejected") # {} THEN "rejected"
    ELSE IF FullyApproved(rows) THEN "approved" ELSE "pending"

-----------------------------------------------------------------------------
(* Updates of request_approvers.                                           *)

\* The users in who get status s, the other rows stay as they are.
Mark(rows, who, s) ==
    [u \in Approvers |-> IF u \in who THEN [rows[u] EXCEPT !.status = s]
                                      ELSE rows[u]]

\* _reject_all_pending_approvers: u rejects, every other pending row stops.
Reject(rows, u) ==
    Mark(Mark(rows, {u}, "rejected"), WithStatus(rows, "pending") \ {u},
         "cancelled")

\* AccessRequestApprover.set_status on the rows
Decide(rows, u, s) ==
    IF s = "rejected" THEN Reject(rows, u) ELSE Mark(rows, {u}, s)

\* The pending row that an approver list of record r gives to user u.
CopyOf(list, r, u) ==
    IF list[u] = 0 THEN Absent
    ELSE [status |-> "pending", order |-> list[u], source |-> r]

CopyList(list, r) == [u \in Approvers |-> CopyOf(list, r, u)]

Listed(list) == {u \in Approvers : list[u] # 0}

\* Variant: on_delete=SET_NULL, the rows outlive the list.
SetNull(rows, r) ==
    [u \in Approvers |-> IF rows[u].source = r
                         THEN [rows[u] EXCEPT !.source = "none"] ELSE rows[u]]

\* on_delete=CASCADE of AccessRequestApprover.access_approver: deleting the
\* AccessApprover rows of record r deletes the rows that reference them.
Cascade(rows, r) ==
    [u \in Approvers |-> IF rows[u].source = r THEN Absent ELSE rows[u]]

\* The sync of a pending request in update_access_record_approvers: pending
\* rows of unlisted users stop, levels follow the list, missing rows appear.
Synced(remaining, list, r) ==
    [u \in Approvers |->
        IF remaining[u] = Absent THEN CopyOf(list, r, u)
        ELSE IF list[u] # 0 THEN [remaining[u] EXCEPT !.order = list[u]]
        ELSE IF remaining[u].status = "pending"
             THEN [remaining[u] EXCEPT !.status = "cancelled"]
             ELSE remaining[u]]
=============================================================================
