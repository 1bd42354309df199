------------------------ MODULE AccessApproval_proofs ------------------------
(***************************************************************************)
(* Proofs about AccessApproval, for every set of approvers and records and *)
(* every approver list.                                                    *)
(***************************************************************************)
EXTENDS AccessApproval, TLAPS

-----------------------------------------------------------------------------
(* The operators of ApproverRows take rows to rows.                        *)

\* What stands for a missing row is a row.
LEMMA AbsentType == Absent \in Row
BY NonemptyAssumption, LevelAssumption DEF Absent, Row, Levels

\* Changing a status to one a row can have keeps the rows well-typed.
LEMMA MarkType ==
    ASSUME NEW rs \in [Approvers -> Row], NEW who, NEW s \in Decisions
    PROVE  Mark(rs, who, s) \in [Approvers -> Row]
BY DEF Mark, Row

\* The row an approver list gives to a user is a row.
LEMMA CopyType ==
    ASSUME NEW list \in Lists, NEW r \in Records, NEW u \in Approvers
    PROVE  CopyOf(list, r, u) \in Row
<1>1. list[u] \in 0..MaxLevel
  BY ListsAssumption
<1>2. CASE list[u] = 0
  BY <1>2, AbsentType DEF CopyOf
<1>3. CASE list[u] # 0
  <2>1. list[u] \in Levels
    BY <1>1, <1>3, LevelAssumption DEF Levels
  <2>2. QED
    BY <1>3, <2>1 DEF CopyOf, Row, Decisions
<1>4. QED
  BY <1>2, <1>3

\* Deleting the approver list of a record keeps the rows well-typed.
LEMMA CascadeType ==
    ASSUME NEW rs \in [Approvers -> Row], NEW r
    PROVE  Cascade(rs, r) \in [Approvers -> Row]
BY AbsentType DEF Cascade

\* So does synchronising a pending request with a list.
LEMMA SyncedType ==
    ASSUME NEW rs \in [Approvers -> Row], NEW list \in Lists, NEW r \in Records
    PROVE  Synced(rs, list, r) \in [Approvers -> Row]
<1> SUFFICES ASSUME NEW u \in Approvers PROVE Synced(rs, list, r)[u] \in Row
  BY DEF Synced
<1>1. CopyOf(list, r, u) \in Row
  BY CopyType
<1>2. list[u] # 0 => list[u] \in Levels
  BY ListsAssumption, LevelAssumption DEF Levels
<1>3. rs[u] \in Row
  OBVIOUS
<1>4. list[u] # 0 => [rs[u] EXCEPT !.order = list[u]] \in Row
  BY <1>2, <1>3 DEF Row
<1>5. [rs[u] EXCEPT !.status = "cancelled"] \in Row
  BY <1>3 DEF Row, Decisions
<1>6. QED
  BY <1>1, <1>3, <1>4, <1>5 DEF Synced

-----------------------------------------------------------------------------
\* Every variable keeps its type.
THEOREM TypeCorrect == Spec => []TypeOK
<1>1. Init => TypeOK
  <2> SUFFICES ASSUME Init PROVE TypeOK
    OBVIOUS
  <2>1. SubmitGrant => rows \in [Approvers -> Row]
    BY CopyType DEF Init, SubmitGrant, CopyList
  <2>2. SubmitRevoke => rows \in [Approvers -> Row]
    BY CopyType DEF Init, SubmitRevoke
  <2>3. QED
    BY <2>1, <2>2 DEF Init, TypeOK, Decisions, AdminStatuses
<1>2. TypeOK /\ [Next]_vars => TypeOK'
  <2> SUFFICES ASSUME TypeOK, [Next]_vars PROVE TypeOK'
    OBVIOUS
  <2> USE DEF TypeOK
  <2>1. ASSUME NEW u \in Approvers, NEW s \in Decisions, SetApproverStatus(u, s)
        PROVE  TypeOK'
    <3>1. StatusFrom(rows') \in Decisions
      BY DEF StatusFrom, Decisions
    <3>2. Decide(rows, u, s) \in [Approvers -> Row]
      BY MarkType DEF Decide, Reject, Decisions
    <3>3. QED
      BY <2>1, <3>1, <3>2 DEF SetApproverStatus, MaySetStatus
  <2>2. CASE CancelRequest
    BY <2>2, MarkType DEF CancelRequest, Decisions
  <2>3. ASSUME NEW wanted \in (SUBSET Records) \ {{}}, EditRequest(wanted)
        PROVE  TypeOK'
    <3>1. rows' \in [Approvers -> Row]
      BY <2>3, CopyType DEF EditRequest, RowsAfterEdit, CopyList
    <3>2. QED
      BY <2>3, <3>1 DEF EditRequest
  <2>4. ASSUME NEW s \in AdminStatuses, SetAdminStatus(s)
        PROVE  TypeOK'
    BY <2>4, MarkType DEF SetAdminStatus, Decisions
  <2>5. ASSUME NEW r \in Records, NEW list \in Lists,
               UpdateRecordApprovers(r, list) \/ ReplaceRecordApprovers(r, list)
        PROVE  TypeOK'
    <3> DEFINE remaining == Cascade(rows, r)
    <3>a. remaining \in [Approvers -> Row]
      BY CascadeType
    <3>b. Synced(remaining, list, r) \in [Approvers -> Row]
      BY <3>a, SyncedType
    <3>1. rows' \in [Approvers -> Row]
      BY <2>5, <3>a, <3>b DEF UpdateRecordApprovers, ReplaceRecordApprovers
    <3>2. QED
      BY <2>5, <3>1 DEF UpdateRecordApprovers, ReplaceRecordApprovers
  <2>6. CASE PeriodEnds
    BY <2>6 DEF PeriodEnds
  <2>7. CASE UNCHANGED vars
    BY <2>7 DEF vars
  <2>8. QED
    BY <2>1, <2>2, <2>3, <2>4, <2>5, <2>6, <2>7 DEF Next
<1>3. QED
  BY <1>1, <1>2, PTL DEF Spec

-----------------------------------------------------------------------------
(* The status of the request agrees with the decisions of its approvers.   *)
(* The two invariants need no strengthening but the types: update_request_ *)
(* status establishes them, and every handler that changes the rows without*)
(* recomputing the status only removes rows, approves more of them, or     *)
(* works on a pending request without producing a rejection.               *)

\* A recomputed status agrees with the rows it was computed from.
LEMMA StatusFromAgrees ==
    ASSUME NEW rs \in [Approvers -> Row]
    PROVE  /\ StatusFrom(rs) = "approved" => Present(rs) = WithStatus(rs, "approved")
           /\ StatusFrom(rs) = "pending" => WithStatus(rs, "rejected") = {}
BY DEF StatusFrom, FullyApproved

\* An approver list gives nobody a decision.
LEMMA CopyUndecided ==
    ASSUME NEW list \in Lists, NEW r \in Records, NEW u \in Approvers
    PROVE  CopyOf(list, r, u).status \in {"pending", "absent"}
BY DEF CopyOf, Absent

\* An approved request has been approved by every approver it has, and a
\* pending request has no rejection, in every reachable state.
THEOREM StatusAgrees == Spec => [](ApprovedByAll /\ NoHiddenRejection)
<1>1. Init => ApprovedByAll /\ NoHiddenRejection
  <2> SUFFICES ASSUME Init PROVE ApprovedByAll /\ NoHiddenRejection
    OBVIOUS
  <2> DEFINE Undecided == \A u \in Approvers : rows[u].status \in {"pending", "absent"}
  <2>1. SubmitGrant => Undecided
    BY CopyUndecided DEF Init, SubmitGrant, CopyList
  <2>2. SubmitRevoke => Undecided
    <3> SUFFICES ASSUME SubmitRevoke, NEW u \in Approvers
                 PROVE  rows[u].status \in {"pending", "absent"}
      OBVIOUS
    <3>1. PICK from \in [Approvers -> records] :
            rows = [v \in Approvers |-> CopyOf(lists[from[v]], from[v], v)]
      BY DEF SubmitRevoke
    <3>2. from[u] \in Records /\ lists[from[u]] \in Lists
      BY <3>1 DEF Init
    <3>3. QED
      BY <3>1, <3>2, CopyUndecided
  <2>3. status = "pending" /\ Undecided
    BY <2>1, <2>2 DEF Init
  <2>4. QED
    BY <2>3 DEF ApprovedByAll, NoHiddenRejection, WithStatus
<1>2. /\ TypeOK /\ TypeOK' /\ ApprovedByAll /\ NoHiddenRejection
      /\ [Next]_vars
      => ApprovedByAll' /\ NoHiddenRejection'
  <2> SUFFICES ASSUME TypeOK, TypeOK', ApprovedByAll, NoHiddenRejection,
                      [Next]_vars
               PROVE  ApprovedByAll' /\ NoHiddenRejection'
    OBVIOUS
  <2>1. ASSUME NEW u \in Approvers, NEW s \in Decisions, SetApproverStatus(u, s)
        PROVE  ApprovedByAll' /\ NoHiddenRejection'
    <3>1. rows' \in [Approvers -> Row]
      BY DEF TypeOK
    <3>2. status' = StatusFrom(rows')
      BY <2>1 DEF SetApproverStatus, MaySetStatus
    <3>3. QED
      BY <3>1, <3>2, StatusFromAgrees DEF ApprovedByAll, NoHiddenRejection
  <2>2. CASE CancelRequest
    BY <2>2 DEF CancelRequest, ApprovedByAll, NoHiddenRejection
  <2>3. ASSUME NEW wanted \in (SUBSET Records) \ {{}}, EditRequest(wanted)
        PROVE  ApprovedByAll' /\ NoHiddenRejection'
    <3>1. status = "pending" /\ status' = "pending"
      BY <2>3 DEF EditRequest, CanBeEdited
    <3>2. WithStatus(rows', "rejected") = {}
      <4>1. CASE wanted = records
        BY <2>3, <3>1, <4>1 DEF EditRequest, RowsAfterEdit, NoHiddenRejection
      <4>2. CASE wanted # records
        <5>1. PICK first \in wanted : rows' = CopyList(lists[first], first)
          BY <2>3, <4>2 DEF EditRequest, RowsAfterEdit
        <5>2. first \in Records /\ lists[first] \in Lists
          BY DEF TypeOK
        <5>3. QED
          BY <5>1, <5>2, CopyUndecided DEF CopyList, WithStatus
      <4>3. QED
        BY <4>1, <4>2
    <3>3. QED
      BY <3>1, <3>2 DEF ApprovedByAll, NoHiddenRejection
  <2>4. ASSUME NEW s \in AdminStatuses, SetAdminStatus(s)
        PROVE  ApprovedByAll' /\ NoHiddenRejection'
    <3>1. status = "approved" /\ status' = "approved"
      BY <2>4 DEF SetAdminStatus
    <3>2. \A u \in Approvers : rows[u].status \in {"approved", "absent"}
      BY <3>1 DEF TypeOK, ApprovedByAll, Present, WithStatus
    <3>3. \A u \in Approvers : rows'[u].status \in {"approved", "absent"}
      BY <2>4, <3>2 DEF SetAdminStatus, Mark, WithStatus, TypeOK
    <3>4. QED
      BY <3>1, <3>3 DEF ApprovedByAll, NoHiddenRejection, Present, WithStatus
  <2>5. ASSUME NEW r \in Records, NEW list \in Lists,
               UpdateRecordApprovers(r, list) \/ ReplaceRecordApprovers(r, list)
        PROVE  ApprovedByAll' /\ NoHiddenRejection'
    <3> DEFINE remaining == Cascade(rows, r)
    <3>1. status' = status
      BY <2>5 DEF UpdateRecordApprovers, ReplaceRecordApprovers
    <3>2. \A u \in Approvers :
            remaining[u] = rows[u] \/ remaining[u].status = "absent"
      BY DEF Cascade, Absent
    <3>3. CASE rows' = remaining
      BY <3>1, <3>2, <3>3
      DEF ApprovedByAll, NoHiddenRejection, Present, WithStatus
    <3>4. CASE status = "pending" /\ rows' = Synced(remaining, list, r)
      <4> HIDE DEF remaining
      <4>1. \A u \in Approvers : rows[u] \in Row /\ rows[u].status # "rejected"
        BY <3>4 DEF TypeOK, NoHiddenRejection, WithStatus
      <4>2. remaining \in [Approvers -> Row]
        BY CascadeType DEF remaining, TypeOK
      <4>3. \A u \in Approvers : Synced(remaining, list, r)[u].status # "rejected"
        <5> TAKE u \in Approvers
        <5>1. CopyOf(list, r, u).status # "rejected"
          BY CopyUndecided
        <5>2. remaining[u].status # "rejected"
          BY <3>2, <4>1
        <5>3. [remaining[u] EXCEPT !.order = list[u]].status # "rejected"
          BY <4>2, <5>2 DEF Row
        <5>4. [remaining[u] EXCEPT !.status = "cancelled"].status # "rejected"
          BY <4>2 DEF Row
        <5>5. QED
          BY <5>1, <5>2, <5>3, <5>4 DEF Synced
      <4>4. QED
        BY <3>1, <3>4, <4>3 DEF ApprovedByAll, NoHiddenRejection, WithStatus
    <3>5. QED
      BY <2>5, <3>3, <3>4 DEF UpdateRecordApprovers, ReplaceRecordApprovers
  <2>6. CASE PeriodEnds
    BY <2>6 DEF PeriodEnds, ApprovedByAll, NoHiddenRejection
  <2>7. CASE UNCHANGED vars
    BY <2>7 DEF vars, ApprovedByAll, NoHiddenRejection
  <2>8. QED
    BY <2>1, <2>2, <2>3, <2>4, <2>5, <2>6, <2>7 DEF Next
<1>3. QED
  BY <1>1, <1>2, TypeCorrect, PTL DEF Spec

-----------------------------------------------------------------------------
(* The approvers of a request are approvers of its records.  The handlers   *)
(* that add rows take them from a record of the request; the others keep    *)
(* the source of every row or delete the row.                               *)

\* The rows of an approver list of record r come from record r.
LEMMA CopySource ==
    ASSUME NEW list, NEW r, NEW u
    PROVE  CopyOf(list, r, u).status # "absent" => CopyOf(list, r, u).source = r
BY DEF CopyOf, Absent

\* A step that keeps the records and the sources of the rows it leaves keeps
\* the invariant.
LEMMA SourcesKept ==
    ASSUME ApproversOfTheRecords, records' = records,
           \A u \in Approvers :
              \/ rows'[u].status = "absent"
              \/ rows'[u].source \in records
              \/ rows[u].status # "absent" /\ rows'[u].source = rows[u].source
    PROVE  ApproversOfTheRecords'
BY DEF ApproversOfTheRecords, Present

\* Nobody decides on a request who is not an approver of a record it asks for,
\* whatever is edited in the request or in the approver lists.
THEOREM ApproversBelong == Spec => []ApproversOfTheRecords
<1>1. Init => ApproversOfTheRecords
  <2> SUFFICES ASSUME Init PROVE ApproversOfTheRecords
    OBVIOUS
  <2>1. CASE SubmitGrant
    <3>1. PICK first \in records : rows = CopyList(lists[first], first)
      BY <2>1 DEF SubmitGrant
    <3>2. QED
      BY <3>1, CopySource DEF CopyList, ApproversOfTheRecords, Present
  <2>2. CASE SubmitRevoke
    <3>1. PICK from \in [Approvers -> records] :
            rows = [v \in Approvers |-> CopyOf(lists[from[v]], from[v], v)]
      BY <2>2 DEF SubmitRevoke
    <3>2. QED
      BY <3>1, CopySource DEF ApproversOfTheRecords, Present
  <2>3. QED
    BY <2>1, <2>2 DEF Init
<1>2. TypeOK /\ ApproversOfTheRecords /\ [Next]_vars => ApproversOfTheRecords'
  <2> SUFFICES ASSUME TypeOK, ApproversOfTheRecords, [Next]_vars
               PROVE  ApproversOfTheRecords'
    OBVIOUS
  <2> DEFINE SameSources ==
               \A u \in Approvers : /\ rows'[u].source = rows[u].source
                                    /\ rows'[u].status = "absent" \/ rows[u].status # "absent"
  <2>0. \A who, s : \A u \in Approvers :
           /\ Mark(rows, who, s)[u].source = rows[u].source
           /\ u \notin who => Mark(rows, who, s)[u] = rows[u]
    BY DEF Mark, TypeOK, Row
  <2>1. ASSUME NEW u \in Approvers, NEW s \in Decisions, SetApproverStatus(u, s)
        PROVE  ApproversOfTheRecords'
    <3>1. u \in Present(rows) /\ rows' = Decide(rows, u, s) /\ records' = records
      BY <2>1 DEF SetApproverStatus
    <3>2. SameSources
      BY <3>1 DEF Decide, Reject, Mark, Present, WithStatus, TypeOK, Row
    <3>3. QED
      BY <3>1, <3>2, SourcesKept
  <2>2. CASE CancelRequest
    BY <2>2, <2>0, SourcesKept DEF CancelRequest, WithStatus
  <2>3. ASSUME NEW wanted \in (SUBSET Records) \ {{}}, EditRequest(wanted)
        PROVE  ApproversOfTheRecords'
    <3>1. CASE wanted = records
      BY <2>3, <3>1 DEF EditRequest, RowsAfterEdit, ApproversOfTheRecords
    <3>2. CASE wanted # records
      <4>1. PICK first \in wanted : rows' = CopyList(lists[first], first)
        BY <2>3, <3>2 DEF EditRequest, RowsAfterEdit
      <4>2. records' = wanted
        BY <2>3 DEF EditRequest
      <4>3. QED
        BY <4>1, <4>2, CopySource DEF CopyList, ApproversOfTheRecords, Present
    <3>3. QED
      BY <3>1, <3>2
  <2>4. ASSUME NEW s \in AdminStatuses, SetAdminStatus(s)
        PROVE  ApproversOfTheRecords'
    BY <2>4, <2>0, SourcesKept DEF SetAdminStatus, WithStatus
  <2>5. ASSUME NEW r \in Records, NEW list \in Lists,
               UpdateRecordApprovers(r, list) \/ ReplaceRecordApprovers(r, list)
        PROVE  ApproversOfTheRecords'
    <3> DEFINE remaining == Cascade(rows, r)
    <3>1. records' = records
      BY <2>5 DEF UpdateRecordApprovers, ReplaceRecordApprovers
    <3>2. \A u \in Approvers :
            remaining[u].status = "absent" \/ remaining[u] = rows[u]
      BY DEF Cascade, Absent
    <3>3. CASE rows' = remaining
      BY <3>1, <3>2, <3>3, SourcesKept
    <3>4. CASE r \in records /\ rows' = Synced(remaining, list, r)
      <4>1. remaining \in [Approvers -> Row]
        BY CascadeType DEF TypeOK
      <4> HIDE DEF remaining
      <4>2. ASSUME NEW u \in Approvers
            PROVE  \/ rows'[u].status = "absent"
                   \/ rows'[u].source \in records
                   \/ rows[u].status # "absent" /\ rows'[u].source = rows[u].source
        <5>1. CASE remaining[u] = Absent
          BY <3>4, <5>1, CopySource DEF Synced
        <5>2. CASE remaining[u] # Absent /\ remaining[u].status = "absent"
          BY <3>4, <4>1, <5>2 DEF Synced, Row
        <5>3. CASE remaining[u].status # "absent"
          <6>1. remaining[u] = rows[u] /\ remaining[u] # Absent
            BY <3>2, <5>3 DEF Absent
          <6>2. rows'[u].source = remaining[u].source
            BY <3>4, <4>1, <6>1 DEF Synced, Row
          <6>3. QED
            BY <5>3, <6>1, <6>2
        <5>4. QED
          BY <5>1, <5>2, <5>3
      <4>3. QED
        BY <3>1, <4>2, SourcesKept
    <3>5. QED
      BY <2>5, <3>3, <3>4 DEF UpdateRecordApprovers, ReplaceRecordApprovers
  <2>6. CASE PeriodEnds
    BY <2>6 DEF PeriodEnds, ApproversOfTheRecords
  <2>7. CASE UNCHANGED vars
    BY <2>7 DEF vars, ApproversOfTheRecords
  <2>8. QED
    BY <2>1, <2>2, <2>3, <2>4, <2>5, <2>6, <2>7 DEF Next
<1>3. QED
  BY <1>1, <1>2, TypeCorrect, PTL DEF Spec

-----------------------------------------------------------------------------
\* A cancelled request is final: a step from a cancelled state keeps the
\* request and its decisions, list deletions apart.  No invariant is needed:
\* the guards of the handlers exclude each other.
THEOREM CancelledFinal == Spec => CancelledIsFinal
<1> DEFINE Kept == /\ status' = "cancelled" /\ admin' = admin /\ records' = records
                   /\ \A u \in Approvers : rows'[u] \in {rows[u], Absent}
<1>1. ASSUME status = "cancelled", [Next]_vars
      PROVE  Kept
  <2>1. \A u \in Approvers, s \in Decisions : ~SetApproverStatus(u, s)
    BY <1>1 DEF SetApproverStatus, MaySetStatus
  <2>2. ~CancelRequest
    BY <1>1 DEF CancelRequest
  <2>3. \A wanted \in (SUBSET Records) \ {{}} : ~EditRequest(wanted)
    BY <1>1 DEF EditRequest, CanBeEdited
  <2>4. \A s \in AdminStatuses : ~SetAdminStatus(s)
    BY <1>1 DEF SetAdminStatus
  <2>5. ASSUME NEW r \in Records, NEW list \in Lists,
               UpdateRecordApprovers(r, list) \/ ReplaceRecordApprovers(r, list)
        PROVE  Kept
    <3>1. rows' = Cascade(rows, r)
      BY <1>1, <2>5 DEF UpdateRecordApprovers, ReplaceRecordApprovers
    <3>2. QED
      BY <1>1, <2>5, <3>1
      DEF UpdateRecordApprovers, ReplaceRecordApprovers, Cascade
  <2>6. CASE PeriodEnds
    BY <1>1, <2>6 DEF PeriodEnds
  <2>7. CASE UNCHANGED vars
    BY <1>1, <2>7 DEF vars
  <2>8. QED
    BY <1>1, <2>1, <2>2, <2>3, <2>4, <2>5, <2>6, <2>7 DEF Next
<1>2. [Next]_vars => [status = "cancelled" => Kept]_vars
  BY <1>1
<1>3. QED
  BY <1>2, PTL DEF Spec, CancelledIsFinal

=============================================================================
