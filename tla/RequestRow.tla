----------------------------- MODULE RequestRow -----------------------------
(***************************************************************************)
(* The row of one access request among workers that load it into objects,  *)
(* decide by what they have loaded, and save their object whole: whoever   *)
(* saves last wins, and nothing else is promised of handlers that overlap. *)
(* AccessApprovalConcurrent is to look like this.                          *)
(***************************************************************************)
CONSTANTS Workers, NoCopy   \* a worker holds no object of the request

VARIABLES
    kind,    \* AccessRequest.request_type
    row,     \* its status and admin_status in the database
    copy     \* and in the object each worker holds

vars == <<kind, row, copy>>

Init ==
    /\ kind \in {"grant", "revoke"}
    /\ row = [status |-> "pending", admin |-> "pending"]
    /\ copy = [w \in Workers |-> NoCopy]

Load(w) ==
    /\ copy[w] = NoCopy
    /\ copy' = [copy EXCEPT ![w] = row]
    /\ UNCHANGED <<kind, row>>

\* The handler is through, has failed, or is killed.
Drop(w) ==
    /\ copy' = [copy EXCEPT ![w] = NoCopy]
    /\ UNCHANGED <<kind, row>>

\* An object that was cancelled when it was loaded is given no new status, and
\* is not saved.
Usable(w) == copy[w] # NoCopy /\ copy[w].status # "cancelled"

Recount(w, s) ==
    /\ Usable(w)
    /\ copy' = [copy EXCEPT ![w].status = s]
    /\ UNCHANGED <<kind, row>>

Save(w) ==
    /\ Usable(w)
    /\ row' = copy[w]
    /\ copy' = [copy EXCEPT ![w] = NoCopy]
    /\ UNCHANGED kind

Cancel(w) ==
    /\ copy[w] # NoCopy /\ copy[w].status = "pending"
    /\ row' = [copy[w] EXCEPT !.status = "cancelled"]
    /\ UNCHANGED <<kind, copy>>

\* Approved when it was loaded, not denied, and not revoked but to say so again.
Decide(w, s) ==
    /\ copy[w] # NoCopy /\ copy[w].status = "approved" /\ copy[w].admin # "denied"
    /\ kind = "revoke" /\ copy[w].admin = "granted" => s = "granted"
    /\ row' = [copy[w] EXCEPT !.admin = s]
    /\ copy' \in {copy, [copy EXCEPT ![w] = NoCopy]}
    /\ UNCHANGED kind

Next ==
    \E w \in Workers :
        \/ Load(w) \/ Drop(w) \/ Save(w) \/ Cancel(w)
        \/ \E s \in {"pending", "approved", "rejected"} : Recount(w, s)
        \/ \E s \in {"pending", "granted", "denied", "in_progress"} : Decide(w, s)

Spec == Init /\ [][Next]_vars
=============================================================================
