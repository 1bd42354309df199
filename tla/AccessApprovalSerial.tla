------------------------ MODULE AccessApprovalSerial ------------------------
(***************************************************************************)
(* AccessApprovalConcurrent with handlers that do not overlap (one worker, *)
(* none killed) implements AccessApproval: the statements of a handler add *)
(* up to the handler's one step.  `before` keeps the database as it was    *)
(* when no handler was running; that is the state AccessApproval sees, so  *)
(* a handler takes effect when it returns.                                 *)
(***************************************************************************)
EXTENDS AccessApprovalConcurrent

\* One worker, and nobody kills it.
ASSUME SerialAssumption ==
    /\ \E w \in Workers : Workers = {w}
    /\ MaxKills = 0
    /\ IsFiniteSet(Records)

VARIABLE before

Seen == [records |-> records, lists |-> lists, rows |-> rows, req |-> req]

SerialInit == Init /\ before = Seen

SerialNext == Next /\ before' = IF AllIdle' THEN Seen' ELSE before

SerialSpec == SerialInit /\ [][SerialNext]_<<vars, before>>

\* The period never ends here: AccessApprovalConcurrent leaves it out.
Workflow == INSTANCE AccessApproval WITH
    records <- before.records, lists <- before.lists, rows <- before.rows,
    status <- before.req.status, admin <- before.req.admin, expired <- FALSE

\* Run one after the other, the handlers' statements do what AccessApproval
\* says of each handler as a whole: the loops, the two status checks, the
\* cached request and the row-by-row saves of models.py and the views.
ImplementsWorkflow == Workflow!Spec
=============================================================================
