------------------------- MODULE AccessApprovalRow -------------------------
(***************************************************************************)
(* AccessApprovalConcurrent implements RequestRow: of all that its workers *)
(* hold, the objects of the request are looked at.                         *)
(***************************************************************************)
EXTENDS AccessApprovalConcurrent

Objects == INSTANCE RequestRow WITH
    NoCopy <- NotFetched, row <- req, copy <- [w \in Workers |-> mem[w].req]

\* However handlers interleave and workers are killed, the request row is only
\* ever overwritten with what a handler has loaded, decided on its own copy: a
\* copy that was cancelled is never saved, one not approved never decided, one
\* denied never decided again.
ImplementsRow == Objects!Spec
=============================================================================
