----------------------- MODULE MCAccessApprovalSerial -----------------------
(* One worker, two records, lists of two approvers in three shapes.          *)
EXTENDS AccessApprovalSerial

CONSTANTS ann, bob

SomeLists ==
    {[u \in {ann, bob} |-> IF u = ann THEN 1 ELSE 2],
     [u \in {ann, bob} |-> 1],
     [u \in {ann, bob} |-> IF u = bob THEN 1 ELSE 0]}
=============================================================================
