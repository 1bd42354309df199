---------------------- MODULE MCAccessApprovalConcurrent ----------------------
(* Small instances of AccessApprovalConcurrent: two approvers on two levels  *)
(* or on one, or a single one, and interchangeable workers.                  *)
EXTENDS AccessApprovalRow, TLC

CONSTANTS ann, bob

Chain == [u \in {ann, bob} |-> IF u = ann THEN 1 ELSE 2]
Peers == [u \in {ann, bob} |-> 1]
OnlyBob == [u \in {ann, bob} |-> IF u = bob THEN 1 ELSE 0]

ChainOrBob == {Chain, OnlyBob}
AllShapes == {Chain, Peers, OnlyBob}

WorkerSymmetry == Permutations(Workers)
=============================================================================
