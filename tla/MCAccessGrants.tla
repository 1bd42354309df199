--------------------------- MODULE MCAccessGrants ---------------------------
(* Small instances of AccessGrants: the numbers of users, third parties,     *)
(* records and requests are in the configurations.                           *)
EXTENDS AccessGrants, TLC

Symmetric ==
    Permutations(Users) \cup Permutations(Records) \cup
    Permutations(Submitters) \cup Permutations(Parties) \cup Permutations(Workers)
=============================================================================
