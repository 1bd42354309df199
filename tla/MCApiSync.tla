----------------------------- MODULE MCApiSync -----------------------------
(* Instance of ApiSync: two APIs that have a user id in common, and another *)
(* user whom only one of them lists.  A page has one user, so that the one  *)
(* on the second page moves to the first when the other is removed.         *)
EXTENDS ApiSync

CONSTANTS a, b, u1, u2

Both == [u \in {u1, u2} |-> IF u = u1 THEN 1 ELSE 2]
OnlyShared == [u \in {u2} |-> 1]

AnyList == {Both, OnlyShared}
Common == {[c \in {a, b} |-> IF c = a THEN Both ELSE OnlyShared]}
=============================================================================
