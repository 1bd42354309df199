-------------------------- MODULE MCAccessApproval --------------------------
(* A small instance of AccessApproval: three users, two levels, and approver *)
(* lists of every shape these leave.                                         *)
EXTENDS AccessApproval

CONSTANTS ann, bob, eve

\* The list with ann on level a, bob on level b and eve on level e.
Listing(a, b, e) ==
    [u \in {ann, bob, eve} |-> CASE u = ann -> a [] u = bob -> b [] u = eve -> e]

\* Nobody; one user; only level 2; one after the other; another pair the other
\* way round; two on level 1 and one above; one on level 1 and two above.
ListShapes ==
    {Listing(0, 0, 0), Listing(1, 0, 0), Listing(0, 2, 0), Listing(1, 2, 0),
     Listing(0, 2, 1), Listing(1, 1, 2), Listing(1, 2, 2)}
=============================================================================
