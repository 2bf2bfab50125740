------------------------------ MODULE MCPeople ------------------------------
(* Ann (a) may be assigned issues of p, Bob (b) of p and q; i and j are    *)
(* issues, and the stand-up is looked at for two projects or days, u and w.*)
EXTENDS TeamPages

CONSTANTS p, q, a, b, seed, i, j, u, w

MayBeAssigned == [x \in {p, q} |-> IF x = p THEN {a, b} ELSE {b}]
TrackedAtFirst == MayBeAssigned
Budget(n, r, x, y, z) == [notes |-> n, roles |-> r, users |-> x, links |-> y, rows |-> z]
Requests ==
  [none |-> {Budget(1, 3, 2, 1, 1)}, console |-> {Budget(0, 0, 0, 1, 0)},
   review |-> {Budget(0, 0, 0, 0, 1)}, standup |-> {Budget(0, 0, 0, 0, 0)}]
=============================================================================
