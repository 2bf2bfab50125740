----------------------------- MODULE MCSyncRun ------------------------------
(* Two issues: Ann (a1), who is tracked at first, works on i1 and Bob (a2) *)
(* on i2.                                                                  *)
EXTENDS SyncRun

CONSTANTS a1, a2, i1, i2

People == [i \in {i1, i2} |-> IF i = i1 THEN {a1} ELSE {a2}]

Joins == {<<i1, a1>>, <<i2, a1>>}
NoWish == [full |-> FALSE, asked |-> None, days |-> None]
Asked == {NoWish, [NoWish EXCEPT !.days = 0], [NoWish EXCEPT !.days = -1, !.asked = {a2}]}
Chosen == {{}, {a1, a2}}
West == -2
=============================================================================
