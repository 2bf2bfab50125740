------------------------- MODULE MCSummarySnapshots -------------------------
(* A project with two teammates, Ann and Bob, whose Jira accounts are a1   *)
(* and a2 and whose users u1 and u2.  At first a1 is tracked and linked.   *)
(* The second issue is nobody's; no issue is in a sprint, as the sync      *)
(* stores none (SyncRun).                                                  *)
EXTENDS Reports

TwoNames == <<"Ann", "anon", "Bob">>

TwoTeammates ==
  [issue     |-> [i \in {1, 2} |-> [status |-> "In Progress", closed |-> FALSE, updated |-> 13,
                                   assignee |-> IF i = 1 THEN "a1" ELSE "n2", mood |-> 30,
                                   created |-> 3 * i, sprint |-> NoOne, type |-> IF i = 1 THEN "Production defect" ELSE "Story",
                                   foreignLinks |-> i]],
   sprint    |-> <<>>,
   worklogs  |-> {}, comments |-> {}, absences |-> {},
   profiles  |-> {"a1", "a2"}, handles |-> [a \in {"a1", "a2"} |-> {a}],
   anonymous |-> <<"n1", "n2">>, tracked |-> {"a1"},
   link      |-> [u1 |-> "a1", u2 |-> NoOne],
   name      |-> [a1 |-> "Ann", u1 |-> "Ann", a2 |-> "Bob", u2 |-> "Bob", n1 |-> "anon", n2 |-> "anon"]]

Moves == {"To Do", "Blocked", "On Hold", "Done"}
=============================================================================
