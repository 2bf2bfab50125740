----------------------------- MODULE TeamPages ------------------------------
(***************************************************************************)
(* The pages of People at work on one API.  A behaviour follows one tab,   *)
(* that of the console, of the review page or of the stand-up, or none; of *)
(* the others, in somebody else's hands, only the requests are seen.       *)
(***************************************************************************)
EXTENDS ImportUsers, ReviewView, StandupPage

CONSTANT Budgets  \* bound: per tab, how many requests of others there may be, by what they are about

VARIABLES
  tab,      \* "console", "review", "standup" or "none": the page that is followed
  requests  \* what is left of the budget for requests of others

vars == <<server, console, reviewing, standup, tab, requests>>

Init ==
  /\ ServerInit /\ ConsoleInit
  /\ tab \in {"console", "review", "standup", "none"} /\ requests \in Budgets[tab]
  /\ IF tab = "review" THEN ReviewInit ELSE NotReviewing
  /\ IF tab = "standup" THEN StandupInit ELSE NotAtStandup

Counted(kind) == requests[kind] > 0 /\ requests' = [requests EXCEPT ![kind] = @ - 1]

NoteOfOthers ==
  /\ tab # "review" /\ Counted("notes") /\ \E k \in Keys : MayReview(k) /\ SavePerformanceNote(k, {k})
  /\ UNCHANGED <<console, reviewing>>

AsksForRole == tab # "review" /\ Counted("roles") /\ AskForRole /\ UNCHANGED <<console, reviewing>>
RolesChange == tab # "review" /\ ChangeRoles /\ UNCHANGED <<console, reviewing, requests>>

EditsElsewhere ==
  /\ tab # "review" /\ \E kind \in {"users", "links", "rows"} : Counted(kind) /\ EditsOfOthers(kind)
  /\ UNCHANGED reviewing

(* The access of the tab's manager is left alone: a refusal may come anyway. *)
EditsInReview ==
  /\ tab = "review" /\ Counted("rows") /\ SetTrackedUsers
  /\ gone' = gone \cup {k \in Keys : k[2] \in tracked[k[1]] /\ k[2] \notin tracked'[k[1]]}
  /\ UNCHANGED <<review, calls, late, spoilt>> /\ UNCHANGED console

Others == RolesChange \/ NoteOfOthers \/ AsksForRole \/ EditsElsewhere \/ EditsInReview

Next ==
  /\ UNCHANGED tab
  /\ \/ tab = "console" /\ ConsoleStep /\ UNCHANGED <<reviewing, standup, requests>>
     \/ tab = "review" /\ ReviewStep /\ UNCHANGED <<console, standup, requests>>
     \/ tab = "standup" /\ StandupStep /\ UNCHANGED <<server, console, reviewing, requests>>
     \/ Others /\ UNCHANGED standup

Spec == Init /\ [][Next]_vars
-----------------------------------------------------------------------------
(* What a page shows is what it says it shows: the teammate, or the        *)
(* project, date and issue that are chosen.                                *)
ShownIsSelected == ReviewShowsSelected /\ StandupShowsSelected
=============================================================================
