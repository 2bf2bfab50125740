---------------------------- MODULE StandupPage -----------------------------
(***************************************************************************)
(* The page of the daily stand-up (ScrumPage.tsx) with the overlay that    *)
(* shows the insight of one issue (IssueInsightsOverlay.tsx).  Two queries *)
(* follow the chosen project and date; Refresh and Regenerate send them    *)
(* again by hand, with the project and date of the click, after steps they *)
(* wait for.  The insights come through one query that reports only the    *)
(* answer to its last request, and are stored under the issue shown then.  *)
(*                                                                         *)
(* Summaries are named by the project and date they are of, an insight by  *)
(* its issue.  One teammate is shown, with the same issues all along.      *)
(***************************************************************************)
EXTENDS Naturals, FiniteSets

CONSTANTS
  Selections,  \* the projects and dates that can be chosen
  Issues,
  First,       \* the issue the overlay lists first
  NoIssue,
  MaxClicks    \* bound: what the user does in one behaviour

ASSUME StandupAssumption == First \in Issues /\ NoIssue \notin Issues \cup Selections /\ MaxClicks \in Nat

VARIABLES
  page,       \* the selection, the queries and the handlers that wait
  overlay,    \* the overlay and the insights
  overtaken,  \* history: a handler sent a query again for another selection than the present one
  crossed     \* history: issues that were returned to while the last request was another's

standup == <<page, overlay, overtaken, crossed>>

Queries == {"daily", "project"}

(* wanted: the variables each query has now; shown: what its data is of *)
Wanted(s) == [q \in Queries |-> s]

NewPage(s) ==
  [sel |-> s, wanted |-> [q \in Queries |-> s], shown |-> [q \in Queries |-> NoIssue],
   loading |-> Queries, waiting |-> {}, clicks |-> 0]

NoOverlay ==
  [open |-> FALSE, initial |-> NoIssue, active |-> First, ref |-> NoIssue, latest |-> NoIssue,
   inflight |-> {}, insights |-> [i \in Issues |-> NoIssue]]

StandupInit ==
  /\ \E s \in Selections : page = NewPage(s)
  /\ overlay = NoOverlay /\ overtaken = FALSE /\ crossed = {}

NotAtStandup ==
  /\ page = NewPage(NoIssue) /\ overlay = NoOverlay /\ overtaken = FALSE /\ crossed = {}

Clicked(r) == [r EXCEPT !.clicks = @ + 1]
MayClick == page.clicks < MaxClicks

-----------------------------------------------------------------------------
(* The overlay *)

(* ensureInsight, after its callers have set overlayIssueIdRef *)
Ensured(o, i) ==
  IF i \in o.inflight \/ o.insights[i] # NoIssue
  THEN [o EXCEPT !.ref = i]
  ELSE [o EXCEPT !.ref = i, !.latest = i, !.inflight = @ \cup {i}]

Overlays(o) ==
  /\ overlay' = o
  /\ crossed' = IF o.ref # NoIssue /\ o.latest \in o.inflight \ {o.ref} THEN crossed \cup {o.ref} ELSE crossed

(* The click asks for the issue; the effect of the overlay then asks for   *)
(* the issue that was active, the first one, before the other effect has   *)
(* made i the active one, and for i after that.                            *)
OpenDetailView(i) ==
  /\ MayClick /\ ~overlay.open /\ page.shown["daily"] # NoIssue
  /\ LET o == [Ensured(Ensured(Ensured(overlay, i), overlay.active), i) EXCEPT !.open = TRUE]
     IN Overlays([o EXCEPT !.initial = i, !.active = i])
  /\ page' = Clicked(page) /\ UNCHANGED overtaken

HandleSelectIssue(i) ==
  /\ MayClick /\ overlay.open /\ i # overlay.active
  /\ Overlays([Ensured(overlay, i) EXCEPT !.active = i])
  /\ page' = Clicked(page) /\ UNCHANGED overtaken

Shut(o) == [o EXCEPT !.open = FALSE, !.initial = NoIssue, !.active = First]

CloseDetailView ==
  /\ MayClick /\ overlay.open
  /\ Overlays([Shut(overlay) EXCEPT !.ref = NoIssue])
  /\ page' = Clicked(page) /\ UNCHANGED overtaken

(* Every render of the page makes the overlay ask for its issue again. *)
Render ==
  /\ overlay.open /\ Overlays(Ensured(overlay, overlay.active)) /\ overlay' # overlay
  /\ UNCHANGED <<page, overtaken>>

StoredUnderInitial(o) == o.initial
StoredUnder(o) == o.ref

Ended(o, i) == [o EXCEPT !.inflight = @ \ {i}]

FetchIssueInsights(i) ==
  /\ i \in overlay.inflight
  /\ LET place == StoredUnder(overlay)
     IN Overlays(IF i = overlay.latest /\ place # NoIssue
                 THEN [Ended(overlay, i) EXCEPT !.insights[place] = i]
                 ELSE Ended(overlay, i))
  /\ UNCHANGED <<page, overtaken>>

(* The toast, or the end of loading, is a render. *)
InsightFails(i) ==
  /\ i \in overlay.inflight
  /\ LET o == Ended(overlay, i) IN Overlays(IF o.open THEN Ensured(o, o.active) ELSE o)
  /\ UNCHANGED <<page, overtaken>>

-----------------------------------------------------------------------------
(* The summaries *)

(* New data of query q.  Other summaries close the overlay (their ids are  *)
(* new) without a word to overlayIssueIdRef; new data of the same ones     *)
(* bring the overlay back to the issue it was opened with.                 *)
Landed(q, s) ==
  IF q = "project" \/ ~overlay.open THEN UNCHANGED <<overlay, crossed>>
  ELSE IF page.shown[q] # s THEN Overlays(Shut(overlay))
  ELSE \/ UNCHANGED <<overlay, crossed>>
       \/ Overlays([Ensured(Ensured(overlay, overlay.active), overlay.initial) EXCEPT !.active = overlay.initial])

QueryAnswers(q) ==
  /\ q \in page.loading
  /\ page' = [page EXCEPT !.loading = @ \ {q}, !.shown[q] = page.wanted[q]]
  /\ Landed(q, page.wanted[q]) /\ UNCHANGED overtaken

QueryFails(q) ==
  /\ q \in page.loading /\ page' = [page EXCEPT !.loading = @ \ {q}]
  /\ UNCHANGED <<overlay, overtaken, crossed>>

(* handleDateChange, handleProjectChange and the effects of both: what the *)
(* cache has of the daily summaries is shown at once.                      *)
ChangeSelection(s) ==
  /\ MayClick /\ s # page.sel
  /\ \E cached \in {NoIssue, s} :
       page' = [Clicked(page) EXCEPT !.sel = s, !.wanted = Wanted(s), !.loading = Queries,
                                     !.shown = [q \in Queries |-> IF q = "daily" THEN cached ELSE NoIssue]]
  /\ overlay' = [NoOverlay EXCEPT !.latest = overlay.latest]
  /\ overtaken' = FALSE /\ crossed' = {}

Waiting(by, step) == [by |-> by, step |-> step, of |-> page.sel]

HandleRefresh ==
  /\ MayClick /\ page.loading = {}
  /\ page' = [Clicked(page) EXCEPT !.wanted["daily"] = page.sel, !.waiting = @ \cup {Waiting("refresh", "daily")}]
  /\ UNCHANGED <<overlay, overtaken, crossed>>

HandleRegenerate ==
  /\ MayClick /\ page.shown["daily"] # NoIssue
  /\ \A w \in page.waiting : w.by # "regenerate"  \* regenerating
  /\ page' = [Clicked(page) EXCEPT !.waiting = @ \cup {Waiting("regenerate", "mutations")}]
  /\ UNCHANGED <<overlay, overtaken, crossed>>

(* The interval of the automatic refresh, whose effect follows the         *)
(* selection, sends both queries at once.                                  *)
AutoRefresh ==
  /\ \A w \in page.waiting : w.by # "interval"
  /\ page' = [page EXCEPT !.wanted = [q \in Queries |-> page.sel], !.loading = {},
                          !.waiting = @ \cup {Waiting("interval", q) : q \in Queries}]
  /\ UNCHANGED <<overlay, overtaken, crossed>>

(* The refetch that w waits for has its answer; the page shows it unless   *)
(* the query has got other variables since.                                *)
Refetched(q, w) ==
  IF page.wanted[q] = w.of THEN [page EXCEPT !.shown[q] = w.of, !.loading = @ \ {q}] ELSE page

Ends(w, r) == page' = [r EXCEPT !.waiting = @ \ {w}] /\ UNCHANGED overtaken

Sends(q, w, r) ==
  /\ page' = [r EXCEPT !.wanted[q] = w.of, !.loading = @ \ {q},
                       !.waiting = (@ \ {w}) \cup {[w EXCEPT !.step = q]}]
  /\ overtaken' = (overtaken \/ w.of # page.sel)

Continue(w) ==
  \/ w.step = "mutations" /\ Sends("daily", w, page) /\ UNCHANGED <<overlay, crossed>>
  \/ /\ w.step = "daily"
     /\ IF w.by = "interval" THEN Ends(w, Refetched("daily", w)) ELSE Sends("project", w, Refetched("daily", w))
     /\ IF page.wanted["daily"] = w.of THEN Landed("daily", w.of) ELSE UNCHANGED <<overlay, crossed>>
  \/ w.step = "project" /\ Ends(w, Refetched("project", w)) /\ UNCHANGED <<overlay, crossed>>

GiveUp(w) == Ends(w, page) /\ UNCHANGED <<overlay, crossed>>

StandupStep ==
  \/ \E i \in Issues :
       OpenDetailView(i) \/ HandleSelectIssue(i) \/ FetchIssueInsights(i) \/ InsightFails(i)
  \/ CloseDetailView \/ Render \/ HandleRefresh \/ HandleRegenerate \/ AutoRefresh
  \/ \E q \in Queries : QueryAnswers(q) \/ QueryFails(q)
  \/ \E s \in Selections : ChangeSelection(s)
  \/ \E w \in page.waiting : Continue(w) \/ GiveUp(w)
-----------------------------------------------------------------------------
(* The page shows the summaries of the chosen project and date, but where  *)
(* a handler that was waiting sent its query again for the ones of its     *)
(* click (handleRefresh, handleRegenerate); and the insight it shows with  *)
(* an issue is that issue's, but where the issue was returned to while the *)
(* last request was for another one (ensureInsight).                       *)
StandupShowsSelected ==
  /\ overtaken \/ \A q \in Queries : page.shown[q] \in {NoIssue, page.sel}
  /\ \A i \in Issues \ crossed : overlay.insights[i] \in {NoIssue, i}
=============================================================================
