----------------------------- MODULE ReviewView -----------------------------
(***************************************************************************)
(* The review page of a manager (PerformanceReviewView.tsx) with the       *)
(* requests it has under way.  The page has no protection against answers  *)
(* that come late: what they set is shown for whoever is selected by then. *)
(*                                                                         *)
(* A text is the set of the teammates it is about, so {} is the empty one; *)
(* metrics, summary and comparison are named by the rows they are about.   *)
(* One range of dates is selected throughout.                              *)
(***************************************************************************)
EXTENDS People, Bags

CONSTANTS
  MaxCalls,   \* bound: requests under way at once
  MaxChoices  \* bound: selections, refreshes and saves of one behaviour

ASSUME ReviewAssumption == MaxCalls \in Nat /\ MaxChoices \in Nat

VARIABLES
  review,  \* the page's state
  calls,   \* its requests, a bag: not served, or answered and not received
  gone,    \* rows deleted after the page loaded its copy of the teammates
  late,    \* history: an answer for another selection came since the last one was made
  spoilt   \* history: teammates for whom notes were saved while that was so

reviewing == <<review, calls, gone, late, spoilt>>

Views == {"summary", "comparison"}

(* scrumProjects, as the requester may see it *)
Offer == [p \in Projects |-> IF IsAdmin(Me) \/ link[Me][p] # None THEN tracked[p] ELSE {}]

MemberOptions(r) == UNION {r.offered[p] : p \in IF r.project = None THEN Projects ELSE {r.project}}

ActiveEntries(r) ==
  {k \in Keys : k[2] = r.member /\ r.project \in {None, k[1]} /\ k[2] \in r.offered[k[1]]}

IsPortfolioView(r) == r.project = None

NoReview ==
  [offered |-> [p \in Projects |-> {}], project |-> None, member |-> None, metrics |-> None,
   shown |-> [v \in Views |-> None], draft |-> {}, loading |-> {}, choices |-> 0]

Call(kind, entries, text) == [kind |-> kind, of |-> entries, text |-> text, state |-> "asked", note |-> None]

Asking(under, new) == under (+) SetToBag(new)

Asks(r, under, new) ==
  /\ review' = [r EXCEPT !.loading = @ \cup {c.kind : c \in new}]
  /\ calls' = Asking(under, new)

Chosen(r) == [r EXCEPT !.choices = @ + 1]
Room(n) == BagCardinality(calls) + n <= MaxCalls /\ review.choices < MaxChoices

FetchMetrics(r) == IF ActiveEntries(r) = {} THEN {} ELSE {Call("metrics", ActiveEntries(r), {})}
FetchSummary(r) ==
  IF IsPortfolioView(r) \/ ActiveEntries(r) = {} THEN {} ELSE {Call("summary", ActiveEntries(r), {})}

ReviewInit ==
  /\ \E m \in Accounts \cup {None} :
       /\ review = [NoReview EXCEPT !.offered = Offer, !.member = m, !.loading = {"metrics"}]
       /\ IF MemberOptions(review) = {} THEN m = None ELSE m \in MemberOptions(review)
  /\ calls = SetToBag(FetchMetrics(review))
  /\ gone = {} /\ late = FALSE /\ spoilt = {}

NotReviewing == review = NoReview /\ calls = EmptyBag /\ gone = {} /\ late = FALSE /\ spoilt = {}

(* A choice of project or teammate, with the effects that follow it: a     *)
(* teammate the project does not have is replaced, all that is shown is    *)
(* reset, and the metrics are fetched; where there were metrics and the    *)
(* teammate stays, the summary too.                                        *)
NoReset(r) == r
ResetNotAll(r) == [r EXCEPT !.metrics = None, !.shown["summary"] = None, !.draft = {}]
Reset(r) == [r EXCEPT !.metrics = None, !.shown = NoReview.shown, !.draft = {}]

Select ==
  /\ Room(2)
  /\ \E p \in Projects \cup {None}, m \in Accounts \cup {None} :
       LET r == [review EXCEPT !.project = p, !.member = m]
           stays == review.member \in MemberOptions(r)
       IN /\ <<p, m>> # <<review.project, review.member>>
          /\ \/ p = review.project \/ (IF stays THEN m = review.member ELSE m = None \/ m \in MemberOptions(r))
          /\ IF MemberOptions(r) = {} THEN m = None ELSE m \in MemberOptions(r)
          /\ Asks(Reset(Chosen(r)), calls,
                  FetchMetrics(r) \cup IF review.metrics # None /\ stays THEN FetchSummary(r) ELSE {})
  /\ late' = FALSE
  /\ UNCHANGED <<gone, spoilt>> /\ UNCHANGED server

(* handleRefreshMetrics: once by the effect of the key, once by itself.    *)
Refresh ==
  /\ Room(2) /\ "metrics" \notin review.loading /\ FetchMetrics(review) # {}
  /\ Asks(Chosen(review), Asking(calls, FetchMetrics(review)), FetchMetrics(review))
  /\ UNCHANGED <<gone, late, spoilt>> /\ UNCHANGED server

CanWrite == review.metrics # None /\ ~IsPortfolioView(review)

FetchView(v) ==
  /\ Room(1) /\ CanWrite /\ v \notin review.loading /\ ActiveEntries(review) # {}
  /\ Asks(Chosen(review), calls, {Call(v, ActiveEntries(review), {})})
  /\ UNCHANGED <<gone, late, spoilt>> /\ UNCHANGED server

TypeNotes ==
  /\ CanWrite /\ review' = [review EXCEPT !.draft = @ \cup ActiveEntries(review)] /\ review' # review
  /\ UNCHANGED <<calls, gone, late, spoilt>> /\ UNCHANGED server

HandleSaveNotes ==
  /\ Room(1) /\ CanWrite /\ "notes" \notin review.loading /\ ActiveEntries(review) # {}
  /\ Asks(Chosen(review), calls, {Call("notes", ActiveEntries(review), review.draft)})
  /\ spoilt' = IF late THEN spoilt \cup ActiveEntries(review) ELSE spoilt
  /\ UNCHANGED <<gone, late>> /\ UNCHANGED server

-----------------------------------------------------------------------------
(* The API serves a request, and the page receives its answer *)

Becomes(c, d) == calls' = (calls (-) SetToBag({c})) (+) SetToBag({d})

Serve(c) ==
  /\ c.state = "asked" /\ \A k \in c.of : MayReview(k) /\ k \notin gone
  /\ \E note \in {notes[k] : k \in c.of} :
       Becomes(c, [c EXCEPT !.state = "answered",
                           !.note = IF Cardinality(c.of) = 1 THEN note ELSE None])
  /\ IF c.kind = "notes"
     THEN \E k \in c.of : SavePerformanceNote(k, c.text)
     ELSE UNCHANGED server
  /\ UNCHANGED <<review, gone, late, spoilt>>

(* A row or project that is not the manager's, or any other failure *)
Refuse(c) ==
  /\ c.state = "asked" /\ Becomes(c, [c EXCEPT !.state = "refused"])
  /\ UNCHANGED <<review, gone, late, spoilt>> /\ UNCHANGED server

ReceiveMetrics(c, r) ==
  /\ c.kind = "metrics"
  /\ IF c.state = "answered"
     THEN LET n == [r EXCEPT !.metrics = c.of, !.draft = IF c.note = None THEN {} ELSE c.note]
          IN Asks(n, calls (-) SetToBag({c}), FetchSummary(n))
     ELSE /\ review' = [r EXCEPT !.metrics = None,
                                 !.shown["summary"] = IF r.metrics = None THEN @ ELSE None]
          /\ calls' = calls (-) SetToBag({c})

ReceiveView(c, r) ==
  /\ c.kind \in Views /\ calls' = calls (-) SetToBag({c})
  /\ review' = [r EXCEPT !.shown[c.kind] = IF c.state = "answered" THEN c.of ELSE {}]

ReceiveSaved(c, r) ==
  /\ c.kind = "notes" /\ calls' = calls (-) SetToBag({c})
  /\ review' = IF c.state = "answered" THEN [r EXCEPT !.draft = c.text] ELSE r

Receive(c) ==
  /\ c.state # "asked"
  /\ LET r == [review EXCEPT !.loading = @ \ {c.kind}]
     IN ReceiveMetrics(c, r) \/ ReceiveView(c, r) \/ ReceiveSaved(c, r)
  /\ late' = (late \/ (c.state = "answered" /\ c.of # ActiveEntries(review)))
  /\ UNCHANGED <<gone, spoilt>> /\ UNCHANGED server

ReviewStep ==
  \/ Select \/ Refresh \/ TypeNotes \/ HandleSaveNotes
  \/ \E v \in Views : FetchView(v)
  \/ \E c \in BagToSet(calls) : Serve(c) \/ Refuse(c) \/ Receive(c)
-----------------------------------------------------------------------------
(* Notes are saved under the teammate they were written about: what is     *)
(* typed, reset, loaded and saved stays together over every change of      *)
(* selection, except that the answer to a request made for another         *)
(* selection replaces the draft (fetchMetrics and handleSaveNotes set the  *)
(* draft whoever is selected when the answer comes).                       *)
NotesAreTheirOwn == \A k \in Keys \ spoilt : notes[k] \in {None, {}, {k}}

(* Metrics, summary and comparison are those of the teammate the page      *)
(* names above them, but for late answers (the reset effect, and the       *)
(* summary that is asked for before the metrics have come).                *)
ReviewShowsSelected ==
  late \/ /\ review.metrics \in {None, ActiveEntries(review)}
          /\ \A v \in Views : review.shown[v] \in {None, {}, ActiveEntries(review)}
=============================================================================
