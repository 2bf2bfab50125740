------------------------------ MODULE Newsletter ------------------------------
(***************************************************************************)
(* What is read back of the stored summaries: the stand-ups of a range of  *)
(* days and the latest one, as the pages ask for them (resolvers.ts,       *)
(* hierarchicalSummaryService.ts), and the newsletter of a day for the     *)
(* managers (dailyNewsletterService.ts).                                   *)
(*                                                                         *)
(* A text is the record of what it tells, in minutes.  The mail goes to    *)
(* one fixed address, whoever the managers are (collectRecipients), and    *)
(* leaves no trace.  The narrative is the one its run stored as the        *)
(* variant "manager"; the later variants are NarrativeQueue's.             *)
(***************************************************************************)
EXTENDS SummarySnapshots

CONSTANTS MaxSpotlights,  \* teammates the newsletter tells of (4 in the source)
          MaxBars         \* bars of the workload chart (5 in the source)

ASSUME NewsletterAssumption == MaxSpotlights \in Nat /\ MaxBars \in Nat

(* mapUserSummaryRecord, mapProjectSummaryRecord: what is told of a row.   *)
SummaryRecord(row) == [f \in {"day", "payload", "narrative", "hash", "generatedAt"} |-> row[f]]

(* The rows of the teammates that carry the runId; the last written first. *)
UsersOfTheDay(runs, k) ==  \* mutant: found by the date
  FlattenSeq(Mapped(SelectSeq(runs, LAMBDA r : r.day = runs[k].day), LAMBDA r : Reverse(r.users)))
UsersForRun(runs, k) == Reverse(runs[k].users)

ProjectDailySummary(runs, k, includeTasks) ==
  [project |-> SummaryRecord(runs[k]),
   users   |-> Mapped(UsersForRun(runs, k), SummaryRecord),
   tasks   |-> IF includeTasks THEN runs[k].tasks ELSE <<>>]

(* The latest day first, and of one day the latest run.                    *)
FetchProjectSummaries(runs, from, until, includeTasks) ==
  LET found == {k \in DOMAIN runs : from <= runs[k].day /\ runs[k].day <= until}
      order == SortedBy(found, LAMBDA k : <<-runs[k].day, -k>>)
  IN Mapped(order, LAMBDA k : ProjectDailySummary(runs, k, includeTasks))

FetchLatestProjectSummary(runs) ==
  LET later(j, k) == runs[j].day > runs[k].day \/ (runs[j].day = runs[k].day /\ j > k)
  IN {ProjectDailySummary(runs, k, TRUE) : k \in {j \in DOMAIN runs : \A l \in DOMAIN runs : ~later(l, j)}}

(* The queries answer an administrator and whoever has a link to the       *)
(* project.                                                                *)
MayRead(w, viewer) == viewer.role = "ADMIN" \/ w.link[viewer.id] # NoOne

ProjectDailySummaries(w, runs, viewer, from, until) ==
  IF MayRead(w, viewer) THEN FetchProjectSummaries(runs, from, until, TRUE) ELSE <<>>

LatestProjectSummary(w, runs, viewer) ==
  IF MayRead(w, viewer) THEN FetchLatestProjectSummary(runs) ELSE {}

-----------------------------------------------------------------------------
(* The newsletter.  Who logged most comes first.                           *)
ByWorklog(users) ==
  Mapped(SortedBy(DOMAIN users, LAMBDA k : <<-users[k].payload.metrics.minutes, k>>), LAMBDA k : users[k].payload)

FirstOf(s) == UpTo(1, s)

(* renderUserBriefsHtml: a finished thing is told before one in flight.    *)
Spotlight(payload) ==
  [who       |-> payload.target,
   headline  |-> payload.headline,
   focus     |-> payload.focusNext,
   minutes   |-> payload.metrics.minutes,
   highlight |-> FirstOf(FirstOf(payload.accomplishments) \o FirstOf(payload.inFlight)),
   tasks     |-> FirstOf(payload.accomplishments) \o FirstOf(payload.inFlight),
   risks     |-> payload.flags]

Spotlights(users) == Mapped(UpTo(MaxSpotlights, ByWorklog(users)), Spotlight)

(* renderWorkloadChartHtml: a bar's width, rounded, in percent of the      *)
(* longest one.                                                            *)
WorkloadChart(users) ==
  LET top == UpTo(MaxBars, ByWorklog(users))
      longest == Max({p.metrics.minutes : p \in ToSet(top)} \cup {1})
  IN Mapped(top, LAMBDA p : [who |-> p.target, minutes |-> p.metrics.minutes,
                             width |-> (200 * p.metrics.minutes + longest) \div (2 * longest)])

RenderProjectHtml(record) ==
  LET payload == record.project.payload
  IN [brief      |-> payload.brief, narrative |-> record.project.narrative,
      health     |-> payload.health, highlights |-> payload.highlights,
      blockers   |-> payload.criticalBlockers, calls |-> payload.calls,
      risks      |-> payload.atRiskDetails,
      spotlights |-> Spotlights(record.users), chart |-> WorkloadChart(record.users)]

(* The plain text has no chart, and of a spotlight only the headline and   *)
(* the hours.                                                              *)
RenderProjectText(record) ==
  LET html == RenderProjectHtml(record)
      Brief(s) == [who |-> s.who, headline |-> s.headline, minutes |-> s.minutes]
  IN [f \in DOMAIN html \ {"chart"} |-> IF f = "spotlights" THEN Mapped(html.spotlights, Brief) ELSE html[f]]

(* The mail about the project, none if the day has no summary.             *)
SendDailySummaryNewsletter(runs, day) ==
  Mapped(FirstOf(FetchProjectSummaries(runs, day, day, FALSE)),
         LAMBDA record : [html |-> RenderProjectHtml(record), text |-> RenderProjectText(record)])
=============================================================================
