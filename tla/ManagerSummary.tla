--------------------------- MODULE ManagerSummary ---------------------------
(***************************************************************************)
(* The manager's summary of a sprint, and of all projects together         *)
(* (managerSummaryService.ts).                                             *)
(*                                                                         *)
(* w is the rows of one project, as in DailySummary.  Percentages are in   *)
(* tenths, velocities in hundredths, as the code rounds them.              *)
(***************************************************************************)
EXTENDS DailySummary

IsDone(status) == Says(status, {"done", "closed", "resolved", "complete", "completed", "cancelled"})
IsBlocker(status) == Says(status, {"block", "blocked", "imped", "hold", "waiting", "stuck"})

Rounded(n, d) == (2 * n + d) \div (2 * d)
StartOfDay(t) == t - (t % Day)
EndOfDay(t) == StartOfDay(t) + Day
FortnightBefore(t) == StartOfDay(t) - 13 * Day

Sprints(w) == {w.issue[i].sprint : i \in Issues(w)} \ {NoOne}

(* The days of a range: the end is the last moment of its day, so the      *)
(* difference in days is already their number; one is added to it.         *)
Days(from, until) == (until - from) \div Day + 1

RangeOfSprint(w, s, now) ==
  LET sprint == w.sprint[s]
      from == IF sprint.start = NoOne THEN FortnightBefore(now) ELSE StartOfDay(sprint.start)
      until == EndOfDay(IF sprint.end = NoOne THEN from + 13 * Day ELSE sprint.end)
  IN [sprint |-> s, from |-> from, until |-> until, days |-> Days(from, until)]

(* A sprint without the date comes first in a descending order.            *)
LatestBy(S, Date(_)) == CHOOSE s \in S : \A t \in S : Date(s) = NoOne \/ (Date(t) # NoOne /\ Date(s) >= Date(t))

(* The sprint asked for, or the active one, or the latest, or the last     *)
(* fortnight.                                                              *)
ResolveRange(w, asked, now) ==
  LET active == {s \in Sprints(w) : w.sprint[s].state \in {"active", "in progress", "started"}}
  IN CASE asked # NoOne -> RangeOfSprint(w, asked, now)
       [] asked = NoOne /\ active # {}
            -> RangeOfSprint(w, LatestBy(active, LAMBDA s : w.sprint[s].start), now)
       [] asked = NoOne /\ active = {} /\ Sprints(w) # {}
            -> RangeOfSprint(w, LatestBy(Sprints(w), LAMBDA s : w.sprint[s].end), now)
       [] OTHER -> [sprint |-> NoOne, from |-> FortnightBefore(now), until |-> EndOfDay(now), days |-> 14]

InRange(t, range) == range.from <= t /\ t < range.until

Committed(w, range) ==
  {i \in Issues(w) : IF range.sprint # NoOne THEN w.issue[i].sprint = range.sprint
                     ELSE InRange(w.issue[i].updated, range)}

Percent(part, whole) == IF whole = 0 THEN NoOne ELSE Rounded(1000 * part, whole)

Velocity(done, range) == IF range.days <= 7 THEN 100 * done ELSE Rounded(700 * done, range.days)

TimeProgress(range, now) ==
  CASE range.sprint = NoOne                          -> NoOne
    [] range.sprint # NoOne /\ now <= range.from     -> 0
    [] range.sprint # NoOne /\ now >= range.until    -> 1000
    [] OTHER -> Rounded(1000 * (now - range.from), range.until - range.from)

(* How far the completion is behind the schedule, the blockers, and both   *)
(* extremes: the first test that holds decides.                            *)
RiskOfProgress(completion, progress, blockers) ==
  LET delta == completion - progress
  IN CASE completion < 400 /\ progress > 600 -> "HIGH"
       [] delta < -150 \/ blockers >= 5      -> "HIGH"
       [] delta < -80 \/ blockers >= 3       -> "MEDIUM"
       [] OTHER                              -> "LOW"

ComputeRisk(completion, progress, blockers) ==
  CASE completion = NoOne -> "UNKNOWN"
    [] completion # NoOne /\ progress = NoOne
         -> CASE blockers >= 5 -> "HIGH" [] blockers \in {3, 4} -> "MEDIUM" [] OTHER -> "LOW"
    [] OTHER -> RiskOfProgress(completion, progress, blockers)

-----------------------------------------------------------------------------
Blocker(w, i, now) ==
  [issue |-> i, assignee |-> w.issue[i].assignee, status |-> w.issue[i].status,
   daysOpen |-> Max({0, Rounded(now - w.issue[i].updated, Day)})]

(* The figures of the cards; the texts repeat them.                        *)
BuildKpis(t) ==
  [planVsDone |-> [value |-> t.percent, of |-> <<t.completed, t.committed>>,
                   delta |-> IF NoOne \in {t.percent, t.progress} THEN NoOne ELSE t.percent - t.progress,
                   expected |-> t.progress],
   velocity   |-> t.velocity, blockers |-> t.activeBlockers, risk |-> t.risk]

(* What the paragraph and its headline tell.                               *)
BuildNarrative(t, blockers) ==
  [headline   |-> CASE t.risk = "HIGH"   -> "at risk"  [] t.risk = "MEDIUM" -> "needs monitoring"
                    [] t.risk = "LOW"    -> "tracking well" [] OTHER        -> "insight",
   body       |-> <<t.percent, t.velocity, t.activeBlockers, UpTo(2, blockers)>>,
   highlights |-> {h \in {"completion", "velocity", "blockers", "risk"} :
                     CASE h = "completion" -> t.percent # NoOne
                       [] h = "risk"       -> t.risk \notin {"LOW", "UNKNOWN"}
                       [] OTHER            -> TRUE}]

Warnings(t) ==
  {v \in {"NO_COMMITTED_WORK", "LOW_COMPLETION"} :
     CASE v = "NO_COMMITTED_WORK" -> t.committed = 0
       [] v = "LOW_COMPLETION"    -> /\ t.activeBlockers = 0 /\ t.percent # NoOne /\ t.percent < 500
                                     /\ t.progress # NoOne /\ t.progress > 600}

TotalsOf(w, range, now) ==
  LET issues == Committed(w, range)
      done == Cardinality({i \in issues : IsDone(w.issue[i].status)})
      blocked == Cardinality({i \in issues : IsBlocker(w.issue[i].status)})
      percent == Percent(done, Cardinality(issues))
      progress == TimeProgress(range, now)
  IN [committed |-> Cardinality(issues), completed |-> done, percent |-> percent,
      velocity |-> IF issues = {} THEN 0 ELSE Velocity(done, range),
      activeBlockers |-> blocked, progress |-> progress, risk |-> ComputeRisk(percent, progress, blocked)]

(* The rows come in the order the database gives them.                     *)
BuildManagerSummary(w, asked, now) ==
  LET range == ResolveRange(w, asked, now)
      totals == TotalsOf(w, range, now)
      blockers == SetToSeq({Blocker(w, i, now) : i \in {j \in Committed(w, range) : IsBlocker(w.issue[j].status)}})
  IN [range |-> range, totals |-> totals, kpis |-> BuildKpis(totals), blockers |-> blockers,
      warnings |-> Warnings(totals),
      narrative |-> IF totals.committed = 0 /\ blockers = <<>> THEN NoOne ELSE BuildNarrative(totals, blockers)]

-----------------------------------------------------------------------------
Rank(risk) == CASE risk = "HIGH" -> 4 [] risk = "MEDIUM" -> 3 [] risk = "LOW" -> 2 [] OTHER -> 1

(* One project after the other: the first of the highest rank is kept.     *)
MergeRiskLevels(risks) ==
  FoldLeft(LAMBDA top, risk : IF top = NoOne \/ Rank(risk) > Rank(top) THEN risk ELSE top, NoOne, risks)

(* The summaries of the projects that could be built; the time progress is *)
(* the average of those that have one.                                     *)
BuildPortfolioSummary(summaries, asked) ==
  LET Sum(Value(_)) == SumOf([k \in DOMAIN summaries |-> Value(summaries[k].totals)])
      scheduled == {k \in DOMAIN summaries : summaries[k].totals.progress # NoOne}
      committed == Sum(LAMBDA t : t.committed)
      completed == Sum(LAMBDA t : t.completed)
      totals == [committed |-> committed, completed |-> completed, percent |-> Percent(completed, committed),
                 velocity |-> Sum(LAMBDA t : t.velocity), activeBlockers |-> Sum(LAMBDA t : t.activeBlockers),
                 progress |-> IF scheduled = {} THEN NoOne
                              ELSE Rounded(SumOf([k \in scheduled |-> summaries[k].totals.progress]), Cardinality(scheduled)),
                 risk |-> MergeRiskLevels([k \in DOMAIN summaries |-> summaries[k].totals.risk])]
  IN [totals |-> totals, kpis |-> BuildKpis(totals),
      blockers |-> FlattenSeq([k \in DOMAIN summaries |-> summaries[k].blockers]),
      warnings |-> UNION {summaries[k].warnings : k \in DOMAIN summaries}
                   \cup {v \in {"PROJECT_SUMMARY_UNAVAILABLE"} : Len(summaries) < asked},
      range |-> [from  |-> Min({summaries[k].range.from : k \in DOMAIN summaries}),
                 until |-> Max({summaries[k].range.until : k \in DOMAIN summaries})]]
=============================================================================
