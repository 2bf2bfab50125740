------------------------------ MODULE Reports -------------------------------
(***************************************************************************)
(* The reports that are computed when somebody asks for them - the         *)
(* manager's summaries, the focus board, the performance reviews, the      *)
(* newsletter - over the rows that the sync and the administrators of      *)
(* SummarySnapshots change, compared with each other and with the stored   *)
(* stand-ups.                                                              *)
(***************************************************************************)
EXTENDS Newsletter, FocusBoard

(* The newsletter of a day and the page of the day are those of the last   *)
(* run of the day, of that run's teammates alone: each has a bar, the bars *)
(* add up to the project's hours, and nobody who is told of has logged     *)
(* less than somebody who is not.                                          *)
NewsletterAgrees ==
  \A day \in {r.day : r \in ToSet(snapshots)} :
    LET run == snapshots[Max({k \in DOMAIN snapshots : snapshots[k].day = day})]
        sent == Head(SendDailySummaryNewsletter(snapshots, day)).html
        toldOf == {s.who : s \in ToSet(sent.spotlights)}
    IN /\ sent.health = run.payload.health
       /\ Len(run.users) <= MaxBars =>
            /\ {b.who : b \in ToSet(sent.chart)} = {u.payload.target : u \in ToSet(run.users)}
            /\ Total(sent.chart, LAMBDA b : b.minutes) = sent.health.minutes
       /\ \A u \in ToSet(run.users), s \in ToSet(sent.spotlights) :
            u.payload.target \in toldOf \/ s.minutes >= u.payload.metrics.minutes
       /\ \A u \in Users :
            LET seen == ProjectDailySummaries(rows, snapshots, [id |-> u, role |-> "USER"], day, day)
            IN seen # <<>> => seen[1].project.payload = run.payload
       /\ \A latest \in LatestProjectSummary(rows, snapshots, [id |-> NoOne, role |-> "ADMIN"]) :
            latest.project.day >= day /\ (latest.project.day = day => latest.tasks = run.tasks)

(* Figures of n days, each rounded to a hundredth of an hour, add up to    *)
(* the rounded figure of all of them but for half of one each.             *)
Near(a, b, n) == 2 * (IF a > b THEN a - b ELSE b - a) <= n + 1

(* The stand-up, the focus board and the performance review tell the same  *)
(* hours of a teammate: what was logged by the account in the two days of  *)
(* the stand-up, on whosever issue (buildUserPayload, buildFocusBoard,     *)
(* buildPerformanceMetrics, generateSummaryForUser); the newsletter and    *)
(* the pages tell those of the last run (fetchProjectSummaries,            *)
(* renderProjectHtml).                                                     *)
ReportsAgree ==
  NewsletterAgrees /\
  \A r \in ToSet(snapshots) : \A u \in ToSet(r.users) :
    LET target == u.payload.target
        hours == Hours(u.payload.metrics.minutes)
    IN target.account \in r.rows.profiles /\ "unavailable" \notin u.payload.flags =>
         /\ LET review == BuildPerformanceMetrics(r.rows, target.account, r.day - Day, r.day)
            IN Near(review.totalHours, hours, Cardinality(DOMAIN review.daily))
         /\ \A v \in Users : r.rows.link[v] = target.account =>
              /\ GenerateSummaryForUser(r.rows, v, r.day).minutes = u.payload.metrics.minutes
              /\ hours = BuildFocusBoard(r.rows, v, r.day - Day, r.day, now, {}).metrics.hours

(* Whatever the panels of the focus board show of the user is on the       *)
(* timeline of an issue the board lists, unless a warning says that a      *)
(* query failed; and the days of the timeline add up to the hours told     *)
(* (buildFocusBoard, buildWorklogTimeline).                                *)
FocusIsComplete ==
  \A u \in Users, failed \in {{}} \cup {{q} : q \in Queries} :
    LET board == BuildFocusBoard(rows, u, NoOne, NoOne, now, failed)
        shown == {e.of : e \in UNION {ToSet(board.events[i]) : i \in board.issues}}
        logged == LoggedBy(rows, {rows.link[u]} \ {NoOne}, board.range)
    IN /\ ToSet(board.comments) \subseteq shown \/ "COMMENTS_TIMELINE" \in board.warnings
       /\ logged \subseteq shown \/ "WORKLOGS_TIMELINE" \in board.warnings
       /\ Near(SumOf(board.timeline), board.metrics.hours, Cardinality(DOMAIN board.timeline))
       /\ board.metrics.hours = Hours(Minutes(logged)) \/ "WORKLOGS_PANEL" \in board.warnings

(* The reviews of two periods that follow each other, put together as the  *)
(* portfolio view does it, are the review of both: no hour, comment or     *)
(* issue falls between them or into both, and what the combination sums is *)
(* what the rows sum to (normalizeRange, loadContext,                      *)
(* combinePerformanceMetrics).  A narrative does not praise and criticise  *)
(* the same thing, and a comparison tells the same change either way.      *)
Additive == {"committed", "completed", "ratio", "weekly", "daily", "totalHours", "averageHours", "spread",
             "reopened", "bugs", "blockers", "authored", "mentions", "links"}
PeriodsAddUp ==
  \A a \in Accounts :
    LET split == Today - 2 * Day
        Review(from, until) == BuildPerformanceMetrics(rows, a, from, until)
        early == Review(Today - 4 * Day, split)
        late == Review(split + Day, Today)
        both == Review(Today - 4 * Day, Today)
        combined == CombinePerformanceMetrics(<<early, late>>)
        told == GeneratePerformanceSummary(both)
        change == ComparePerformanceMetrics(late, early)
        back == ComparePerformanceMetrics(early, late)
    IN /\ \A f \in Additive : both[f] = combined[f]
       /\ both.warnings \subseteq combined.warnings /\ ToSet(both.highlights) \subseteq combined.highlights
       /\ {"steady", "balance"} \cap (told.strengths \cup told.improvements) # {"steady", "balance"}
       /\ ~("collaboration" \in told.strengths /\ "no collaboration" \in told.anomalies)
       /\ \A f \in DOMAIN change : change[f] = NoOne \/ change[f] = -back[f]

=============================================================================
