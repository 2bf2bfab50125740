----------------------------- MODULE FocusBoard -----------------------------
(***************************************************************************)
(* The focus board of a user and the performance review of a tracked       *)
(* teammate (focusBoardService.ts, performanceReviewService.ts): reports   *)
(* on a range of days, over the rows DailySummary describes.               *)
(*                                                                         *)
(* Hours are in hundredths, as the code rounds them; a week begins on day  *)
(* 0, 7, 14, ...                                                           *)
(***************************************************************************)
EXTENDS ManagerSummary

CONSTANTS MaxComments,  \* comments of the board's panel (50 in the source)
          LocalAhead    \* half days the zone of the server is ahead of UTC

ASSUME CommentsAssumption == MaxComments \in Nat /\ LocalAhead \in Int

Hours(minutes) == Rounded(100 * minutes, 60)

(* The days from start to end, both included; the start may be any day.    *)
RangeWithoutLastDay(start, end) == [from |-> start, until |-> end, days |-> Days(start, end)]  \* mutant
DayRange(start, end) == [from |-> start, until |-> end + Day, days |-> Days(start, end + Day)]

-----------------------------------------------------------------------------
(* normalizeDateRange: a week by default, two days when the dates are the  *)
(* wrong way round.                                                        *)
BoardRange(start, end, now) ==
  LET last == IF end = NoOne THEN StartOfDay(now) ELSE end
      first == IF start = NoOne THEN last - 6 * Day ELSE start
  IN DayRange(IF first > last THEN last - Day ELSE first, last)

IsBlocked(status) == Says(status, {"block", "blocked", "imped", "hold", "waiting"})
IsInProgress(status) == Says(status, {"progress", "doing", "active", "review", "selected"})

LoggedOnOwnIssues(w, accounts, range) ==  \* mutant: what was logged on issues of others is left out
  {l \in w.worklogs : l.author \in accounts /\ w.issue[l.issue].assignee \in accounts /\ InRange(l.at, range)}
LoggedBy(w, accounts, range) == {l \in w.worklogs : l.author \in accounts /\ InRange(l.at, range)}
WrittenBy(w, accounts, range) == {c \in w.comments : c.author \in accounts /\ InRange(c.at, range)}

(* An issue of the user that was updated, or one the user worked or wrote  *)
(* on.                                                                     *)
AssignedIssuesOnly(w, accounts, range) ==  \* mutant: the issues of others are not listed
  {i \in Issues(w) : w.issue[i].assignee \in accounts /\ InRange(w.issue[i].updated, range)}
BoardIssues(w, accounts, range) ==
  {i \in Issues(w) : w.issue[i].assignee \in accounts /\ InRange(w.issue[i].updated, range)}
  \cup {l.issue : l \in LoggedBy(w, accounts, range)}
  \cup {c.issue : c \in WrittenBy(w, accounts, range)}

(* Ranges are days of UTC; the timeline, and the weeks of a review, are    *)
(* those of the zone in which the server runs.                             *)
LocalDay(t) == StartOfDay(t + LocalAhead)

(* buildWorklogTimeline                                                    *)
WorklogTimeline(logs) ==
  [d \in {LocalDay(l.at) : l \in logs} |-> Hours(Minutes({l \in logs : LocalDay(l.at) = d}))]

EventTime(e) == e.of.at

BoardMetrics(w, issues, logs, range) ==
  [total       |-> Cardinality(issues),
   inProgress  |-> Cardinality({i \in issues : IsInProgress(w.issue[i].status)}),
   hours       |-> Hours(Minutes(logs)),
   hoursPerDay |-> Rounded(Hours(Minutes(logs)), range.days)]

(* Each of the four queries for comments and worklogs may fail: a warning  *)
(* takes the place of its rows.  Everybody's events are on the timelines.  *)
TimelineQueries == {"COMMENTS_TIMELINE", "WORKLOGS_TIMELINE"}
Queries == {"COMMENTS_PANEL", "WORKLOGS_PANEL"} \cup TimelineQueries

BuildFocusBoard(w, user, start, end, now, failed) ==
  LET range == BoardRange(start, end, now)
      accounts == {w.link[user]} \ {NoOne}
      issues == BoardIssues(w, accounts, range)
      Unless(query, found) == IF query \in failed THEN {} ELSE found
      logs == Unless("WORKLOGS_PANEL", LoggedBy(w, accounts, range))
      Events(i) == {[type |-> "COMMENT", of |-> c] :
                      c \in Unless("COMMENTS_TIMELINE", {c \in w.comments : c.issue = i /\ InRange(c.at, range)})}
                   \cup {[type |-> "WORKLOG", of |-> l] :
                      l \in Unless("WORKLOGS_TIMELINE", {l \in w.worklogs : l.issue = i /\ InRange(l.at, range)})}
  IN [range    |-> range, issues |-> issues,
      blockers |-> {i \in issues : IsBlocked(w.issue[i].status)},
      comments |-> UpTo(MaxComments, SortedBy(Unless("COMMENTS_PANEL", WrittenBy(w, accounts, range)),
                                              LAMBDA c : <<-c.at, c.id>>)),
      events   |-> [i \in issues |-> SortedBy(Events(i), LAMBDA e : <<-EventTime(e), 0>>)],
      timeline |-> WorklogTimeline(logs),
      metrics  |-> BoardMetrics(w, issues, logs, range),
      warnings |-> CASE accounts = {} -> {} [] issues = {} -> failed \ TimelineQueries [] OTHER -> failed]

-----------------------------------------------------------------------------
(* The review of a teammate's account.  An issue is the teammate's who is  *)
(* its assignee now, and is dated by its last update.                      *)
ReviewedIssues(w, account, range) ==
  {i \in Issues(w) : /\ w.issue[i].assignee = account
                     /\ w.issue[i].created < range.until /\ InRange(w.issue[i].updated, range)}

ReviewedComments(w, account, range) ==
  {c \in w.comments : w.issue[c.issue].assignee = account /\ InRange(c.at, range)}

DailyHours(range, logs) ==
  [d \in {t \in range.from..(range.until - 1) : t % Day = 0} |-> Hours(Minutes({l \in logs : StartOfDay(l.at) = d}))]

WeekOf(t) == LocalDay(t) - (LocalDay(t) % (7 * Day))
WeeklyVelocity(w, done) ==
  [k \in {WeekOf(w.issue[i].updated) : i \in done} |-> Cardinality({i \in done : WeekOf(w.issue[i].updated) = k})]

(* The mean of the hours from an issue's creation to the first worklog     *)
(* there or comment by the teammate; an activity before it does not count. *)
ResponseLatency(w, account, issues, logs, comments) ==
  LET First(i) == {l.at : l \in {m \in logs : m.issue = i}}
                  \cup {c.at : c \in {d \in comments : d.issue = i /\ d.author = account}}
      answered == {i \in issues : First(i) # {} /\ Min(First(i)) >= w.issue[i].created}
  IN IF answered = {} THEN NoOne
     ELSE Rounded(1200 * SumOf([i \in answered |-> Min(First(i)) - w.issue[i].created]), Cardinality(answered))

(* The peers' three latest comments.                                       *)
ReviewHighlights(comments, account) ==
  UpTo(3, SortedBy({c \in comments : c.author # account}, LAMBDA c : <<-c.at, c.id>>))

(* Sums of the daily hours; the square of the deviation times n^2 stands   *)
(* for the standard deviation.                                             *)
Spread(daily) ==
  LET n == Cardinality(DOMAIN daily)
  IN n * SumOf([d \in DOMAIN daily |-> daily[d] * daily[d]]) - SumOf(daily) * SumOf(daily)

(* What the status, the fields Jira sent and the comments say.  An issue   *)
(* that is done counts as done whatever else its status says.              *)
Done(w, issues) ==
  {i \in issues : Says(w.issue[i].status, {"done", "closed", "resolved", "complete", "completed",
                                           "cancelled", "accepted"})}
Reopened(w, issues) == {i \in issues : Says(w.issue[i].status, {"reopen", "re-open"})}
Bugs(w, issues) == {i \in issues : TypeWords[w.issue[i].type] \cap {"bug", "defect", "issue"} # {}}
IssueLinks(w, issues) == SumOf([i \in issues |-> w.issue[i].foreignLinks])
MentionsOf(w, comments, account) == {c \in comments : c.author # account /\ Mentions(w, c, account)}

BuildPerformanceMetrics(w, account, start, end) ==
  LET range == DayRange(start, end)
      issues == ReviewedIssues(w, account, range)
      logs == LoggedBy(w, {account}, range)
      comments == ReviewedComments(w, account, range)
      peers == {c \in comments : c.author # account}
      done == Done(w, issues)
      blocked == {i \in issues : IsBlocked(w.issue[i].status)}
      daily == DailyHours(range, logs)
  IN [range      |-> range,
      committed  |-> Cardinality(issues), completed |-> Cardinality(done),
      ratio      |-> IF issues = {} THEN NoOne ELSE Rounded(100 * Cardinality(done), Cardinality(issues)),
      weekly     |-> WeeklyVelocity(w, done),
      daily      |-> daily, totalHours |-> SumOf(daily),
      averageHours |-> Rounded(SumOf(daily), Cardinality(DOMAIN daily)), spread |-> Spread(daily),
      reopened   |-> Cardinality(Reopened(w, issues)),
      bugs       |-> Cardinality(Bugs(w, issues)),
      blockers   |-> [resolved |-> Cardinality(blocked \cap done), active |-> Cardinality(blocked \ done)],
      highlights |-> ReviewHighlights(comments, account),
      authored   |-> Cardinality(comments \ peers),
      mentions   |-> Cardinality(MentionsOf(w, comments, account)),
      links      |-> IssueLinks(w, issues),
      latency    |-> ResponseLatency(w, account, issues, logs, comments),
      peers      |-> Cardinality({c.author : c \in peers}),
      warnings   |-> {v \in {"MISSING_WORKLOGS"} : logs = {}} \cup {v \in {"LOW_COLLABORATION"} : comments = {}}]

(* The narrative of a review: what each list of it holds.  The deviation   *)
(* is rounded to a hundredth before it is compared, so that it is below    *)
(* (above) a number of hours when it is half of one below (above) it.      *)
GeneratePerformanceSummary(m) ==
  LET n == Cardinality(DOMAIN m.daily)
      Below(hours) == 4 * m.spread < ((200 * hours - 1) * n) * ((200 * hours - 1) * n)
      Above(hours) == 4 * m.spread >= ((200 * hours + 1) * n) * ((200 * hours + 1) * n)
  IN [narrative |-> <<m.ratio, m.completed, m.committed, m.totalHours, m.authored, m.peers,
                      m.blockers.resolved, m.reopened>>,
      strengths |-> {s \in {"completion", "steady", "collaboration", "blockers"} :
                       CASE s = "completion"    -> m.ratio # NoOne /\ m.ratio >= 90
                         [] s = "steady"        -> m.totalHours > 0 /\ Below(2)
                         [] s = "collaboration" -> m.authored >= 5
                         [] s = "blockers"      -> m.blockers.resolved > 0},
      improvements |-> {s \in {"planning", "balance", "updates", "reopened"} :
                       CASE s = "planning"  -> m.ratio # NoOne /\ m.ratio < 75 /\ m.committed > 5
                         [] s = "balance"   -> m.totalHours > 0 /\ Above(3)
                         [] s = "updates"   -> m.authored = 0
                         [] s = "reopened"  -> m.reopened > 0},
      anomalies |-> {s \in {"no worklogs", "no collaboration", "slow response"} :
                       CASE s = "no worklogs"      -> m.totalHours = 0
                         [] s = "no collaboration" -> "LOW_COLLABORATION" \in m.warnings
                         [] s = "slow response"    -> m.latency # NoOne /\ m.latency > 4800}]

ComparePerformanceMetrics(current, compare) ==
  [completion |-> IF NoOne \in {current.ratio, compare.ratio} THEN NoOne ELSE current.ratio - compare.ratio,
   velocity   |-> current.completed - compare.completed,
   hours      |-> current.totalHours - compare.totalHours,
   comments   |-> current.authored - compare.authored]

(* The portfolio view: the review page combines the metrics of a teammate  *)
(* in several projects.                                                    *)
SumMaps(maps) ==
  [d \in UNION {DOMAIN maps[i] : i \in DOMAIN maps} |->
     SumOf([i \in DOMAIN maps |-> IF d \in DOMAIN maps[i] THEN maps[i][d] ELSE 0])]

CombinePerformanceMetrics(ms) ==
  LET n == DOMAIN ms
      Total(Field(_)) == SumOf([i \in n |-> Field(ms[i])])
      committed == Total(LAMBDA m : m.committed)
      completed == Total(LAMBDA m : m.completed)
      daily == SumMaps([i \in n |-> ms[i].daily])
      told == {i \in n : ms[i].latency # NoOne}
  IN [committed  |-> committed, completed |-> completed,
      ratio      |-> IF committed = 0 THEN NoOne ELSE Rounded(100 * completed, committed),
      weekly     |-> SumMaps([i \in n |-> ms[i].weekly]),
      daily      |-> daily, totalHours |-> SumOf(daily),
      averageHours |-> Rounded(SumOf(daily), Cardinality(DOMAIN daily)), spread |-> Spread(daily),
      reopened   |-> Total(LAMBDA m : m.reopened), bugs |-> Total(LAMBDA m : m.bugs),
      blockers   |-> [resolved |-> Total(LAMBDA m : m.blockers.resolved), active |-> Total(LAMBDA m : m.blockers.active)],
      highlights |-> UNION {ToSet(ms[i].highlights) : i \in n},
      authored   |-> Total(LAMBDA m : m.authored), mentions |-> Total(LAMBDA m : m.mentions),
      links      |-> Total(LAMBDA m : m.links), peers |-> Total(LAMBDA m : m.peers),
      latency    |-> IF told = {} THEN NoOne
                     ELSE Rounded(SumOf([i \in told |-> ms[i].latency]), Cardinality(told)),
      warnings   |-> UNION {ms[i].warnings : i \in n} \cup {"PORTFOLIO_VIEW"}]
=============================================================================
