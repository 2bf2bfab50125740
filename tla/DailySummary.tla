---------------------------- MODULE DailySummary ----------------------------
(***************************************************************************)
(* The stand-up summaries of dailySummaryService.ts: what one teammate did *)
(* yesterday, will do today and is blocked by, computed from the rows of   *)
(* one project, and the list of teammates a project's stand-up consists of.*)
(*                                                                         *)
(* w is the project's rows at one moment: the issues, worklogs, comments,  *)
(* Jira profiles with the handles they are mentioned by, the tracked       *)
(* accounts, the account each user is linked to, the absences, and who is  *)
(* called what.  Time is counted in half days; day is the start of a day.  *)
(* A status is told by the keywords its text contains, a comment by the    *)
(* keywords and the handles in it.                                         *)
(***************************************************************************)
EXTENDS Integers, SequencesExt, TLC

CONSTANTS NoOne,        \* no account, no user, no tracked user
          Names,        \* the display names in their order
          MaxAssigned,  \* assigned issues taken into account (30 in the source)
          MaxToday      \* issues of today's plan (6 in the source)

ASSUME LimitAssumption == MaxAssigned \in Nat /\ MaxToday \in Nat

StatusWords ==
  "Backlog" :> {"backlog"} @@ "Blocked" :> {"block"} @@ "Done" :> {"done"}
  @@ "In Progress" :> {"progress", "in progress"} @@ "In Review" :> {"review"}
  @@ "On Hold" :> {"hold"} @@ "QA done" :> {"qa", "done"}
  @@ "Selected for Development" :> {"selected"} @@ "To Do" :> {"to do"}
Statuses == DOMAIN StatusWords

(* The same for the types of an issue.                                     *)
TypeWords ==
  "Bug" :> {"bug"} @@ "Issue" :> {"issue"} @@ "Production defect" :> {"defect"} @@ "Story" :> {}
Types == DOMAIN TypeWords

Alphabetical == <<"Backlog", "Blocked", "Done", "In Progress", "In Review", "On Hold", "QA done",
                  "Selected for Development", "To Do">>

StatusPriority == <<"in progress", "doing", "active", "selected", "todo", "to do", "backlog">>
ActiveValues == {"In Progress", "In Review", "Selected for Development", "Blocked"}
DoneValues == {"Done"}
DoneWords == {"done", "closed", "resolved", "completed", "cancelled"}
BlockerKeywords == {"block", "stuck", "waiting", "imped", "hold", "delay"}

Says(status, words) == StatusWords[status] \cap words # {}
IsActiveStatus(status) == Says(status, {"progress", "doing", "active", "block", "review"})

StatusRank(status) ==
  Min({k \in DOMAIN StatusPriority : Says(status, {StatusPriority[k]})} \cup {Len(StatusPriority) + 1})

(* summarizeAssignments: the first test that holds decides.                *)
CountsAs(status) ==
  CASE Says(status, {"block"})                     -> "blocked"
    [] Says(status, DoneWords)             -> "done"
    [] IsActiveStatus(status)                      -> "inProgress"
    [] Says(status, {"backlog", "todo", "to do"})  -> "backlog"
    [] OTHER                                       -> "todo"

SummarizeAssignments(w, issues) ==
  [c \in {"todo", "inProgress", "backlog", "done", "blocked"} |->
     Cardinality({i \in issues : CountsAs(w.issue[i].status) = c})]

-----------------------------------------------------------------------------
(* The window of a stand-up: yesterday and today.                          *)
Day == 2
InWindow(t, day) == day - Day <= t /\ t < day + Day

Issues(w) == DOMAIN w.issue

Mentions(w, comment, account) == comment.handles \cap w.handles[account] # {}

WorklogsOf(w, account, day) ==
  {l \in w.worklogs : l.author = account /\ InWindow(l.at, day)}

CommentsOf(w, account, day) ==
  {c \in w.comments : InWindow(c.at, day) /\ (c.author = account \/ Mentions(w, c, account))}

UpdatedBy(w, account, day) ==
  {i \in Issues(w) : w.issue[i].assignee = account /\ InWindow(w.issue[i].updated, day)}

Assignable(w, account, day) ==
  {i \in Issues(w) : /\ w.issue[i].assignee = account
                     /\ w.issue[i].status \notin DoneValues
                     /\ \/ w.issue[i].updated >= day - 7 * Day
                        \/ w.issue[i].status \in ActiveValues}

(* A set in the order of pairs of keys, the parts of a sequence that pass  *)
(* a test, the sequences of a sequence one after the other, and the place  *)
(* of a name in a list.  The database leaves open which of two things of   *)
(* equal keys comes first.                                                 *)
Before(p, q) == p[1] < q[1] \/ (p[1] = q[1] /\ p[2] < q[2])
NotAfter(list, key, j, k) ==
  Before(key[list[j]], key[list[k]]) \/ (key[list[j]] = key[list[k]] /\ j <= k)
PlaceIn(list, key, k) == Cardinality({j \in DOMAIN list : NotAfter(list, key, j, k)})
Arranged(S, key) ==
  LET list == SetToSeq(S)
  IN [n \in DOMAIN list |-> list[CHOOSE k \in DOMAIN list : PlaceIn(list, key, k) = n]]

SortedBy(S, Key(_)) == Arranged(S, [x \in S |-> Key(x)])
Selected(s, Test(_)) ==
  LET order == SortedBy({k \in DOMAIN s : Test(s[k])}, LAMBDA k : <<k, 0>>)
  IN [n \in DOMAIN order |-> s[order[n]]]
Joined(ss) ==
  LET order == SortedBy(UNION {{j} \X DOMAIN ss[j] : j \in DOMAIN ss}, LAMBDA p : p)
  IN [n \in DOMAIN order |-> ss[order[n][1]][order[n][2]]]
Place(list, x) == SelectInSeq(list, LAMBDA y : y = x)
UpTo(n, s) == SubSeq(s, 1, IF Len(s) < n THEN Len(s) ELSE n)

SumOf(f) == MapThenSumSet(LAMBDA x : f[x], DOMAIN f)
Minutes(logs) == SumOf([l \in logs |-> l.minutes])

(* The latest first; the database leaves open which of two equal ones.     *)
AssignedIssues(w, account, day) ==
  ToSet(UpTo(MaxAssigned, SortedBy(Assignable(w, account, day), LAMBDA i : <<-w.issue[i].updated, i>>)))

TouchedIssues(w, account, day) ==
  {l.issue : l \in WorklogsOf(w, account, day)} \cup {c.issue : c \in CommentsOf(w, account, day)}
  \cup UpdatedBy(w, account, day)

(* What the teammate contributed to an issue.                              *)
Contribution(w, account, day, i) ==
  [minutes  |-> Minutes({l \in WorklogsOf(w, account, day) : l.issue = i}),
   worklogs |-> Cardinality({l \in WorklogsOf(w, account, day) : l.issue = i}),
   comments |-> Cardinality({c \in CommentsOf(w, account, day) : c.issue = i /\ c.author = account}),
   mentions |-> Cardinality({c \in CommentsOf(w, account, day) : c.issue = i /\ Mentions(w, c, account)})]

BlockerIssues(w, assigned) == {i \in assigned : Says(w.issue[i].status, {"block", "hold"})}
BlockerComments(comments) == {c \in comments : c.words \cap BlockerKeywords # {}}

(* An issue in progress without a contribution and an update for half a    *)
(* day of the window makes the teammate late.                              *)
IsDelayed(w, account, day, i) ==
  LET c == Contribution(w, account, day, i)
  IN /\ Says(w.issue[i].status, {"progress", "doing", "active"})
     /\ c.worklogs = 0 /\ c.comments = 0
     /\ w.issue[i].updated < day - Day + 1

DeriveOverallStatus(w, account, day) ==
  LET assigned == AssignedIssues(w, account, day)
  IN CASE \/ BlockerIssues(w, assigned) # {}
          \/ BlockerComments(CommentsOf(w, account, day)) # {}    -> "BLOCKED"
       [] \E i \in assigned : IsDelayed(w, account, day, i) -> "DELAYED"
       [] OTHER                                             -> "ON_TRACK"

-----------------------------------------------------------------------------
(* The texts.  Yesterday's and the blockers' lines come in the order in    *)
(* which the database gives the rows; today's plan is ordered.             *)
BuildYesterdaySummary(w, account, day) ==
  {[issue |-> i, did |-> Contribution(w, account, day, i)] : i \in TouchedIssues(w, account, day)}

BuildTodaySummary(w, assigned) ==
  LET plan == UpTo(MaxToday, SortedBy(assigned, LAMBDA i : <<StatusRank(w.issue[i].status), i>>))
  IN [k \in DOMAIN plan |-> [issue |-> plan[k], status |-> w.issue[plan[k]].status]]

BuildBlockerSummary(w, account, day) ==
  [issues   |-> BlockerIssues(w, AssignedIssues(w, account, day)),
   comments |-> {[issue |-> c.issue, id |-> c.id] : c \in BlockerComments(CommentsOf(w, account, day))}]

(* groupWorkItems: an item per issue, in groups of one status.             *)
WorkItem(w, account, day, i) ==
  [issue    |-> i,
   worklogs |-> {l \in WorklogsOf(w, account, day) : l.issue = i},
   comments |-> {c \in CommentsOf(w, account, day) : c.issue = i}]

ItemTime(w, item) ==
  CASE item.worklogs # {} -> Max({l.at : l \in item.worklogs})
    [] item.worklogs = {} /\ item.comments # {} -> Max({c.at : c \in item.comments})
    [] OTHER -> w.issue[item.issue].updated

AssignedOnly(w, account, day) == AssignedIssues(w, account, day)  \* mutant
WorkedOn(w, account, day) == AssignedIssues(w, account, day) \cup TouchedIssues(w, account, day)

GroupWorkItems(w, account, day) ==
  LET Items(s) == {WorkItem(w, account, day, i) :
                     i \in {j \in WorkedOn(w, account, day) : w.issue[j].status = s}}
      groups == SortedBy({s \in Statuses : Items(s) # {}},
                         LAMBDA s : <<StatusRank(s), Place(Alphabetical, s)>>)
  IN [g \in DOMAIN groups |-> [status |-> groups[g], items |-> SortedBy(Items(groups[g]), LAMBDA t : <<-ItemTime(w, t), t.issue>>)]]

-----------------------------------------------------------------------------
(* A target is a teammate: an account, a user, a tracked account, each     *)
(* possibly missing.                                                       *)
IsAway(w, account, day) ==
  \E a \in w.absences : a.account = account /\ a.from < day + Day /\ a.to > day

NoCounts == [c \in {"todo", "inProgress", "backlog", "done", "blocked"} |-> 0]

(* The row of a user is upserted, one per day; who has no user gets a      *)
(* summary that is not stored, named after the account.                    *)
SummaryId(target) ==
  IF target.user # NoOne THEN <<"row", target.user>> ELSE <<"virtual", target.account>>

(* A summary without a computation, for a reason that is its text.         *)
EmptySummary(target, status, reason) ==
  [id |-> SummaryId(target), target |-> target, status |-> status, yesterday |-> reason, today |-> <<>>, blockers |-> reason,
   counts |-> NoCounts, workItems |-> <<>>, minutes |-> 0, unavailable |-> status = "OFFLINE"]

ComputedSummary(w, target, day) ==
  LET account == target.account
      assigned == AssignedIssues(w, account, day)
  IN [id          |-> SummaryId(target), target |-> target,
      status      |-> DeriveOverallStatus(w, account, day),
      yesterday   |-> BuildYesterdaySummary(w, account, day),
      today       |-> BuildTodaySummary(w, assigned),
      blockers    |-> BuildBlockerSummary(w, account, day),
      counts      |-> SummarizeAssignments(w, assigned),
      workItems   |-> GroupWorkItems(w, account, day),
      minutes     |-> Minutes(WorklogsOf(w, account, day)),
      unavailable |-> FALSE]

GenerateSummaryForTarget(w, target, day) ==
  LET Empty(status, reason) == EmptySummary(target, status, reason)
  IN CASE target.account = NoOne                                    -> Empty("DELAYED", "no account")
       [] target.account # NoOne /\ IsAway(w, target.account, day)  -> Empty("OFFLINE", "away")
       [] target.account \notin w.profiles \cup {NoOne} /\ ~IsAway(w, target.account, day)
                                                                    -> Empty("DELAYED", "no profile")
       [] OTHER                                                     -> ComputedSummary(w, target, day)

(* generateSummariesForDate: every tracked account with a user linked to   *)
(* it (userOf, if there are several), then the links whose account has not *)
(* been summarised, in the order of the users' names.                      *)
LinkedTo(w, account) == {u \in DOMAIN w.link : w.link[u] = account}

TrackedTarget(w, account, userOf) ==
  [account |-> account, tracked |-> account,
   user |-> IF LinkedTo(w, account) = {} THEN NoOne ELSE userOf[account]]

FirstLinked(w, account) ==
  CHOOSE u \in LinkedTo(w, account) :
    \A v \in LinkedTo(w, account) : Place(Names, w.name[u]) <= Place(Names, w.name[v])
LinkedTarget(w, account) == [account |-> account, tracked |-> NoOne, user |-> FirstLinked(w, account)]

ForgottenTargets(w, userOf) ==  \* mutant: the accounts of the first loop are not remembered
  {TrackedTarget(w, a, userOf) : a \in w.tracked}
  \cup {[account |-> w.link[u], tracked |-> NoOne, user |-> u] : u \in {v \in DOMAIN w.link : w.link[v] # NoOne}}
LinkedAccounts(w) == {w.link[u] : u \in DOMAIN w.link} \ {NoOne}
Targets(w, userOf) ==
  {TrackedTarget(w, a, userOf) : a \in w.tracked}
  \cup {LinkedTarget(w, a) : a \in LinkedAccounts(w) \ w.tracked}

(* getDisplayName                                                          *)
StandupName(w, target) == w.name[IF target.tracked # NoOne THEN target.tracked ELSE target.user]

GenerateSummariesForDate(w, userOf, day) ==
  LET targets == SortedBy(Targets(w, userOf), LAMBDA t : <<Place(Names, StandupName(w, t)), 0>>)
  IN [k \in DOMAIN targets |-> GenerateSummaryForTarget(w, targets[k], day)]

(* generateSummaryForUser: a teammate's own stand-up, asked for alone.     *)
GenerateSummaryForUser(w, user, day) ==
  LET account == w.link[user]
  IN GenerateSummaryForTarget(w, [account |-> account, user |-> user,
                                  tracked |-> IF account \in w.tracked THEN account ELSE NoOne], day)
=============================================================================
