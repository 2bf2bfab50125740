------------------------ MODULE HierarchicalSummary ------------------------
(***************************************************************************)
(* The snapshots of hierarchicalSummaryService.ts: a task per teammate and *)
(* issue, a chapter per teammate, one summary of the project, each         *)
(* computed from the level below, and the texts that are taken over from   *)
(* an earlier day when what they are hashed over has not changed.          *)
(*                                                                         *)
(* A text is the record of what it tells; a hash is the record it is taken *)
(* over.  The functions read "now" only to tell what is stale.             *)
(***************************************************************************)
EXTENDS DailySummary

CONSTANTS MaxWins,      \* accomplishments of a teammate, highlights (3 in the source)
          MaxCalls,     \* calls to action of a project (6 in the source)
          MaxTold       \* calls to action the text tells (3 in the source)

(* normalizeTaskStatus: the first test that holds decides.                 *)
NormalizeTaskStatus(status, closed) ==
  CASE Says(status, {"block"})                          -> "BLOCKED"
    [] Says(status, {"review", "qa"})                   -> "IN_REVIEW"
    [] Says(status, {"done", "resolved"}) \/ closed     -> "DONE"
    [] Says(status, {"backlog", "todo", "to do"})       -> "STALLED"
    [] OTHER                                            -> "IN_PROGRESS"

LastActivity(w, item) ==
  Max({l.at : l \in item.worklogs} \cup {c.at : c \in item.comments} \cup {w.issue[item.issue].updated})

DeriveRiskFlags(w, item, status, now) ==
  {f \in {"blocked", "unassigned", "stale", "no_activity"} :
     CASE f = "blocked"     -> status = "BLOCKED"
       [] f = "unassigned"  -> w.issue[item.issue].assignee = NoOne
       [] f = "stale"       -> LastActivity(w, item) < now - 2 * Day
       [] f = "no_activity" -> item.worklogs = {} /\ item.comments = {}}

(* The assignee waits (is waited for) while the issue is blocked or in     *)
(* review.  The people are Jira accounts.                                  *)
BuildTaskParticipants(w, item, flags) ==
  LET i == w.issue[item.issue]
      people == {l.author : l \in item.worklogs} \cup {c.author : c \in item.comments}
                \cup ({i.assignee} \ {NoOne})
  IN [p \in people |->
        [minutes   |-> Minutes({l \in item.worklogs : l.author = p}),
         comments  |-> Cardinality({c \in item.comments : c.author = p}),
         waitingOn |-> p = i.assignee /\ ("blocked" \in flags \/ Says(i.status, {"review"}))]]

BuildTaskTimeline(w, item) ==
  SortedBy({[at |-> w.issue[item.issue].updated, what |-> "status", who |-> w.issue[item.issue].assignee]}
           \cup {[at |-> l.at, what |-> "worklog", who |-> l.author] : l \in item.worklogs}
           \cup {[at |-> c.at, what |-> "comment", who |-> c.author] : c \in item.comments},
           LAMBDA e : <<e.at, 0>>)

DeriveNextStep(status) ==
  CASE status = "DONE"      -> "nothing"
    [] status = "IN_REVIEW" -> "await sign-off"
    [] status = "BLOCKED"   -> "resolve blocker"
    [] status = "STALLED"   -> "re-engage"
    [] OTHER                -> "continue"

(* buildActivityBullets: the hours come first.                             *)
FirstBullet(minutes, comments) == IF minutes > 0 THEN <<"logged", minutes>> ELSE <<"comments", comments>>

(* Minutes are whole here; the code rounds each worklog.                   *)
BuildTaskPayload(w, daily, group, item, day, now) ==
  LET status == NormalizeTaskStatus(group.status, w.issue[item.issue].closed)
      flags == DeriveRiskFlags(w, item, status, now)
  IN [issue    |-> item.issue, user |-> daily.target.user, daily |-> daily.id,
      status   |-> status, flags |-> flags,
      headline |-> <<status, item.issue>>, nextStep |-> DeriveNextStep(status),
      bullet   |-> FirstBullet(Minutes(item.worklogs), Cardinality(item.comments)),
      totalMinutes  |-> Minutes(item.worklogs),
      recentMinutes |-> Minutes({l \in item.worklogs : l.at >= day - Day}),
      participants  |-> BuildTaskParticipants(w, item, flags),
      timeline      |-> BuildTaskTimeline(w, item),
      sentiment     |-> w.issue[item.issue].mood]

(* persistTaskSummaries: the tasks in the order of the dailies, the groups *)
(* and the items.                                                          *)
TasksOf(w, daily, day, now) ==
  Joined([g \in DOMAIN daily.workItems |->
    [t \in DOMAIN daily.workItems[g].items |->
       BuildTaskPayload(w, daily, daily.workItems[g], daily.workItems[g].items[t], day, now)]])

PersistTaskSummaries(w, dailies, day, now) ==
  Joined([d \in DOMAIN dailies |-> TasksOf(w, dailies[d], day, now)])

-----------------------------------------------------------------------------
Count(tasks, Test(_)) == Cardinality({k \in DOMAIN tasks : Test(tasks[k])})
Total(s, Value(_)) == SumOf([k \in DOMAIN s |-> Value(s[k])])
Mapped(s, Op(_)) == [k \in DOMAIN s |-> Op(s[k])]

Name(w, target) == w.name[IF target.user # NoOne THEN target.user ELSE target.tracked]

(* Everybody else on the teammate's issues.  Accounts are compared with    *)
(* the ids of a user and a tracked user, so only an equal name tells that  *)
(* a participant is the teammate.                                          *)
BuildCollaborationNotes(w, target, tasks) ==
  UNION {{[partner |-> p, issue |-> tasks[k].issue] :
            p \in {q \in DOMAIN tasks[k].participants : q # target.user /\ w.name[q] # Name(w, target)}} :
         k \in DOMAIN tasks}

(* Who is to decide.  The participants are accounts, the teammate is told  *)
(* by the id of the user.                                                  *)
WaitsFor(task, user) == user \in DOMAIN task.participants /\ task.participants[user].waitingOn
WaitsForOthers(task, user) == \E p \in DOMAIN task.participants : p # user /\ task.participants[p].waitingOn
Decision(t) == [issue |-> t.issue, tells |-> IF t.nextStep = "nothing" THEN t.status ELSE t.nextStep]
BuildPendingDecisions(user, tasks) ==
  [ownedByUser     |-> Mapped(SelectSeq(tasks, LAMBDA t : WaitsFor(t, user)), Decision),
   waitingOnOthers |-> Mapped(SelectSeq(tasks, LAMBDA t : ~WaitsFor(t, user) /\ WaitsForOthers(t, user)),
                              Decision)]

(* The average of the issues' sentiments (in hundredths); above 20 it is   *)
(* good, below -20 bad.                                                    *)
CalculateUserMood(tasks) ==
  LET told == SelectSeq(tasks, LAMBDA t : t.sentiment # NoOne)
      sum == Total(told, LAMBDA t : t.sentiment)
  IN CASE told = <<>>                                  -> "none"
       [] told # <<>> /\ sum > 20 * Len(told)          -> "positive"
       [] told # <<>> /\ sum < -20 * Len(told)         -> "negative"
       [] OTHER                                        -> "neutral"

BuildUserHeadline(w, daily, tasks) ==
  LET Tells(what, number) == [name |-> Name(w, daily.target), tells |-> what, number |-> number]
      blocked == Count(tasks, LAMBDA t : t.status = "BLOCKED")
      done == Count(tasks, LAMBDA t : t.status = "DONE")
  IN CASE daily.unavailable                                   -> Tells("out", 0)
       [] ~daily.unavailable /\ tasks = <<>>                  -> Tells("no activity", 0)
       [] ~daily.unavailable /\ blocked > 0                   -> Tells("blocked", blocked)
       [] ~daily.unavailable /\ blocked = 0 /\ done > 0       -> Tells("done", done)
       [] OTHER                                               -> Tells("active", Len(tasks))

AwayPayload(w, daily) ==
  [target |-> daily.target, headline |-> BuildUserHeadline(w, daily, <<>>),
   accomplishments |-> <<>>, inFlight |-> <<>>, blockers |-> <<>>, focusNext |-> <<>>,
   metrics |-> [minutes |-> 0, touched |-> 0, done |-> 0, blocked |-> 0],
   flags |-> {"unavailable"}, notes |-> {}, pending |-> BuildPendingDecisions(NoOne, <<>>), mood |-> "none"]

UserMetrics(tasks) ==
  [minutes |-> Total(tasks, LAMBDA t : t.recentMinutes), touched |-> Len(tasks),
   done    |-> Count(tasks, LAMBDA t : t.status = "DONE"),
   blocked |-> Count(tasks, LAMBDA t : t.status = "BLOCKED")]

UserFlags(tasks, metrics) ==
  {f \in {"idle"} : tasks = <<>> /\ metrics.minutes = 0} \cup {f \in {"blockers_present"} : metrics.blocked > 0}

PresentPayload(w, daily, tasks) ==
  LET Of(statuses) == SelectSeq(tasks, LAMBDA t : t.status \in statuses)
  IN [target |-> daily.target, headline |-> BuildUserHeadline(w, daily, tasks),
      accomplishments |-> UpTo(MaxWins, Mapped(Of({"DONE", "IN_REVIEW"}), LAMBDA t : t.headline)),
      inFlight  |-> Mapped(Of({"IN_PROGRESS", "IN_REVIEW"}), LAMBDA t : <<t.issue, t.status, t.bullet>>),
      blockers  |-> Mapped(Of({"BLOCKED"}), LAMBDA t : t.headline),
      focusNext |-> daily.today,
      metrics   |-> UserMetrics(tasks),
      flags     |-> UserFlags(tasks, UserMetrics(tasks)),
      notes     |-> BuildCollaborationNotes(w, daily.target, tasks),
      pending   |-> BuildPendingDecisions(daily.target.user, tasks),
      mood      |-> CalculateUserMood(tasks)]

BuildUserPayload(w, daily, tasks) ==
  IF daily.unavailable THEN AwayPayload(w, daily) ELSE PresentPayload(w, daily, tasks)

(* buildUserNarrativeInput: everything but whose it is and the mood.       *)
BuildUserNarrativeInput(payload) ==
  [f \in {"headline", "accomplishments", "inFlight", "blockers", "focusNext", "flags", "notes",
          "pending", "metrics"} |-> payload[f]]

-----------------------------------------------------------------------------
(* What the manager is asked to do, each thing once, in the order in which *)
(* it is found; the first ones are kept.                                   *)
CallsOfUser(w, payload) ==
  LET name == Name(w, payload.target)
  IN Mapped(payload.pending.ownedByUser, LAMBDA t : [severity |-> "info", call |-> <<"follow up", name, t.issue>>])
     \o Mapped(payload.pending.waitingOnOthers,
               LAMBDA t : [severity |-> "warning", call |-> <<"unblock", name, t.issue>>])

CallsOfTask(t) ==
  CASE "blocked" \in t.flags -> <<[severity |-> "critical", call |-> <<"resolve blocker", t.issue>>]>>
    [] "blocked" \notin t.flags /\ "stale" \in t.flags
         -> <<[severity |-> "warning", call |-> <<"stale", t.issue>>]>>
    [] t.flags \cap {"blocked", "stale"} = {} /\ "unassigned" \in t.flags
         -> <<[severity |-> "warning", call |-> <<"assign owner", t.issue>>]>>
    [] OTHER -> <<>>

Distinct(s) == SelectSeq([k \in DOMAIN s |-> <<k, s[k]>>], LAMBDA e : \A j \in 1..(e[1] - 1) : s[j] # e[2])

BuildProjectCallsToAction(w, users, tasks) ==
  LET calls == FlattenSeq(Mapped(users, LAMBDA u : CallsOfUser(w, u)))
               \o FlattenSeq(Mapped(tasks, CallsOfTask))
  IN UpTo(MaxCalls, Mapped(Distinct(calls), LAMBDA e : e[2]))

Severity(flags) ==
  CASE "blocked" \in flags -> "critical"
    [] "blocked" \notin flags /\ flags \cap {"stale", "unassigned"} # {} -> "warning"
    [] OTHER -> "info"

BuildAtRiskDetails(tasks) ==
  Mapped(SelectSeq(tasks, LAMBDA t : t.flags # {}),
         LAMBDA t : [issue |-> t.issue, reason |-> t.flags, severity |-> Severity(t.flags)])

TallyRiskFlags(tasks) ==
  [f \in UNION {t.flags : t \in ToSet(tasks)} |-> Count(tasks, LAMBDA t : f \in t.flags)]

TeamHealth(users, tasks) ==
  LET offline == Count(users, LAMBDA u : "unavailable" \in u.flags)
      idle == Count(users, LAMBDA u : "unavailable" \notin u.flags /\ u.metrics.touched = 0)
      tracked == Len(users) - offline
      recent == Total(users, LAMBDA u : u.metrics.minutes)
  IN [active |-> Max({tracked - idle, 0}), tracked |-> tracked, idle |-> idle, offline |-> offline,
      minutes |-> IF recent # 0 THEN recent ELSE Total(tasks, LAMBDA t : t.totalMinutes),
      done    |-> Count(tasks, LAMBDA t : t.status = "DONE"),
      blocked |-> Count(tasks, LAMBDA t : t.status = "BLOCKED")]

BuildProjectPayload(w, users, tasks) ==
  LET health == TeamHealth(users, tasks)
      Where(Test(_)) == Mapped(SelectSeq(tasks, Test), LAMBDA t : t.issue)
  IN [brief      |-> [done |-> health.done, blocked |-> health.blocked, minutes |-> health.minutes],
      highlights |-> UpTo(MaxWins, FlattenSeq(Mapped(users, LAMBDA u : u.accomplishments))),
      criticalBlockers |-> Where(LAMBDA t : t.status = "BLOCKED"),
      atRiskWork |-> TallyRiskFlags(tasks),
      health     |-> health,
      unassigned |-> Where(LAMBDA t : "unassigned" \in t.flags),
      calls      |-> BuildProjectCallsToAction(w, users, tasks),
      atRiskDetails |-> BuildAtRiskDetails(tasks)]

(* What the project's text is hashed over, and the text.                   *)
InputWithoutHeadlines(payload, users, tasks) ==  \* mutant: the teammates are not hashed
  [payload |-> payload, taskCount |-> Len(tasks)]
BuildProjectNarrativeInput(payload, users, tasks) ==
  [payload |-> payload, headlines |-> Mapped(users, LAMBDA u : u.headline), taskCount |-> Len(tasks)]

ComposeProjectNarrative(w, payload, users, tasks) ==
  [brief      |-> payload.brief, highlights |-> payload.highlights,
   actions    |-> UpTo(MaxTold, payload.calls), blockers |-> payload.criticalBlockers,
   risks      |-> payload.atRiskWork, health |-> payload.health, issues |-> Len(tasks),
   standouts  |-> UpTo(3, Mapped(users, LAMBDA u : Name(w, u.target)))]

ComposeUserNarrative(w, payload, tasks) ==
  [name       |-> Name(w, payload.target), metrics |-> payload.metrics,
   focus      |-> UpTo(2, Mapped(tasks, LAMBDA t : t.headline)),
   wins       |-> payload.accomplishments, inMotion |-> payload.inFlight, blockers |-> payload.blockers,
   partners   |-> {w.name[n.partner] : n \in payload.notes},
   pending    |-> <<Len(payload.pending.ownedByUser), Len(payload.pending.waitingOnOthers)>>,
   next       |-> payload.focusNext]
=============================================================================
