-------------------------- MODULE SummarySnapshots --------------------------
(***************************************************************************)
(* The snapshots of a project, made by the runs of                         *)
(* generateHierarchicalSummariesForDate while the sync and the             *)
(* administrators change the rows they are made of.                        *)
(*                                                                         *)
(* A run is one step: it reads and writes in one transaction; that another *)
(* transaction commits between two of its queries is left out.  So is the  *)
(* DailySummary row of a user and a day: a run writes it, nothing reads it.*)
(***************************************************************************)
EXTENDS HierarchicalSummary

CONSTANTS InitialRows, MovesTo, MaxTime, MaxRuns, MaxChanges

(* The rows of a project that can be: what the sync and the administrators *)
(* change keeps its shape, the rest stays as it was.                       *)
IssueIds == DOMAIN InitialRows.issue
Profiles == InitialRows.profiles
UserIds == DOMAIN InitialRows.link
Holders == Profiles \cup {InitialRows.anonymous[i] : i \in IssueIds}
Handles == UNION {InitialRows.handles[a] : a \in Profiles}

IssueRows ==
  [status : Statuses, closed : BOOLEAN, updated : Int, assignee : Holders, mood : Int \cup {NoOne},
   created : Int, sprint : {NoOne} \cup DOMAIN InitialRows.sprint, type : Types, foreignLinks : Nat]
WorklogRows == [author : Holders, issue : IssueIds, at : Int, minutes : Nat]
CommentRows ==
  [id : Int, author : Holders, issue : IssueIds, at : Int, words : SUBSET BlockerKeywords, handles : SUBSET Handles]
AbsenceRows == [account : Profiles, from : Int, to : Int]

Rows ==
  [issue : [IssueIds -> IssueRows], sprint : {InitialRows.sprint},
   worklogs : SUBSET WorklogRows, comments : SUBSET CommentRows, absences : SUBSET AbsenceRows,
   profiles : {Profiles}, handles : {InitialRows.handles}, anonymous : {InitialRows.anonymous},
   tracked : SUBSET Profiles, link : [UserIds -> Profiles \cup {NoOne}], name : {InitialRows.name}]

ASSUME RowsAssumption ==
  /\ InitialRows \in Rows
  /\ InitialRows.anonymous \in [IssueIds -> Holders] /\ InitialRows.handles \in [Profiles -> SUBSET Handles]
  /\ IsFiniteSet(IssueIds) /\ IssueIds \subseteq Int /\ IsFiniteSet(UserIds) /\ IsFiniteSet(Profiles)
  /\ IsFiniteSet(InitialRows.worklogs) /\ IsFiniteSet(InitialRows.comments)
  /\ NoOne \notin Holders \cup UserIds /\ NoOne \notin Int
  /\ MovesTo \subseteq Statuses /\ Names \in Seq(STRING)

(* Whatever is there at the start was created before it, an issue no later *)
(* than it was updated, and no two comments have one id.                   *)
Start == 7 * Day + 1
ASSUME DatesAssumption ==
  /\ \A i \in IssueIds : InitialRows.issue[i].created <= InitialRows.issue[i].updated
  /\ \A i \in IssueIds : InitialRows.issue[i].created <= Start
  /\ \A c, d \in InitialRows.comments : c.id < 0 /\ (c.id = d.id => c = d)

VARIABLES rows,       \* what the summaries are made of
          now,        \* the time, in half days
          snapshots,  \* the runs, in the order of their creation
          changes     \* changes made to the rows so far

vars == <<rows, now, snapshots, changes>>

Today == now - (now % Day)
Users == DOMAIN rows.link

Init ==
  /\ rows = InitialRows
  /\ now = Start
  /\ snapshots = <<>>
  /\ changes = 0

-----------------------------------------------------------------------------
(* The sync and the administrators.  A change after the last run is left   *)
(* out: a run keeps the rows it was made of.                               *)
Changes(newRows) ==
  /\ Len(snapshots) < MaxRuns
  /\ changes < MaxChanges /\ changes' = changes + 1
  /\ rows' = newRows
  /\ UNCHANGED <<now, snapshots>>

(* upsertJiraUser makes an account of its own for nobody.                  *)
Assignee(i, account) == IF account = NoOne THEN rows.anonymous[i] ELSE account

IssueUpserted(i, status, account) ==
  Changes([rows EXCEPT !.issue[i].status = status, !.issue[i].updated = now,
                       !.issue[i].assignee = Assignee(i, account)])

WorkLogged(account, i) ==
  Changes([rows EXCEPT !.worklogs = @ \cup {[author |-> account, issue |-> i, at |-> now, minutes |-> 20]}])

Commented(account, i, words, handles) ==
  Changes([rows EXCEPT !.comments = @ \cup {[id |-> changes, author |-> account, issue |-> i, at |-> now,
                                             words |-> words, handles |-> handles]}])

AbsenceEntered(account) ==
  Changes([rows EXCEPT !.absences = @ \cup {[account |-> account, from |-> Today, to |-> Today + Day]}])

MapUserToProject(u, account) == Changes([rows EXCEPT !.link[u] = account])
UnlinkUserFromProject(u) == Changes([rows EXCEPT !.link[u] = NoOne])

(* setProjectTrackedUsers: who is not in the list is deleted.              *)
SetProjectTrackedUsers(tracked) == Changes([rows EXCEPT !.tracked = tracked])

-----------------------------------------------------------------------------
(* Which of several users linked to one account is found: the database's   *)
(* choice.                                                                 *)
FoundUsers(w) ==
  {f \in [LinkedAccounts(w) -> Users] : \A a \in DOMAIN f : w.link[f[a]] = a}

(* The rows of the latest day before that satisfy a test; of several runs  *)
(* of that day any may be found.                                           *)
Latest(found, day) ==
  LET earlier == {k \in DOMAIN found : found[k].day < day}
  IN {found[k] : k \in {j \in earlier : \A l \in earlier : found[l].day <= found[j].day}}

(* The text is the previous one if the hash is, and so is its date.        *)
Narrated(previous, hash, text, stamp) ==
  IF \E p \in previous : p.hash = hash
  THEN LET p == CHOOSE q \in previous : q.hash = hash
       IN [hash |-> hash, narrative |-> p.narrative, generatedAt |-> p.generatedAt]
  ELSE [hash |-> hash, narrative |-> text, generatedAt |-> stamp]

Chapters(runs, user) ==
  FlattenSeq(Mapped(runs, LAMBDA r : SelectSeq(r.users, LAMBDA u : u.payload.target.user = user)))

(* persistUserSummaries: the tasks of a teammate are those whose daily     *)
(* summary has the same id.                                                *)
OwnTasks(tasks, id) == Selected(tasks, LAMBDA t : t.daily = id)
PersistUserSummary(w, runs, summary, tasks, day) ==
  LET own == OwnTasks(tasks, summary.id)
      payload == BuildUserPayload(w, summary, own)
      previous == IF summary.target.user = NoOne THEN {}
                  ELSE Latest(Chapters(runs, summary.target.user), day)
      text == Narrated(previous, BuildUserNarrativeInput(payload), ComposeUserNarrative(w, payload, own), Len(runs) + 1)
  IN [day |-> day, payload |-> payload, tasks |-> own,
      hash |-> text.hash, narrative |-> text.narrative, generatedAt |-> text.generatedAt]

PersistUserSummaries(w, runs, summaries, tasks, day) ==
  Mapped(summaries, LAMBDA s : PersistUserSummary(w, runs, s, tasks, day))

PersistProjectSummary(w, runs, users, tasks, day) ==
  LET payloads == Mapped(users, LAMBDA u : u.payload)
      payload == BuildProjectPayload(w, payloads, tasks)
      text == Narrated(Latest(runs, day), BuildProjectNarrativeInput(payload, payloads, tasks),
                       ComposeProjectNarrative(w, payload, payloads, tasks), Len(runs) + 1)
  IN [day |-> day, rows |-> w, users |-> users, tasks |-> tasks, payload |-> payload,
      hash |-> text.hash, narrative |-> text.narrative, generatedAt |-> text.generatedAt]

NewRun(runs, userOf, day) ==
  LET summaries == GenerateSummariesForDate(rows, userOf, day)
      tasks == PersistTaskSummaries(rows, summaries, day, now)
      users == PersistUserSummaries(rows, runs, summaries, tasks, day)
  IN PersistProjectSummary(rows, runs, users, tasks, day)

GenerateHierarchicalSummariesForDate(day) ==
  /\ Len(snapshots) < MaxRuns
  /\ \E userOf \in FoundUsers(rows) :
       snapshots' = Append(snapshots, NewRun(snapshots, userOf, day))
  /\ UNCHANGED <<rows, now, changes>>

(* backfillProjectSummaries: today, yesterday and so on.                   *)
BackfillProjectSummaries(days) ==
  /\ Len(snapshots) + days <= MaxRuns
  /\ \E userOf \in FoundUsers(rows) :
       LET AddRun(runs, day) == Append(runs, NewRun(runs, userOf, day))
           filled[k \in 0..days] ==
             IF k = 0 THEN snapshots ELSE AddRun(filled[k - 1], Today - (k - 1) * Day)
       IN snapshots' = filled[days]
  /\ UNCHANGED <<rows, now, changes>>

Tick ==
  /\ now < MaxTime /\ now' = now + 1
  /\ UNCHANGED <<rows, snapshots, changes>>

-----------------------------------------------------------------------------
Accounts == rows.profiles

SyncStep ==
  \/ \E i \in Issues(rows), s \in MovesTo : IssueUpserted(i, s, rows.issue[i].assignee)
  \/ \E i \in Issues(rows), a \in Accounts \cup {NoOne} : IssueUpserted(i, rows.issue[i].status, a)
  \/ \E a \in Accounts, i \in Issues(rows) : WorkLogged(a, i)
  \/ \E a \in Accounts, i \in Issues(rows), words \in {{}, {"stuck"}} : \E b \in Accounts \ {a} :
       Commented(a, i, words, rows.handles[b])
  \/ \E a \in Accounts : AbsenceEntered(a)

AdminStep ==
  \/ \E u \in Users, a \in Accounts : MapUserToProject(u, a)
  \/ \E u \in Users : UnlinkUserFromProject(u)
  \/ \E tracked \in SUBSET Accounts : SetProjectTrackedUsers(tracked)

SummaryStep ==
  \/ GenerateHierarchicalSummariesForDate(Today)
  \/ BackfillProjectSummaries(2)

Next == SyncStep \/ AdminStep \/ SummaryStep \/ Tick

Spec == Init /\ [][Next]_vars

-----------------------------------------------------------------------------
(* Nobody is in a stand-up twice and nobody is missing: one chapter per    *)
(* tracked or linked account, and no two chapters share a stored row, so   *)
(* that no task is counted for two teammates (generateSummariesForDate,    *)
(* tasksByDailyId).                                                        *)
EveryoneOnce ==
  \A r \in ToSet(snapshots) :
    LET targets == Mapped(r.users, LAMBDA u : u.payload.target)
    IN /\ {t.account : t \in ToSet(targets)}
            = r.rows.tracked \cup LinkedAccounts(r.rows)
       /\ \A j, k \in DOMAIN targets :
            j # k => targets[j].account # targets[k].account /\ SummaryId(targets[j]) # SummaryId(targets[k])

(* The project's figures are the sums of the teammates', every teammate is *)
(* active, idle or offline, and every minute that somebody present logged  *)
(* in the window is told, on whosever issue (buildProjectPayload).         *)
ProjectAddsUp ==
  \A r \in ToSet(snapshots) :
    LET health == r.payload.health
        Sum(Value(_)) == Total(r.users, LAMBDA u : Value(u.payload.metrics))
        present == {u.payload.target.account :
                      u \in {v \in ToSet(r.users) : "unavailable" \notin v.payload.flags}} \cap r.rows.profiles
    IN /\ health.done = Sum(LAMBDA m : m.done) /\ health.blocked = Sum(LAMBDA m : m.blocked)
       /\ health.active + health.idle + health.offline = Len(r.users)
       /\ health.minutes = Minutes({l \in r.rows.worklogs : InWindow(l.at, r.day) /\ l.author \in present})

(* A text taken over from an earlier day is the one that would be written  *)
(* today: what it tells is in what is hashed (buildProjectNarrativeInput,  *)
(* composeProjectNarrative).                                               *)
ReusedTextIsTodays ==
  \A r \in ToSet(snapshots) :
    r.narrative = ComposeProjectNarrative(r.rows, r.payload, Mapped(r.users, LAMBDA u : u.payload), r.tasks)
=============================================================================
