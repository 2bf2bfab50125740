------------------------------ MODULE SyncRun -------------------------------
(***************************************************************************)
(* What the runs of a project's Jira sync fetch and store: the search for  *)
(* the issues updated since the watermark, page by page, the issues'       *)
(* details, the rows they become and the watermark of the next run         *)
(* (syncActivities.ts, jira-client.ts, jira/errorClassifier.ts), while     *)
(* issues change in Jira and administrators trigger runs and choose the    *)
(* tracked accounts.  Cadence and status are SyncCadence's.                *)
(*                                                                         *)
(* Time is counted by the changes in Jira, so the time an issue was        *)
(* updated is its version; its comments and worklogs belong to it.         *)
(***************************************************************************)
EXTENDS Integers, FiniteSets

CONSTANTS
  Issues, Accounts,
  InitialPeople,  \* the accounts that were assigned or logged work, per issue
  InitialTracked, \* the accounts tracked at first
  PossibleChanges, Wishes, Choices,  \* what may change, what administrators ask for and track
  MaxRuns,        \* bound: workflow executions that may be open at once
  PageSize,       \* issues per search (100 in the source)
  Minute, Day,    \* their lengths in ticks
  Ahead,          \* how far the Jira account's time zone is ahead of UTC; negative when behind
  MaxTries,       \* tries of one request (4 in the source)
  MaxAttempts,    \* retry.maximumAttempts of the activities (5 in the source)
  MaxTime, MaxFaults, MaxTriggers,  \* bounds
  None

ASSUME SyncAssumption ==
  /\ InitialPeople \in [Issues -> SUBSET Accounts] /\ InitialTracked \subseteq Accounts
  /\ PossibleChanges \subseteq Issues \X Accounts /\ Choices \subseteq SUBSET Accounts
  /\ Wishes \subseteq [full : BOOLEAN, asked : (SUBSET Accounts) \cup {None}, days : Int \cup {None}]
  /\ {MaxRuns, PageSize, Minute, Day, MaxTries, MaxAttempts} \subseteq Nat \ {0}
  /\ Ahead \in Int /\ None \notin Int \cup Accounts

VARIABLES
  jira,       \* per issue, when it was updated and who is involved
  rows,       \* per issue, the row and the comments and worklogs stored
  tracked,    \* the accounts of the ProjectTrackedUser rows
  watermark,  \* lastSyncTime of the SyncState rows, which are written together
  run,        \* the workflow executions
  now, faults, triggers,
  raced,      \* history: issues that changed while a run was open
  skipped,    \* history: issues that were behind when a partial run ended
  backfill,   \* history: issues of accounts that came to be tracked later
  hidden      \* history: issues that changed too soon after the watermark for the search to find

vars == <<jira, rows, tracked, watermark, run, now, faults, triggers, raced, skipped, backfill, hidden>>

Runs == 1..MaxRuns
NoRow == [updated |-> 0]
Closed ==
  [pc |-> "idle", by |-> "nobody", full |-> FALSE, asked |-> None, days |-> None, accounts |-> {},
   since |-> None, last |-> None, seen |-> {}, page |-> {}, more |-> FALSE,
   issue |-> None, detail |-> NoRow, found |-> {}, foundLast |-> None, tries |-> 1, attempts |-> 1]

Init ==
  /\ jira = [i \in Issues |-> [updated |-> 1, people |-> InitialPeople[i]]]
  /\ rows = [i \in Issues |-> NoRow]
  /\ tracked = InitialTracked /\ watermark = None
  /\ run = [r \in Runs |-> Closed]
  /\ now = 1 /\ faults = 0 /\ triggers = 0
  /\ raced = {} /\ skipped = {} /\ backfill = {} /\ hidden = {}

Open(r) == run[r].pc # "idle"
IsBehind(i) == rows[i].updated < jira[i].updated
Behind == {i \in Issues : IsBehind(i)}
Max2(s, t) == IF s = None \/ (t # None /\ t > s) THEN t ELSE s

StartOfDay(t) == t - (t % Day)
MinuteOf(t) == t - (t % Minute)

(* A search since a time is for its whole minute, formatted in UTC; Jira   *)
(* reads it in the zone of the account that asks, a time earlier or later. *)
Earliest(since) == MinuteOf(since) - Ahead

-----------------------------------------------------------------------------
(* Somebody changes an issue: edits it, comments on it, logs work on it.   *)
ChangeInJira(i, a) ==
  /\ now < MaxTime /\ now' = now + 1
  /\ jira' = [jira EXCEPT ![i] = [updated |-> now', people |-> @.people \cup {a}]]
  /\ raced' = IF \E r \in Runs : Open(r) THEN raced \cup {i} ELSE raced
  /\ hidden' = IF watermark # None /\ now' < Earliest(watermark) THEN hidden \cup {i} ELSE hidden \ {i}
  /\ UNCHANGED <<rows, tracked, watermark, run, faults, triggers, skipped, backfill>>

(* An execution takes the first free slot.                                 *)
Starts(r, by, full, asked, days) ==
  /\ run[r].pc = "idle" /\ \A s \in 1..(r - 1) : Open(s)
  /\ run' = [run EXCEPT ![r] = [Closed EXCEPT !.pc = "prepare", !.by = by, !.full = full,
                                              !.asked = asked, !.days = days]]

(* The schedule skips a start while its execution before is open.          *)
ScheduledStart(r) ==
  /\ \A s \in Runs : run[s].by # "schedule"
  /\ Starts(r, "schedule", FALSE, None, None)
  /\ UNCHANGED <<jira, rows, tracked, watermark, now, faults, triggers, raced, skipped, backfill, hidden>>

(* triggerProjectSync: for some accounts or all, for days back or since    *)
(* the watermark; a negative number of days asks for everything.           *)
TriggerProjectSync(r, full, asked, days) ==
  /\ triggers < MaxTriggers /\ triggers' = triggers + 1
  /\ IF days # None /\ days < 0 THEN Starts(r, "admin", TRUE, asked, None)
     ELSE Starts(r, "admin", full, asked, days)
  /\ UNCHANGED <<jira, rows, tracked, watermark, now, faults, raced, skipped, backfill, hidden>>

(* setProjectTrackedUsers starts a full run for all accounts now tracked.  *)
SetProjectTrackedUsers(r, accounts) ==
  /\ triggers < MaxTriggers /\ triggers' = triggers + 1
  /\ tracked' = accounts
  /\ Starts(r, "admin", TRUE, accounts, None)
  /\ backfill' = backfill \cup {i \in Behind : jira[i].people \cap (accounts \ tracked) # {}}
  /\ UNCHANGED <<jira, rows, watermark, now, faults, raced, skipped, hidden>>

-----------------------------------------------------------------------------
(* Where a run begins: everything, a day, or the watermark.                *)
Since(r) ==
  CASE run[r].full -> None
    [] ~run[r].full /\ run[r].days # None -> StartOfDay(now) - run[r].days * Day
    [] OTHER -> watermark

PrepareProjectSync(r) ==
  /\ run[r].pc = "prepare"
  /\ LET accounts == IF run[r].asked = None THEN tracked ELSE run[r].asked
     IN run' = [run EXCEPT ![r].pc = IF accounts = {} THEN "finalize" ELSE "search",
                           ![r].accounts = accounts, ![r].since = Since(r), ![r].last = Since(r),
                           ![r].full = FALSE, ![r].asked = None, ![r].attempts = 1]
  /\ UNCHANGED <<jira, rows, tracked, watermark, now, faults, triggers, raced, skipped, backfill, hidden>>

(* What the search finds: the issues of the run's accounts.                *)
MatchesRoundedUp(i, r) ==  \* mutant: the minute after
  /\ jira[i].people \cap run[r].accounts # {}
  /\ run[r].since # None => jira[i].updated >= Earliest(run[r].since) + Minute
Matches(i, r) ==
  /\ jira[i].people \cap run[r].accounts # {}
  /\ run[r].since # None => jira[i].updated >= Earliest(run[r].since)

(* Jira's next page: issues it has not returned to this run before.        *)
SearchJiraIssues(r) ==
  /\ run[r].pc = "search"
  /\ LET left == {i \in Issues \ run[r].seen : Matches(i, r)}
     IN IF left = {}
        THEN run' = [run EXCEPT ![r].pc = "finalize", ![r].attempts = 1]
        ELSE \E page \in SUBSET left :
               /\ Cardinality(page) = IF PageSize < Cardinality(left) THEN PageSize ELSE Cardinality(left)
               /\ run' = [run EXCEPT ![r].pc = "issue", ![r].page = page, ![r].found = page,
                                     ![r].foundLast = run[r].last, ![r].more = page # left, ![r].tries = 1]
  /\ UNCHANGED <<jira, rows, tracked, watermark, now, faults, triggers, raced, skipped, backfill, hidden>>

(* The issue; its comments and worklogs, fetched after it, are no older.   *)
FetchJiraIssueDetail(r, i) ==
  /\ run[r].pc = "issue" /\ i \in run[r].page
  /\ run' = [run EXCEPT ![r].pc = "upsert", ![r].issue = i, ![r].tries = 1,
                        ![r].detail = [updated |-> jira[i].updated]]
  /\ UNCHANGED <<jira, rows, tracked, watermark, now, faults, triggers, raced, skipped, backfill, hidden>>

(* The end of a page: the cursor of the next one.                          *)
PageDone(state) ==
  [state EXCEPT !.pc = IF state.more THEN "search" ELSE "finalize", !.seen = @ \cup state.found, !.attempts = 1]

UpsertIssueFromDetail(r) ==
  /\ run[r].pc = "upsert"
  /\ LET i == run[r].issue
         detail == run[r].detail
         after == [run[r] EXCEPT !.pc = "issue", !.page = @ \ {i}, !.issue = None, !.detail = NoRow,
                                 !.foundLast = Max2(@, detail.updated)]
     IN /\ rows' = [rows EXCEPT ![i] = detail]
        /\ run' = [run EXCEPT ![r] = IF after.page # {} THEN after
                                     ELSE PageDone([after EXCEPT !.last = after.foundLast])]
  /\ UNCHANGED <<jira, tracked, watermark, now, faults, triggers, raced, skipped, backfill, hidden>>

-----------------------------------------------------------------------------
(* What Jira or the network may answer instead, and classifyJiraError: the *)
(* error code of the body decides before the status.                       *)
Answers == {[status |-> None, code |-> "none"]}
           \cup [status : {400, 401, 403, 404, 409, 429, 500, 503},
                 code : {"none", "SUSPENDED_PAYMENT", "AUTHENTICATION_DENIED", "RATE_LIMIT"}]

CodeOfStatus(status) ==
  CASE status = 400 -> "BAD_REQUEST" [] status \in {401, 403} -> "UNAUTHORIZED" [] status = 404 -> "NOT_FOUND"
    [] status = 429 -> "RATE_LIMIT"  [] status >= 500 -> "SERVER_ERROR"         [] OTHER -> "UNKNOWN"

ClassifyJiraError(answer) ==
  CASE answer.status = None                  -> "NETWORK"
    [] answer.code = "SUSPENDED_PAYMENT"     -> "SUSPENDED_PAYMENT"
    [] answer.code = "RATE_LIMIT"            -> "RATE_LIMIT"
    [] answer.code = "AUTHENTICATION_DENIED" -> "UNAUTHORIZED"
    [] OTHER                                 -> CodeOfStatus(answer.status)

Retryable(code) == code \notin {"SUSPENDED_PAYMENT", "UNAUTHORIZED", "BAD_REQUEST", "NOT_FOUND"}

TriesLeft(state) == state.tries < MaxTries

(* An attempt that fails is repeated, that of a page from its cursor.  The *)
(* last one ends the run, which then leaves the watermark alone            *)
(* (failProjectSync).                                                      *)
Again(pc) == IF pc \in {"prepare", "finalize"} THEN pc ELSE "search"
RetryNextPage(state) ==  \* mutant: the cursor moves on although the page was not stored
  IF state.attempts < MaxAttempts
  THEN [state EXCEPT !.pc = Again(@), !.attempts = @ + 1, !.tries = 1, !.page = {}, !.found = {},
                     !.seen = @ \cup state.found, !.foundLast = None, !.more = FALSE, !.issue = None,
                     !.detail = NoRow]
  ELSE Closed
RetryOrFail(state) ==
  IF state.attempts < MaxAttempts
  THEN [state EXCEPT !.pc = Again(@), !.attempts = @ + 1, !.tries = 1, !.page = {}, !.found = {},
                     !.foundLast = None, !.more = FALSE, !.issue = None, !.detail = NoRow]
  ELSE Closed

RequestFails(r) ==
  /\ run[r].pc \in {"search", "issue"}
  /\ faults < MaxFaults /\ faults' = faults + 1
  /\ \E retryable \in {Retryable(ClassifyJiraError(answer)) : answer \in Answers} :
       run' = [run EXCEPT ![r] = IF retryable /\ TriesLeft(run[r]) THEN [run[r] EXCEPT !.tries = @ + 1]
                                 ELSE RetryOrFail(run[r])]
  /\ UNCHANGED <<jira, rows, tracked, watermark, now, triggers, raced, skipped, backfill, hidden>>

(* The worker dies, or the database fails it, between two steps.           *)
AttemptFails(r) ==
  /\ run[r].pc \in {"prepare", "search", "issue", "upsert", "finalize"}
  /\ faults < MaxFaults /\ faults' = faults + 1
  /\ run' = [run EXCEPT ![r] = RetryOrFail(run[r])]
  /\ UNCHANGED <<jira, rows, tracked, watermark, now, triggers, raced, skipped, backfill, hidden>>

-----------------------------------------------------------------------------
(* A run for some of the accounts or over some days is partial.            *)
IsPartial(r) == run[r].days # None \/ ~(tracked \subseteq run[r].accounts)

(* An empty lastUpdatedAt leaves lastSyncTime as it is.                    *)
WriteWatermark(r) ==
  /\ run[r].pc = "finalize"
  /\ watermark' = IF run[r].last = None THEN watermark ELSE run[r].last
  /\ skipped' = (IF IsPartial(r) THEN skipped \cup Behind ELSE skipped) \cap Behind
  /\ UNCHANGED <<jira, rows, tracked, now, triggers>>

FinalizeProjectSync(r) ==
  /\ WriteWatermark(r)
  /\ run' = [run EXCEPT ![r] = Closed]
  /\ raced' = IF \E s \in Runs \ {r} : Open(s) THEN raced ELSE raced \cap Behind
  /\ backfill' = backfill \cap Behind /\ hidden' = hidden \cap Behind
  /\ UNCHANGED faults

(* The attempt fails after the watermark is written: the next one writes   *)
(* it again, whatever other runs wrote meanwhile, or the run has failed.   *)
FinalizeFailsLate(r) ==
  /\ WriteWatermark(r)
  /\ faults < MaxFaults /\ faults' = faults + 1
  /\ run' = [run EXCEPT ![r] = RetryOrFail(run[r])]
  /\ UNCHANGED <<raced, backfill, hidden>>

-----------------------------------------------------------------------------
AdminStep(r) ==
  \/ \E w \in Wishes : TriggerProjectSync(r, w.full, w.asked, w.days)
  \/ \E accounts \in Choices : SetProjectTrackedUsers(r, accounts)

RunStep(r) ==
  \/ PrepareProjectSync(r) \/ SearchJiraIssues(r)
  \/ \E i \in Issues : FetchJiraIssueDetail(r, i)
  \/ UpsertIssueFromDetail(r) \/ FinalizeProjectSync(r)

Next ==
  \/ \E c \in PossibleChanges : ChangeInJira(c[1], c[2])
  \/ \E r \in Runs : ScheduledStart(r) \/ AdminStep(r) \/ RunStep(r)
                     \/ RequestFails(r) \/ AttemptFails(r) \/ FinalizeFailsLate(r)

(* Temporal executes what is open and starts what is scheduled; faults and *)
(* administrators' wishes are bounded and not to be relied on.             *)
Fairness ==
  /\ \A r \in Runs : WF_vars(RunStep(r))
  /\ WF_vars(\E r \in Runs : ScheduledStart(r))

Spec == Init /\ [][Next]_vars /\ Fairness

-----------------------------------------------------------------------------
IsTracked(i) == jira[i].people \cap tracked # {}
Excused == raced \cup skipped \cup backfill \cup hidden
WillBeFetched(i) == watermark = None \/ jira[i].updated >= Earliest(watermark)

(* A tracked issue whose row is behind Jira is one the next run fetches:   *)
(* failures, retries, runs one after the other and the watermark's minutes *)
(* lose nothing.  What may be lost is named: an issue that changed while a *)
(* run was open, one behind when a run for some accounts or days moved the *)
(* watermark, one whose account came to be tracked later, and, when Jira's *)
(* account is behind UTC, one that changed so soon after the watermark     *)
(* that the search from there leaves it out (syncIssuesBatch,              *)
(* finalizeProjectSync).                                                   *)
NothingMissed == \A i \in Behind : IsTracked(i) => WillBeFetched(i) \/ i \in Excused

(* Although runs fail, also after their last attempt, every tracked        *)
(* issue's row catches up again and again, with the comments and worklogs  *)
(* that belong to it, unless it is one of those four kinds.                *)
ChangesArrive ==
  []<>(\A i \in Issues : IsTracked(i) /\ i \notin Excused => ~IsBehind(i))
=============================================================================
