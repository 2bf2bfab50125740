----------------------------- MODULE SyncCadence -----------------------------
(***************************************************************************)
(* The cadence of one project's Jira sync: the SyncJob row, the Temporal   *)
(* schedule, the sync workflow runs and the telemetry that slows a failing *)
(* project down and restores it, as they are in apps/api/src               *)
(*   services/syncService.ts, services/telemetry/syncTelemetryService.ts,  *)
(*   temporal/workflows/syncProjectWorkflow.ts and the job and state       *)
(*   writes of temporal/activities/syncActivities.ts.                      *)
(*                                                                         *)
(* A transaction of withTenant covers the database only: a call to the     *)
(* Temporal server inside it takes effect at once and is not undone by a   *)
(* rollback.  A transaction that changes the cadence or the status of the  *)
(* job therefore takes three steps: the call to Temporal, the write of     *)
(* the row, which takes the row's lock, and the commit or the rollback.    *)
(***************************************************************************)
EXTENDS BackoffLadder, FiniteSets

CONSTANTS
  Runs,         \* slots for workflow executions that may be open at once
  Admins,       \* administrators' GraphQL requests that may be open at once
  DefaultCron,  \* SYNC_DEFAULT_CRON
  AdminCrons,   \* the cadences an administrator asks for
  MaxAttempts,  \* retry.maximumAttempts of the workflow's activities
  MaxPages,     \* bound: pages of issues of one run
  MaxOutages,   \* bound: how often Jira becomes unavailable
  Faults,       \* what else may fail: "temporal", "email", "secrets"
  None          \* nobody

ASSUME CadenceAssumption ==
  /\ DefaultCron \in Cron /\ AdminCrons \subseteq Cron
  /\ MaxAttempts \in Nat \ {0} /\ MaxPages \in Nat \ {0} /\ MaxOutages \in Nat
  /\ Faults \subseteq {"temporal", "email", "secrets"}
  /\ Runs \cap Admins = {} /\ None \notin Runs \cup Admins

VARIABLES
  job,       \* the SyncJob row (committed)
  states,    \* status of the SyncState rows, which are always written together
  schedule,  \* the Temporal schedule of the project
  run,       \* the workflow executions
  tx,        \* the open transaction of each run and each administrator
  lock,      \* who holds the lock of the SyncJob row
  jira,      \* is Jira answering, and how many outages there have been
  chosen,    \* history: the cadences configured by somebody
  contested, \* history: the open changes of cadence that met another one
  drift      \* history: the last change of cadence was cut short or contested

vars == <<job, states, schedule, run, tx, lock, jira, chosen, contested, drift>>
history == <<chosen, contested, drift>>

Actors == Runs \cup Admins

Tx(op, pc, cron) == [op |-> op, pc |-> pc, cron |-> cron, level |-> 0, was |-> 0,
                     orig |-> NoCron, next |-> NoCron]
NoTx == Tx("none", "idle", NoCron)
Closed == [pc |-> "idle", attempt |-> 0, left |-> 0, by |-> "nobody"]
NoJob == [cron |-> NoCron, level |-> 0, orig |-> NoCron, status |-> "ACTIVE", nextRun |-> NoCron]
NoSchedule == [state |-> "absent", cron |-> NoCron]

(* What initializeProjectSync creates.                                     *)
NewJob == [cron |-> DefaultCron, level |-> 0, orig |-> NoCron, status |-> "ACTIVE",
           nextRun |-> DefaultCron]
NewSchedule == [state |-> "running", cron |-> DefaultCron]

JobRow == [cron : Nat, level : Nat, orig : Nat, status : {"ACTIVE", "PAUSED", "ERROR"},
           nextRun : Nat]
Schedule == [state : {"absent", "running", "paused"}, cron : Nat]
Execution == [pc : {"idle", "prepare", "batch", "finalize", "close", "refresh",
                    "skip", "closeSkip", "fail"},
              attempt : Nat, left : Nat, by : {"nobody", "schedule", "admin"}]
(* cron is the cadence a transaction sets and NoCron if it sets none;      *)
(* level, was and orig are what recordSyncFailure computed and read.       *)
Transaction == [op : {"none", "failure", "success", "register", "pause",
                      "resume", "start", "reschedule"},
                pc : {"idle", "temporal", "row", "commit"},
                cron : Nat, level : Nat, was : Nat, orig : Nat, next : Nat]

TypeOK ==
  /\ job \in JobRow
  /\ states \in {"IDLE", "RUNNING", "SUCCESS", "FAILED"}
  /\ schedule \in Schedule
  /\ run \in [Runs -> Execution]
  /\ tx \in [Actors -> Transaction]
  /\ lock \in Actors \cup {None}
  /\ jira \in [status : {"up", "down"}, outages : Nat]
  /\ chosen \subseteq Nat /\ contested \subseteq Actors /\ drift \in BOOLEAN

JobExists == job.cron # NoCron

NothingOpen ==
  /\ states = "IDLE"
  /\ run = [r \in Runs |-> Closed]
  /\ tx = [x \in Actors |-> NoTx]
  /\ lock = None
  /\ jira = [status |-> "up", outages |-> 0]
  /\ chosen = {DefaultCron} /\ contested = {} /\ drift = FALSE

Init == job = NoJob /\ schedule = NoSchedule /\ NothingOpen

-----------------------------------------------------------------------------
(* Temporal starts executions.  A schedule skips an execution while the    *)
(* one it started before is open; a manual run has an id of its own        *)
(* (workflowId-Date.now()) and overlaps whatever is open.                  *)

Opened(r, by) == [run EXCEPT ![r] = [Closed EXCEPT !.pc = "prepare", !.by = by]]

ScheduledStart(r) ==
  /\ schedule.state = "running"
  /\ run[r].pc = "idle"
  /\ \A s \in Runs : run[s].by # "schedule"
  /\ run' = Opened(r, "schedule")
  /\ UNCHANGED <<job, states, schedule, tx, lock, jira, history>>

(* triggerProjectSync                                                      *)
TriggerProjectSync(a, r) ==
  /\ JobExists /\ tx[a].op = "none"
  /\ run[r].pc = "idle"
  /\ run' = Opened(r, "admin")
  /\ UNCHANGED <<job, states, schedule, tx, lock, jira, history>>

-----------------------------------------------------------------------------
(* Administrators' requests.                                               *)

Begin(x, t) == tx' = [tx EXCEPT ![x] = t]

(* registerJiraProject: initializeProjectSync creates the schedule and     *)
(* triggerProjectSync starts a full run, before the rows are committed.    *)
RegisterJiraProject(a, r) ==
  /\ ~JobExists /\ schedule.state = "absent"
  /\ tx[a].op = "none" /\ run[r].pc = "idle"
  /\ schedule' = NewSchedule
  /\ run' = Opened(r, "admin")
  /\ Begin(a, Tx("register", "commit", DefaultCron))
  /\ UNCHANGED <<job, states, lock, jira, history>>

(* pauseProjectSync and resumeProjectSync up to the answer of Temporal;    *)
(* startProjectSync begins as resumeProjectSync.                           *)
SetPausedRowOnly(a, op) ==  \* mutant: schedule.pause is not called
  /\ JobExists /\ tx[a].op = "none"
  /\ schedule' = IF op = "pause" THEN schedule ELSE [schedule EXCEPT !.state = "running"]
  /\ Begin(a, Tx(op, "row", NoCron))
  /\ UNCHANGED <<job, states, run, lock, jira, history>>

SetPaused(a, op) ==
  /\ JobExists /\ tx[a].op = "none"
  /\ schedule' = [schedule EXCEPT !.state = IF op = "pause" THEN "paused" ELSE "running"]
  /\ Begin(a, Tx(op, "row", NoCron))
  /\ UNCHANGED <<job, states, run, lock, jira, history>>

PauseProjectSync(a) == SetPaused(a, "pause")
ResumeProjectSync(a) == SetPaused(a, "resume")
StartProjectSync(a) == SetPaused(a, "start")

(* rescheduleProjectSync, called by an administrator                       *)
RescheduleProjectSync(a, c) ==
  /\ JobExists /\ tx[a].op = "none"
  /\ chosen' = chosen \cup {c}
  /\ Begin(a, Tx("reschedule", "temporal", c))
  /\ UNCHANGED <<job, states, schedule, run, lock, jira, contested, drift>>

-----------------------------------------------------------------------------
(* The steps of a transaction that touches the SyncJob row.                *)

(* Changes the cadence at Temporal and has not ended yet.                  *)
Rescheduling(x) == tx[x].cron # NoCron /\ tx[x].pc \in {"row", "commit"}

(* schedule.update of rescheduleProjectSync                                *)
UpdateSchedule(x) ==
  /\ tx[x].pc = "temporal"
  /\ schedule' = [schedule EXCEPT !.cron = tx[x].cron]
  /\ Begin(x, [tx[x] EXCEPT !.pc = "row"])
  /\ LET met == {y \in Actors \ {x} : Rescheduling(y)}
     IN contested' = IF met = {} THEN contested ELSE contested \cup met \cup {x}
  /\ UNCHANGED <<job, states, run, lock, jira, chosen, drift>>

(* The first update of the row, which waits for its lock, and, where the   *)
(* operation calls it, updateNextRunFromSchedule.                          *)
WriteRow(x) ==
  /\ tx[x].pc = "row" /\ lock = None
  /\ lock' = x
  /\ Begin(x, [tx[x] EXCEPT !.pc = "commit", !.next =
                 IF tx[x].cron # NoCron \/ tx[x].op \in {"resume", "start"}
                 THEN schedule.cron ELSE NoCron])
  /\ UNCHANGED <<job, states, schedule, jira, history>>

WriteRowOnly(x) ==
  /\ tx[x].op # "start"
  /\ WriteRow(x)
  /\ UNCHANGED run

(* startProjectSync starts a run before its transaction commits.           *)
WriteRowAndTrigger(a, r) ==
  /\ tx[a].op = "start" /\ run[r].pc = "idle"
  /\ WriteRow(a)
  /\ run' = Opened(r, "admin")

Ends(x) ==
  /\ tx' = [tx EXCEPT ![x] = NoTx]
  /\ lock' = IF lock = x THEN None ELSE lock
  /\ contested' = contested \ {x}

(* What a transaction writes to the row: cronSchedule and nextRunAt where  *)
(* it reschedules, then the fields of its operation.                       *)
WithCadenceForgotten(row, t) ==  \* mutant: the row keeps its cadence
  [row EXCEPT !.nextRun = IF t.next # NoCron THEN t.next ELSE @]
WithCadence(row, t) ==
  [row EXCEPT !.cron = IF t.cron # NoCron THEN t.cron ELSE @,
              !.nextRun = IF t.next # NoCron THEN t.next ELSE @]

SlowedDown(row, t) == [row EXCEPT !.level = t.level, !.orig = t.orig, !.status = "ERROR"]

RestoredKeepingOriginal(row) ==  \* mutant: backoffOriginalCron stays
  [row EXCEPT !.level = 0, !.status = "ACTIVE"]
RestoredAsSuccess(row) ==        \* mutant: the state's status in the job
  [row EXCEPT !.level = 0, !.orig = NoCron, !.status = "SUCCESS"]
Restored(row) == [row EXCEPT !.level = 0, !.orig = NoCron, !.status = "ACTIVE"]

RowAfter(t) ==
  LET row == WithCadence(job, t)
  IN CASE t.op = "register" -> NewJob
       [] t.op = "pause" -> [row EXCEPT !.status = "PAUSED"]
       [] t.op \in {"resume", "start"} -> [row EXCEPT !.status = "ACTIVE"]
       [] t.op = "reschedule" -> row
       [] t.op = "failure" -> SlowedDown(row, t)
       [] OTHER -> Restored(row)

CommitRow(x) ==
  /\ tx[x].pc = "commit"
  /\ job' = RowAfter(tx[x])
  /\ drift' = (x \in contested \/ (drift /\ ~Rescheduling(x)))
  /\ Ends(x)
  /\ UNCHANGED chosen

AdminCommit(a) ==
  /\ CommitRow(a)
  /\ UNCHANGED <<states, schedule, run, jira>>

(* An exception ends a transaction: a call to Temporal or its describe     *)
(* fails, the process dies, or the 30 seconds of withTenant pass.          *)
RollbackRow(x) ==
  /\ tx[x].op # "none"
  /\ drift' = (drift \/ Rescheduling(x))
  /\ Ends(x)
  /\ UNCHANGED <<job, chosen>>

AdminRollback(a) ==
  /\ "temporal" \in Faults
  /\ RollbackRow(a)
  /\ UNCHANGED <<states, schedule, run, jira>>

-----------------------------------------------------------------------------
(* The workflow.                                                           *)

AtStep(r, step) == run[r].pc = step /\ tx[r].op = "none"
Goto(r, step) == run' = [run EXCEPT ![r].pc = step, ![r].attempt = 0]
Close(r) == run' = [run EXCEPT ![r] = Closed]

(* An attempt of an activity failed: Temporal retries it, and after the    *)
(* last attempt the workflow goes on at the handler or, outside its try,   *)
(* ends.                                                                   *)
Retry(r, handler) ==
  IF run[r].attempt + 1 < MaxAttempts
  THEN run' = [run EXCEPT ![r].attempt = @ + 1]
  ELSE IF handler = "none" THEN Close(r) ELSE Goto(r, handler)

(* prepareProjectSync: the job is set ACTIVE and the states RUNNING before *)
(* the credentials are resolved, which may throw.  The project has tracked *)
(* users (n pages of issues) or none (n = 0).                              *)
PrepareWrites ==
  /\ JobExists /\ lock = None
  /\ job' = [job EXCEPT !.status = "ACTIVE"]
  /\ states' = "RUNNING"

Prepare(r, n) ==
  /\ AtStep(r, "prepare")
  /\ PrepareWrites
  /\ run' = [run EXCEPT ![r] = [pc |-> IF n = 0 THEN "skip" ELSE "batch", attempt |-> 0,
                                left |-> n, by |-> run[r].by]]
  /\ UNCHANGED <<schedule, tx, lock, jira, history>>

PrepareFails(r) ==
  /\ AtStep(r, "prepare")
  /\ \/ "secrets" \in Faults /\ PrepareWrites
     \/ ~JobExists /\ UNCHANGED <<job, states>>      \* Project not found
  /\ Retry(r, "none")
  /\ UNCHANGED <<schedule, tx, lock, jira, history>>

(* syncIssuesBatch returns: more pages, or the window is consumed.         *)
SyncIssuesBatchSamePage(r) ==  \* mutant: nextPageToken is dropped
  /\ AtStep(r, "batch") /\ jira.status = "up"
  /\ IF run[r].left > 1
     THEN run' = [run EXCEPT ![r].attempt = 0]
     ELSE Goto(r, "finalize")
  /\ UNCHANGED <<job, states, schedule, tx, lock, jira, history>>

SyncIssuesBatch(r) ==
  /\ AtStep(r, "batch") /\ jira.status = "up"
  /\ IF run[r].left > 1
     THEN run' = [run EXCEPT ![r].left = @ - 1, ![r].attempt = 0]
     ELSE Goto(r, "finalize")
  /\ UNCHANGED <<job, states, schedule, tx, lock, jira, history>>

(* syncIssuesBatch gets a JiraClientError: recordSyncFailure reads the row *)
(* and decides on the next rung from what it read.                         *)
OriginalIsCurrent(row) == row.cron  \* mutant: backoffOriginalCron is not consulted
Original(row) == IF row.orig # NoCron THEN row.orig ELSE row.cron

RecordSyncFailure(r) ==
  /\ AtStep(r, "batch") /\ jira.status = "down"
  /\ LET original == Original(job)
         level == NextRung(original, job.level)
         cron == Rung(original, level)
         Failure(pc, c) == [op |-> "failure", pc |-> pc, cron |-> c, level |-> level,
                            was |-> job.level, orig |-> original, next |-> NoCron]
     IN Begin(r, IF cron # job.cron THEN Failure("temporal", cron) ELSE Failure("row", NoCron))
  /\ UNCHANGED <<job, states, schedule, run, lock, jira, history>>

(* recordSyncFailure commits and syncIssuesBatch rethrows the Jira error.  *)
FailureCommit(r) ==
  /\ tx[r].op = "failure"
  /\ CommitRow(r)
  /\ Retry(r, "fail")
  /\ UNCHANGED <<states, schedule, jira>>

(* recordSyncFailure throws: Temporal fails, or the alert cannot be sent.  *)
FailureRollback(r) ==
  /\ tx[r].op = "failure"
  /\ \/ "temporal" \in Faults
     \/ "email" \in Faults /\ tx[r].level > tx[r].was /\ tx[r].pc = "commit"
  /\ RollbackRow(r)
  /\ Retry(r, "fail")
  /\ UNCHANGED <<states, schedule, jira>>

(* finalizeProjectSync begins with recordSyncSuccess, which returns at     *)
(* level 0.  Step "skip" is the call for a project without tracked users,  *)
(* outside the workflow's try.                                             *)
Writing(step) == IF step = "skip" THEN "closeSkip" ELSE "close"

NothingToRestoreAtFirstRung(row) == row.level <= 1      \* mutant: off by one
NothingToRestoreIfActive(row) == row.status # "ERROR"   \* mutant: trusts the status
NothingToRestore(row) == row.level = 0

RecordSyncSuccess(r) ==
  /\ run[r].pc \in {"finalize", "skip"} /\ tx[r].op = "none"
  /\ IF NothingToRestore(job)
     THEN Goto(r, Writing(run[r].pc)) /\ UNCHANGED tx
     ELSE /\ Begin(r, IF job.orig # job.cron THEN Tx("success", "temporal", job.orig)
                                             ELSE Tx("success", "row", NoCron))
          /\ UNCHANGED run
  /\ UNCHANGED <<job, states, schedule, lock, jira, history>>

SuccessCommit(r) ==
  /\ tx[r].op = "success"
  /\ CommitRow(r)
  /\ Goto(r, Writing(run[r].pc))
  /\ UNCHANGED <<states, schedule, jira>>

SuccessRollback(r) ==
  /\ tx[r].op = "success" /\ "temporal" \in Faults
  /\ RollbackRow(r)
  /\ Retry(r, IF run[r].pc = "skip" THEN "none" ELSE "fail")
  /\ UNCHANGED <<states, schedule, jira>>

(* The rest of finalizeProjectSync                                         *)
FinalizeProjectSync(r) ==
  /\ run[r].pc \in {"close", "closeSkip"} /\ lock = None
  /\ states' = "SUCCESS"
  /\ job' = [job EXCEPT !.status = "ACTIVE"]
  /\ IF run[r].pc = "close" THEN Goto(r, "refresh") ELSE Close(r)
  /\ UNCHANGED <<schedule, tx, lock, jira, history>>

(* The insight and narrative refreshes are requested from inside the try.  *)
RequestRefreshes(r) ==
  /\ AtStep(r, "refresh")
  /\ \/ Close(r)
     \/ "temporal" \in Faults /\ Goto(r, "fail")
  /\ UNCHANGED <<job, states, schedule, tx, lock, jira, history>>

FailProjectSyncJobOnly(r) ==  \* mutant: the states are not marked
  /\ AtStep(r, "fail") /\ lock = None
  /\ job' = [job EXCEPT !.status = "ERROR"]
  /\ Close(r)
  /\ UNCHANGED <<states, schedule, tx, lock, jira, history>>

FailProjectSync(r) ==
  /\ AtStep(r, "fail") /\ lock = None
  /\ states' = "FAILED"
  /\ job' = [job EXCEPT !.status = "ERROR"]
  /\ Close(r)
  /\ UNCHANGED <<schedule, tx, lock, jira, history>>

-----------------------------------------------------------------------------
JiraBreaks ==
  /\ jira.status = "up" /\ jira.outages < MaxOutages
  /\ jira' = [status |-> "down", outages |-> jira.outages + 1]
  /\ UNCHANGED <<job, states, schedule, run, tx, lock, history>>

JiraRecovers ==
  /\ jira.status = "down"
  /\ jira' = [jira EXCEPT !.status = "up"]
  /\ UNCHANGED <<job, states, schedule, run, tx, lock, history>>

RunStep(r) ==
  \/ \E n \in 0..MaxPages : Prepare(r, n)
  \/ PrepareFails(r)
  \/ SyncIssuesBatch(r) \/ RecordSyncFailure(r) \/ FailureCommit(r) \/ FailureRollback(r)
  \/ RecordSyncSuccess(r) \/ SuccessCommit(r) \/ SuccessRollback(r)
  \/ FinalizeProjectSync(r) \/ RequestRefreshes(r) \/ FailProjectSync(r)

TxStep(x) == UpdateSchedule(x) \/ WriteRowOnly(x)

AdminStep(a) ==
  \/ \E r \in Runs : RegisterJiraProject(a, r) \/ TriggerProjectSync(a, r)
                    \/ WriteRowAndTrigger(a, r)
  \/ PauseProjectSync(a) \/ ResumeProjectSync(a) \/ StartProjectSync(a)
  \/ \E c \in AdminCrons : RescheduleProjectSync(a, c)
  \/ AdminCommit(a) \/ AdminRollback(a)

Next ==
  \/ \E r \in Runs : ScheduledStart(r) \/ RunStep(r)
  \/ \E a \in Admins : AdminStep(a)
  \/ \E x \in Actors : TxStep(x)
  \/ JiraBreaks \/ JiraRecovers

Spec == Init /\ [][Next]_vars

(***************************************************************************)
(* A project that is registered and has not run yet, and the fairness the  *)
(* system gives: Temporal hands every task of an open execution and every  *)
(* due execution of an unpaused schedule to a worker, a transaction that   *)
(* is open goes on, and Jira comes back.                                   *)
(***************************************************************************)
Registered == job = NewJob /\ schedule = NewSchedule /\ NothingOpen

Fairness ==
  /\ \A r \in Runs : WF_vars(ScheduledStart(r)) /\ WF_vars(RunStep(r))
  /\ \A x \in Actors : WF_vars(TxStep(x))
  /\ WF_vars(JiraRecovers)

SteadySpec == Registered /\ [][Next]_vars
FairSpec == SteadySpec /\ Fairness
-----------------------------------------------------------------------------
(* The ladder's bookkeeping (recordSyncFailure, recordSyncSuccess): a job  *)
(* remembers an original cadence exactly while it is slowed down, and its  *)
(* level is a rung of the ladder of that cadence.                          *)
BackoffBookkeeping ==
  /\ job.level > 0 <=> job.orig # NoCron
  /\ job.level <= TopRung(job.orig)

(* The ladder is what the loop of buildBackoffCronSequence builds:         *)
(* whatever administrators and failures did, the job's level is an index   *)
(* of its original cadence's sequence, the rung is the entry there and the *)
(* last one is the top, also when the original cadence is one of the steps *)
(* (recordSyncFailure).                                                    *)
LadderIsTheSequence ==
  job.orig # NoCron =>
    LET sequence == CronSequence(job.orig)
    IN /\ TopRung(job.orig) = Len(sequence) - 1
       /\ job.level + 1 \in DOMAIN sequence
       /\ \A l \in 0..TopRung(job.orig) : Rung(job.orig, l) = sequence[l + 1]

(* The original cadence survives the back-off: what a success will put     *)
(* back (backoffOriginalCron, or cronSchedule at level 0) was configured   *)
(* by somebody, never by the telemetry itself.                             *)
OriginalIsChosen ==
  JobExists => (IF job.level = 0 THEN job.cron ELSE job.orig) \in chosen

(* The row tells the cadence of the Temporal schedule, and a next run that *)
(* was read from the schedule while it had that cadence, unless a change   *)
(* of it is under way, or the last one was cut short by a rollback or      *)
(* contested by another one (updateNextRunFromSchedule).                   *)
CadenceAgrees ==
  JobExists /\ ~drift /\ (\A x \in Actors : ~Rescheduling(x)) =>
    job.cron = schedule.cron /\ job.nextRun = schedule.cron

(* After a run finalized as a success, with nobody changing the cadence,   *)
(* Temporal runs the project at a cadence somebody configured, not at a    *)
(* rung of the ladder.                                                     *)
SuccessRestores ==
  [][\A r \in Runs :
       (run[r].pc \in {"close", "closeSkip"} /\ run'[r].pc # run[r].pc
          /\ \A x \in Actors : tx[x].op = "none")
         => schedule.cron \in chosen]_vars

(* No run is open: the states tell how the last one ended.                 *)
EndedRunsAreRecorded ==
  JobExists /\ (\A r \in Runs : run[r].pc = "idle") => states # "RUNNING"

(* The row says PAUSED only while Temporal's schedule is paused, unless an *)
(* administrator's request is still open.                                  *)
PausedIsPaused ==
  job.status = "PAUSED" /\ (\A a \in Admins : tx[a].op = "none") => schedule.state = "paused"

(* Of a project whose runs do not overlap and whose cadence nobody changes *)
(* the row is the ladder of Backoff: what recordSyncFailure and            *)
(* recordSyncSuccess read, call and write in several steps is one step of  *)
(* theirs.                                                                 *)
Telemetry == INSTANCE Backoff WITH Configured <- DefaultCron,
               cron <- job.cron, level <- job.level, original <- job.orig
ImplementsBackoff == Telemetry!Spec

(* Every execution ends: retries and pages are finite.                     *)
RunsEnd == \A r \in Runs : run[r].pc # "idle" ~> run[r].pc = "idle"

(* A slowed project gets its own cadence back, in the row and at Temporal. *)
CadenceRestored ==
  (job.level > 0) ~> (job.level = 0 /\ job.cron = DefaultCron /\ schedule.cron = DefaultCron)
=============================================================================
