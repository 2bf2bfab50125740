-------------------------- MODULE SummaryAutomation --------------------------
(***************************************************************************)
(* The automation of project summaries: the ProjectSummarySchedule rows,   *)
(* the workflow that generates the summaries that are due under a lock     *)
(* with a time limit, and the administrators who change a schedule or run  *)
(* it by hand; apps/api/src                                                *)
(*   services/projectSummaryAutomationService.ts,                          *)
(*   temporal/activities/summaryAutomationActivities.ts and                *)
(*   temporal/workflows/projectSummaryAutomationWorkflow.ts.               *)
(*                                                                         *)
(* There is no clock: a time is kept as its distance from now, and Tick    *)
(* moves all of them.  An execution works with the time at which it began  *)
(* (its variable now), which lies age units back.                          *)
(***************************************************************************)
EXTENDS Integers, Sequences, FiniteSets

CONSTANTS
  Projects,          \* active projects
  Executions,        \* slots for executions of the workflow's activity
  Admins,            \* administrators' requests that may be open at once
  Limit,             \* batchSize
  MaxIterations,     \* iterations
  MaxAttempts,       \* retry.maximumAttempts
  ActivityTimeout,   \* startToCloseTimeout
  LockTime,          \* DEFAULT_AUTOMATION_LOCK_SECONDS
  MinFrequency,      \* MIN_SUMMARY_FREQUENCY_MINUTES
  DefaultFrequency,  \* DEFAULT_SUMMARY_FREQUENCY_MINUTES
  Asked,             \* frequencies an administrator asks for
  NotAsked,          \* a field that a request leaves out
  MaxAge,            \* bound: how long an execution lasts
  MaxUpsets          \* bound: exceptions, crashes and workflows started by hand,
                     \* together

ASSUME AutomationAssumption ==
  /\ IsFiniteSet(Projects)
  /\ Limit \in Nat \ {0} /\ MaxIterations \in Nat \ {0} /\ MaxAttempts \in Nat \ {0}
  /\ LockTime \in Nat \ {0} /\ ActivityTimeout \in Nat /\ MaxAge \in Nat /\ MaxUpsets \in Nat
  /\ LockTime <= ActivityTimeout /\ ActivityTimeout <= MaxAge
  /\ MinFrequency \in Nat /\ DefaultFrequency \in Nat
  /\ LockTime < MinFrequency /\ MinFrequency <= DefaultFrequency
  /\ Asked \subseteq Int /\ NotAsked \notin Int \cup BOOLEAN

VARIABLES row, exec, request, upsets
vars == <<row, exec, request, upsets>>

Never == -1             \* the null of nextRunAt
Ago == -(MaxAge + 1)    \* before any execution began
Free == Ago - 1         \* the null of lockedUntil
LongAgo == MinFrequency + MaxAge

(* next is the time until nextRunAt, 0 if that has passed; lock the time   *)
(* until lockedUntil; since the time since the timestamp of the last run,  *)
(* a history that is forgotten when a request writes back a nextRunAt that *)
(* it read before that run.                                                *)
Row == [enabled : BOOLEAN, frequency : {f \in Nat : f >= MinFrequency},
        next : Nat \cup {Never}, lock : Free..LockTime, since : 0..LongAgo]

(* ensureProjectSummarySchedule creates it with the project.               *)
NewSchedule == [enabled |-> TRUE, frequency |-> DefaultFrequency, next |-> 0, lock |-> Free,
                since |-> LongAgo]

(* A candidate as it was read; intact is a history: nobody else recorded a *)
(* run of the project or disabled it since.                                *)
Candidate == [project : Projects, frequency : {f \in Nat : f >= MinFrequency},
              intact : BOOLEAN]

(* iteration is 0 when Temporal has given up waiting for the execution;    *)
(* manual tells the workflows that the Temporal schedule did not start.    *)
Execution == [pc : {"idle", "read", "claim", "work", "count", "dead"}, iteration : Nat,
              attempt : Nat, age : 0..MaxAge, candidates : Seq(Candidate),
              claimed : Seq(Candidate), processed : Nat, manual : BOOLEAN]

Attempt(manual, iteration, attempt) ==
  [pc |-> "read", iteration |-> iteration, attempt |-> attempt, age |-> 0,
   candidates |-> <<>>, claimed |-> <<>>, processed |-> 0, manual |-> manual]
Idle == [Attempt(FALSE, 0, 0) EXCEPT !.pc = "idle"]

NoRequest == [op |-> "none"]
Requests == {NoRequest}
  \cup [op : {"update"}, project : Projects, enabled : BOOLEAN,
        frequency : {f \in Nat : f >= MinFrequency}, next : Nat \cup {Never}, back : BOOLEAN]
  \cup [op : {"run"}, project : Projects, frequency : Nat]

TypeOK ==
  /\ row \in [Projects -> Row]
  /\ exec \in [Executions -> Execution]
  /\ \A a \in Admins : request[a] \in Requests
  /\ upsets \in Nat

Init ==
  /\ row = [p \in Projects |-> NewSchedule]
  /\ exec = [w \in Executions |-> Idle]
  /\ request = [a \in Admins |-> NoRequest]
  /\ upsets = 0

UnclampedFrequency(minutes) == IF minutes <= 0 THEN DefaultFrequency ELSE minutes  \* mutant
ClampFrequency(minutes) ==
  IF minutes <= 0 THEN DefaultFrequency
  ELSE IF minutes < MinFrequency THEN MinFrequency ELSE minutes

Upset == upsets < MaxUpsets /\ upsets' = upsets + 1
Become(w, e) == exec' = [exec EXCEPT ![w] = e]

(* What became of the project is not what the other executions have read.  *)
Stale(p, q) ==
  LET Mark(s) == [n \in DOMAIN s |-> [s[n] EXCEPT !.intact = @ /\ s[n].project # p]]
  IN [q EXCEPT !.candidates = Mark(@), !.claimed = Mark(@)]
Disturb(p, w, e) == exec' = [v \in Executions |-> IF v = w THEN e ELSE Stale(p, exec[v])]
DisturbAll(p) == exec' = [v \in Executions |-> Stale(p, exec[v])]

-----------------------------------------------------------------------------
(* The workflow and its activity.                                          *)

(* The Temporal schedule project-summary-automation starts no execution    *)
(* while one that it started is open.                                      *)
StartWorkflow(w) ==
  /\ \A v \in Executions : exec[v].iteration = 0 \/ exec[v].manual
  /\ exec[w].pc = "idle"
  /\ Become(w, Attempt(FALSE, 1, 1))
  /\ UNCHANGED <<row, request, upsets>>

(* triggerProjectSummaryAutomationWorkflow starts one with an id of its    *)
(* own, whatever is open.                                                  *)
TriggerWorkflow(w) ==
  /\ exec[w].pc = "idle" /\ Upset
  /\ Become(w, Attempt(TRUE, 1, 1))
  /\ UNCHANGED <<row, request>>

(* lockedUntil lies before the now of an execution of that age.            *)
UnlockedIfNull(p, age) == row[p].lock = Free  \* mutant: a lock that lapsed still holds
Unlocked(p, age) == row[p].lock < -age

DueWhenever(p) == row[p].enabled /\ Unlocked(p, 0)  \* mutant: nextRunAt is not asked
Due(p) == row[p].enabled /\ row[p].next \in {0, Never} /\ Unlocked(p, 0)

(* orderBy nextRunAt asc: the nulls come last, and the order of what has   *)
(* passed is left open.                                                    *)
InOrder(s) ==
  \A m, n \in DOMAIN s :
    m < n => s[m] # s[n] /\ (row[s[m]].next = Never => row[s[n]].next = Never)

(* The loop of the claims is left when the candidates are used up or Limit *)
(* of them are claimed.                                                    *)
AfterClaims(e) ==
  IF e.candidates # <<>> /\ Len(e.claimed) < Limit THEN e
  ELSE [e EXCEPT !.candidates = <<>>, !.pc = IF e.claimed = <<>> THEN "count" ELSE "work"]

ReadCandidates(w) ==
  /\ exec[w].pc = "read"
  /\ LET due == {p \in Projects : Due(p)}
         taken == {n \in 1..Cardinality(due) : n <= 3 * Limit}
         Read(p) == [project |-> p, frequency |-> row[p].frequency, intact |-> TRUE]
     IN \E s \in [1..Cardinality(due) -> due] :
          /\ InOrder(s)
          /\ Become(w, AfterClaims([exec[w] EXCEPT !.pc = "claim",
                                                  !.candidates = [n \in taken |-> Read(s[n])]]))
  /\ UNCHANGED <<row, request, upsets>>

(* The update of the candidate's row, on condition that it is enabled and  *)
(* still unlocked.                                                         *)
ClaimableWhateverLock(p, age) == row[p].enabled  \* mutant: only what was read is asked
Claimable(p, age) == row[p].enabled /\ Unlocked(p, age)

Claim(w) ==
  /\ exec[w].pc = "claim"
  /\ LET c == Head(exec[w].candidates)
         rest == [exec[w] EXCEPT !.candidates = Tail(@)]
     IN IF Claimable(c.project, exec[w].age)
        THEN /\ row' = [row EXCEPT ![c.project].lock = LockTime - exec[w].age]
             /\ Become(w, AfterClaims([rest EXCEPT !.claimed = Append(@, c)]))
        ELSE Become(w, AfterClaims(rest)) /\ UNCHANGED row
  /\ UNCHANGED <<request, upsets>>

(* What recordProjectSummaryRunSuccess and -Failure write, age units after *)
(* the timestamp they are given.                                           *)
Rescheduled(r, frequency, age) ==
  [r EXCEPT !.lock = Free, !.since = age,
            !.next = IF ClampFrequency(frequency) > age THEN ClampFrequency(frequency) - age ELSE 0]

Record(w, r, ok) ==
  LET p == Head(exec[w].claimed).project
      rest == Tail(exec[w].claimed)
  IN /\ row' = [row EXCEPT ![p] = r]
     /\ Disturb(p, w, [exec[w] EXCEPT !.claimed = rest, !.processed = @ + ok,
                                      !.pc = IF rest = <<>> THEN "count" ELSE "work"])

(* The summaries of the first claimed project have been generated, or not. *)
RecordRunSuccess(w) ==
  /\ exec[w].pc = "work"
  /\ LET c == Head(exec[w].claimed)
     IN Record(w, Rescheduled(row[c.project], c.frequency, exec[w].age), 1)
  /\ UNCHANGED <<request, upsets>>

RecordRunFailure(w) ==
  /\ exec[w].pc = "work"
  /\ LET c == Head(exec[w].claimed)
     IN Record(w, Rescheduled(row[c.project], c.frequency, exec[w].age), 0)
  /\ UNCHANGED <<request, upsets>>

(* countDueSchedules, and the workflow's decision to go on.                *)
CountDue(w) ==
  /\ exec[w].pc = "count"
  /\ LET e == exec[w]
         done == e.processed = 0 \/ e.iteration \in {0, MaxIterations}
                   \/ \A p \in Projects : ~Due(p)
     IN Become(w, IF done THEN Idle ELSE Attempt(e.manual, e.iteration + 1, 1))
  /\ UNCHANGED <<row, request, upsets>>

-----------------------------------------------------------------------------
(* Failures.  The locks of an execution that ends early stay.              *)

(* The activity throws, and is retried at once.                            *)
ActivityThrows(w) ==
  /\ exec[w].pc \in {"read", "claim", "work", "count"} /\ Upset
  /\ LET e == exec[w]
     IN Become(w, IF e.iteration = 0 \/ e.attempt = MaxAttempts THEN Idle
                  ELSE Attempt(e.manual, e.iteration, e.attempt + 1))
  /\ UNCHANGED <<row, request>>

(* The worker process dies; Temporal learns of it by the timeout.          *)
ProcessDies(w) ==
  /\ exec[w].pc \in {"read", "claim", "work", "count"} /\ Upset
  /\ LET e == exec[w]
     IN Become(w, IF e.iteration = 0 THEN Idle
                  ELSE [Attempt(e.manual, e.iteration, e.attempt) EXCEPT !.pc = "dead", !.age = e.age])
  /\ UNCHANGED <<row, request>>

(* After startToCloseTimeout Temporal retries the activity or fails the    *)
(* workflow; an execution that is still at work is not stopped by that.    *)
ActivityTimesOut(w) ==
  /\ exec[w].iteration # 0 /\ exec[w].age >= ActivityTimeout
  /\ LET e == exec[w]
         left == IF e.pc = "dead" THEN Idle ELSE [e EXCEPT !.iteration = 0]
         Retry(v) == [[exec EXCEPT ![w] = left] EXCEPT ![v] = Attempt(e.manual, e.iteration, e.attempt + 1)]
     IN IF e.attempt = MaxAttempts THEN Become(w, left)
        ELSE \E v \in Executions :
               /\ IF v = w THEN e.pc = "dead" ELSE exec[v].pc = "idle"
               /\ exec' = Retry(v)
  /\ UNCHANGED <<row, request, upsets>>

-----------------------------------------------------------------------------
(* Administrators' requests, each a transaction that takes no time on this *)
(* scale but reads first and writes what it made of that.                  *)

Open(a, q) == request[a] = NoRequest /\ request' = [request EXCEPT ![a] = q]
Finish(a) == request' = [request EXCEPT ![a] = NoRequest]

(* What updateProjectSummarySchedule makes of the row r it reads and of    *)
(* the fields asked for; back tells that it will write back the nextRunAt  *)
(* it read.                                                                *)
Update(p, r, askedEnabled, askedFrequency) ==
  LET frequency == IF askedFrequency # NotAsked THEN ClampFrequency(askedFrequency) ELSE r.frequency
      enabled == IF askedEnabled # NotAsked THEN askedEnabled ELSE r.enabled
      restart == askedFrequency # NotAsked \/ r.next = Never
  IN [op |-> "update", project |-> p, enabled |-> enabled, frequency |-> frequency,
      next |-> IF ~enabled THEN Never ELSE IF restart THEN frequency ELSE r.next,
      back |-> enabled /\ ~restart]

UpdateRequest(a, p, enabled, frequency) ==
  /\ enabled # NotAsked \/ frequency # NotAsked
  /\ Open(a, Update(p, row[p], enabled, frequency))
  /\ UNCHANGED <<row, exec, upsets>>

Updated(r, q) ==
  [enabled |-> q.enabled, frequency |-> q.frequency, next |-> q.next,
   lock |-> IF q.enabled THEN r.lock ELSE Free,
   since |-> IF q.back /\ r.next # q.next THEN LongAgo ELSE r.since]

UpdateProjectSummarySchedule(a) ==
  /\ request[a].op = "update"
  /\ LET q == request[a]
     IN /\ row' = [row EXCEPT ![q.project] = Updated(@, q)]
        /\ IF row'[q.project].enabled THEN UNCHANGED exec ELSE DisturbAll(q.project)
  /\ Finish(a)
  /\ UNCHANGED upsets

(* triggerProjectSummaryAutomation: no lock is asked for.                  *)
RunRequest(a, p) ==
  /\ Open(a, [op |-> "run", project |-> p, frequency |-> row[p].frequency])
  /\ UNCHANGED <<row, exec, upsets>>

TriggerProjectSummaryAutomation(a) ==
  /\ request[a].op = "run"
  /\ LET q == request[a]
     IN /\ row' = [row EXCEPT ![q.project] = Rescheduled(@, q.frequency, 0)]
        /\ DisturbAll(q.project)
  /\ Finish(a)
  /\ UNCHANGED upsets

(* The transaction is rolled back.                                         *)
RequestFails(a) ==
  /\ request[a] # NoRequest
  /\ Finish(a)
  /\ UNCHANGED <<row, exec, upsets>>

-----------------------------------------------------------------------------
Tick ==
  /\ \A a \in Admins : request[a] = NoRequest
  /\ \A w \in Executions : exec[w].age < MaxAge
  /\ row' = [p \in Projects |->
               [row[p] EXCEPT !.next = IF @ > 0 THEN @ - 1 ELSE @,
                              !.lock = IF @ > Ago THEN @ - 1 ELSE @,
                              !.since = IF @ < LongAgo THEN @ + 1 ELSE @]]
  /\ exec' = [w \in Executions |->
                IF exec[w].pc \in {"idle", "read"} THEN exec[w] ELSE [exec[w] EXCEPT !.age = @ + 1]]
  /\ UNCHANGED <<request, upsets>>

ActivityStep(w) ==
  \/ ReadCandidates(w) \/ Claim(w) \/ RecordRunSuccess(w) \/ RecordRunFailure(w)
  \/ CountDue(w)

AdminStep(a) ==
  \/ UpdateProjectSummarySchedule(a) \/ TriggerProjectSummaryAutomation(a) \/ RequestFails(a)

Next ==
  \/ \E w \in Executions : \/ StartWorkflow(w) \/ TriggerWorkflow(w) \/ ActivityStep(w)
                           \/ ActivityThrows(w) \/ ProcessDies(w) \/ ActivityTimesOut(w)
  \/ \E a \in Admins : \/ AdminStep(a)
                       \/ \E p \in Projects :
                            \/ RunRequest(a, p)
                            \/ \E enabled \in BOOLEAN \cup {NotAsked},
                                  frequency \in Asked \cup {NotAsked} :
                                 UpdateRequest(a, p, enabled, frequency)
  \/ Tick

(* Temporal starts what is due, times out what is dead, an execution that  *)
(* is alive and a request go on, and time passes whatever happens.         *)
Fairness ==
  /\ WF_vars(\E w \in Executions : StartWorkflow(w))
  /\ \A w \in Executions : WF_vars(ActivityStep(w)) /\ WF_vars(ActivityTimesOut(w))
  /\ \A a \in Admins : WF_vars(AdminStep(a))
  /\ SF_vars(Tick)

Spec == Init /\ [][Next]_vars
FairSpec == Spec /\ Fairness
-----------------------------------------------------------------------------
Generating(w, p) == exec[w].pc = "work" /\ Head(exec[w].claimed).project = p
Standing(w) == exec[w].age <= LockTime /\ Head(exec[w].claimed).intact

(* Two executions generate the summaries of one project at once only if    *)
(* one of them has outlived its lock, or lost it to a request or a record  *)
(* of somebody else (the conditional claim of runProjectSummaryAutomation).*)
LockProtects ==
  \A w, v \in Executions, p \in Projects :
    w # v /\ Generating(w, p) /\ Generating(v, p) => ~Standing(w) \/ ~Standing(v)

(* The automation runs a project, with success or not, at the earliest     *)
(* MIN_SUMMARY_FREQUENCY_MINUTES after its last run, counted between their *)
(* timestamps, unless somebody else ran it after this execution had read   *)
(* it as due.                                                              *)
RunsAreSpaced ==
  [][\A w \in Executions :
       exec[w].pc = "work" /\ exec'[w].claimed # exec[w].claimed /\ upsets' = upsets
         /\ Head(exec[w].claimed).intact
       => row[Head(exec[w].claimed).project].since - exec[w].age >= MinFrequency]_vars

(* A project that is due is run, or tried, in the end, whoever died with   *)
(* its lock, unless it is disabled.                                        *)
DueProjectsRun ==
  \A p \in Projects :
    (row[p].enabled /\ row[p].next \in {0, Never}) ~> (~row[p].enabled \/ row[p].next > 0)
=============================================================================
