---------------------------- MODULE InsightQueue ----------------------------
(***************************************************************************)
(* The queue of issues whose insight is to be recomputed: the queue's      *)
(* columns of the Issue row, the workflow runs that drain it, the GraphQL  *)
(* query that recomputes an insight on sight, and the sync that fills it;  *)
(* apps/api/src                                                            *)
(*   services/insights/insightQueueService.ts, insightService.ts,          *)
(*   temporal/activities/insightActivities.ts,                             *)
(*   temporal/workflows/refreshIssueInsightsWorkflow.ts and                *)
(*   upsertIssueFromDetail of temporal/activities/syncActivities.ts.       *)
(*                                                                         *)
(* Times are kept as what is asked of them: insightRefreshRequestedAt as   *)
(* the order of the queue, insightRefreshLockedUntil as whether the lock   *)
(* still holds, insightRefreshedAt as whether Jira has a later activity.   *)
(* insightRefreshAttempts is written and never read, and is left out.      *)
(***************************************************************************)
EXTENDS Integers, Sequences, FiniteSets

CONSTANTS
  Issues,         \* the issues of the project
  NoIssue,
  Workers,        \* refresh workflows that may be open at once
  Viewers,        \* issueInsights queries that may be open at once
  Limit,          \* batchSize of the workflow
  MaxIterations,  \* iterations of the workflow
  MaxAttempts,    \* retry.maximumAttempts of its activity
  MaxVersion,     \* bound: contents an issue takes in Jira
  MaxUpsets,      \* bound: crashes, failed syncs, failed marks and syncs of an
                  \* issue that has not changed, together
  SkillMayFail    \* does the LLM skill ever fail?

ASSUME QueueAssumption ==
  /\ Limit \in Nat \ {0} /\ MaxIterations \in Nat \ {0} /\ MaxAttempts \in Nat \ {0}
  /\ MaxVersion \in Nat \ {0} /\ MaxUpsets \in Nat
  /\ Workers \cap Viewers = {} /\ SkillMayFail \in BOOLEAN
  /\ NoIssue \notin Issues

VARIABLES
  jira,       \* version of each issue's content in Jira
  newer,      \* issues with an activity over a minute after insightRefreshedAt
  version,    \* version of the content in the Issue row, 0 before the first sync
  queue,      \* issues with needsInsightRefresh, by insightRefreshRequestedAt
  lock,       \* insightRefreshLockedUntil: null, in the future, or in the past
  pending,    \* issues a sync has upserted and is about to enqueue
  insight,    \* version of the content the stored insight was computed from
  hashed,     \* issues whose stored insight carries the hash of the row as it is
  reader,     \* the refresh workflows and the queries
  unchanged,  \* readers whose issue's row has not been written since they read it
  upsets

rows == <<version, queue, lock, newer>>
vars == <<jira, rows, pending, insight, hashed, reader, unchanged, upsets>>

Readers == Workers \cup Viewers

(* batch holds the claimed issues a workflow has not come to yet, issue    *)
(* the one it is at.                                                       *)
Starting(pc, batch, iteration, attempt) ==
  [pc |-> pc, batch |-> batch, issue |-> NoIssue, loaded |-> 0, iteration |-> iteration,
   attempt |-> attempt, processed |-> 0]
Idle == Starting("idle", {}, 0, 0)

Reader == [pc : {"idle", "read", "lock", "load", "store", "mark", "count"},
           batch : SUBSET Issues, issue : Issues \cup {NoIssue}, loaded : Nat,
           iteration : Nat, attempt : Nat, processed : Nat]

TypeOK ==
  /\ jira \in [Issues -> Nat] /\ version \in [Issues -> Nat] /\ insight \in [Issues -> Nat]
  /\ queue \in Seq(Issues)
  /\ lock \in [Issues -> {"free", "held", "lapsed"}]
  /\ newer \subseteq Issues /\ pending \subseteq Issues
  /\ hashed \subseteq Issues
  /\ reader \in [Readers -> Reader] /\ unchanged \subseteq Readers
  /\ upsets \in Nat

Init ==
  /\ jira = [i \in Issues |-> 1] /\ version = [i \in Issues |-> 0]
  /\ newer = Issues /\ queue = <<>> /\ lock = [i \in Issues |-> "free"] /\ pending = {}
  /\ insight = [i \in Issues |-> 0] /\ hashed = {}
  /\ reader = [r \in Readers |-> Idle] /\ unchanged = {} /\ upsets = 0

Queued(i) == \E n \in 1..Len(queue) : queue[n] = i

(* The queue without issue i                                               *)
Dequeue(i) ==
  IF Queued(i)
  THEN LET p == CHOOSE n \in 1..Len(queue) : queue[n] = i
       IN SubSeq(queue, 1, p - 1) \o SubSeq(queue, p + 1, Len(queue))
  ELSE queue

Upset == upsets < MaxUpsets /\ upsets' = upsets + 1

Works(r, i) == reader[r].pc \in {"store", "mark"} /\ reader[r].issue = i

(* A write to the rows of S: the hash of an issue is taken over its        *)
(* updatedAt too, which every update of the row moves.                     *)
Touch(S) ==
  /\ hashed' = hashed \ S
  /\ unchanged' = unchanged \ {r \in Readers : \E i \in S : Works(r, i)}

-----------------------------------------------------------------------------
(* The sync.                                                               *)

(* Somebody works on an issue in Jira, within a minute of the last refresh *)
(* of its insight (DRIFT_MS) or later.                                     *)
JiraActivity(i) ==
  /\ jira[i] < MaxVersion
  /\ jira' = [jira EXCEPT ![i] = @ + 1]
  /\ newer' \in {newer, newer \cup {i}}
  /\ UNCHANGED <<version, queue, lock, pending, insight, hashed, reader, unchanged, upsets>>

ShouldRefreshInsights(i) == Queued(i) \/ i \in newer

(* upsertIssueFromDetail writes the issue and decides, on the row it got   *)
(* back, whether it will enqueue it.                                       *)
UpsertIssue(i) ==
  /\ IF jira[i] # version[i] THEN UNCHANGED upsets ELSE Upset
  /\ version' = [version EXCEPT ![i] = jira[i]]
  /\ pending' = IF ShouldRefreshInsights(i) THEN pending \cup {i} ELSE pending
  /\ Touch({i})
  /\ UNCHANGED <<jira, newer, queue, lock, insight, reader>>

EnqueueInsightRefresh(i) ==
  /\ i \in pending
  /\ queue' = Append(Dequeue(i), i)
  /\ lock' = [lock EXCEPT ![i] = "free"]
  /\ pending' = pending \ {i}
  /\ Touch({i})
  /\ UNCHANGED <<jira, newer, version, insight, reader, upsets>>

(* The sync's activity ends before the enqueue; its next attempt upserts   *)
(* the issue again.                                                        *)
SyncFails(i) ==
  /\ i \in pending /\ Upset
  /\ pending' = pending \ {i}
  /\ UNCHANGED <<jira, rows, insight, hashed, reader, unchanged>>

-----------------------------------------------------------------------------
(* The refresh workflow and its activity processInsightQueue.              *)

Become(r, e) == reader' = [reader EXCEPT ![r] = e]

RequestInsightRefresh(w) ==
  /\ reader[w].pc = "idle"
  /\ Become(w, Starting("read", {}, 1, 1))
  /\ UNCHANGED <<jira, rows, pending, insight, hashed, unchanged, upsets>>

(* claimInsightRefreshBatch reads the candidates, oldest request first ... *)
ClaimableIfFree(i) == lock[i] = "free"  \* mutant: a lock that lapsed still holds
Claimable(i) == lock[i] # "held"

Candidates ==
  LET free == {n \in 1..Len(queue) : Claimable(queue[n])}
  IN {queue[n] : n \in {m \in free : Cardinality({k \in free : k < m}) < Limit}}

ReadCandidates(w) ==
  /\ reader[w].pc = "read"
  /\ Become(w, IF Candidates = {} THEN Idle
               ELSE Starting("lock", Candidates, reader[w].iteration, reader[w].attempt))
  /\ UNCHANGED <<jira, rows, pending, insight, hashed, unchanged, upsets>>

(* ... and locks what it read, whatever became of it since.                *)
LockCandidates(w) ==
  /\ reader[w].pc = "lock"
  /\ lock' = [i \in Issues |-> IF i \in reader[w].batch THEN "held" ELSE lock[i]]
  /\ Touch(reader[w].batch)
  /\ Become(w, [reader[w] EXCEPT !.pc = "load"])
  /\ UNCHANGED <<jira, version, queue, newer, pending, insight, upsets>>

(* ensureIssueInsights, and the issueInsights query for itself:            *)
(* getIssueInsights returns the stored insight if its hash is the row's,   *)
(* unless a refresh is asked for or it comes from another provider.        *)
Have(r, e) == Become(r, IF r \in Workers THEN [e EXCEPT !.pc = "mark"] ELSE Idle)

LoadIssue(r, i) ==
  /\ reader[r].pc = "load" /\ i \in reader[r].batch
  /\ LET e == [reader[r] EXCEPT !.pc = "store", !.batch = @ \ {i}, !.issue = i,
                                !.loaded = version[i]]
     IN \/ i \in hashed /\ Have(r, e) /\ UNCHANGED unchanged
        \/ Become(r, e) /\ unchanged' = unchanged \cup {r}
  /\ UNCHANGED <<jira, rows, pending, insight, hashed, upsets>>

HasComputed(r) == Have(r, reader[r]) /\ unchanged' = unchanged \ {r}

(* The skill answered: computeInsights stores what it made of the issue as *)
(* it was read, under the hash of what was read.                           *)
ComputeInsightsHashLate(r) ==  \* mutant: the hash is taken of the row at the end
  /\ reader[r].pc = "store"
  /\ insight' = [insight EXCEPT ![reader[r].issue] = reader[r].loaded]
  /\ hashed' = hashed \cup {reader[r].issue}
  /\ HasComputed(r)
  /\ UNCHANGED <<jira, rows, pending, upsets>>
ComputeInsights(r) ==
  /\ reader[r].pc = "store"
  /\ insight' = [insight EXCEPT ![reader[r].issue] = reader[r].loaded]
  /\ hashed' = IF r \in unchanged THEN hashed \cup {reader[r].issue}
                                  ELSE hashed \ {reader[r].issue}
  /\ HasComputed(r)
  /\ UNCHANGED <<jira, rows, pending, upsets>>

(* The skill or its answer fails: the exception reaches the client of a    *)
(* query, and for the queue ensureIssueInsights catches it and returns.    *)
ComputeFails(r) ==
  /\ reader[r].pc = "store" /\ SkillMayFail
  /\ HasComputed(r)
  /\ UNCHANGED <<jira, rows, pending, insight, hashed, upsets>>

(* On to the next issue of the batch, or to the count after the last.      *)
AdvanceMinusErrors(r, ok) ==  \* mutant: an error is taken off the count
  Become(r, [reader[r] EXCEPT !.processed = @ + 2 * ok - 1,
                              !.pc = IF reader[r].batch = {} THEN "count" ELSE "load"])
Advance(r, ok) ==
  Become(r, [reader[r] EXCEPT !.processed = @ + ok,
                              !.pc = IF reader[r].batch = {} THEN "count" ELSE "load"])

MarkRefreshSuccess(w) ==
  /\ reader[w].pc = "mark"
  /\ LET i == reader[w].issue
     IN /\ queue' = Dequeue(i)
        /\ lock' = [lock EXCEPT ![i] = "free"]
        /\ newer' = newer \ {i}
        /\ Touch({i})
  /\ Advance(w, 1)
  /\ UNCHANGED <<jira, version, pending, insight, upsets>>

(* markInsightRefreshSuccess throws.                                       *)
MarkRefreshFailure(w) ==
  /\ reader[w].pc = "mark" /\ Upset
  /\ lock' = [lock EXCEPT ![reader[w].issue] = "held"]
  /\ Touch({reader[w].issue})
  /\ Advance(w, 0)
  /\ UNCHANGED <<jira, version, queue, newer, pending, insight>>

(* countPendingInsightRefresh, and the workflow's decision to go on.       *)
CountPending(w) ==
  /\ reader[w].pc = "count"
  /\ LET e == reader[w]
     IN Become(w, IF e.processed = 0 \/ queue = <<>> \/ e.iteration = MaxIterations
                  THEN Idle ELSE Starting("read", {}, e.iteration + 1, 1))
  /\ UNCHANGED <<jira, rows, pending, insight, hashed, unchanged, upsets>>

(* The process dies within the activity; Temporal starts it again.         *)
Crash(w) ==
  /\ reader[w].pc # "idle" /\ Upset
  /\ LET e == reader[w]
     IN Become(w, IF e.attempt = MaxAttempts THEN Idle
                  ELSE Starting("read", {}, e.iteration, e.attempt + 1))
  /\ unchanged' = unchanged \ {w}
  /\ UNCHANGED <<jira, rows, pending, insight, hashed>>

(* Five minutes pass.  A batch may take ten: nothing holds the lock of an  *)
(* issue that is still being worked on.                                    *)
LockLapses(i) ==
  /\ lock[i] = "held"
  /\ lock' = [lock EXCEPT ![i] = "lapsed"]
  /\ UNCHANGED <<jira, version, queue, newer, pending, insight, hashed, reader, unchanged, upsets>>

(* The query issueInsights.                                                *)
IssueInsights(v, i) ==
  /\ reader[v].pc = "idle" /\ version[i] # 0
  /\ Become(v, Starting("load", {i}, 0, 0))
  /\ UNCHANGED <<jira, rows, pending, insight, hashed, unchanged, upsets>>

-----------------------------------------------------------------------------
SyncStep(i) == UpsertIssue(i) \/ EnqueueInsightRefresh(i) \/ SyncFails(i)

WorkerStep(w) ==
  \/ ReadCandidates(w) \/ LockCandidates(w) \/ MarkRefreshSuccess(w) \/ MarkRefreshFailure(w)
  \/ CountPending(w) \/ (\E i \in Issues : LoadIssue(w, i))
  \/ ComputeInsights(w) \/ ComputeFails(w)

ViewerStep(v) ==
  (\E i \in Issues : LoadIssue(v, i)) \/ ComputeInsights(v) \/ ComputeFails(v)

Next ==
  \/ \E i \in Issues : JiraActivity(i) \/ SyncStep(i) \/ LockLapses(i)
  \/ \E w \in Workers : RequestInsightRefresh(w) \/ WorkerStep(w) \/ Crash(w)
  \/ \E v \in Viewers : ViewerStep(v) \/ \E i \in Issues : IssueInsights(v, i)

Spec == Init /\ [][Next]_vars

(* Each sync ends by requesting a refresh, an activity that is open goes   *)
(* on, and time passes.                                                    *)
Fairness ==
  /\ \A w \in Workers : WF_vars(RequestInsightRefresh(w)) /\ WF_vars(WorkerStep(w))
  /\ \A i \in Issues : WF_vars(LockLapses(i))

FairSpec == Spec /\ Fairness
-----------------------------------------------------------------------------
(* A stored insight that passes for current (its hash is the row's) was    *)
(* made of the row's content, whichever of two overlapping computations    *)
(* stored last (getIssueInsights, computeInsights).                        *)
HashHitIsCurrent == \A i \in hashed : insight[i] = version[i]

(* Every request is taken off the queue in the end, whatever crashes, and  *)
(* though a crash leaves the lock behind.                                  *)
QueueDrains == \A i \in Issues : Queued(i) ~> ~Queued(i)

=============================================================================
