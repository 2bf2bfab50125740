--------------------------- MODULE NarrativeQueue ---------------------------
(***************************************************************************)
(* The queue of summary snapshots whose narrative is to be written: the    *)
(* narrative columns of ProjectSummarySnapshot and UserSummarySnapshot,    *)
(* the workflows that drain it, the mutation that fills it and starts a    *)
(* workflow within its transaction, and the generation of the snapshots;   *)
(* apps/api/src                                                            *)
(*   services/narratives/narrativeQueueService.ts, narrativeService.ts,    *)
(*     narrativeTriggerService.ts,                                         *)
(*   temporal/activities/narrativeActivities.ts,                           *)
(*   temporal/workflows/refreshNarrativesWorkflow.ts.                      *)
(*                                                                         *)
(* A snapshot's content never changes, so a text is known by its persona   *)
(* alone.  narrativeRefreshRequestedAt is kept as the order of the queue,  *)
(* narrativeRefreshLockedUntil as whether the lock still holds.  Attempts  *)
(* and error texts are written and never read, and are left out.           *)
(***************************************************************************)
EXTENDS Integers, Sequences, FiniteSets, SequencesExt

CONSTANTS
  ProjectSnapshots, UserSnapshots,  \* the snapshots of one generation
  NoSnapshot,
  Personas, Manager,                \* personas of a narrative, and the default one
  Workers,                          \* narrative workflows of syncs that may be open at once
  Admins,                           \* requestNarrativeRefresh mutations that may be; each
                                    \* starts one workflow
  Limit,                            \* batchSize of the workflow
  MaxIterations,                    \* iterations of the workflow
  MaxAttempts,                      \* retry.maximumAttempts of its activity
  MaxRequests,                      \* bound: mutations
  MaxUpsets                         \* bound: crashes, failed generations and rollbacks

Snapshots == ProjectSnapshots \cup UserSnapshots
Workflows == Workers \cup Admins

ASSUME NarrativeAssumption ==
  /\ Limit \in Nat \ {0} /\ MaxIterations \in Nat \ {0} /\ MaxAttempts \in Nat \ {0}
  /\ MaxRequests \in Nat /\ MaxUpsets \in Nat
  /\ Manager \in Personas /\ NoSnapshot \notin Snapshots
  /\ ProjectSnapshots \cap UserSnapshots = {} /\ Workers \cap Admins = {}

VARIABLES
  queue,     \* snapshots with needsNarrativeRefresh, by narrativeRefreshRequestedAt
  lock,      \* narrativeRefreshLockedUntil: null, in the future, or in the past
  variants,  \* richNarratives: the personas it holds a text for; {} before the snapshot
  worker,    \* the workflows
  request,   \* the mutations' transactions
  requests, upsets,
  shared     \* history: snapshots that two workflows were writing a text of at once

rows == <<queue, lock, variants>>
vars == <<rows, worker, request, requests, upsets, shared>>

(* batch holds the claimed snapshots a workflow has not come to yet,       *)
(* snapshot the one it is at, and read the personas it has found there.    *)
Starting(pc, batch, iteration, attempt, persona, force) ==
  [pc |-> pc, batch |-> batch, snapshot |-> NoSnapshot, read |-> {}, processed |-> 0,
   iteration |-> iteration, attempt |-> attempt, persona |-> persona, force |-> force]
Idle == Starting("idle", {}, 0, 0, Manager, FALSE)

Worker == [pc : {"idle", "read", "lock", "load", "reuse", "store", "fail", "mark", "count"},
           batch : SUBSET Snapshots, snapshot : Snapshots \cup {NoSnapshot},
           read : SUBSET Personas, processed : Nat, iteration : Nat, attempt : Nat,
           persona : Personas, force : BOOLEAN]

NoRequest == [pc |-> "none", rows |-> {}, persona |-> Manager, force |-> FALSE]
Request == [pc : {"none", "enqueued", "started"}, rows : SUBSET Snapshots,
            persona : Personas, force : BOOLEAN]

Init ==
  /\ queue = <<>> /\ lock = [s \in Snapshots |-> "free"] /\ variants = [s \in Snapshots |-> {}]
  /\ worker = [w \in Workflows |-> Idle] /\ request = [a \in Admins |-> NoRequest]
  /\ requests = 0 /\ upsets = 0 /\ shared = {}

Queued(s) == \E n \in DOMAIN queue : queue[n] = s
Without(S) == LET Other(s) == s \notin S IN SelectSeq(queue, Other)

Upset == upsets < MaxUpsets /\ upsets' = upsets + 1
Become(w, e) == worker' = [worker EXCEPT ![w] = e]
At(w, step) == worker[w].pc = step

(* Postgres lets nobody else write the rows of an open transaction.        *)
Writable(S) == \A a \in Admins : request[a].rows \cap S = {}

-----------------------------------------------------------------------------
(* generateHierarchicalSummariesForDate: the users' snapshots, then the    *)
(* project's, each with the manager's text and a request, in one           *)
(* transaction; it starts no workflow.                                     *)
GenerateSummaries ==
  /\ \A s \in Snapshots : variants[s] = {}
  /\ variants' = [s \in Snapshots |-> {Manager}]
  /\ queue' = SetToSeq(UserSnapshots) \o SetToSeq(ProjectSnapshots)
  /\ UNCHANGED <<lock, worker, request, requests, upsets, shared>>

(* triggerNarrativeRefresh, in the transaction of the mutation: the rows   *)
(* are enqueued, the workflow is started, the transaction ends.            *)
Enqueue(a, S, persona, force) ==
  /\ request[a] = NoRequest /\ At(a, "idle") /\ requests < MaxRequests
  /\ \A s \in S : variants[s] # {}
  /\ Writable(S)
  /\ request' = [request EXCEPT ![a] = [pc |-> "enqueued", rows |-> S, persona |-> persona,
                                        force |-> force]]
  /\ requests' = requests + 1
  /\ UNCHANGED <<rows, worker, upsets, shared>>

StartWorkflow(a) ==
  /\ request[a].pc = "enqueued"
  /\ Become(a, Starting("read", {}, 1, 1, request[a].persona, request[a].force))
  /\ request' = [request EXCEPT ![a].pc = "started"]
  /\ UNCHANGED <<rows, requests, upsets, shared>>

(* The persona and the force of a request are the workflow's, not the      *)
(* row's: whichever workflow comes first serves the row in its own way.    *)
Commit(a) ==
  /\ request[a].pc = "started"
  /\ queue' = Without(request[a].rows) \o SetToSeq(request[a].rows)
  /\ lock' = [s \in Snapshots |-> IF s \in request[a].rows THEN "free" ELSE lock[s]]
  /\ request' = [request EXCEPT ![a] = NoRequest]
  /\ UNCHANGED <<variants, worker, requests, upsets, shared>>

(* workflow.start throws, or the transaction runs into its time limit.     *)
RollBack(a) ==
  /\ request[a] # NoRequest /\ Upset
  /\ request' = [request EXCEPT ![a] = NoRequest]
  /\ UNCHANGED <<rows, worker, requests, shared>>

-----------------------------------------------------------------------------
(* The workflow and its activity processNarrativeQueue.                    *)

(* syncProjectWorkflow ends by starting one, for the manager.              *)
RequestRefresh(w) ==
  /\ At(w, "idle")
  /\ Become(w, Starting("read", {}, 1, 1, Manager, FALSE))
  /\ UNCHANGED <<rows, request, requests, upsets, shared>>

(* claimNarrativeRefreshBatch reads the candidates, projects before users, *)
(* the oldest request first ...                                            *)
ClaimableIfFree(s) == lock[s] = "free"  \* mutant: a lock that lapsed still holds
Claimable(s) == lock[s] # "held"

FirstOf(S, n) ==
  LET free == {k \in DOMAIN queue : queue[k] \in S /\ Claimable(queue[k])}
  IN {queue[k] : k \in {m \in free : Cardinality({j \in free : j < m}) < n}}
Candidates ==
  LET projects == FirstOf(ProjectSnapshots, Limit)
  IN projects \cup FirstOf(UserSnapshots, Limit - Cardinality(projects))

Again(e, pc, batch, iteration, attempt) ==
  Starting(pc, batch, iteration, attempt, e.persona, e.force)

ReadCandidates(w) ==
  /\ At(w, "read")
  /\ LET e == worker[w] IN
     Become(w, IF Candidates = {} THEN Idle
               ELSE Again(e, "lock", Candidates, e.iteration, e.attempt))
  /\ UNCHANGED <<rows, request, requests, upsets, shared>>

(* ... and locks what it read, whatever became of it since.                *)
LockCandidates(w) ==
  /\ At(w, "lock")
  /\ Writable(worker[w].batch)
  /\ lock' = [s \in Snapshots |-> IF s \in worker[w].batch THEN "held" ELSE lock[s]]
  /\ Become(w, [worker[w] EXCEPT !.pc = "load"])
  /\ UNCHANGED <<queue, variants, request, requests, upsets, shared>>

(* generateNarrative reads the snapshot.  A text under the hash of the     *)
(* input is used again, unless the workflow is forced; the text that came  *)
(* with the snapshot may have another hash, because Postgres orders the    *)
(* keys of the payload.                                                    *)
LoadSnapshot(w, s) ==
  /\ At(w, "load") /\ s \in worker[w].batch
  /\ LET e == worker[w]
         loaded == [e EXCEPT !.batch = @ \ {s}, !.snapshot = s, !.read = variants[s]]
     IN \/ /\ e.persona \in variants[s] /\ ~e.force
           /\ Become(w, [loaded EXCEPT !.pc = "reuse"])
           /\ shared' = shared
        \/ /\ Become(w, [loaded EXCEPT !.pc = "store"])
           /\ shared' = IF \E v \in Workflows \ {w} : At(v, "store") /\ worker[v].snapshot = s
                        THEN shared \cup {s} ELSE shared
  /\ UNCHANGED <<rows, request, requests, upsets>>

(* A write of the row that also clears its request.                        *)
Serve(w) ==
  LET s == worker[w].snapshot IN
  /\ Writable({s})
  /\ queue' = Without({s})
  /\ lock' = [lock EXCEPT ![s] = "free"]

ReuseNarrative(w) ==
  /\ At(w, "reuse") /\ Serve(w)
  /\ Become(w, [worker[w] EXCEPT !.pc = "mark"])
  /\ UNCHANGED <<variants, request, requests, upsets, shared>>

StoreNarrativeAlone(w) ==  \* mutant: richNarratives holds the new text only
  /\ At(w, "store") /\ Serve(w)
  /\ variants' = [variants EXCEPT ![worker[w].snapshot] = {worker[w].persona}]
  /\ Become(w, [worker[w] EXCEPT !.pc = "mark"])
  /\ UNCHANGED <<request, requests, upsets, shared>>
StoreNarrative(w) ==
  /\ At(w, "store") /\ Serve(w)
  /\ variants' = [variants EXCEPT ![worker[w].snapshot] =
                    worker[w].read \cup {worker[w].persona}]
  /\ Become(w, [worker[w] EXCEPT !.pc = "mark"])
  /\ UNCHANGED <<request, requests, upsets, shared>>

(* Loading, composing, storing or the success mark throws.                 *)
GenerateFails(w) ==
  /\ worker[w].pc \in {"reuse", "store", "mark"} /\ Upset
  /\ Become(w, [worker[w] EXCEPT !.pc = "fail"])
  /\ UNCHANGED <<rows, request, requests, shared>>

(* On to the next snapshot of the batch, or to the count after the last.   *)
Advance(w, ok) ==
  Become(w, [worker[w] EXCEPT !.processed = @ + ok,
                              !.pc = IF worker[w].batch = {} THEN "count" ELSE "load"])

MarkRefreshSuccess(w) ==
  /\ At(w, "mark") /\ Serve(w)
  /\ Advance(w, 1)
  /\ UNCHANGED <<variants, request, requests, upsets, shared>>

MarkRefreshFailure(w) ==
  /\ At(w, "fail") /\ Writable({worker[w].snapshot})
  /\ lock' = [lock EXCEPT ![worker[w].snapshot] = "held"]
  /\ Advance(w, 0)
  /\ UNCHANGED <<queue, variants, request, requests, upsets, shared>>

(* countPendingNarrativeRefresh, and the workflow's decision to go on: a   *)
(* batch that failed as a whole ends it.                                   *)
CountPending(w) ==
  /\ At(w, "count")
  /\ LET e == worker[w]
     IN Become(w, IF e.processed = 0 \/ queue = <<>> \/ e.iteration = MaxIterations
                  THEN Idle ELSE Again(e, "read", {}, e.iteration + 1, 1))
  /\ UNCHANGED <<rows, request, requests, upsets, shared>>

(* The process dies within the activity, or the failure mark throws;       *)
(* Temporal starts the activity again.                                     *)
Crash(w) ==
  /\ ~At(w, "idle") /\ Upset
  /\ LET e == worker[w]
     IN Become(w, IF e.attempt = MaxAttempts THEN Idle
                  ELSE Again(e, "read", {}, e.iteration, e.attempt + 1))
  /\ UNCHANGED <<rows, request, requests, shared>>

(* Five minutes pass.                                                      *)
LockLapses(s) ==
  /\ lock[s] = "held"
  /\ lock' = [lock EXCEPT ![s] = "lapsed"]
  /\ UNCHANGED <<queue, variants, worker, request, requests, upsets, shared>>

-----------------------------------------------------------------------------
RequestStep(a) == StartWorkflow(a) \/ Commit(a)

WorkerStep(w) ==
  \/ ReadCandidates(w) \/ LockCandidates(w) \/ (\E s \in Snapshots : LoadSnapshot(w, s))
  \/ ReuseNarrative(w) \/ StoreNarrative(w) \/ MarkRefreshSuccess(w) \/ MarkRefreshFailure(w)
  \/ CountPending(w)

Next ==
  \/ GenerateSummaries
  \/ \E a \in Admins :
       \/ \E scope \in {ProjectSnapshots, UserSnapshots} : \E S \in (SUBSET scope) \ {{}} :
            \E persona \in Personas, force \in BOOLEAN : Enqueue(a, S, persona, force)
       \/ RequestStep(a) \/ RollBack(a)
  \/ \E w \in Workers : RequestRefresh(w)
  \/ \E w \in Workflows : WorkerStep(w) \/ GenerateFails(w) \/ Crash(w)
  \/ \E s \in Snapshots : LockLapses(s)

Spec == Init /\ [][Next]_vars

(* Each sync ends by starting a workflow, a workflow and a transaction     *)
(* that are open go on, and time passes.                                   *)
Fairness ==
  /\ \A w \in Workers : WF_vars(RequestRefresh(w))
  /\ \A w \in Workflows : WF_vars(WorkerStep(w))
  /\ \A a \in Admins : WF_vars(RequestStep(a))
  /\ \A s \in Snapshots : WF_vars(LockLapses(s))

FairSpec == Spec /\ Fairness
-----------------------------------------------------------------------------
(* A text once written for a persona stays beside the texts for others     *)
(* (generateNarrative spreads the variants it has read), unless two        *)
(* workflows wrote texts of one snapshot at once.                          *)
VariantsAreKept ==
  [][\A s \in Snapshots : variants[s] \subseteq variants'[s] \/ s \in shared]_vars

(* The part of it that is a state's: what a workflow is about to write     *)
(* holds every text there is.                                              *)
ReadIsCurrent ==
  \A w \in Workflows : At(w, "store") /\ worker[w].snapshot \notin shared =>
    variants[worker[w].snapshot] \subseteq worker[w].read

(* A request leaves the queue in the end, though its workflow may come     *)
(* before its commit and find nothing, a crash leaves its lock behind, a   *)
(* generation fails, and the projects' snapshots go first.                 *)
RequestsServed == \A s \in Snapshots : Queued(s) ~> ~Queued(s)
=============================================================================
