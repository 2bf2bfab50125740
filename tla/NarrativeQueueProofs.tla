------------------------ MODULE NarrativeQueueProofs ------------------------
(***************************************************************************)
(* The texts of a snapshot for several personas survive one another: every *)
(* number of snapshots, personas, workflows and mutations, whatever        *)
(* crashes and is rolled back.                                             *)
(***************************************************************************)
EXTENDS NarrativeQueue, TLAPS

(* What the argument needs of the types.                                   *)
Shape ==
  /\ variants \in [Snapshots -> SUBSET Personas]
  /\ worker \in [Workflows -> Worker]
  /\ request \in [Admins -> Request]
  /\ shared \subseteq Snapshots

(* Nobody is at a snapshot before there are any.                           *)
Quiet ==
  /\ queue = <<>> /\ \A s \in Snapshots : variants[s] = {}
  /\ \A w \in Workflows : worker[w].pc \in {"idle", "read"}
  /\ \A a \in Admins : request[a] = NoRequest
NothingYet == (\A s \in Snapshots : variants[s] # {}) \/ Quiet

Busy == {"reuse", "store", "mark", "fail"}
WritesASnapshot == \A w \in Workflows : worker[w].pc \in Busy => worker[w].snapshot \in Snapshots

TwoAreShared ==
  \A v, w \in Workflows :
    v # w /\ At(v, "store") /\ At(w, "store") /\ worker[v].snapshot = worker[w].snapshot
      => worker[v].snapshot \in shared

VariantsInv == Shape /\ NothingYet /\ WritesASnapshot /\ TwoAreShared /\ ReadIsCurrent

LEMMA InitVariants == ASSUME NarrativeAssumption, Init PROVE VariantsInv
BY DEF NarrativeAssumption, Init, VariantsInv, Shape, NothingYet, Quiet, WritesASnapshot, Busy, TwoAreShared, ReadIsCurrent,
       Worker, Request, Idle, NoRequest, Starting, At

Made == \A s \in Snapshots : variants[s] # {}

(* A workflow that goes on elsewhere than to a store.                      *)
LEMMA StepsOn ==
  ASSUME VariantsInv, NEW w \in Workflows, NEW e \in Worker, Become(w, e),
         e.pc # "store", e.pc \in Busy => e.snapshot \in Snapshots,
         Made \/ (e.pc \in {"idle", "read"} /\ UNCHANGED <<queue, request>>),
         request' \in [Admins -> Request], UNCHANGED <<variants, shared>>
  PROVE  VariantsInv'
<1>1. worker' \in [Workflows -> Worker] /\ worker'[w] = e
      /\ \A v \in Workflows \ {w} : worker'[v] = worker[v]
  BY DEF VariantsInv, Shape, Become
<1>2. Shape' BY <1>1 DEF VariantsInv, Shape
<1>3. NothingYet' BY <1>1 DEF VariantsInv, NothingYet, Quiet, Made
<1>4. WritesASnapshot' BY <1>1 DEF VariantsInv, WritesASnapshot
<1>5. TwoAreShared' /\ ReadIsCurrent' BY <1>1 DEF VariantsInv, TwoAreShared, ReadIsCurrent, At
<1> QED BY <1>2, <1>3, <1>4, <1>5 DEF VariantsInv

(* A step of the rows and the mutations only.                              *)
LEMMA RowsOnly ==
  ASSUME VariantsInv, request' \in [Admins -> Request],
         Made \/ UNCHANGED <<queue, request>>, UNCHANGED <<variants, worker, shared>>
  PROVE  VariantsInv'
BY DEF VariantsInv, Shape, NothingYet, Quiet, Made, WritesASnapshot, TwoAreShared, ReadIsCurrent, At

LEMMA WorkersAre == ASSUME VariantsInv, NEW w \in Workflows
                    PROVE  worker[w] \in Worker /\ request \in [Admins -> Request]
                           /\ (worker[w].pc \notin {"idle", "read"} => Made)
                           /\ (worker[w].pc \in Busy => worker[w].snapshot \in Snapshots)
BY DEF VariantsInv, Shape, NothingYet, Quiet, Made, WritesASnapshot

LEMMA RequestsAre == ASSUME VariantsInv, NEW a \in Admins
                     PROVE  request[a] \in Request /\ (request[a] # NoRequest => Made)
BY DEF VariantsInv, Shape, NothingYet, Quiet, Made

LEMMA NoRequestOK == NoRequest \in Request /\ NoRequest.pc = "none"
BY NarrativeAssumption DEF NoRequest, Request, NarrativeAssumption

LEMMA StartingOK ==
  ASSUME NEW pc \in {"idle", "read", "lock", "load", "count"}, NEW batch \in SUBSET Snapshots,
         NEW iteration \in Nat, NEW attempt \in Nat, NEW persona \in Personas, NEW force \in BOOLEAN
  PROVE  Starting(pc, batch, iteration, attempt, persona, force) \in Worker
         /\ Starting(pc, batch, iteration, attempt, persona, force).pc = pc
BY DEF Starting, Worker

LEMMA IdleOK == Idle \in Worker /\ Idle.pc = "idle"
BY NarrativeAssumption DEF Idle, Starting, Worker, NarrativeAssumption

LEMMA AgainOK ==
  ASSUME NEW e \in Worker, NEW pc \in {"read", "lock"}, NEW batch \in SUBSET Snapshots,
         NEW iteration \in Nat, NEW attempt \in Nat
  PROVE  Again(e, pc, batch, iteration, attempt) \in Worker
         /\ Again(e, pc, batch, iteration, attempt).pc = pc
BY DEF Again, Starting, Worker

LEMMA WentOn ==
  ASSUME NEW e \in Worker, NEW n \in Nat, NEW pc \in {"count", "load"}
  PROVE  [e EXCEPT !.processed = n, !.pc = pc] \in Worker
         /\ [e EXCEPT !.processed = n, !.pc = pc].pc = pc
BY DEF Worker

(* The claim: snapshots, and without a queue none.                         *)
LEMMA FirstAreThere == ASSUME NEW S, NEW n
                       PROVE  FirstOf(S, n) \subseteq S /\ (queue = <<>> => FirstOf(S, n) = {})
<1>1. FirstOf(S, n) \subseteq S
  BY DEF FirstOf
<1>2. ASSUME queue = <<>> PROVE FirstOf(S, n) = {}
  <2>1. DOMAIN queue = {} BY <1>2
  <2> QED BY <2>1 DEF FirstOf
<1> QED BY <1>1, <1>2
LEMMA ClaimsSnapshots == Candidates \subseteq Snapshots /\ (queue = <<>> => Candidates = {})
<1> DEFINE projects == FirstOf(ProjectSnapshots, Limit)
<1>1. projects \subseteq ProjectSnapshots /\ (queue = <<>> => projects = {})
  BY FirstAreThere
<1>2. FirstOf(UserSnapshots, Limit - Cardinality(projects)) \subseteq UserSnapshots
      /\ (queue = <<>> => FirstOf(UserSnapshots, Limit - Cardinality(projects)) = {})
  BY FirstAreThere
<1> QED BY <1>1, <1>2 DEF Candidates, Snapshots

LEMMA VariantsStep == ASSUME NarrativeAssumption, VariantsInv, [Next]_vars PROVE VariantsInv'
<1> USE DEF At
<1> SUFFICES ASSUME Next PROVE VariantsInv'
  BY DEF VariantsInv, Shape, NothingYet, Quiet, WritesASnapshot, TwoAreShared, ReadIsCurrent, vars, rows
<1>1. CASE GenerateSummaries
  <2>1. variants' = [s \in Snapshots |-> {Manager}] /\ UNCHANGED <<worker, request, shared>>
        /\ \A s \in Snapshots : variants[s] = {}
    BY <1>1 DEF GenerateSummaries
  <2>2. Shape'
    BY <2>1 DEF VariantsInv, Shape, NarrativeAssumption
  <2>3. NothingYet'
    BY <2>1 DEF NothingYet
  <2>4. WritesASnapshot' /\ TwoAreShared' /\ ReadIsCurrent'
    <3>1. CASE \A w \in Workflows : worker[w].pc \in {"idle", "read"}
      BY <3>1, <2>1 DEF WritesASnapshot, TwoAreShared, ReadIsCurrent, VariantsInv, Busy
    <3>2. CASE Snapshots = {}
      BY <3>2, <2>1 DEF WritesASnapshot, TwoAreShared, ReadIsCurrent, VariantsInv, Busy
    <3> QED BY <3>1, <3>2, <2>1 DEF VariantsInv, NothingYet, Quiet
  <2> QED BY <2>2, <2>3, <2>4 DEF VariantsInv
<1>2. ASSUME NEW a \in Admins, NEW S \in SUBSET Snapshots, NEW persona \in Personas,
             NEW force \in BOOLEAN, S # {}, Enqueue(a, S, persona, force)
      PROVE  VariantsInv'
  <2>1. request' \in [Admins -> Request]
    BY <1>2 DEF Enqueue, VariantsInv, Shape, Request
  <2>2. Made
    BY <1>2 DEF Enqueue, VariantsInv, NothingYet, Quiet, Made
  <2> QED BY <1>2, <2>1, <2>2, RowsOnly DEF Enqueue, rows
<1>3. ASSUME NEW a \in Admins, StartWorkflow(a) PROVE VariantsInv'
  <2>1. a \in Workflows /\ request[a] \in Request /\ request' \in [Admins -> Request]
    BY <1>3 DEF StartWorkflow, VariantsInv, Shape, Workflows, Request
  <2>4. Made
    BY <1>3, RequestsAre, NoRequestOK DEF StartWorkflow
  <2> DEFINE e == Starting("read", {}, 1, 1, request[a].persona, request[a].force)
  <2>2. e \in Worker /\ e.pc = "read"
    BY <2>1, StartingOK DEF Request
  <2>3. Become(a, e) /\ UNCHANGED <<queue, variants, shared>>
    BY <1>3 DEF StartWorkflow, rows
  <2> HIDE DEF e
  <2> QED BY <2>1, <2>2, <2>3, <2>4, StepsOn DEF Busy
<1>4. ASSUME NEW a \in Admins, Commit(a) PROVE VariantsInv'
  <2>1. request' \in [Admins -> Request]
    BY <1>4, NoRequestOK DEF Commit, VariantsInv, Shape
  <2>2. Made
    BY <1>4, RequestsAre, NoRequestOK DEF Commit
  <2> QED BY <1>4, <2>1, <2>2, RowsOnly DEF Commit
<1>5. ASSUME NEW a \in Admins, RollBack(a) PROVE VariantsInv'
  <2>1. request' \in [Admins -> Request]
    BY <1>5, NoRequestOK DEF RollBack, VariantsInv, Shape
  <2>2. Made
    BY <1>5, RequestsAre DEF RollBack
  <2> QED BY <1>5, <2>1, <2>2, RowsOnly DEF RollBack, rows
<1>6. ASSUME NEW w \in Workers, RequestRefresh(w) PROVE VariantsInv'
  <2>1. w \in Workflows BY DEF Workflows
  <2> DEFINE e == Starting("read", {}, 1, 1, Manager, FALSE)
  <2>2. e \in Worker /\ e.pc = "read" BY NarrativeAssumption DEF Starting, Worker, NarrativeAssumption
  <2>3. Become(w, e) /\ UNCHANGED <<queue, variants, request, shared>>
    BY <1>6 DEF RequestRefresh, rows
  <2> HIDE DEF e
  <2> QED BY <2>1, <2>2, <2>3, StepsOn, WorkersAre DEF Busy
<1>7. ASSUME NEW w \in Workflows, ReadCandidates(w) PROVE VariantsInv'
  <2> DEFINE e == IF Candidates = {} THEN Idle
                  ELSE Again(worker[w], "lock", Candidates, worker[w].iteration, worker[w].attempt)
  <2>1. e \in Worker /\ e.pc \in {"idle", "lock"} /\ (e.pc = "lock" => queue # <<>>)
    <3>1. CASE Candidates = {} BY <3>1, IdleOK
    <3>2. CASE Candidates # {}
      <4>1. worker[w] \in Worker BY WorkersAre
      <4>2. worker[w].iteration \in Nat /\ worker[w].attempt \in Nat BY <4>1 DEF Worker
      <4> QED BY <3>2, <4>1, <4>2, ClaimsSnapshots, AgainOK
    <3> QED BY <3>1, <3>2
  <2>2. Become(w, e) /\ UNCHANGED <<queue, variants, request, shared>>
    BY <1>7 DEF ReadCandidates, rows
  <2>3. Made \/ e.pc = "idle"
    BY <2>1 DEF VariantsInv, NothingYet, Quiet, Made
  <2> HIDE DEF e
  <2> QED BY <2>1, <2>2, <2>3, StepsOn, WorkersAre DEF Busy
<1>8. ASSUME NEW w \in Workflows, LockCandidates(w) PROVE VariantsInv'
  <2> DEFINE e == [worker[w] EXCEPT !.pc = "load"]
  <2>1. e \in Worker /\ e.pc = "load" BY WorkersAre DEF Worker
  <2>2. Become(w, e) /\ UNCHANGED <<queue, variants, request, shared>> /\ worker[w].pc = "lock"
    BY <1>8 DEF LockCandidates
  <2> HIDE DEF e
  <2> QED BY <2>1, <2>2, StepsOn, WorkersAre DEF Busy
<1>9. ASSUME NEW w \in Workflows, NEW s \in Snapshots, LoadSnapshot(w, s) PROVE VariantsInv'
  <2> DEFINE l == [worker[w] EXCEPT !.batch = @ \ {s}, !.snapshot = s, !.read = variants[s]]
             r == [l EXCEPT !.pc = "reuse"]
             e == [l EXCEPT !.pc = "store"]
  <2>1. /\ r \in Worker /\ r.pc = "reuse" /\ r.snapshot = s
        /\ e \in Worker /\ e.pc = "store" /\ e.snapshot = s /\ e.read = variants[s]
    <3>1. worker[w] \in Worker /\ variants[s] \in SUBSET Personas
      BY WorkersAre DEF VariantsInv, Shape
    <3>2. l \in Worker /\ l.snapshot = s /\ l.read = variants[s] BY <3>1 DEF Worker
    <3> HIDE DEF l
    <3> QED BY <3>2 DEF Worker
  <2>2. Made /\ UNCHANGED <<queue, variants, request>>
    BY <1>9, WorkersAre DEF LoadSnapshot, rows
  <2>3. CASE Become(w, r) /\ shared' = shared
    <3> HIDE DEF r
    <3> QED BY <2>1, <2>2, <2>3, StepsOn, WorkersAre
  <2>4. CASE /\ Become(w, e)
             /\ shared' = IF \E v \in Workflows \ {w} : At(v, "store") /\ worker[v].snapshot = s
                          THEN shared \cup {s} ELSE shared
    <3> HIDE DEF e
    <3>1. worker' \in [Workflows -> Worker] /\ worker'[w] = e
          /\ \A v \in Workflows \ {w} : worker'[v] = worker[v]
      BY <2>1, <2>4 DEF VariantsInv, Shape, Become
    <3>2. Shape' /\ NothingYet' /\ WritesASnapshot'
      BY <2>1, <2>2, <2>4, <3>1 DEF VariantsInv, Shape, NothingYet, Made, WritesASnapshot
    <3>3. TwoAreShared' /\ ReadIsCurrent'
      BY <2>1, <2>2, <2>4, <3>1 DEF VariantsInv, TwoAreShared, ReadIsCurrent
    <3> QED BY <3>2, <3>3 DEF VariantsInv
  <2> QED BY <1>9, <2>3, <2>4 DEF LoadSnapshot
<1>10. ASSUME NEW w \in Workflows, ReuseNarrative(w) PROVE VariantsInv'
  <2> DEFINE e == [worker[w] EXCEPT !.pc = "mark"]
  <2>1. e \in Worker /\ e.pc = "mark" /\ e.snapshot = worker[w].snapshot
    BY WorkersAre DEF Worker
  <2>2. Become(w, e) /\ UNCHANGED <<variants, request, shared>> /\ worker[w].pc = "reuse"
    BY <1>10 DEF ReuseNarrative
  <2> HIDE DEF e
  <2> QED BY <2>1, <2>2, StepsOn, WorkersAre DEF Busy
<1>11. ASSUME NEW w \in Workflows, StoreNarrative(w) PROVE VariantsInv'
  <2> DEFINE e == [worker[w] EXCEPT !.pc = "mark"]
             s == worker[w].snapshot
             written == worker[w].read \cup {worker[w].persona}
  <2>1. e \in Worker /\ e.pc = "mark" /\ e.snapshot = s /\ s \in Snapshots
        /\ written \in SUBSET Personas /\ written # {} /\ Made
    BY <1>11, WorkersAre DEF Worker, StoreNarrative, Busy
  <2>2. Become(w, e) /\ UNCHANGED <<request, shared>> /\ variants' = [variants EXCEPT ![s] = written]
    BY <1>11 DEF StoreNarrative
  <2>3. \A v \in Workflows \ {w} : At(v, "store") /\ worker[v].snapshot = s => s \in shared
    BY <1>11 DEF StoreNarrative, VariantsInv, TwoAreShared
  <2> HIDE DEF e, written
  <2>4. worker' \in [Workflows -> Worker] /\ worker'[w] = e
        /\ \A v \in Workflows \ {w} : worker'[v] = worker[v]
    BY <2>1, <2>2 DEF VariantsInv, Shape, Become
  <2>5. Shape' /\ NothingYet' /\ WritesASnapshot'
    BY <2>1, <2>2, <2>4 DEF VariantsInv, Shape, NothingYet, Made, WritesASnapshot
  <2>6. TwoAreShared' /\ ReadIsCurrent'
    BY <2>1, <2>2, <2>3, <2>4 DEF VariantsInv, Shape, TwoAreShared, ReadIsCurrent
  <2> QED BY <2>5, <2>6 DEF VariantsInv
<1>12. ASSUME NEW w \in Workflows, GenerateFails(w) PROVE VariantsInv'
  <2> DEFINE e == [worker[w] EXCEPT !.pc = "fail"]
  <2>1. e \in Worker /\ e.pc = "fail" /\ e.snapshot = worker[w].snapshot
    BY WorkersAre DEF Worker
  <2>2. Become(w, e) /\ UNCHANGED <<queue, variants, request, shared>> /\ worker[w].pc \in Busy
    BY <1>12 DEF GenerateFails, rows, Busy
  <2> HIDE DEF e
  <2> QED BY <2>1, <2>2, StepsOn, WorkersAre DEF Busy
<1>13. ASSUME NEW w \in Workflows, MarkRefreshSuccess(w) PROVE VariantsInv'
  <2> DEFINE e == [worker[w] EXCEPT !.processed = @ + 1,
                                    !.pc = IF worker[w].batch = {} THEN "count" ELSE "load"]
  <2>1. e \in Worker /\ e.pc \in {"count", "load"}
    <3>1. worker[w] \in Worker BY WorkersAre
    <3> DEFINE pc == IF worker[w].batch = {} THEN "count" ELSE "load"
    <3>2. pc \in {"count", "load"} OBVIOUS
    <3>4. e = [worker[w] EXCEPT !.processed = worker[w].processed + 1, !.pc = pc] OBVIOUS
    <3>5. worker[w].processed + 1 \in Nat BY <3>1 DEF Worker
    <3> HIDE DEF pc, e
    <3>6. /\ [worker[w] EXCEPT !.processed = worker[w].processed + 1, !.pc = pc] \in Worker
          /\ [worker[w] EXCEPT !.processed = worker[w].processed + 1, !.pc = pc].pc = pc
      <4> DEFINE n == worker[w].processed + 1
      <4>1. n \in Nat BY <3>5
      <4> HIDE DEF n
      <4>2. [worker[w] EXCEPT !.processed = n, !.pc = pc] \in Worker
            /\ [worker[w] EXCEPT !.processed = n, !.pc = pc].pc = pc
        BY <3>1, <3>2, <4>1, WentOn
      <4> QED BY <4>2 DEF n
    <3> QED BY <3>2, <3>4, <3>6
  <2>2. Become(w, e) /\ UNCHANGED <<variants, request, shared>> /\ worker[w].pc = "mark"
    BY <1>13 DEF MarkRefreshSuccess, Advance
  <2> HIDE DEF e
  <2> QED BY <2>1, <2>2, StepsOn, WorkersAre DEF Busy
<1>14. ASSUME NEW w \in Workflows, MarkRefreshFailure(w) PROVE VariantsInv'
  <2> DEFINE e == [worker[w] EXCEPT !.processed = @ + 0,
                                    !.pc = IF worker[w].batch = {} THEN "count" ELSE "load"]
  <2>1. e \in Worker /\ e.pc \in {"count", "load"}
    <3>1. worker[w] \in Worker BY WorkersAre
    <3> DEFINE pc == IF worker[w].batch = {} THEN "count" ELSE "load"
    <3>2. pc \in {"count", "load"} OBVIOUS
    <3>4. e = [worker[w] EXCEPT !.processed = worker[w].processed + 0, !.pc = pc] OBVIOUS
    <3>5. worker[w].processed + 0 \in Nat BY <3>1 DEF Worker
    <3> HIDE DEF pc, e
    <3>6. /\ [worker[w] EXCEPT !.processed = worker[w].processed + 0, !.pc = pc] \in Worker
          /\ [worker[w] EXCEPT !.processed = worker[w].processed + 0, !.pc = pc].pc = pc
      <4> DEFINE n == worker[w].processed + 0
      <4>1. n \in Nat BY <3>5
      <4> HIDE DEF n
      <4>2. [worker[w] EXCEPT !.processed = n, !.pc = pc] \in Worker
            /\ [worker[w] EXCEPT !.processed = n, !.pc = pc].pc = pc
        BY <3>1, <3>2, <4>1, WentOn
      <4> QED BY <4>2 DEF n
    <3> QED BY <3>2, <3>4, <3>6
  <2>2. Become(w, e) /\ UNCHANGED <<variants, request, shared>> /\ worker[w].pc = "fail"
    BY <1>14 DEF MarkRefreshFailure, Advance
  <2> HIDE DEF e
  <2> QED BY <2>1, <2>2, StepsOn, WorkersAre DEF Busy
<1>15. ASSUME NEW w \in Workflows, CountPending(w) PROVE VariantsInv'
  <2> DEFINE e == IF worker[w].processed = 0 \/ queue = <<>> \/ worker[w].iteration = MaxIterations
                  THEN Idle ELSE Again(worker[w], "read", {}, worker[w].iteration + 1, 1)
  <2>1. e \in Worker /\ e.pc \in {"idle", "read"}
    <3>1. Again(worker[w], "read", {}, worker[w].iteration + 1, 1) \in Worker
          /\ Again(worker[w], "read", {}, worker[w].iteration + 1, 1).pc = "read"
      <4>1. worker[w] \in Worker BY WorkersAre
      <4>2. worker[w].iteration \in Nat /\ worker[w].attempt \in Nat BY <4>1 DEF Worker
      <4> QED BY <4>1, <4>2, AgainOK
    <3> QED BY <3>1, IdleOK
  <2>2. Become(w, e) /\ UNCHANGED <<queue, variants, request, shared>>
    BY <1>15 DEF CountPending, rows
  <2> HIDE DEF e
  <2> QED BY <2>1, <2>2, StepsOn, WorkersAre DEF Busy
<1>16. ASSUME NEW w \in Workflows, Crash(w) PROVE VariantsInv'
  <2> DEFINE e == IF worker[w].attempt = MaxAttempts THEN Idle
                  ELSE Again(worker[w], "read", {}, worker[w].iteration, worker[w].attempt + 1)
  <2>1. e \in Worker /\ e.pc \in {"idle", "read"}
    <3>1. Again(worker[w], "read", {}, worker[w].iteration, worker[w].attempt + 1) \in Worker
          /\ Again(worker[w], "read", {}, worker[w].iteration, worker[w].attempt + 1).pc = "read"
      <4>1. worker[w] \in Worker BY WorkersAre
      <4>2. worker[w].iteration \in Nat /\ worker[w].attempt \in Nat BY <4>1 DEF Worker
      <4> QED BY <4>1, <4>2, AgainOK
    <3> QED BY <3>1, IdleOK
  <2>2. Become(w, e) /\ UNCHANGED <<queue, variants, request, shared>>
    BY <1>16 DEF Crash, rows
  <2> HIDE DEF e
  <2> QED BY <2>1, <2>2, StepsOn, WorkersAre DEF Busy
<1>17. ASSUME NEW s \in Snapshots, LockLapses(s) PROVE VariantsInv'
  BY <1>17, RowsOnly DEF LockLapses, VariantsInv, Shape
<1> QED
  BY <1>1, <1>2, <1>3, <1>4, <1>5, <1>6, <1>7, <1>8, <1>9, <1>10, <1>11, <1>12, <1>13, <1>14, <1>15,
     <1>16, <1>17 DEF Next, RequestStep, WorkerStep, Snapshots

(* The one step that takes a text away writes what it has read of the      *)
(* snapshot, and that is all there is unless two were at it.               *)
LEMMA TextsAreKept ==
  ASSUME NarrativeAssumption, VariantsInv, [Next]_vars
  PROVE  \A s \in Snapshots : variants[s] \subseteq variants'[s] \/ s \in shared
<1>1. CASE variants' = variants BY <1>1
<1>2. CASE GenerateSummaries BY <1>2 DEF GenerateSummaries
<1>3. ASSUME NEW w \in Workflows, StoreNarrative(w)
      PROVE  \A s \in Snapshots : variants[s] \subseteq variants'[s] \/ s \in shared
  BY <1>3, WorkersAre DEF StoreNarrative, VariantsInv, Shape, ReadIsCurrent, Busy
<1> QED
  BY <1>1, <1>2, <1>3
  DEF Next, vars, rows, Enqueue, RequestStep, StartWorkflow, Commit, RollBack, RequestRefresh, WorkerStep,
      ReadCandidates, LockCandidates, LoadSnapshot, ReuseNarrative, MarkRefreshSuccess,
      MarkRefreshFailure, CountPending, GenerateFails, Crash, LockLapses

(* A text once written for a persona stays, unless two workflows were      *)
(* writing texts of the snapshot at once (generateNarrative).              *)
THEOREM VariantsSurvive == Spec => VariantsAreKept
<1>1. Spec => []VariantsInv
  BY InitVariants, VariantsStep, NarrativeAssumption, PTL DEF Spec
<1>2. VariantsInv /\ [Next]_vars =>
        [\A s \in Snapshots : variants[s] \subseteq variants'[s] \/ s \in shared]_vars
  BY TextsAreKept, NarrativeAssumption
<1> QED BY <1>1, <1>2, PTL DEF Spec, VariantsAreKept
=============================================================================
