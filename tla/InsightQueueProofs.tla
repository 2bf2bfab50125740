------------------------- MODULE InsightQueueProofs -------------------------
(***************************************************************************)
(* Proofs about InsightQueue, for any number of issues, refresh workflows  *)
(* and queries, every batch size and every choice of the bounds.           *)
(***************************************************************************)
EXTENDS InsightQueue, SequenceTheorems, TLAPS

USE DEF Readers

(* What the hash rests on: a reader whose row nobody has written since it  *)
(* read it holds the row's content.                                        *)
ReaderIsCurrent ==
  \A r \in unchanged : reader[r].pc = "store" /\ reader[r].loaded = version[reader[r].issue]
StoresAnIssue ==
  \A r \in Readers : reader[r].pc \in {"store", "mark"} => reader[r].issue \in Issues

CacheInv == TypeOK /\ StoresAnIssue /\ ReaderIsCurrent /\ HashHitIsCurrent

LEMMA IdleOK == Idle \in Reader /\ Idle.pc = "idle"
BY DEF Idle, Starting, Reader

LEMMA StartingOK ==
  ASSUME NEW pc \in {"idle", "read", "lock", "load", "count"}, NEW batch \in SUBSET Issues,
         NEW iteration \in Nat, NEW attempt \in Nat
  PROVE  Starting(pc, batch, iteration, attempt) \in Reader
         /\ Starting(pc, batch, iteration, attempt).pc = pc
BY DEF Starting, Reader

LEMMA CacheInit == Init => CacheInv
<1> SUFFICES ASSUME Init PROVE CacheInv
  OBVIOUS
<1>1. TypeOK
  BY IdleOK DEF Init, TypeOK
<1>2. StoresAnIssue /\ ReaderIsCurrent /\ HashHitIsCurrent
  BY IdleOK DEF Init, StoresAnIssue, ReaderIsCurrent, HashHitIsCurrent
<1> QED BY <1>1, <1>2 DEF CacheInv

(* Removing an issue leaves a queue of issues.                             *)
LEMMA DequeueOK == ASSUME NEW i, queue \in Seq(Issues) PROVE Dequeue(i) \in Seq(Issues)
<1>1. CASE Queued(i)
  <2> DEFINE p == CHOOSE n \in 1..Len(queue) : queue[n] = i
  <2>1. p \in 1..Len(queue)
    BY <1>1 DEF Queued
  <2>2. SubSeq(queue, 1, p - 1) \in Seq(Issues) /\ SubSeq(queue, p + 1, Len(queue)) \in Seq(Issues)
    <3> HIDE DEF p
    <3>1. p - 1 \in Int /\ p + 1 \in Int /\ Len(queue) \in Int
      BY <2>1
    <3>2. /\ \A n \in 1..(p - 1) : queue[n] \in Issues
          /\ \A n \in (p + 1)..Len(queue) : queue[n] \in Issues
      BY <2>1, ElementOfSeq
    <3> QED BY <3>1, <3>2, SubSeqProperties
  <2>3. Dequeue(i) = SubSeq(queue, 1, p - 1) \o SubSeq(queue, p + 1, Len(queue))
    BY <1>1 DEF Dequeue
  <2> QED BY <2>2, <2>3, ConcatProperties
<1>2. CASE ~Queued(i)
  BY <1>2 DEF Dequeue
<1> QED BY <1>1, <1>2

(* Steps that only move readers, none of them to a computation, and leave  *)
(* the rows and the insights alone.                                        *)
LEMMA MoveKeeps ==
  ASSUME CacheInv, NEW r \in Readers, NEW e \in Reader, Become(r, e), r \notin unchanged',
         e.pc \in {"store", "mark"} => e.issue \in Issues,
         unchanged' \subseteq unchanged,
         jira' \in [Issues -> Nat], upsets' \in Nat, UNCHANGED <<rows, pending, insight, hashed>>
  PROVE  CacheInv'
<1> USE DEF CacheInv, TypeOK, Become, rows
<1>1. reader' \in [Readers -> Reader] /\ \A q \in Readers : reader'[q] = IF q = r THEN e ELSE reader[q]
  OBVIOUS
<1>2. TypeOK'
  BY <1>1
<1>3. StoresAnIssue'
  BY <1>1 DEF StoresAnIssue
<1>4. ReaderIsCurrent'
  BY <1>1 DEF ReaderIsCurrent
<1> QED BY <1>2, <1>3, <1>4 DEF HashHitIsCurrent

(* Steps that write the rows of S, whatever other readers are in the       *)
(* middle of: their rows count as written and their hash as out of date.   *)
LEMMA TouchKeeps ==
  ASSUME CacheInv, NEW S \in SUBSET Issues, Touch(S),
         version' \in [Issues -> Nat], \A i \in Issues \ S : version'[i] = version[i],
         insight' = insight,
         reader' \in [Readers -> Reader],
         \A q \in Readers : \/ reader'[q] = reader[q]
                            \/ /\ reader[q].pc # "store"
                               /\ reader'[q].pc # "mark",
         \A q \in Readers : reader'[q].pc = "store" => reader'[q].issue \in Issues,
         jira' \in [Issues -> Nat], queue' \in Seq(Issues), newer' \subseteq Issues,
         lock' \in [Issues -> {"free", "held", "lapsed"}], pending' \subseteq Issues,
         upsets' \in Nat
  PROVE  CacheInv'
<1> USE DEF CacheInv, TypeOK, Touch
<1>1. TypeOK'
  OBVIOUS
<1>2. StoresAnIssue'
  BY DEF StoresAnIssue
<1>3. ReaderIsCurrent'
  <2> SUFFICES ASSUME NEW r \in unchanged'
               PROVE  reader'[r].pc = "store" /\ reader'[r].loaded = version'[reader'[r].issue]
    BY DEF ReaderIsCurrent
  <2>1. r \in unchanged /\ \A i \in S : ~Works(r, i)
    OBVIOUS
  <2>2. reader[r].pc = "store" /\ reader[r].loaded = version[reader[r].issue] /\ reader[r].issue \in Issues
    BY <2>1 DEF ReaderIsCurrent, StoresAnIssue
  <2>3. reader[r].issue \notin S /\ reader'[r] = reader[r]
    BY <2>1, <2>2 DEF Works
  <2> QED BY <2>2, <2>3
<1>4. HashHitIsCurrent'
  BY DEF HashHitIsCurrent
<1> QED BY <1>1, <1>2, <1>3, <1>4

LEMMA SyncKeeps ==
  ASSUME CacheInv, NEW i \in Issues, JiraActivity(i) \/ SyncStep(i) \/ LockLapses(i)
  PROVE  CacheInv'
<1> USE DEF CacheInv, TypeOK, Upset
<1>1. CASE UpsertIssue(i)
  <2>1. /\ version' \in [Issues -> Nat] /\ \A j \in Issues \ {i} : version'[j] = version[j]
        /\ pending' \subseteq Issues /\ upsets' \in Nat
    BY <1>1 DEF UpsertIssue
  <2>2. Touch({i}) /\ UNCHANGED <<jira, newer, queue, lock, insight, reader>>
    BY <1>1 DEF UpsertIssue
  <2> QED BY <2>1, <2>2, TouchKeeps, {i} \in SUBSET Issues DEF StoresAnIssue
<1>2. CASE EnqueueInsightRefresh(i)
  <2>1. Append(Dequeue(i), i) \in Seq(Issues)
    BY DequeueOK, AppendProperties
  <2>2. /\ Touch({i}) /\ queue' \in Seq(Issues) /\ pending' \subseteq Issues
        /\ lock' \in [Issues -> {"free", "held", "lapsed"}]
        /\ UNCHANGED <<jira, newer, version, insight, reader, upsets>>
    BY <1>2, <2>1 DEF EnqueueInsightRefresh
  <2> QED BY <2>2, TouchKeeps, {i} \in SUBSET Issues DEF StoresAnIssue
<1>3. CASE JiraActivity(i) \/ SyncFails(i) \/ LockLapses(i)
  <2>1. TypeOK'
    <3>1. CASE JiraActivity(i)
      <4>1. jira' \in [Issues -> Nat]
        BY <3>1 DEF JiraActivity
      <4>2. newer' \subseteq Issues
        BY <3>1 DEF JiraActivity
      <4> QED BY <3>1, <4>1, <4>2 DEF JiraActivity
    <3>2. CASE SyncFails(i)
      BY <3>2 DEF SyncFails, rows
    <3>3. CASE LockLapses(i)
      BY <3>3 DEF LockLapses
    <3> QED BY <1>3, <3>1, <3>2, <3>3
  <2>2. UNCHANGED <<version, insight, hashed, reader, unchanged>>
    BY <1>3 DEF JiraActivity, SyncFails, LockLapses, rows
  <2> QED BY <2>1, <2>2 DEF StoresAnIssue, ReaderIsCurrent, HashHitIsCurrent
<1> QED BY <1>1, <1>2, <1>3 DEF SyncStep

(* A reader that has computed, or found a stored insight.                  *)
LEMMA HaveOK ==
  ASSUME TypeOK, NEW r \in Readers, NEW e \in Reader, e.issue \in Issues, Have(r, e)
  PROVE  \E f \in Reader : /\ Become(r, f) /\ f.pc \in {"mark", "idle"}
                           /\ f.pc = "mark" => f.issue \in Issues
<1>1. CASE r \in Workers
  <2> DEFINE f == [e EXCEPT !.pc = "mark"]
  <2>1. f \in Reader /\ f.pc = "mark" /\ f.issue = e.issue
    BY DEF Reader
  <2>2. Become(r, f)
    BY <1>1 DEF Have
  <2> QED BY <2>1, <2>2
<1>2. CASE r \notin Workers
  BY <1>2, IdleOK DEF Have
<1> QED BY <1>1, <1>2

LEMMA ReaderKeeps ==
  ASSUME CacheInv, NEW r \in Readers,
         \/ \E i \in Issues : LoadIssue(r, i)
         \/ ComputeInsights(r) \/ ComputeFails(r)
  PROVE  CacheInv'
<1> USE DEF CacheInv, TypeOK
<1>1. ASSUME NEW i \in Issues, LoadIssue(r, i) PROVE CacheInv'
  <2> DEFINE e == [reader[r] EXCEPT !.pc = "store", !.batch = @ \ {i}, !.issue = i,
                                    !.loaded = version[i]]
  <2>1. e \in Reader /\ e.pc = "store" /\ e.issue = i /\ e.loaded = version[i]
    BY DEF Reader
  <2>2. r \notin unchanged
    BY <1>1 DEF LoadIssue, ReaderIsCurrent
  <2>3. CASE Have(r, e) /\ UNCHANGED unchanged
    <3>1. Have(r, e) /\ UNCHANGED <<jira, rows, pending, insight, hashed, upsets, unchanged>>
      BY <1>1, <2>3 DEF LoadIssue
    <3> HIDE DEF e
    <3> QED BY <2>1, <2>2, <3>1, HaveOK, MoveKeeps
  <2>4. CASE Become(r, e) /\ unchanged' = unchanged \cup {r}
    <3>1. /\ Become(r, e) /\ unchanged' = unchanged \cup {r}
          /\ UNCHANGED <<jira, rows, pending, insight, hashed, upsets>>
      BY <1>1, <2>4 DEF LoadIssue
    <3> HIDE DEF e
    <3>2. reader' \in [Readers -> Reader]
          /\ \A q \in Readers : reader'[q] = IF q = r THEN e ELSE reader[q]
      BY <2>1, <3>1 DEF Become
    <3>3. TypeOK'
      BY <3>1, <3>2 DEF rows
    <3>4. StoresAnIssue' /\ HashHitIsCurrent'
      BY <2>1, <3>1, <3>2 DEF StoresAnIssue, HashHitIsCurrent, rows
    <3>5. ReaderIsCurrent'
      BY <2>1, <3>1, <3>2 DEF ReaderIsCurrent, rows
    <3> QED BY <3>3, <3>4, <3>5
  <2> QED BY <1>1, <2>3, <2>4 DEF LoadIssue
<1>2. CASE ComputeInsights(r)
  <2>1. reader[r].issue \in Issues /\ reader[r] \in Reader /\ reader[r].loaded \in Nat
    BY <1>2 DEF ComputeInsights, StoresAnIssue, Reader
  <2>2. PICK f \in Reader : /\ Become(r, f) /\ f.pc \in {"mark", "idle"}
                            /\ f.pc = "mark" => f.issue \in Issues
    BY <1>2, <2>1, HaveOK DEF ComputeInsights, HasComputed
  <2>3. reader' \in [Readers -> Reader]
        /\ \A q \in Readers : reader'[q] = IF q = r THEN f ELSE reader[q]
    BY <2>2 DEF Become
  <2>4. /\ insight' = [insight EXCEPT ![reader[r].issue] = reader[r].loaded]
        /\ hashed' = IF r \in unchanged THEN hashed \cup {reader[r].issue}
                                        ELSE hashed \ {reader[r].issue}
        /\ unchanged' = unchanged \ {r} /\ UNCHANGED <<jira, rows, pending, upsets>>
    BY <1>2 DEF ComputeInsights, HasComputed
  <2>5. TypeOK'
    BY <2>1, <2>3, <2>4 DEF rows
  <2>6. StoresAnIssue' /\ ReaderIsCurrent'
    BY <2>2, <2>3, <2>4 DEF StoresAnIssue, ReaderIsCurrent, rows
  <2>7. HashHitIsCurrent'
    <3>1. CASE r \in unchanged
      <4>1. reader[r].loaded = version[reader[r].issue]
        BY <3>1 DEF ReaderIsCurrent
      <4> QED BY <2>1, <2>4, <3>1, <4>1 DEF HashHitIsCurrent, rows
    <3>2. CASE r \notin unchanged
      BY <2>1, <2>4, <3>2 DEF HashHitIsCurrent, rows
    <3> QED BY <3>1, <3>2
  <2> QED BY <2>5, <2>6, <2>7
<1>3. CASE ComputeFails(r)
  <2>1. reader[r].issue \in Issues /\ reader[r] \in Reader
    BY <1>3 DEF ComputeFails, StoresAnIssue
  <2>2. PICK f \in Reader : /\ Become(r, f) /\ f.pc \in {"mark", "idle"}
                            /\ f.pc = "mark" => f.issue \in Issues
    BY <1>3, <2>1, HaveOK DEF ComputeFails, HasComputed
  <2> QED BY <1>3, <2>2, MoveKeeps DEF ComputeFails, HasComputed
<1> QED BY <1>1, <1>2, <1>3

(* The steps of the workflow that write the rows.                          *)
LEMMA MarkKeeps ==
  ASSUME CacheInv, NEW w \in Workers,
         LockCandidates(w) \/ MarkRefreshSuccess(w) \/ MarkRefreshFailure(w)
  PROVE  CacheInv'
<1> USE DEF CacheInv, TypeOK, Upset
<1>0. reader[w] \in Reader
  OBVIOUS
<1>1. CASE LockCandidates(w)
  <2> DEFINE e == [reader[w] EXCEPT !.pc = "load"]
  <2>1. e \in Reader /\ e.pc = "load" /\ reader[w].batch \in SUBSET Issues
    BY <1>0 DEF Reader
  <2>2. reader' = [reader EXCEPT ![w] = e] /\ reader[w].pc = "lock"
    BY <1>1 DEF LockCandidates, Become
  <2> HIDE DEF e
  <2>3. reader' \in [Readers -> Reader]
        /\ \A q \in Readers : reader'[q] = IF q = w THEN e ELSE reader[q]
    BY <2>1, <2>2
  <2>4. /\ Touch(reader[w].batch) /\ lock' \in [Issues -> {"free", "held", "lapsed"}]
        /\ UNCHANGED <<jira, version, queue, newer, pending, insight, upsets>>
    BY <1>1 DEF LockCandidates
  <2>5. /\ \A q \in Readers : \/ reader'[q] = reader[q]
                              \/ reader[q].pc # "store" /\ reader'[q].pc # "mark"
        /\ \A q \in Readers : reader'[q].pc = "store" => reader'[q].issue \in Issues
    BY <2>1, <2>2, <2>3 DEF StoresAnIssue
  <2> QED BY <2>1, <2>3, <2>4, <2>5, TouchKeeps
<1>2. ASSUME NEW ok \in {0, 1}, Advance(w, ok), reader[w].pc = "mark"
      PROVE  /\ reader' \in [Readers -> Reader]
             /\ \A q \in Readers : \/ reader'[q] = reader[q]
                                   \/ reader[q].pc # "store" /\ reader'[q].pc # "mark"
             /\ \A q \in Readers : reader'[q].pc = "store" => reader'[q].issue \in Issues
  <2>0. reader[w].processed \in Nat /\ reader[w].processed + ok \in Nat
    BY <1>0 DEF Reader
  <2> DEFINE c == [reader[w] EXCEPT !.processed = @ + ok, !.pc = "count"]
  <2> DEFINE l == [reader[w] EXCEPT !.processed = @ + ok, !.pc = "load"]
  <2>1. c \in Reader /\ l \in Reader /\ c.pc = "count" /\ l.pc = "load"
    BY <1>0, <2>0 DEF Reader
  <2>2. PICK e \in Reader : Become(w, e) /\ e.pc \in {"count", "load"}
    <3>1. CASE reader[w].batch = {}
      BY <1>2, <2>1, <3>1 DEF Advance
    <3>2. CASE reader[w].batch # {}
      BY <1>2, <2>1, <3>2 DEF Advance
    <3> QED BY <3>1, <3>2
  <2>3. reader' \in [Readers -> Reader]
        /\ \A q \in Readers : reader'[q] = IF q = w THEN e ELSE reader[q]
    BY <2>2 DEF Become
  <2> QED BY <1>2, <2>2, <2>3 DEF StoresAnIssue
<1>3. CASE MarkRefreshSuccess(w)
  <2> DEFINE i == reader[w].issue
  <2>1. i \in Issues /\ Dequeue(i) \in Seq(Issues)
    BY <1>3, DequeueOK DEF MarkRefreshSuccess, StoresAnIssue
  <2>2. /\ Touch({i}) /\ queue' \in Seq(Issues) /\ newer' \subseteq Issues
        /\ lock' \in [Issues -> {"free", "held", "lapsed"}] /\ {i} \in SUBSET Issues
        /\ UNCHANGED <<jira, version, pending, insight, upsets>>
    BY <1>3, <2>1 DEF MarkRefreshSuccess
  <2>3. Advance(w, 1) /\ reader[w].pc = "mark"
    BY <1>3 DEF MarkRefreshSuccess
  <2> QED BY <1>2, <2>2, <2>3, TouchKeeps
<1>4. CASE MarkRefreshFailure(w)
  <2> DEFINE i == reader[w].issue
  <2>1. i \in Issues
    BY <1>4 DEF MarkRefreshFailure, StoresAnIssue
  <2>2. /\ Touch({i}) /\ upsets' \in Nat
        /\ lock' \in [Issues -> {"free", "held", "lapsed"}] /\ {i} \in SUBSET Issues
        /\ UNCHANGED <<jira, version, queue, newer, pending, insight>>
    BY <1>4, <2>1 DEF MarkRefreshFailure
  <2>3. Advance(w, 0) /\ reader[w].pc = "mark"
    BY <1>4 DEF MarkRefreshFailure
  <2> QED BY <1>2, <2>2, <2>3, TouchKeeps
<1> QED BY <1>1, <1>3, <1>4

(* What is claimed are issues of the queue.                                *)
LEMMA CandidatesOK == ASSUME queue \in Seq(Issues) PROVE Candidates \in SUBSET Issues
<1> DEFINE free == {n \in 1..Len(queue) : Claimable(queue[n])}
           first == {m \in free : Cardinality({k \in free : k < m}) < Limit}
<1>1. \A n \in 1..Len(queue) : queue[n] \in Issues
  BY ElementOfSeq
<1>2. first \subseteq 1..Len(queue)
  OBVIOUS
<1>3. Candidates = {queue[n] : n \in first}
  BY DEF Candidates
<1> HIDE DEF first
<1> QED BY <1>1, <1>2, <1>3

(* The steps of the workflow and of the queries that only move a reader.   *)
LEMMA ControlKeeps ==
  ASSUME CacheInv, NEW r \in Readers,
         \/ RequestInsightRefresh(r) \/ ReadCandidates(r) \/ CountPending(r) \/ Crash(r)
         \/ \E i \in Issues : IssueInsights(r, i)
  PROVE  CacheInv'
<1> USE DEF CacheInv, TypeOK
<1>0. /\ reader[r] \in Reader /\ reader[r].iteration \in Nat /\ reader[r].attempt \in Nat
      /\ 0 \in Nat /\ 1 \in Nat /\ {} \in SUBSET Issues
      /\ reader[r].iteration + 1 \in Nat /\ reader[r].attempt + 1 \in Nat
  BY DEF Reader
<1>1. \E e \in Reader : Become(r, e) /\ e.pc \in {"idle", "read", "lock", "load"}
  <2>1. CASE RequestInsightRefresh(r)
    <3>1. Starting("read", {}, 1, 1) \in Reader /\ Starting("read", {}, 1, 1).pc = "read"
      BY <1>0, StartingOK
    <3> QED BY <2>1, <3>1 DEF RequestInsightRefresh
  <2>2. CASE ReadCandidates(r)
    <3>1. Candidates \in SUBSET Issues
      BY CandidatesOK
    <3> DEFINE e == Starting("lock", Candidates, reader[r].iteration, reader[r].attempt)
    <3>2. e \in Reader /\ e.pc = "lock"
      BY <1>0, <3>1, StartingOK
    <3>3. Become(r, Idle) \/ Become(r, e)
      BY <2>2 DEF ReadCandidates
    <3> HIDE DEF e
    <3> QED BY <3>2, <3>3, IdleOK
  <2>3. CASE CountPending(r)
    <3> DEFINE e == Starting("read", {}, reader[r].iteration + 1, 1)
    <3>1. e \in Reader /\ e.pc = "read"
      BY <1>0, StartingOK
    <3>2. Become(r, Idle) \/ Become(r, e)
      BY <2>3 DEF CountPending
    <3> HIDE DEF e
    <3> QED BY <3>1, <3>2, IdleOK
  <2>4. CASE Crash(r)
    <3> DEFINE e == Starting("read", {}, reader[r].iteration, reader[r].attempt + 1)
    <3>1. e \in Reader /\ e.pc = "read"
      BY <1>0, StartingOK
    <3>2. Become(r, Idle) \/ Become(r, e)
      BY <2>4 DEF Crash
    <3> HIDE DEF e
    <3> QED BY <3>1, <3>2, IdleOK
  <2>5. ASSUME NEW i \in Issues, IssueInsights(r, i)
        PROVE  \E e \in Reader : Become(r, e) /\ e.pc \in {"idle", "read", "lock", "load"}
    <3>1. Starting("load", {i}, 0, 0) \in Reader /\ Starting("load", {i}, 0, 0).pc = "load"
      BY <1>0, StartingOK
    <3> QED BY <2>5, <3>1 DEF IssueInsights
  <2> QED BY <2>1, <2>2, <2>3, <2>4, <2>5
<1>2. r \notin unchanged' /\ unchanged' \subseteq unchanged
  <2>1. CASE Crash(r)
    BY <2>1 DEF Crash
  <2>2. CASE ~Crash(r)
    <3>1. reader[r].pc # "store" /\ unchanged' = unchanged
      BY <2>2 DEF RequestInsightRefresh, ReadCandidates, CountPending, IssueInsights
    <3> QED BY <3>1 DEF ReaderIsCurrent
  <2> QED BY <2>1, <2>2
<1>3. UNCHANGED <<jira, rows, pending, insight, hashed>> /\ upsets' \in Nat
  <2>1. CASE Crash(r)
    BY <2>1 DEF Crash, Upset
  <2>2. CASE ~Crash(r)
    BY <2>2 DEF RequestInsightRefresh, ReadCandidates, CountPending, IssueInsights
  <2> QED BY <2>1, <2>2
<1> QED BY <1>1, <1>2, <1>3, MoveKeeps

LEMMA CacheStep == CacheInv /\ [Next]_vars => CacheInv'
<1> SUFFICES ASSUME CacheInv, [Next]_vars PROVE CacheInv'
  OBVIOUS
<1>1. ASSUME NEW i \in Issues, JiraActivity(i) \/ SyncStep(i) \/ LockLapses(i) PROVE CacheInv'
  BY <1>1, SyncKeeps
<1>2. ASSUME NEW w \in Workers, RequestInsightRefresh(w) \/ WorkerStep(w) \/ Crash(w)
      PROVE  CacheInv'
  BY <1>2, MarkKeeps, ReaderKeeps, ControlKeeps DEF WorkerStep
<1>3. ASSUME NEW v \in Viewers, ViewerStep(v) \/ \E i \in Issues : IssueInsights(v, i)
      PROVE  CacheInv'
  BY <1>3, ReaderKeeps, ControlKeeps DEF ViewerStep
<1>4. CASE UNCHANGED vars
  BY <1>4 DEF vars, rows, CacheInv, TypeOK, StoresAnIssue, ReaderIsCurrent, HashHitIsCurrent
<1> QED BY <1>1, <1>2, <1>3, <1>4 DEF Next
-----------------------------------------------------------------------------
(* The rows, the queue and the readers keep their shape.                   *)
THEOREM QueueTypeCorrect == Spec => []TypeOK
<1>1. CacheInv => TypeOK
  BY DEF CacheInv
<1> QED BY <1>1, CacheInit, CacheStep, PTL DEF Spec

(* A hash hit is never stale: whatever number of workflows, queries and    *)
(* syncs overlap on an issue, an insight that passes for current was made  *)
(* of the row's content (getIssueInsights, computeInsights).               *)
THEOREM HashHitsAreCurrent == Spec => []HashHitIsCurrent
<1>1. CacheInv => HashHitIsCurrent
  BY DEF CacheInv
<1> QED BY <1>1, CacheInit, CacheStep, PTL DEF Spec
=============================================================================
