-------------------------- MODULE SyncCadenceProofs --------------------------
(***************************************************************************)
(* Proofs about SyncCadence, for any number of overlapping runs and of     *)
(* administrators, any ladder and every choice of faults.                  *)
(***************************************************************************)
EXTENDS SyncCadence, SequenceTheorems, WellFoundedInduction, TLAPS

USE DEF Actors

-----------------------------------------------------------------------------
(* The ladder.                                                             *)

(* A failure always leads to a rung above the original cadence             *)
(* (recordSyncFailure: nextLevel).                                         *)
LEMMA NextRungIsRung ==
  ASSUME NEW original \in Nat, NEW level \in Nat
  PROVE  /\ NextRung(original, level) \in Nat
         /\ NextRung(original, level) > 0
         /\ NextRung(original, level) <= TopRung(original)
BY StepsAssumption DEF NextRung, TopRung

LEMMA LadderOfNothing == TopRung(NoCron) \in Nat
BY StepsAssumption DEF TopRung

(* Every level of a ladder has a cadence (cronSequence[nextLevel]).        *)
LEMMA RungIsCron ==
  ASSUME NEW original \in Cron, NEW level \in Nat, level <= TopRung(original)
  PROVE  Rung(original, level) \in Cron
<1> DEFINE n == Len(Steps)
<1>0. n \in Nat /\ Steps \in [1..n -> Nat \ {0}]
  BY StepsAssumption
<1>1. CASE level = 0
  BY <1>1 DEF Rung
<1>2. CASE level # 0 /\ SkipsUpTo(original, level)
  <2>1. SkipsUpTo(original, n)
    BY <1>0, <1>2 DEF SkipsUpTo
  <2>2. level + 1 \in 1..n
    BY <1>0, <2>1 DEF TopRung
  <2> QED BY <1>0, <1>2, <2>2 DEF Rung, Cron, NoCron
<1>3. CASE level # 0 /\ ~SkipsUpTo(original, level)
  <2>1. level \in 1..n
    BY <1>0, <1>3 DEF TopRung
  <2> QED BY <1>0, <1>3, <2>1 DEF Rung, Cron, NoCron
<1> QED BY <1>1, <1>2, <1>3

(* How many cadences the sequence has once it has seen k steps.            *)
SeenUpTo(original, k) == IF SkipsUpTo(original, k) THEN k ELSE k + 1

(* The cadences up to step k, as the rungs tell them.                      *)
RungsUpTo(original, k) == [i \in 1..SeenUpTo(original, k) |-> Rung(original, i - 1)]

(* What the loop of buildBackoffCronSequence makes of a sequence.          *)
Pushed(s, candidate) == IF \E i \in DOMAIN s : s[i] = candidate THEN s ELSE Append(s, candidate)

(* A candidate that is not in the sequence is pushed on it.                 *)
LEMMA PushedNew ==
  ASSUME NEW s, NEW c, ~ \E i \in DOMAIN s : s[i] = c
  PROVE  Pushed(s, c) = Append(s, c)
BY DEF Pushed

(* Some natural numbers have a first one: what a loop does is shown by the  *)
(* first round in which it would not.                                      *)
LEMMA FirstOf ==
  ASSUME NEW S \in SUBSET Nat, S # {}
  PROVE  \E k \in S : \A j \in S : ~(j < k)
<1>1. PICK k \in S : \A j \in S : <<j, k>> \notin OpToRel(<, Nat)
  BY NatLessThanWellFounded, WFMin
<1>2. QED
  BY <1>1 DEF OpToRel

(* A sequence of length m and one element more.                            *)
Longer(s, m, c) == [i \in 1..(m + 1) |-> IF i = m + 1 THEN c ELSE s[i]]

(* Append makes it.                                                        *)
LEMMA AppendIs ==
  ASSUME NEW S, NEW m \in Nat, NEW s \in [1..m -> S], NEW c \in S
  PROVE  Append(s, c) = Longer(s, m, c)
<1>1. s \in Seq(S)
  BY SeqDef
<1>2. Len(s) = m
  BY <1>1, LenProperties
<1>3. /\ Append(s, c) \in Seq(S) /\ Len(Append(s, c)) = m + 1
      /\ \A i \in 1..m : Append(s, c)[i] = s[i]
      /\ Append(s, c)[m + 1] = c
  BY <1>1, <1>2, AppendProperties
<1>4. Append(s, c) \in [1..(m + 1) -> S]
  BY <1>3, LenProperties
<1>5. \A i \in 1..(m + 1) : Append(s, c)[i] = IF i = m + 1 THEN c ELSE s[i]
  BY <1>3
<1>6. PICK q : q = Append(s, c)
  OBVIOUS
<1>7. QED
  BY <1>4, <1>5, <1>6 DEF Longer

(* A round of the loop takes the rungs up to the step before to those up   *)
(* to the step: it skips the original cadence, and no other.               *)
LEMMA RungsArePushed ==
  ASSUME NEW original \in Cron, NEW k \in 1..Len(Steps)
  PROVE  RungsUpTo(original, k) = Pushed(RungsUpTo(original, k - 1), Steps[k])
<1> DEFINE n == Len(Steps)
           s == RungsUpTo(original, k - 1)
           t == RungsUpTo(original, k)
           m == SeenUpTo(original, k - 1)
<1>0. /\ n \in Nat /\ Steps \in [1..n -> Nat \ {0}] /\ original \in Nat /\ k \in 1..n
      /\ \A i, j \in 1..n : Steps[i] = Steps[j] => i = j
  BY StepsAssumption DEF Cron
<1>1. m \in Nat /\ s = [i \in 1..m |-> Rung(original, i - 1)]
  BY <1>0 DEF RungsUpTo, SeenUpTo
<1>2. Len(s) = m /\ DOMAIN s = 1..m
  BY <1>1
<1>3. CASE Steps[k] = original
  <2>1. ~SkipsUpTo(original, k - 1) /\ SkipsUpTo(original, k)
    BY <1>0, <1>3 DEF SkipsUpTo
  <2>2. SeenUpTo(original, k) = k /\ m = k
    BY <1>0, <2>1 DEF SeenUpTo
  <2>3. t = s
    BY <1>1, <2>2 DEF RungsUpTo
  <2>4. 1 \in DOMAIN s /\ s[1] = Steps[k]
    BY <1>0, <1>1, <1>2, <1>3, <2>2 DEF Rung
  <2>5. QED
    BY <2>3, <2>4 DEF Pushed
<1>4. CASE Steps[k] # original
  <2>1. SkipsUpTo(original, k) <=> SkipsUpTo(original, k - 1)
    BY <1>0, <1>4 DEF SkipsUpTo
  <2>2. SeenUpTo(original, k) = m + 1
    BY <1>0, <2>1 DEF SeenUpTo
  <2>3. \A i \in 1..m : s[i] # Steps[k]
    <3> SUFFICES ASSUME NEW i \in 1..m PROVE Rung(original, i - 1) # Steps[k]
      BY <1>1
    <3>1. CASE i = 1
      BY <1>4, <3>1 DEF Rung
    <3>2. CASE i # 1 /\ SkipsUpTo(original, i - 1)
      <4>1. SkipsUpTo(original, k - 1)
        <5>1. m <= k
          BY <1>0 DEF SeenUpTo
        <5>2. i - 1 <= k - 1
          BY <1>0, <1>1, <5>1
        <5>3. QED
          BY <1>0, <1>1, <3>2, <5>2 DEF SkipsUpTo
      <4>2. m = k - 1
        BY <4>1 DEF SeenUpTo
      <4>3. i \in 1..n /\ i # k
        BY <1>0, <4>2
      <4>4. Rung(original, i - 1) = Steps[i]
        BY <1>0, <1>1, <3>2 DEF Rung
      <4>5. QED
        BY <1>0, <4>3, <4>4
    <3>3. CASE i # 1 /\ ~SkipsUpTo(original, i - 1)
      <4>1. m <= k
        BY <1>0 DEF SeenUpTo
      <4>2. i - 1 \in 1..n /\ i - 1 # k
        BY <1>0, <1>1, <3>3, <4>1
      <4>3. Rung(original, i - 1) = Steps[i - 1]
        BY <1>0, <1>1, <3>3 DEF Rung
      <4>4. QED
        BY <1>0, <4>2, <4>3
    <3>4. QED
      BY <3>1, <3>2, <3>3
  <2>4. Pushed(s, Steps[k]) = Append(s, Steps[k])
    <3>1. PICK q : q = s
      OBVIOUS
    <3>2. ~ \E i \in DOMAIN q : q[i] = Steps[k]
      <4> HIDE DEF s, m
      <4>1. QED
        BY <1>2, <2>3, <3>1
    <3>3. Pushed(q, Steps[k]) = Append(q, Steps[k])
      BY <3>2, PushedNew
    <3>4. QED
      BY <3>1, <3>3
  <2>5. Append(s, Steps[k]) = Longer(s, m, Steps[k])
    <3> DEFINE S == {s[i] : i \in 1..m} \cup {Steps[k]}
    <3>1. s \in [1..m -> S] /\ Steps[k] \in S
      BY <1>1
    <3>a. m \in Nat
      BY <1>1
    <3> HIDE DEF S, s, m
    <3>2. QED
      BY <3>1, <3>a, AppendIs
  <2>6. Rung(original, m) = Steps[k]
    <3>1. CASE SkipsUpTo(original, k - 1)
      <4>1. m = k - 1 /\ m # 0
        BY <1>0, <3>1 DEF SeenUpTo, SkipsUpTo
      <4>2. QED
        BY <1>0, <3>1, <4>1 DEF Rung
    <3>2. CASE ~SkipsUpTo(original, k - 1)
      <4>1. m = k /\ m # 0 /\ ~SkipsUpTo(original, k)
        BY <1>0, <2>1, <3>2 DEF SeenUpTo
      <4>2. QED
        BY <1>0, <4>1 DEF Rung
    <3>3. QED
      BY <3>1, <3>2
  <2>7. t = [i \in 1..(m + 1) |-> Rung(original, i - 1)]
    BY <2>2 DEF RungsUpTo
  <2>8. \A i \in 1..(m + 1) : Rung(original, i - 1) = IF i = m + 1 THEN Steps[k] ELSE s[i]
    <3> SUFFICES ASSUME NEW i \in 1..(m + 1)
                 PROVE  Rung(original, i - 1) = IF i = m + 1 THEN Steps[k] ELSE s[i]
      OBVIOUS
    <3>1. CASE i = m + 1
      <4>1. i - 1 = m
        BY <1>1, <3>1
      <4>2. QED
        BY <2>6, <3>1, <4>1
    <3>2. CASE i # m + 1
      <4>1. i \in 1..m
        BY <1>1, <3>2
      <4>2. QED
        BY <1>1, <3>2, <4>1
    <3>3. QED
      BY <3>1, <3>2
  <2>9. QED
    BY <2>4, <2>5, <2>7, <2>8 DEF Longer
<1>5. QED
  BY <1>3, <1>4

(* The loop makes the sequence whose entries are the rungs.                *)
LEMMA CronSequenceIs ==
  ASSUME NEW original \in Cron
  PROVE  CronSequence(original) = [i \in 1..(TopRung(original) + 1) |-> Rung(original, i - 1)]
<1> DEFINE n == Len(Steps)
           Fits(f) == f = [k \in 0..n |-> IF k = 0 THEN <<original>> ELSE Pushed(f[k - 1], Steps[k])]
           G == [k \in 0..n |-> RungsUpTo(original, k)]
           F == CHOOSE f : Fits(f)
<1>0. n \in Nat
  BY StepsAssumption
<1>1. RungsUpTo(original, 0) = <<original>>
  <2>1. SeenUpTo(original, 0) = 1
    BY DEF SeenUpTo, SkipsUpTo
  <2>2. RungsUpTo(original, 0) = [i \in 1..1 |-> Rung(original, i - 1)]
    BY <2>1 DEF RungsUpTo
  <2>3. \A i \in 1..1 : Rung(original, i - 1) = original
    BY DEF Rung
  <2>4. QED
    BY <2>2, <2>3
<1>2. Fits(G)
  <2>1. \A k \in 0..n : RungsUpTo(original, k) = IF k = 0 THEN <<original>> ELSE Pushed(G[k - 1], Steps[k])
    <3> SUFFICES ASSUME NEW k \in 0..n
                 PROVE  RungsUpTo(original, k) = IF k = 0 THEN <<original>> ELSE Pushed(G[k - 1], Steps[k])
      OBVIOUS
    <3>1. CASE k = 0
      BY <1>1, <3>1
    <3>2. CASE k # 0
      <4>1. k \in 1..n /\ k - 1 \in 0..n
        BY <1>0, <3>2
      <4>2. RungsUpTo(original, k) = Pushed(RungsUpTo(original, k - 1), Steps[k])
        BY <4>1, RungsArePushed
      <4>3. QED
        BY <3>2, <4>1, <4>2
    <3>3. QED
      BY <3>1, <3>2
  <2>2. QED
    BY <2>1
<1>3. Fits(F)
  <2> HIDE DEF Fits, G
  <2>1. QED
    BY <1>2
<1>4. F[n] = G[n]
  <2> HIDE DEF F, G
  <2> DEFINE D == {k \in 0..n : F[k] # G[k]}
  <2>1. SUFFICES ASSUME F[n] # G[n] PROVE FALSE
    OBVIOUS
  <2>a. D \subseteq Nat /\ n \in D
    BY <1>0, <2>1
  <2> HIDE DEF D
  <2>2. PICK k \in D : \A j \in D : ~(j < k)
    BY <2>a, FirstOf
  <2>3. k \in 0..n /\ F[k] # G[k] /\ \A j \in 0..n : j < k => F[j] = G[j]
    BY <1>0, <2>2 DEF D
  <2>4. k # 0
    BY <1>0, <1>2, <1>3, <2>3
  <2>5. k - 1 \in 0..n /\ k - 1 < k
    BY <1>0, <2>3, <2>4
  <2>6. F[k - 1] = G[k - 1]
    BY <2>3, <2>5
  <2>7. F[k] = Pushed(F[k - 1], Steps[k]) /\ G[k] = Pushed(G[k - 1], Steps[k])
    BY <1>2, <1>3, <2>3, <2>4
  <2>8. QED
    BY <2>3, <2>6, <2>7
<1>5. CronSequence(original) = F[n]
  BY DEF CronSequence, Pushed
<1>6. G[n] = RungsUpTo(original, n)
  BY <1>0
<1>7. SeenUpTo(original, n) = TopRung(original) + 1
  BY <1>0 DEF SeenUpTo, TopRung
<1>8. QED
  BY <1>4, <1>5, <1>6, <1>7 DEF RungsUpTo
-----------------------------------------------------------------------------
(* What the invariants need to know of the control state:                  *)
(*  - a failure's transaction carries a rung of the ladder of the cadence  *)
(*    it read;                                                             *)
(*  - a run that is past prepareProjectSync has a job, and so has every    *)
(*    transaction but that of a registration.                              *)
TxCarriesRung ==
  \A x \in Actors : tx[x].op = "failure" =>
    /\ tx[x].level > 0 /\ tx[x].level <= TopRung(tx[x].orig)
    /\ tx[x].orig \in Cron
RunHasJob == \A r \in Runs : run[r].pc \notin {"idle", "prepare"} => JobExists
TxHasJob == \A x \in Actors : tx[x].op \notin {"none", "register"} => JobExists

LadderInv == TypeOK /\ TxCarriesRung /\ RunHasJob /\ TxHasJob /\ BackoffBookkeeping

LEMMA LadderInit == Init \/ Registered => LadderInv
<1> SUFFICES ASSUME Init \/ Registered PROVE LadderInv
  OBVIOUS
<1> USE CadenceAssumption DEF Init, Registered, NothingOpen
<1>1. TypeOK
  <2>1. job \in JobRow
    BY DEF NoJob, NewJob, JobRow, Cron, NoCron
  <2>2. schedule \in Schedule
    BY DEF NoSchedule, NewSchedule, Schedule, Cron, NoCron
  <2>3. run \in [Runs -> Execution]
    BY DEF Closed, Execution
  <2>4. tx \in [Actors -> Transaction]
    BY DEF NoTx, Tx, Transaction, NoCron
  <2>5. jira \in [status : {"up", "down"}, outages : Nat]
    OBVIOUS
  <2> QED BY <2>1, <2>2, <2>3, <2>4, <2>5 DEF TypeOK, Cron
<1>2. TxCarriesRung /\ RunHasJob /\ TxHasJob
  BY DEF TxCarriesRung, RunHasJob, TxHasJob, NoTx, Tx, Closed
<1>3. BackoffBookkeeping
  <2>1. job.level = 0 /\ job.orig = NoCron
    BY DEF NoJob, NewJob
  <2> QED BY <2>1, LadderOfNothing DEF BackoffBookkeeping
<1> QED BY <1>1, <1>2, <1>3 DEF LadderInv

(* The shape of the steps: what is left to show of a step that only moves  *)
(* runs, opens a transaction, or changes the job's status.                 *)
LEMMA LadderFrame ==
  ASSUME LadderInv,
         \E s \in {"ACTIVE", "PAUSED", "ERROR"} : job' \in {job, [job EXCEPT !.status = s]},
         states' \in {"IDLE", "RUNNING", "SUCCESS", "FAILED"},
         schedule' \in Schedule,
         run' \in [Runs -> Execution],
         \A r \in Runs : run'[r].pc \notin {"idle", "prepare"} => JobExists,
         tx' \in [Actors -> Transaction],
         TxCarriesRung',
         \A x \in Actors : tx'[x].op \notin {"none", "register"} => JobExists,
         lock' \in Actors \cup {None},
         jira' \in [status : {"up", "down"}, outages : Nat],
         chosen' \subseteq Nat, contested' \subseteq Actors, drift' \in BOOLEAN
  PROVE  LadderInv'
<1>1. /\ job' \in JobRow /\ job'.level = job.level /\ job'.orig = job.orig
      /\ job'.cron = job.cron
  BY DEF LadderInv, TypeOK, JobRow
<1>2. TypeOK'
  BY <1>1 DEF TypeOK
<1>3. RunHasJob' /\ TxHasJob' /\ BackoffBookkeeping'
  BY <1>1 DEF LadderInv, RunHasJob, TxHasJob, BackoffBookkeeping, JobExists
<1> QED BY <1>2, <1>3 DEF LadderInv

(* A transaction that opens or moves on without a failure's data changing. *)
LEMMA TxFrame ==
  ASSUME LadderInv, NEW x \in Actors, NEW t \in Transaction, Begin(x, t),
         t.op = "failure" => /\ t.level > 0 /\ t.level <= TopRung(t.orig) /\ t.orig \in Cron,
         t.op \notin {"none", "register"} => JobExists
  PROVE  /\ tx' \in [Actors -> Transaction] /\ TxCarriesRung'
         /\ \A y \in Actors : tx'[y].op \notin {"none", "register"} => JobExists
<1> USE DEF LadderInv, TypeOK, Begin
<1>1. tx' \in [Actors -> Transaction]
  OBVIOUS
<1>2. \A y \in Actors : tx'[y] = IF y = x THEN t ELSE tx[y]
  OBVIOUS
<1> QED BY <1>1, <1>2 DEF TxCarriesRung, TxHasJob

LEMMA NoTxOK == NoTx \in Transaction /\ NoTx.op = "none"
BY DEF NoTx, Tx, Transaction, NoCron

LEMMA EndsOK ==
  ASSUME LadderInv, NEW x \in Actors, Ends(x)
  PROVE  /\ tx' \in [Actors -> Transaction] /\ TxCarriesRung'
         /\ \A y \in Actors : tx'[y].op \notin {"none", "register"} => JobExists
         /\ lock' \in Actors \cup {None} /\ contested' \subseteq Actors
<1>1. Begin(x, NoTx)
  BY DEF Ends, Begin
<1>2. /\ tx' \in [Actors -> Transaction] /\ TxCarriesRung'
      /\ \A y \in Actors : tx'[y].op \notin {"none", "register"} => JobExists
  BY <1>1, TxFrame, NoTxOK
<1> QED BY <1>2 DEF Ends, LadderInv, TypeOK
-----------------------------------------------------------------------------
(* Every step keeps the invariant, action by action.                       *)

LEMMA OpenedOK ==
  ASSUME TypeOK, NEW r \in Runs, NEW by \in {"schedule", "admin"}, run' = Opened(r, by)
  PROVE  run' \in [Runs -> Execution] /\ \A s \in Runs : run'[s].pc # "prepare" => run'[s].pc = run[s].pc
BY DEF Opened, Closed, Execution, TypeOK

LEMMA CommitOK ==
  ASSUME LadderInv, NEW x \in Actors, CommitRow(x), UNCHANGED <<states, schedule, jira>>,
         run' \in [Runs -> Execution],
         \A r \in Runs : run'[r].pc \notin {"idle", "prepare"} => JobExists
  PROVE  LadderInv'
<1> DEFINE t == tx[x]
<1> DEFINE row == WithCadence(job, t)
<1>0. t \in Transaction /\ job \in JobRow
  BY DEF LadderInv, TypeOK
<1>1. row \in JobRow /\ row.level = job.level /\ row.orig = job.orig /\ (row.cron = NoCron => ~JobExists)
  <2>1. /\ row.cron = IF t.cron # NoCron THEN t.cron ELSE job.cron
        /\ row.level = job.level /\ row.orig = job.orig /\ row.status = job.status
        /\ row.nextRun = IF t.next # NoCron THEN t.next ELSE job.nextRun
    BY <1>0 DEF WithCadence, JobRow
  <2>2. row \in JobRow
    BY <1>0, <2>1 DEF WithCadence, JobRow, Transaction
  <2> QED BY <2>1, <2>2 DEF JobExists
<1> HIDE DEF row
<1>2. job' = RowAfter(t)
  BY DEF CommitRow
<1>3. /\ job' \in JobRow /\ (JobExists => JobExists')
      /\ (job'.level > 0 <=> job'.orig # NoCron)
      /\ job'.level <= TopRung(job'.orig)
  <2>1. CASE t.op = "register"
    <3>1. job' = NewJob
      BY <2>1, <1>2 DEF RowAfter
    <3> QED BY <3>1, CadenceAssumption, LadderOfNothing DEF NewJob, JobRow, JobExists, Cron, NoCron
  <2>2. CASE t.op \in {"pause", "resume", "start", "reschedule"}
    BY <2>2, <1>1, <1>2 DEF RowAfter, row, JobRow, JobExists, LadderInv, BackoffBookkeeping
  <2>3. CASE t.op = "failure"
    BY <2>3, <1>0, <1>1, <1>2 DEF RowAfter, SlowedDown, row, JobRow, JobExists, LadderInv, TxCarriesRung,
       Transaction, Cron
  <2>4. CASE t.op \in {"success", "none"}
    <3>1. job' = Restored(row)
      BY <2>4, <1>2 DEF RowAfter, row
    <3>2. /\ job'.cron = row.cron /\ job'.level = 0 /\ job'.orig = NoCron
          /\ job' \in JobRow
      BY <3>1, <1>1 DEF Restored, JobRow, NoCron
    <3> QED BY <3>2, <1>1, LadderOfNothing DEF JobExists
  <2> QED BY <1>0, <2>1, <2>2, <2>3, <2>4 DEF Transaction
<1>4. TypeOK'
  <2>1. drift' \in BOOLEAN
    BY DEF CommitRow
  <2> QED BY <2>1, <1>3, EndsOK DEF CommitRow, LadderInv, TypeOK
<1>5. TxCarriesRung'
  BY EndsOK DEF CommitRow
<1>6. RunHasJob' /\ TxHasJob' /\ BackoffBookkeeping'
  BY <1>3, EndsOK DEF RunHasJob, TxHasJob, BackoffBookkeeping, CommitRow
<1> QED BY <1>4, <1>5, <1>6 DEF LadderInv

LEMMA RollbackOK ==
  ASSUME LadderInv, NEW x \in Actors, RollbackRow(x), UNCHANGED <<states, schedule, jira>>,
         run' \in [Runs -> Execution],
         \A r \in Runs : run'[r].pc \notin {"idle", "prepare"} => JobExists
  PROVE  LadderInv'
<1>1. drift' \in BOOLEAN /\ job' = job /\ chosen' = chosen
  BY DEF RollbackRow
<1>2. Ends(x)
  BY DEF RollbackRow
<1> QED BY <1>1, <1>2, EndsOK, LadderFrame DEF LadderInv, TypeOK, JobRow

(* A step that moves runs and leaves transactions alone.                   *)
LEMMA MoveOK ==
  ASSUME LadderInv, UNCHANGED <<tx, lock, history>>,
         \E s \in {"ACTIVE", "PAUSED", "ERROR"} : job' \in {job, [job EXCEPT !.status = s]},
         states' \in {"IDLE", "RUNNING", "SUCCESS", "FAILED"},
         schedule' = schedule, jira' \in [status : {"up", "down"}, outages : Nat],
         run' \in [Runs -> Execution],
         \A r \in Runs : run'[r].pc \notin {"idle", "prepare"} => JobExists
  PROVE  LadderInv'
<1>1. TxCarriesRung'
  BY DEF LadderInv, TxCarriesRung
<1> QED BY <1>1, LadderFrame DEF LadderInv, TypeOK, history, TxHasJob

(* A step that opens or advances a transaction and leaves runs alone.      *)
LEMMA OpenTxOK ==
  ASSUME LadderInv, NEW x \in Actors, NEW t \in Transaction, Begin(x, t),
         t.op = "failure" => /\ t.level > 0 /\ t.level <= TopRung(t.orig) /\ t.orig \in Cron,
         t.op \notin {"none", "register"} => JobExists,
         UNCHANGED <<job, states, run, jira, drift>>,
         schedule' \in Schedule, lock' \in Actors \cup {None},
         chosen' \subseteq Nat, contested' \subseteq Actors
  PROVE  LadderInv'
<1>1. /\ tx' \in [Actors -> Transaction] /\ TxCarriesRung'
      /\ \A y \in Actors : tx'[y].op \notin {"none", "register"} => JobExists
  BY TxFrame
<1> QED BY <1>1, LadderFrame DEF LadderInv, TypeOK, RunHasJob, JobRow

(* What every move of a run is: run r goes to e, and e has a job unless    *)
(* the execution ends or goes on preparing.                                *)
LEMMA RunMoveOK ==
  ASSUME LadderInv, NEW r \in Runs, NEW e \in Execution, run' = [run EXCEPT ![r] = e],
         e.pc \notin {"idle", "prepare"} => JobExists
  PROVE  /\ run' \in [Runs -> Execution]
         /\ \A s \in Runs : run'[s].pc \notin {"idle", "prepare"} => JobExists
BY DEF LadderInv, TypeOK, RunHasJob

LEMMA GotoOK ==
  ASSUME LadderInv, NEW r \in Runs, JobExists,
         NEW step \in {"batch", "finalize", "close", "refresh", "skip", "closeSkip", "fail"},
         Goto(r, step)
  PROVE  /\ run' \in [Runs -> Execution]
         /\ \A s \in Runs : run'[s].pc \notin {"idle", "prepare"} => JobExists
<1> DEFINE e == [run[r] EXCEPT !.pc = step, !.attempt = 0]
<1>1. run[r] \in Execution
  BY DEF LadderInv, TypeOK
<1>2. e \in Execution
  BY <1>1 DEF Execution
<1>3. run' = [run EXCEPT ![r] = e]
  BY <1>1 DEF Goto, Execution, LadderInv, TypeOK
<1> HIDE DEF e
<1> QED BY <1>2, <1>3, RunMoveOK

LEMMA CloseOK ==
  ASSUME LadderInv, NEW r \in Runs, Close(r)
  PROVE  /\ run' \in [Runs -> Execution]
         /\ \A s \in Runs : run'[s].pc \notin {"idle", "prepare"} => JobExists
<1>1. Closed \in Execution /\ Closed.pc = "idle"
  BY DEF Closed, Execution
<1> QED BY <1>1, RunMoveOK DEF Close

LEMMA RetryOK ==
  ASSUME LadderInv, NEW r \in Runs, NEW handler \in {"fail", "none"}, Retry(r, handler),
         handler = "fail" => JobExists
  PROVE  /\ run' \in [Runs -> Execution]
         /\ \A s \in Runs : run'[s].pc \notin {"idle", "prepare"} => JobExists
<1>1. CASE run' = [run EXCEPT ![r].attempt = @ + 1]
  <2> DEFINE e == [run[r] EXCEPT !.attempt = @ + 1]
  <2>1. run[r] \in Execution
    BY DEF LadderInv, TypeOK
  <2>2. e \in Execution /\ e.pc = run[r].pc
    BY <2>1 DEF Execution
  <2>3. run' = [run EXCEPT ![r] = e]
    BY <1>1, <2>1 DEF Execution, LadderInv, TypeOK
  <2>4. e.pc \notin {"idle", "prepare"} => JobExists
    BY <2>2 DEF LadderInv, RunHasJob
  <2> HIDE DEF e
  <2> QED BY <2>2, <2>3, <2>4, RunMoveOK
<1>2. CASE handler = "none" /\ Close(r)
  BY <1>2, CloseOK
<1>3. CASE handler = "fail" /\ Goto(r, handler)
  BY <1>3, GotoOK
<1> QED BY <1>1, <1>2, <1>3 DEF Retry

LEMMA RunStepKeeps == ASSUME LadderInv, NEW r \in Runs, RunStep(r) PROVE LadderInv'
<1> USE DEF LadderInv, TypeOK
<1>1. ASSUME NEW n \in 0..MaxPages, Prepare(r, n) PROVE LadderInv'
  <2> DEFINE e == [pc |-> IF n = 0 THEN "skip" ELSE "batch", attempt |-> 0, left |-> n,
                   by |-> run[r].by]
  <2>1. n \in Nat /\ JobExists
    BY <1>1, CadenceAssumption DEF Prepare, PrepareWrites
  <2>2. e \in Execution
    BY <2>1 DEF Execution
  <2>3. run' = [run EXCEPT ![r] = e]
    BY <1>1 DEF Prepare
  <2>4. /\ run' \in [Runs -> Execution]
        /\ \A s \in Runs : run'[s].pc \notin {"idle", "prepare"} => JobExists
    BY <2>1, <2>2, <2>3, RunMoveOK
  <2> QED BY <1>1, <2>4, MoveOK DEF Prepare, PrepareWrites
<1>2. CASE PrepareFails(r)
  <2>1. /\ run' \in [Runs -> Execution]
        /\ \A s \in Runs : run'[s].pc \notin {"idle", "prepare"} => JobExists
    BY <1>2, RetryOK DEF PrepareFails
  <2>2. /\ \E s \in {"ACTIVE", "PAUSED", "ERROR"} : job' \in {job, [job EXCEPT !.status = s]}
        /\ states' \in {"IDLE", "RUNNING", "SUCCESS", "FAILED"}
    BY <1>2 DEF PrepareFails, PrepareWrites
  <2> QED BY <1>2, <2>1, <2>2, MoveOK DEF PrepareFails
<1>3. CASE SyncIssuesBatch(r)
  <2>1. JobExists
    BY <1>3 DEF SyncIssuesBatch, AtStep, RunHasJob
  <2>2. /\ run' \in [Runs -> Execution]
        /\ \A s \in Runs : run'[s].pc \notin {"idle", "prepare"} => JobExists
    <3>1. CASE run[r].left > 1
      BY <1>3, <2>1, <3>1 DEF SyncIssuesBatch, Execution
    <3>2. CASE ~(run[r].left > 1)
      BY <1>3, <2>1, <3>2, GotoOK DEF SyncIssuesBatch
    <3> QED BY <3>1, <3>2
  <2> QED BY <1>3, <2>2, MoveOK DEF SyncIssuesBatch
<1>4. CASE RecordSyncFailure(r)
  <2> DEFINE original == Original(job)
  <2> DEFINE level == NextRung(original, job.level)
  <2> DEFINE cron == Rung(original, level)
  <2> DEFINE t == [op |-> "failure", pc |-> "temporal", cron |-> cron, level |-> level,
                   was |-> job.level, orig |-> original, next |-> NoCron]
  <2> DEFINE u == [op |-> "failure", pc |-> "row", cron |-> NoCron, level |-> level,
                   was |-> job.level, orig |-> original, next |-> NoCron]
  <2>0. JobExists
    BY <1>4 DEF RecordSyncFailure, AtStep, RunHasJob
  <2>1. original \in Cron
    BY <2>0 DEF Original, Cron, NoCron, JobRow, JobExists
  <2>2. /\ level \in Nat /\ level > 0 /\ level <= TopRung(original)
    BY <2>1, NextRungIsRung DEF Cron, JobRow
  <2>3. cron \in Cron
    BY <2>1, <2>2, RungIsCron
  <2> HIDE DEF cron
  <2>4. Begin(r, t) \/ Begin(r, u)
    BY <1>4 DEF RecordSyncFailure, cron, Begin
  <2> HIDE DEF original, level
  <2>5. t \in Transaction /\ u \in Transaction
    BY <2>1, <2>2, <2>3 DEF Transaction, Cron, NoCron, JobRow
  <2>6. /\ t.level > 0 /\ t.level <= TopRung(t.orig) /\ t.orig \in Cron
        /\ u.level > 0 /\ u.level <= TopRung(u.orig) /\ u.orig \in Cron
    BY <2>1, <2>2
  <2> HIDE DEF t, u
  <2> QED BY <1>4, <2>0, <2>4, <2>5, <2>6, OpenTxOK DEF RecordSyncFailure, history
<1>5. CASE FailureCommit(r)
  <2>1. JobExists
    BY <1>5 DEF FailureCommit, TxHasJob
  <2> QED BY <1>5, <2>1, RetryOK, CommitOK DEF FailureCommit
<1>6. CASE FailureRollback(r)
  <2>1. JobExists
    BY <1>6 DEF FailureRollback, TxHasJob
  <2> QED BY <1>6, <2>1, RetryOK, RollbackOK DEF FailureRollback
<1>7. CASE RecordSyncSuccess(r)
  <2>0. JobExists
    BY <1>7 DEF RecordSyncSuccess, RunHasJob
  <2>1. CASE NothingToRestore(job)
    <3>1. /\ run' \in [Runs -> Execution]
          /\ \A s \in Runs : run'[s].pc \notin {"idle", "prepare"} => JobExists
      BY <1>7, <2>0, <2>1, GotoOK DEF RecordSyncSuccess, Writing
    <3> QED BY <1>7, <2>1, <3>1, MoveOK DEF RecordSyncSuccess
  <2>2. CASE ~NothingToRestore(job)
    <3> DEFINE t == [op |-> "success", pc |-> "temporal", cron |-> job.orig, level |-> 0,
                     was |-> 0, orig |-> NoCron, next |-> NoCron]
    <3> DEFINE u == [op |-> "success", pc |-> "row", cron |-> NoCron, level |-> 0,
                     was |-> 0, orig |-> NoCron, next |-> NoCron]
    <3>1. Begin(r, t) \/ Begin(r, u)
      BY <1>7, <2>2 DEF RecordSyncSuccess, Tx, Begin
    <3>2. t \in Transaction /\ u \in Transaction
      BY DEF Transaction, NoCron, JobRow
    <3>3. t.op = "success" /\ u.op = "success"
      OBVIOUS
    <3>4. UNCHANGED <<job, states, run, jira, drift, schedule, lock, chosen, contested>>
      BY <1>7, <2>2 DEF RecordSyncSuccess, history
    <3> HIDE DEF t, u
    <3> QED BY <2>0, <3>1, <3>2, <3>3, <3>4, OpenTxOK
  <2> QED BY <2>1, <2>2
<1>8. CASE SuccessCommit(r)
  <2>1. JobExists
    BY <1>8 DEF SuccessCommit, TxHasJob
  <2> QED BY <1>8, <2>1, GotoOK, CommitOK DEF SuccessCommit, Writing
<1>9. CASE SuccessRollback(r)
  <2>1. JobExists
    BY <1>9 DEF SuccessRollback, TxHasJob
  <2> QED BY <1>9, <2>1, RetryOK, RollbackOK DEF SuccessRollback
<1>10. CASE FinalizeProjectSync(r)
  <2>1. JobExists
    BY <1>10 DEF FinalizeProjectSync, RunHasJob
  <2>2. /\ run' \in [Runs -> Execution]
        /\ \A s \in Runs : run'[s].pc \notin {"idle", "prepare"} => JobExists
    BY <1>10, <2>1, GotoOK, CloseOK DEF FinalizeProjectSync
  <2> QED BY <1>10, <2>2, MoveOK DEF FinalizeProjectSync
<1>11. CASE RequestRefreshes(r)
  <2>1. JobExists
    BY <1>11 DEF RequestRefreshes, AtStep, RunHasJob
  <2>2. /\ run' \in [Runs -> Execution]
        /\ \A s \in Runs : run'[s].pc \notin {"idle", "prepare"} => JobExists
    BY <1>11, <2>1, GotoOK, CloseOK DEF RequestRefreshes
  <2> QED BY <1>11, <2>2, MoveOK DEF RequestRefreshes
<1>12. CASE FailProjectSync(r)
  <2>1. /\ run' \in [Runs -> Execution]
        /\ \A s \in Runs : run'[s].pc \notin {"idle", "prepare"} => JobExists
    BY <1>12, CloseOK DEF FailProjectSync
  <2> QED BY <1>12, <2>1, MoveOK DEF FailProjectSync
<1> QED BY <1>1, <1>2, <1>3, <1>4, <1>5, <1>6, <1>7, <1>8, <1>9, <1>10, <1>11, <1>12 DEF RunStep

(* A transaction goes on: only its pc and the next run it read change.     *)
LEMMA AdvanceOK ==
  ASSUME LadderInv, NEW x \in Actors,
         NEW pc \in {"row", "commit"}, NEW next \in Nat,
         Begin(x, [tx[x] EXCEPT !.pc = pc, !.next = next])
  PROVE  /\ tx' \in [Actors -> Transaction] /\ TxCarriesRung'
         /\ \A y \in Actors : tx'[y].op \notin {"none", "register"} => JobExists
<1> DEFINE t == [tx[x] EXCEPT !.pc = pc, !.next = next]
<1>0. tx[x] \in Transaction
  BY DEF LadderInv, TypeOK
<1>1. t \in Transaction /\ t.op = tx[x].op /\ t.level = tx[x].level /\ t.orig = tx[x].orig
  BY <1>0 DEF Transaction
<1>2. Begin(x, t)
  OBVIOUS
<1> HIDE DEF t
<1> QED BY <1>1, <1>2, TxFrame DEF LadderInv, TxCarriesRung, TxHasJob

LEMMA UpdateScheduleKeeps == ASSUME LadderInv, NEW x \in Actors, UpdateSchedule(x) PROVE LadderInv'
<1>0. tx[x] \in Transaction /\ schedule \in Schedule
  BY DEF LadderInv, TypeOK
<1>1. [tx[x] EXCEPT !.pc = "row"] \in Transaction
  BY <1>0 DEF Transaction
<1>2. schedule' \in Schedule
  BY <1>0 DEF UpdateSchedule, Schedule, Transaction
<1>3. contested' \subseteq Actors
  BY DEF UpdateSchedule, LadderInv, TypeOK
<1>4. [tx[x] EXCEPT !.pc = "row"].op = tx[x].op /\ [tx[x] EXCEPT !.pc = "row"].level = tx[x].level
      /\ [tx[x] EXCEPT !.pc = "row"].orig = tx[x].orig
  BY <1>0 DEF Transaction
<1> QED BY <1>1, <1>2, <1>3, <1>4, OpenTxOK DEF UpdateSchedule, LadderInv, TypeOK, TxCarriesRung, TxHasJob

LEMMA WriteRowKeeps ==
  ASSUME LadderInv, NEW x \in Actors, WriteRow(x),
         run' \in [Runs -> Execution],
         \A r \in Runs : run'[r].pc \notin {"idle", "prepare"} => JobExists
  PROVE  LadderInv'
<1> DEFINE next == IF tx[x].cron # NoCron \/ tx[x].op \in {"resume", "start"}
                   THEN schedule.cron ELSE NoCron
<1>1. next \in Nat
  BY DEF LadderInv, TypeOK, Schedule, NoCron
<1>2. Begin(x, [tx[x] EXCEPT !.pc = "commit", !.next = next])
  BY DEF WriteRow
<1> HIDE DEF next
<1>3. /\ tx' \in [Actors -> Transaction] /\ TxCarriesRung'
      /\ \A y \in Actors : tx'[y].op \notin {"none", "register"} => JobExists
  BY <1>1, <1>2, AdvanceOK
<1> QED BY <1>3, LadderFrame DEF WriteRow, LadderInv, TypeOK, history

LEMMA StartKeeps ==
  ASSUME LadderInv, NEW r \in Runs, NEW by \in {"schedule", "admin"}, run' = Opened(r, by)
  PROVE  /\ run' \in [Runs -> Execution]
         /\ \A s \in Runs : run'[s].pc \notin {"idle", "prepare"} => JobExists
BY OpenedOK DEF LadderInv, RunHasJob

LEMMA AdminStepKeeps == ASSUME LadderInv, NEW a \in Admins, AdminStep(a) PROVE LadderInv'
<1>0. /\ \A op \in {"pause", "resume", "start"} : Tx(op, "row", NoCron) \in Transaction
      /\ \A c \in Nat : Tx("reschedule", "temporal", c) \in Transaction
      /\ \A c \in Nat : Tx("register", "commit", c) \in Transaction
      /\ \A op, pc, c : Tx(op, pc, c).op = op
  BY DEF Tx, Transaction, NoCron
<1>1. ASSUME NEW r \in Runs, RegisterJiraProject(a, r) PROVE LadderInv'
  <2>1. /\ run' \in [Runs -> Execution]
        /\ \A s \in Runs : run'[s].pc \notin {"idle", "prepare"} => JobExists
    BY <1>1, StartKeeps DEF RegisterJiraProject
  <2>2. /\ tx' \in [Actors -> Transaction] /\ TxCarriesRung'
        /\ \A y \in Actors : tx'[y].op \notin {"none", "register"} => JobExists
    <3>1. Begin(a, Tx("register", "commit", DefaultCron))
      BY <1>1 DEF RegisterJiraProject
    <3>2. Tx("register", "commit", DefaultCron) \in Transaction
      BY <1>0, CadenceAssumption DEF Cron
    <3>3. Tx("register", "commit", DefaultCron).op = "register"
      BY <1>0
    <3> QED BY <3>1, <3>2, <3>3, TxFrame
  <2>3. schedule' \in Schedule
    BY <1>1, CadenceAssumption DEF RegisterJiraProject, NewSchedule, Schedule, Cron
  <2> QED BY <1>1, <2>1, <2>2, <2>3, LadderFrame DEF RegisterJiraProject, LadderInv, TypeOK, JobRow, history
<1>2. ASSUME NEW r \in Runs, TriggerProjectSync(a, r) PROVE LadderInv'
  <2>1. /\ run' \in [Runs -> Execution]
        /\ \A s \in Runs : run'[s].pc \notin {"idle", "prepare"} => JobExists
    BY <1>2, StartKeeps DEF TriggerProjectSync
  <2> QED BY <1>2, <2>1, MoveOK DEF TriggerProjectSync, LadderInv, TypeOK, JobRow
<1>3. ASSUME NEW r \in Runs, WriteRowAndTrigger(a, r) PROVE LadderInv'
  <2>1. /\ run' \in [Runs -> Execution]
        /\ \A s \in Runs : run'[s].pc \notin {"idle", "prepare"} => JobExists
    BY <1>3, StartKeeps DEF WriteRowAndTrigger
  <2> QED BY <1>3, <2>1, WriteRowKeeps DEF WriteRowAndTrigger
<1>4. ASSUME NEW op \in {"pause", "resume", "start"}, SetPaused(a, op) PROVE LadderInv'
  <2>1. schedule' \in Schedule
    BY <1>4 DEF SetPaused, LadderInv, TypeOK, Schedule
  <2>2. Begin(a, Tx(op, "row", NoCron)) /\ Tx(op, "row", NoCron).op # "failure" /\ JobExists
    BY <1>0, <1>4 DEF SetPaused
  <2> QED BY <1>0, <1>4, <2>1, <2>2, OpenTxOK DEF SetPaused, LadderInv, TypeOK, history
<1>5. ASSUME NEW c \in AdminCrons, RescheduleProjectSync(a, c) PROVE LadderInv'
  <2>1. c \in Nat
    BY CadenceAssumption DEF Cron
  <2> QED BY <1>0, <1>5, <2>1, OpenTxOK DEF RescheduleProjectSync, LadderInv, TypeOK
<1>6. CASE AdminCommit(a)
  BY <1>6, CommitOK DEF AdminCommit, LadderInv, TypeOK, RunHasJob
<1>7. CASE AdminRollback(a)
  BY <1>7, RollbackOK DEF AdminRollback, LadderInv, TypeOK, RunHasJob
<1> QED BY <1>1, <1>2, <1>3, <1>4, <1>5, <1>6, <1>7
        DEF AdminStep, PauseProjectSync, ResumeProjectSync, StartProjectSync

LEMMA LadderStep == LadderInv /\ [Next]_vars => LadderInv'
<1> SUFFICES ASSUME LadderInv, [Next]_vars PROVE LadderInv'
  OBVIOUS
<1>1. ASSUME NEW r \in Runs, ScheduledStart(r) PROVE LadderInv'
  <2>1. /\ run' \in [Runs -> Execution]
        /\ \A s \in Runs : run'[s].pc \notin {"idle", "prepare"} => JobExists
    BY <1>1, StartKeeps DEF ScheduledStart
  <2> QED BY <1>1, <2>1, MoveOK DEF ScheduledStart, LadderInv, TypeOK, JobRow
<1>2. ASSUME NEW x \in Actors, TxStep(x) PROVE LadderInv'
  <2>1. CASE UpdateSchedule(x)
    BY <2>1, UpdateScheduleKeeps
  <2>2. CASE WriteRowOnly(x)
    BY <2>2, WriteRowKeeps DEF WriteRowOnly, LadderInv, TypeOK, RunHasJob
  <2> QED BY <1>2, <2>1, <2>2 DEF TxStep
<1>3. CASE JiraBreaks \/ JiraRecovers
  <2>1. jira' \in [status : {"up", "down"}, outages : Nat]
    BY <1>3 DEF JiraBreaks, JiraRecovers, LadderInv, TypeOK
  <2> QED BY <1>3, <2>1, MoveOK DEF JiraBreaks, JiraRecovers, LadderInv, TypeOK, JobRow, RunHasJob
<1>4. CASE UNCHANGED vars
  <2>1. \E s \in {"ACTIVE", "PAUSED", "ERROR"} : job' \in {job, [job EXCEPT !.status = s]}
    BY <1>4 DEF vars
  <2>2. TypeOK' /\ \A s \in Runs : run'[s].pc \notin {"idle", "prepare"} => JobExists
    BY <1>4 DEF vars, LadderInv, TypeOK, RunHasJob
  <2> QED BY <1>4, <2>1, <2>2, MoveOK DEF vars, history, TypeOK
<1> QED BY <1>1, <1>2, <1>3, <1>4, RunStepKeeps, AdminStepKeeps DEF Next
-----------------------------------------------------------------------------
(* Every state keeps its shape (the columns of the rows, one transaction   *)
(* per actor), for every number of runs and administrators.                *)
THEOREM TypeCorrect == Spec => []TypeOK
<1>1. Init => LadderInv
  BY LadderInit
<1>2. LadderInv => TypeOK
  BY DEF LadderInv
<1> QED BY <1>1, <1>2, LadderStep, PTL DEF Spec

(* A job remembers an original cadence exactly while it is slowed down,    *)
(* and its level is a rung of that cadence's ladder, whatever overlaps     *)
(* (recordSyncFailure and recordSyncSuccess).                              *)
THEOREM BookkeepingHolds == Spec => []BackoffBookkeeping
<1>1. Init => LadderInv
  BY LadderInit
<1>2. LadderInv => BackoffBookkeeping
  BY DEF LadderInv
<1> QED BY <1>1, <1>2, LadderStep, PTL DEF Spec

(* Whatever administrators, runs and failures do, the ladder on which a    *)
(* slowed job stands is the sequence that buildBackoffCronSequence builds  *)
(* of its original cadence: the level is an index of it, every rung is the *)
(* entry there and the top is the last one.                                *)
THEOREM LadderAlwaysTheSequence == Spec => []LadderIsTheSequence
<1>1. Init => LadderInv
  BY LadderInit
<1>2. LadderInv => LadderIsTheSequence
  <2> SUFFICES ASSUME LadderInv, job.orig # NoCron
               PROVE  LET sequence == CronSequence(job.orig)
                      IN /\ TopRung(job.orig) = Len(sequence) - 1
                         /\ job.level + 1 \in DOMAIN sequence
                         /\ \A l \in 0..TopRung(job.orig) : Rung(job.orig, l) = sequence[l + 1]
    BY DEF LadderIsTheSequence
  <2>1. job.orig \in Cron /\ job.level \in Nat /\ job.level <= TopRung(job.orig)
    <3>1. job \in JobRow /\ job.level <= TopRung(job.orig)
      BY DEF LadderInv, BackoffBookkeeping, TypeOK
    <3>2. job.orig \in Nat /\ job.level \in Nat
      BY <3>1 DEF JobRow
    <3> QED BY <3>1, <3>2 DEF Cron
  <2>2. PICK top \in Nat : top = TopRung(job.orig)
    <3>1. TopRung(job.orig) \in Nat
      BY StepsAssumption DEF TopRung
    <3> QED BY <3>1
  <2>3. PICK sequence : sequence = CronSequence(job.orig)
    OBVIOUS
  <2>4. sequence = [i \in 1..(top + 1) |-> Rung(job.orig, i - 1)]
    BY <2>1, <2>2, <2>3, CronSequenceIs
  <2>5. Len(sequence) = top + 1 /\ DOMAIN sequence = 1..(top + 1)
    BY <2>4
  <2>6. ASSUME NEW l \in 0..top PROVE Rung(job.orig, l) = sequence[l + 1]
    <3>1. l + 1 \in 1..(top + 1) /\ (l + 1) - 1 = l
      OBVIOUS
    <3> QED BY <2>4, <3>1
  <2> QED BY <2>1, <2>2, <2>3, <2>5, <2>6
<1> QED BY <1>1, <1>2, LadderStep, PTL DEF Spec

-----------------------------------------------------------------------------
(* What a step does to the transactions.                                   *)
LEMMA BeginIs ==
  ASSUME TypeOK, NEW x \in Actors, NEW t, Begin(x, t)
  PROVE  \A y \in Actors : tx'[y] = IF y = x THEN t ELSE tx[y]
BY DEF TypeOK, Begin

LEMMA EndsIs ==
  ASSUME TypeOK, NEW x \in Actors, Ends(x)
  PROVE  tx'[x] = NoTx /\ \A y \in Actors : y # x => tx'[y] = tx[y]
BY DEF TypeOK, Ends

LEMMA TxIs == \A op, pc, c : Tx(op, pc, c).op = op /\ Tx(op, pc, c).pc = pc /\ Tx(op, pc, c).cron = c
BY DEF Tx

(* A transaction goes on: it stays the transaction it was.                 *)
LEMMA StepsOn ==
  ASSUME TypeOK, NEW x \in Actors, UpdateSchedule(x) \/ WriteRow(x)
  PROVE  /\ \A y \in Actors : /\ tx'[y].op = tx[y].op /\ tx'[y].cron = tx[y].cron
                              /\ tx'[y].orig = tx[y].orig /\ tx'[y].level = tx[y].level
                              /\ y # x => tx'[y] = tx[y]
         /\ job' = job /\ schedule'.state = schedule.state /\ chosen' = chosen /\ states' = states
         /\ tx[x].pc \in {"temporal", "row"}
<1>0. tx[x] \in Transaction /\ schedule \in Schedule
  BY DEF TypeOK
<1>1. PICK pc, next : Begin(x, [tx[x] EXCEPT !.pc = pc, !.next = next])
  <2>1. [tx[x] EXCEPT !.pc = "row"] = [tx[x] EXCEPT !.pc = "row", !.next = tx[x].next]
    BY <1>0 DEF Transaction
  <2> QED BY <2>1 DEF UpdateSchedule, WriteRow
<1>2. \A y \in Actors : tx'[y] = IF y = x THEN [tx[x] EXCEPT !.pc = pc, !.next = next] ELSE tx[y]
  BY <1>1, BeginIs
<1>3. /\ [tx[x] EXCEPT !.pc = pc, !.next = next].op = tx[x].op
      /\ [tx[x] EXCEPT !.pc = pc, !.next = next].cron = tx[x].cron
      /\ [tx[x] EXCEPT !.pc = pc, !.next = next].orig = tx[x].orig
      /\ [tx[x] EXCEPT !.pc = pc, !.next = next].level = tx[x].level
  BY <1>0 DEF Transaction
<1>4. job' = job /\ schedule'.state = schedule.state /\ chosen' = chosen /\ states' = states
  BY <1>0 DEF UpdateSchedule, WriteRow, Schedule, history
<1>5. tx[x].pc \in {"temporal", "row"}
  BY DEF UpdateSchedule, WriteRow
<1> QED BY <1>2, <1>3, <1>4, <1>5

-----------------------------------------------------------------------------
(* How runs end.  A run that said RUNNING and has not said how it ended is *)
(* still open, at one of these steps.                                      *)
Busy(r) == run[r].pc \in {"batch", "finalize", "close", "skip", "closeSkip", "fail"}
RunningIsOpen == states = "RUNNING" => \E r \in Runs : Busy(r)

LEMMA StaysBusy ==
  ASSUME RunningIsOpen, states' = states, \A r \in Runs : Busy(r) => Busy(r)'
  PROVE  RunningIsOpen'
BY DEF RunningIsOpen

LEMMA OtherRuns ==
  ASSUME TypeOK, NEW r \in Runs, NEW e, run' = [run EXCEPT ![r] = e]
  PROVE  run'[r] = e /\ \A s \in Runs : s # r => run'[s] = run[s]
BY DEF TypeOK

(* The moves of a run: it is where it was, at its handler, or at an end.   *)
LEMMA MovesTo ==
  ASSUME TypeOK, NEW r \in Runs
  PROVE  /\ \A step : Goto(r, step) => run'[r].pc = step
         /\ Close(r) => run'[r].pc = "idle"
         /\ \A handler : Retry(r, handler) => run'[r].pc \in {run[r].pc, IF handler = "none" THEN "idle" ELSE handler}
         /\ \A step, handler : Goto(r, step) \/ Close(r) \/ Retry(r, handler)
              => \A s \in Runs : s # r => run'[s] = run[s]
<1>1. run[r] \in Execution /\ run \in [Runs -> Execution] BY DEF TypeOK
<1>2. ASSUME NEW step, Goto(r, step)
      PROVE  run'[r].pc = step /\ \A s \in Runs : s # r => run'[s] = run[s]
  BY <1>1, <1>2 DEF Goto, Execution
<1>3. ASSUME Close(r)
      PROVE  run'[r].pc = "idle" /\ \A s \in Runs : s # r => run'[s] = run[s]
  BY <1>1, <1>3 DEF Close, Closed
<1>4. ASSUME NEW handler, Retry(r, handler)
      PROVE  /\ run'[r].pc \in {run[r].pc, IF handler = "none" THEN "idle" ELSE handler}
             /\ \A s \in Runs : s # r => run'[s] = run[s]
  <2>1. CASE run' = [run EXCEPT ![r].attempt = @ + 1]
    <3>1. run'[r].pc = run[r].pc /\ \A s \in Runs : s # r => run'[s] = run[s]
      BY <1>1, <2>1 DEF Execution
    <3> QED BY <3>1
  <2>2. CASE handler = "none" /\ Close(r) BY <2>2, <1>3
  <2>3. CASE handler # "none" /\ Goto(r, handler) BY <2>3, <1>2
  <2> QED BY <1>4, <2>1, <2>2, <2>3 DEF Retry
<1> QED BY <1>2, <1>3, <1>4

LEMMA RunningStep ==
  ASSUME Faults \cap {"secrets", "temporal"} = {}, LadderInv, RunningIsOpen, [Next]_vars
  PROVE  RunningIsOpen'
<1>0. TypeOK BY DEF LadderInv
<1>1. ASSUME NEW r \in Runs, run[r].pc = "idle", NEW by \in {"schedule", "admin"}, run' = Opened(r, by),
             states' = states
      PROVE  RunningIsOpen'
  <2>1. \A s \in Runs : s # r => run'[s] = run[s] BY <1>0, <1>1 DEF Opened, TypeOK
  <2> QED BY <1>1, <2>1, StaysBusy DEF Busy
<1>2. ASSUME NEW r \in Runs, RunStep(r) PROVE RunningIsOpen'
  <2>1. ASSUME NEW n \in 0..MaxPages, Prepare(r, n) PROVE RunningIsOpen'
    <3> DEFINE e == [pc |-> IF n = 0 THEN "skip" ELSE "batch", attempt |-> 0, left |-> n, by |-> run[r].by]
    <3>1. run' = [run EXCEPT ![r] = e] BY <2>1 DEF Prepare
    <3>2. e.pc \in {"skip", "batch"} OBVIOUS
    <3> HIDE DEF e
    <3>3. run'[r].pc \in {"skip", "batch"} BY <1>0, <3>1, <3>2, OtherRuns
    <3> QED BY <3>3 DEF RunningIsOpen, Busy
  <2>2. CASE PrepareFails(r)
    <3>1. states' = states /\ run[r].pc = "prepare" /\ Retry(r, "none")
      BY <2>2 DEF PrepareFails, AtStep
    <3> QED BY <1>0, <3>1, MovesTo, StaysBusy DEF Busy
  <2>3. CASE SyncIssuesBatch(r)
    <3>1. run'[r].pc \in {"batch", "finalize"} /\ \A s \in Runs : s # r => run'[s] = run[s]
      <4>1. CASE run[r].left > 1
        <5>1. run[r] \in Execution /\ run \in [Runs -> Execution] BY <1>0 DEF TypeOK
        <5> QED BY <2>3, <4>1, <5>1 DEF SyncIssuesBatch, AtStep, Execution
      <4>2. CASE ~(run[r].left > 1) BY <1>0, <2>3, <4>2, MovesTo DEF SyncIssuesBatch
      <4> QED BY <4>1, <4>2
    <3> QED BY <2>3, <3>1, StaysBusy DEF SyncIssuesBatch, Busy
  <2>4. CASE RecordSyncFailure(r) BY <2>4, StaysBusy DEF RecordSyncFailure, Busy
  <2>5. CASE FailureCommit(r) \/ FailureRollback(r)
    BY <1>0, <2>5, MovesTo, StaysBusy DEF FailureCommit, FailureRollback, Busy
  <2>6. CASE RecordSyncSuccess(r)
    <3>1. CASE UNCHANGED run BY <2>6, <3>1, StaysBusy DEF RecordSyncSuccess, Busy
    <3>2. CASE Goto(r, Writing(run[r].pc))
      BY <1>0, <2>6, <3>2, MovesTo, StaysBusy DEF RecordSyncSuccess, Busy, Writing
    <3> QED BY <2>6, <3>1, <3>2 DEF RecordSyncSuccess
  <2>7. CASE SuccessCommit(r)
    BY <1>0, <2>7, MovesTo, StaysBusy DEF SuccessCommit, Busy, Writing
  <2>8. CASE FinalizeProjectSync(r) \/ FailProjectSync(r)
    BY <2>8 DEF FinalizeProjectSync, FailProjectSync, RunningIsOpen
  <2>9. CASE RequestRefreshes(r)
    BY <1>0, <2>9, MovesTo, StaysBusy DEF RequestRefreshes, AtStep, Busy
  <2>10. ~SuccessRollback(r) BY DEF SuccessRollback
  <2> QED BY <1>2, <2>1, <2>2, <2>3, <2>4, <2>5, <2>6, <2>7, <2>8, <2>9, <2>10 DEF RunStep
<1>3. ASSUME NEW a \in Admins, AdminStep(a) PROVE RunningIsOpen'
  <2>1. ASSUME NEW r \in Runs, RegisterJiraProject(a, r) \/ TriggerProjectSync(a, r) \/ WriteRowAndTrigger(a, r)
        PROVE  RunningIsOpen'
    BY <1>1, <2>1 DEF RegisterJiraProject, TriggerProjectSync, WriteRowAndTrigger, WriteRow
  <2>2. CASE UNCHANGED <<run, states>> BY <2>2, StaysBusy DEF Busy
  <2> QED BY <1>3, <2>1, <2>2
      DEF AdminStep, PauseProjectSync, ResumeProjectSync, StartProjectSync, SetPaused, RescheduleProjectSync,
          AdminCommit, AdminRollback
<1>4. CASE UNCHANGED <<run, states>> BY <1>4, StaysBusy DEF Busy
<1>5. ASSUME NEW r \in Runs, ScheduledStart(r) PROVE RunningIsOpen' BY <1>1, <1>5 DEF ScheduledStart
<1>6. ASSUME NEW x \in Actors, TxStep(x) PROVE UNCHANGED <<run, states>>
  BY <1>6 DEF TxStep, UpdateSchedule, WriteRowOnly, WriteRow
<1> QED BY <1>2, <1>3, <1>4, <1>5, <1>6 DEF Next, JiraBreaks, JiraRecovers, vars

(* EndedRunsAreRecorded, while neither the secrets store nor Temporal      *)
(* fails: both would end a run outside the workflow's try, whose handler   *)
(* says FAILED (syncProjectWorkflow).                                      *)
THEOREM EndsAreRecorded ==
  ASSUME Faults \cap {"secrets", "temporal"} = {}
  PROVE  Spec \/ SteadySpec => []EndedRunsAreRecorded
<1>1. Init \/ Registered => LadderInv /\ RunningIsOpen
  <2>1. Init \/ Registered => RunningIsOpen BY DEF Init, Registered, NothingOpen, RunningIsOpen
  <2> QED BY <2>1, LadderInit
<1>2. LadderInv /\ RunningIsOpen /\ [Next]_vars => (LadderInv /\ RunningIsOpen)'
  BY LadderStep, RunningStep
<1>3. RunningIsOpen => EndedRunsAreRecorded
  BY DEF RunningIsOpen, EndedRunsAreRecorded, Busy
<1> QED BY <1>1, <1>2, <1>3, PTL DEF Spec, SteadySpec

-----------------------------------------------------------------------------
(* What is paused.  While his request to pause or to go on is open, the    *)
(* one administrator has told Temporal and not yet the row.                *)
OneAdmin == \A a, b \in Admins : a = b
PauseHolds ==
  /\ job.status = "PAUSED" /\ (\A a \in Admins : tx[a].op \notin {"resume", "start"})
       => schedule.state = "paused"
  /\ \A a \in Admins : tx[a].op = "pause" => schedule.state = "paused"

LEMMA SamePause ==
  ASSUME PauseHolds, schedule'.state = schedule.state, \A a \in Admins : tx'[a].op = tx[a].op,
         job'.status = job.status \/ job'.status # "PAUSED"
  PROVE  PauseHolds'
BY DEF PauseHolds

(* A run says ACTIVE or ERROR, or leaves the row as it is.                 *)
LEMMA RunsDoNotPause ==
  ASSUME LadderInv, NEW r \in Runs, RunStep(r)
  PROVE  /\ job'.status \in {job.status, "ACTIVE", "ERROR"} /\ schedule' = schedule
         /\ \A a \in Admins : tx'[a] = tx[a]
<1>0. TypeOK /\ job \in JobRow /\ tx[r] \in Transaction BY DEF LadderInv, TypeOK
<1>1. schedule' = schedule
  BY DEF RunStep, Prepare, PrepareFails, SyncIssuesBatch, RecordSyncFailure, FailureCommit, FailureRollback,
         RecordSyncSuccess, SuccessCommit, SuccessRollback, FinalizeProjectSync, RequestRefreshes, FailProjectSync
<1>2. \A a \in Admins : a # r /\ a \in Actors BY CadenceAssumption
<1>3. ASSUME NEW t, Begin(r, t) PROVE \A a \in Admins : tx'[a] = tx[a]
  BY <1>0, <1>2, <1>3, BeginIs
<1>4. ASSUME Ends(r) PROVE \A a \in Admins : tx'[a] = tx[a]
  BY <1>0, <1>2, <1>4, EndsIs
<1>5. \A a \in Admins : tx'[a] = tx[a]
  <2>1. ASSUME FailureCommit(r) \/ FailureRollback(r) \/ SuccessCommit(r) \/ SuccessRollback(r)
        PROVE  Ends(r)
    BY <2>1 DEF FailureCommit, FailureRollback, SuccessCommit, SuccessRollback, CommitRow, RollbackRow
  <2>2. ASSUME RecordSyncFailure(r) \/ RecordSyncSuccess(r)
        PROVE  tx' = tx \/ \E t : Begin(r, t)
    BY <2>2 DEF RecordSyncFailure, RecordSyncSuccess
  <2> QED BY <1>3, <1>4, <2>1, <2>2
      DEF RunStep, Prepare, PrepareFails, SyncIssuesBatch, FinalizeProjectSync, RequestRefreshes, FailProjectSync
<1>6. job'.status \in {job.status, "ACTIVE", "ERROR"}
  <2>1. CASE FailureCommit(r) \/ SuccessCommit(r)
    <3> DEFINE row == WithCadence(job, tx[r])
    <3>1. row \in JobRow BY <1>0 DEF WithCadence, JobRow, Transaction
    <3> HIDE DEF row
    <3>2. job' = SlowedDown(row, tx[r]) \/ job' = Restored(row)
      BY <2>1 DEF FailureCommit, SuccessCommit, CommitRow, RowAfter, row
    <3> QED BY <3>1, <3>2 DEF SlowedDown, Restored, JobRow
  <2>2. CASE FailureRollback(r) \/ SuccessRollback(r)
    BY <2>2 DEF FailureRollback, SuccessRollback, RollbackRow
  <2>3. CASE RecordSyncFailure(r) \/ RecordSyncSuccess(r) \/ SyncIssuesBatch(r) \/ RequestRefreshes(r)
    BY <2>3 DEF RecordSyncFailure, RecordSyncSuccess, SyncIssuesBatch, RequestRefreshes
  <2>4. CASE PrepareFails(r) \/ FinalizeProjectSync(r) \/ FailProjectSync(r) \/ \E n \in 0..MaxPages : Prepare(r, n)
    BY <1>0, <2>4 DEF Prepare, PrepareFails, PrepareWrites, FinalizeProjectSync, FailProjectSync, JobRow
  <2> QED BY <2>1, <2>2, <2>3, <2>4 DEF RunStep
<1> QED BY <1>1, <1>5, <1>6

LEMMA PauseStep ==
  ASSUME OneAdmin, "temporal" \notin Faults, LadderInv, PauseHolds, [Next]_vars
  PROVE  PauseHolds'
<1>0. TypeOK /\ job \in JobRow /\ schedule \in Schedule BY DEF LadderInv, TypeOK
<1>1. ASSUME NEW a \in Admins, AdminStep(a) PROVE PauseHolds'
  <2>0. tx[a] \in Transaction /\ \A b \in Admins : b = a BY <1>0 DEF TypeOK, OneAdmin
  <2>1. ASSUME NEW r \in Runs, RegisterJiraProject(a, r) PROVE PauseHolds'
    <3>1. tx'[a].op = "register" BY <1>0, <2>1, BeginIs, TxIs DEF RegisterJiraProject
    <3>2. job.status # "PAUSED" BY <2>0, <2>1 DEF RegisterJiraProject, PauseHolds
    <3> QED BY <2>0, <2>1, <3>1, <3>2 DEF RegisterJiraProject, PauseHolds
  <2>2. ASSUME NEW r \in Runs, TriggerProjectSync(a, r) PROVE PauseHolds'
    BY <2>2, SamePause DEF TriggerProjectSync
  <2>3. ASSUME NEW op \in {"pause", "resume", "start"}, SetPaused(a, op) PROVE PauseHolds'
    <3>1. tx'[a].op = op BY <1>0, <2>3, BeginIs, TxIs DEF SetPaused
    <3>2. op = "pause" => schedule'.state = "paused" BY <1>0, <2>3 DEF SetPaused, Schedule
    <3> QED BY <2>0, <2>3, <3>1, <3>2 DEF PauseHolds
  <2>4. ASSUME NEW c \in AdminCrons, RescheduleProjectSync(a, c) PROVE PauseHolds'
    <3>1. tx'[a].op = "reschedule" BY <1>0, <2>4, BeginIs, TxIs DEF RescheduleProjectSync
    <3> QED BY <2>0, <2>4, <3>1 DEF RescheduleProjectSync, PauseHolds
  <2>5. ASSUME NEW r \in Runs, WriteRowAndTrigger(a, r) PROVE PauseHolds'
    BY <1>0, <2>5, StepsOn, SamePause DEF WriteRowAndTrigger
  <2>6. CASE AdminCommit(a)
    <3> DEFINE row == WithCadence(job, tx[a])
    <3>1. row \in JobRow /\ row.status = job.status BY <1>0, <2>0 DEF WithCadence, JobRow, Transaction
    <3>2. tx'[a].op = "none" /\ schedule' = schedule
      BY <1>0, <2>6, EndsIs, NoTxOK DEF AdminCommit, CommitRow
    <3>3. job' = RowAfter(tx[a]) BY <2>6 DEF AdminCommit, CommitRow
    <3> HIDE DEF row
    <3>4. CASE tx[a].op = "pause" BY <2>0, <3>2, <3>4 DEF PauseHolds
    <3>5. CASE tx[a].op = "reschedule"
      <4>1. job' = row BY <3>3, <3>5 DEF RowAfter, row
      <4> QED BY <2>0, <3>1, <3>2, <3>5, <4>1 DEF PauseHolds
    <3>6. CASE tx[a].op \notin {"pause", "reschedule"}
      <4>1. job' = NewJob \/ job' = [row EXCEPT !.status = "ACTIVE"] \/ job' = SlowedDown(row, tx[a])
            \/ job' = Restored(row)
        BY <2>0, <3>3, <3>6 DEF RowAfter, row, Transaction
      <4>2. CASE job' = NewJob BY <2>0, <3>2, <4>2 DEF NewJob, PauseHolds
      <4>3. CASE job' = [row EXCEPT !.status = "ACTIVE"]
        <5>1. job'.status = "ACTIVE" BY <3>1, <4>3 DEF JobRow
        <5> QED BY <2>0, <3>2, <5>1 DEF PauseHolds
      <4>4. CASE job' = SlowedDown(row, tx[a])
        <5>1. job'.status = "ERROR" BY <3>1, <4>4 DEF SlowedDown, JobRow
        <5> QED BY <2>0, <3>2, <5>1 DEF PauseHolds
      <4>5. CASE job' = Restored(row)
        <5>1. job'.status = "ACTIVE" BY <3>1, <4>5 DEF Restored, JobRow
        <5> QED BY <2>0, <3>2, <5>1 DEF PauseHolds
      <4> QED BY <4>1, <4>2, <4>3, <4>4, <4>5
    <3> QED BY <3>4, <3>5, <3>6
  <2>7. ~AdminRollback(a) BY DEF AdminRollback
  <2> QED BY <1>1, <2>1, <2>2, <2>3, <2>4, <2>5, <2>6, <2>7
      DEF AdminStep, PauseProjectSync, ResumeProjectSync, StartProjectSync
<1>2. ASSUME NEW r \in Runs, RunStep(r) PROVE PauseHolds'
  BY <1>2, RunsDoNotPause, SamePause
<1>3. ASSUME NEW x \in Actors, TxStep(x) PROVE PauseHolds'
  <2>1. UpdateSchedule(x) \/ WriteRow(x) BY <1>3 DEF TxStep, WriteRowOnly
  <2> QED BY <1>0, <2>1, StepsOn, SamePause
<1>4. CASE UNCHANGED <<job, schedule, tx>> BY <1>4, SamePause
<1>5. ASSUME NEW r \in Runs, ScheduledStart(r) PROVE PauseHolds'
  BY <1>5, SamePause DEF ScheduledStart
<1> QED BY <1>1, <1>2, <1>3, <1>4, <1>5 DEF Next, JiraBreaks, JiraRecovers, vars

(* PausedIsPaused, for one administrator whose requests are not rolled     *)
(* back after Temporal has answered: the row says PAUSED only of a         *)
(* schedule that is (pauseProjectSync, resumeProjectSync).                 *)
THEOREM PausedProjectsRest ==
  ASSUME OneAdmin, "temporal" \notin Faults
  PROVE  Spec \/ SteadySpec => []PausedIsPaused
<1>1. Init \/ Registered => LadderInv /\ PauseHolds
  <2>1. Init \/ Registered => PauseHolds
    <3>1. NoTx.op = "none" BY NoTxOK
    <3> QED BY <3>1 DEF Init, Registered, NothingOpen, PauseHolds, NoJob, NewJob
  <2> QED BY <2>1, LadderInit
<1>2. LadderInv /\ PauseHolds /\ [Next]_vars => (LadderInv /\ PauseHolds)'
  BY LadderStep, PauseStep
<1>3. PauseHolds => PausedIsPaused
  BY DEF PauseHolds, PausedIsPaused
<1> QED BY <1>1, <1>2, <1>3, PTL DEF Spec, SteadySpec

-----------------------------------------------------------------------------
(* What a success will put back.  The one run that may be open is all that *)
(* writes a rung into the row: what its transaction read of the original   *)
(* cadence is still somebody's choice when it commits.                     *)
OneRun == \A r, s \in Runs : r = s
ChosenTx(x) ==
  /\ tx[x].op = "none" => tx[x].pc = "idle"
  /\ tx[x].op = "failure" => x \in Runs /\ tx[x].orig \in chosen
  /\ tx[x].op = "success" => x \in Runs /\ (tx[x].cron # NoCron \/ job.cron \in chosen)
  /\ tx[x].op # "failure" /\ tx[x].cron # NoCron => tx[x].cron \in chosen
ChosenHolds == DefaultCron \in chosen /\ OriginalIsChosen /\ \A x \in Actors : ChosenTx(x)

LEMMA SameChoice ==
  ASSUME ChosenHolds, chosen \subseteq chosen',
         job'.cron = job.cron, job'.level = job.level, job'.orig = job.orig,
         \A x \in Actors : tx'[x] = tx[x] \/ ChosenTx(x)'
  PROVE  ChosenHolds'
BY DEF ChosenHolds, OriginalIsChosen, ChosenTx, JobExists

LEMMA CommitChoice ==
  ASSUME OneRun, LadderInv, ChosenHolds, NEW x \in Actors, CommitRow(x)
  PROVE  ChosenHolds'
<1> DEFINE t == tx[x]
           row == WithCadence(job, t)
<1>0. TypeOK /\ t \in Transaction /\ job \in JobRow BY DEF LadderInv, TypeOK
<1>1. /\ t.pc = "commit" /\ job' = RowAfter(t) /\ chosen' = chosen
      /\ tx'[x] = NoTx /\ \A y \in Actors : y # x => tx'[y] = tx[y]
      /\ t.op # "none"
  BY <1>0, EndsIs DEF CommitRow, ChosenHolds, ChosenTx
<1>2. /\ row.cron = IF t.cron # NoCron THEN t.cron ELSE job.cron
      /\ row.level = job.level /\ row.orig = job.orig /\ row \in JobRow
  BY <1>0 DEF WithCadence, JobRow, Transaction
<1>3. ChosenTx(x)
  BY DEF ChosenHolds
<1>4. t.op \notin {"none", "register"} => JobExists
  BY DEF LadderInv, TxHasJob
<1>5. job.level > 0 <=> job.orig # NoCron
  BY DEF LadderInv, BackoffBookkeeping
<1>6. NoTx.op = "none" /\ NoTx.pc = "idle" /\ NoTx.cron = NoCron
  BY TxIs DEF NoTx
<1> HIDE DEF row
<1>7. CASE t.op = "failure"
  <2>1. job' = SlowedDown(row, t) BY <1>1, <1>7 DEF RowAfter, row
  <2>2. job'.level = t.level /\ job'.orig = t.orig BY <1>2, <2>1 DEF SlowedDown, JobRow
  <2>3. t.level > 0 /\ t.orig \in chosen /\ x \in Runs BY <1>3, <1>7 DEF LadderInv, TxCarriesRung, ChosenTx
  <2>4. OriginalIsChosen' BY <1>0, <1>1, <2>2, <2>3 DEF OriginalIsChosen, Transaction
  <2>5. ASSUME NEW y \in Actors PROVE ChosenTx(y)'
    <3>1. CASE y = x BY <1>1, <1>6, <3>1 DEF ChosenTx
    <3>2. CASE y # x
      <4>1. y \notin Runs BY <2>3, <3>2 DEF OneRun
      <4>2. ChosenTx(y) BY DEF ChosenHolds
      <4> QED BY <1>1, <3>2, <4>1, <4>2 DEF ChosenTx
    <3> QED BY <3>1, <3>2
  <2> QED BY <1>1, <2>4, <2>5 DEF ChosenHolds
<1>8. CASE t.op # "failure"
  <2>1. \/ job' = NewJob
        \/ job'.cron = row.cron /\ job'.level = job.level /\ job'.orig = job.orig
        \/ job'.cron = row.cron /\ job'.level = 0 /\ t.op = "success"
    <3>1. CASE t.op = "register" BY <1>1, <3>1 DEF RowAfter
    <3>2. CASE t.op \in {"pause", "resume", "start", "reschedule"}
      <4>1. job' = [row EXCEPT !.status = "PAUSED"] \/ job' = [row EXCEPT !.status = "ACTIVE"] \/ job' = row
        BY <1>1, <3>2 DEF RowAfter, row
      <4> QED BY <1>2, <4>1 DEF JobRow
    <3>3. CASE t.op = "success"
      <4>1. job' = Restored(row) BY <1>1, <3>3 DEF RowAfter, row
      <4> QED BY <1>2, <3>3, <4>1 DEF Restored, JobRow
    <3> QED BY <1>0, <1>1, <1>8, <3>1, <3>2, <3>3 DEF Transaction
  <2>2. NewJob.cron = DefaultCron /\ NewJob.level = 0 BY DEF NewJob
  <2>3. t.cron # NoCron => t.cron \in chosen BY <1>3, <1>8 DEF ChosenTx
  <2>4. OriginalIsChosen'
    <3>1. CASE job' = NewJob BY <1>1, <2>2, <3>1 DEF OriginalIsChosen, ChosenHolds
    <3>2. CASE job'.cron = row.cron /\ job'.level = job.level /\ job'.orig = job.orig
      <4>1. JobExists' => JobExists \/ t.cron # NoCron BY <1>2, <3>2 DEF JobExists
      <4>2. ~JobExists => job' = NewJob \/ t.op = "register" BY <1>1, <1>4
      <4>3. t.op = "register" => job' = NewJob BY <1>1 DEF RowAfter
      <4>4. CASE JobExists BY <1>1, <1>2, <2>3, <3>2, <4>4 DEF OriginalIsChosen, ChosenHolds
      <4> QED BY <1>1, <2>2, <4>2, <4>3, <4>4 DEF OriginalIsChosen, ChosenHolds
    <3>3. CASE job'.cron = row.cron /\ job'.level = 0 /\ t.op = "success"
      BY <1>1, <1>2, <1>3, <2>3, <3>3 DEF OriginalIsChosen, ChosenTx
    <3> QED BY <2>1, <3>1, <3>2, <3>3
  <2>5. ASSUME NEW y \in Actors PROVE ChosenTx(y)'
    <3>1. CASE y = x BY <1>1, <1>6, <3>1 DEF ChosenTx
    <3>2. CASE y # x
      <4>1. ChosenTx(y) BY DEF ChosenHolds
      <4>2. job'.cron \in chosen \/ job'.cron = job.cron
        BY <1>2, <2>1, <2>2, <2>3 DEF ChosenHolds
      <4> QED BY <1>1, <3>2, <4>1, <4>2 DEF ChosenTx
    <3> QED BY <3>1, <3>2
  <2> QED BY <1>1, <2>4, <2>5 DEF ChosenHolds
<1> QED BY <1>7, <1>8

LEMMA ChosenStep ==
  ASSUME OneRun, LadderInv, ChosenHolds, [Next]_vars
  PROVE  ChosenHolds'
<1>0. TypeOK /\ job \in JobRow BY DEF LadderInv, TypeOK
<1>1. ASSUME NEW x \in Actors, RollbackRow(x) PROVE ChosenHolds'
  <2>1. NoTx.op = "none" /\ NoTx.pc = "idle" /\ NoTx.cron = NoCron BY TxIs DEF NoTx
  <2>2. job' = job /\ chosen' = chosen /\ tx'[x] = NoTx /\ \A y \in Actors : y # x => tx'[y] = tx[y]
    BY <1>0, <1>1, EndsIs DEF RollbackRow
  <2>3. ChosenTx(x)' BY <2>1, <2>2 DEF ChosenTx
  <2> QED BY <2>2, <2>3, SameChoice
<1>2. ASSUME NEW x \in Actors, NEW t, Begin(x, t), job' = job, chosen \subseteq chosen',
             t.op \notin {"none", "failure", "success"}, t.cron # NoCron => t.cron \in chosen'
      PROVE  ChosenHolds'
  <2>1. tx'[x] = t /\ \A y \in Actors : y # x => tx'[y] = tx[y] BY <1>0, <1>2, BeginIs
  <2>2. ChosenTx(x)' BY <1>2, <2>1 DEF ChosenTx
  <2> QED BY <1>2, <2>1, <2>2, SameChoice
<1>3. ASSUME NEW x \in Actors, UpdateSchedule(x) \/ WriteRow(x) PROVE ChosenHolds'
  <2>1. /\ tx'[x].op = tx[x].op /\ tx'[x].cron = tx[x].cron /\ tx'[x].orig = tx[x].orig
        /\ \A y \in Actors : y # x => tx'[y] = tx[y]
        /\ job' = job /\ chosen' = chosen /\ tx[x].pc # "idle"
    BY <1>0, <1>3, StepsOn
  <2>2. ChosenTx(x)' BY <2>1 DEF ChosenTx, ChosenHolds
  <2> QED BY <2>1, <2>2, SameChoice
<1>4. ASSUME NEW r \in Runs, RunStep(r) PROVE ChosenHolds'
  <2>1. CASE FailureCommit(r) \/ SuccessCommit(r)
    BY <2>1, CommitChoice DEF FailureCommit, SuccessCommit
  <2>2. CASE FailureRollback(r) \/ SuccessRollback(r)
    BY <2>2, <1>1 DEF FailureRollback, SuccessRollback
  <2>3. CASE RecordSyncFailure(r)
    <3> DEFINE original == Original(job)
    <3>1. PICK t : Begin(r, t) /\ t.op = "failure" /\ t.orig = original
      BY <2>3 DEF RecordSyncFailure
    <3>2. JobExists BY <2>3 DEF RecordSyncFailure, AtStep, LadderInv, RunHasJob
    <3>3. original \in chosen
      BY <1>0, <3>2 DEF Original, ChosenHolds, OriginalIsChosen, LadderInv, BackoffBookkeeping, JobRow
    <3> HIDE DEF original
    <3>4. tx'[r] = t /\ \A y \in Actors : y # r => tx'[y] = tx[y] BY <1>0, <3>1, BeginIs
    <3>5. job' = job /\ chosen' = chosen BY <2>3 DEF RecordSyncFailure, history
    <3>6. ChosenTx(r)' BY <3>1, <3>3, <3>4, <3>5 DEF ChosenTx
    <3> QED BY <3>4, <3>5, <3>6, SameChoice
  <2>4. CASE RecordSyncSuccess(r)
    <3>1. job' = job /\ chosen' = chosen BY <2>4 DEF RecordSyncSuccess, history
    <3>2. CASE tx' = tx BY <3>1, <3>2, SameChoice
    <3>3. CASE ~NothingToRestore(job)
      <4>1. job.level > 0 /\ job.orig # NoCron
        BY <1>0, <3>3 DEF NothingToRestore, LadderInv, BackoffBookkeeping, JobRow
      <4>2. JobExists BY <2>4 DEF RecordSyncSuccess, LadderInv, RunHasJob
      <4>3. job.orig \in chosen BY <4>1, <4>2, <1>0 DEF ChosenHolds, OriginalIsChosen, JobRow
      <4>4. PICK t : Begin(r, t) /\ t.op = "success" /\ (IF job.orig # job.cron THEN t.cron = job.orig ELSE t.cron = NoCron)
        <5>1. CASE job.orig # job.cron BY <2>4, <3>3, <5>1, TxIs DEF RecordSyncSuccess
        <5>2. CASE job.orig = job.cron BY <2>4, <3>3, <5>2, TxIs DEF RecordSyncSuccess
        <5> QED BY <5>1, <5>2
      <4>5. tx'[r] = t /\ \A y \in Actors : y # r => tx'[y] = tx[y] BY <1>0, <4>4, BeginIs
      <4>6. ChosenTx(r)' BY <3>1, <4>1, <4>3, <4>4, <4>5 DEF ChosenTx
      <4> QED BY <3>1, <4>5, <4>6, SameChoice
    <3> QED BY <2>4, <3>2, <3>3 DEF RecordSyncSuccess
  <2>5. CASE SyncIssuesBatch(r) \/ RequestRefreshes(r)
    BY <2>5, SameChoice DEF SyncIssuesBatch, RequestRefreshes, history
  <2>6. CASE PrepareFails(r) \/ FinalizeProjectSync(r) \/ FailProjectSync(r) \/ \E n \in 0..MaxPages : Prepare(r, n)
    <3>1. job'.cron = job.cron /\ job'.level = job.level /\ job'.orig = job.orig
      BY <1>0, <2>6 DEF Prepare, PrepareFails, PrepareWrites, FinalizeProjectSync, FailProjectSync, JobRow
    <3> QED BY <2>6, <3>1, SameChoice DEF Prepare, PrepareFails, FinalizeProjectSync, FailProjectSync, history
  <2> QED BY <1>4, <2>1, <2>2, <2>3, <2>4, <2>5, <2>6 DEF RunStep
<1>5. ASSUME NEW a \in Admins, AdminStep(a) PROVE ChosenHolds'
  <2>1. ASSUME NEW r \in Runs, RegisterJiraProject(a, r) PROVE ChosenHolds'
    <3>1. DefaultCron \in chosen BY DEF ChosenHolds
    <3> QED BY <1>2, <2>1, <3>1, TxIs DEF RegisterJiraProject, history
  <2>2. ASSUME NEW r \in Runs, TriggerProjectSync(a, r) PROVE ChosenHolds'
    BY <2>2, SameChoice DEF TriggerProjectSync, history
  <2>3. ASSUME NEW op \in {"pause", "resume", "start"}, SetPaused(a, op) PROVE ChosenHolds'
    BY <1>2, <2>3, TxIs DEF SetPaused, history
  <2>4. ASSUME NEW c \in AdminCrons, RescheduleProjectSync(a, c) PROVE ChosenHolds'
    <3>1. /\ Begin(a, Tx("reschedule", "temporal", c)) /\ job' = job /\ chosen' = chosen \cup {c}
      BY <2>4 DEF RescheduleProjectSync
    <3> QED BY <1>2, <3>1, TxIs
  <2>5. ASSUME NEW r \in Runs, WriteRowAndTrigger(a, r) PROVE ChosenHolds'
    BY <1>3, <2>5 DEF WriteRowAndTrigger
  <2>6. CASE AdminCommit(a) BY <2>6, CommitChoice DEF AdminCommit
  <2>7. CASE AdminRollback(a) BY <2>7, <1>1 DEF AdminRollback
  <2> QED BY <1>5, <2>1, <2>2, <2>3, <2>4, <2>5, <2>6, <2>7
      DEF AdminStep, PauseProjectSync, ResumeProjectSync, StartProjectSync
<1>6. ASSUME NEW x \in Actors, TxStep(x) PROVE ChosenHolds'
  BY <1>3, <1>6 DEF TxStep, WriteRowOnly
<1>7. CASE UNCHANGED <<job, tx, chosen>> BY <1>7, SameChoice
<1>8. ASSUME NEW r \in Runs, ScheduledStart(r) PROVE ChosenHolds'
  BY <1>8, SameChoice DEF ScheduledStart, history
<1> QED BY <1>4, <1>5, <1>6, <1>7, <1>8 DEF Next, JiraBreaks, JiraRecovers, vars, history

(* OriginalIsChosen, for one run at a time and any number of               *)
(* administrators: what a success puts back was configured by somebody     *)
(* (backoffOriginalCron). With a second run it is not: lostOriginal.       *)
THEOREM OriginalsAreChosen ==
  ASSUME OneRun
  PROVE  Spec \/ SteadySpec => []OriginalIsChosen
<1>1. Init \/ Registered => LadderInv /\ ChosenHolds
  <2> SUFFICES ASSUME Init \/ Registered PROVE ChosenHolds
    BY LadderInit
  <2>1. job.level = 0 /\ (JobExists => job.cron = DefaultCron) /\ chosen = {DefaultCron}
    BY DEF Init, Registered, NothingOpen, NoJob, NewJob, JobExists
  <2>2. \A x \in Actors : tx[x].op = "none" /\ tx[x].pc = "idle" /\ tx[x].cron = NoCron
    BY TxIs DEF Init, Registered, NothingOpen, NoTx
  <2> QED BY <2>1, <2>2 DEF ChosenHolds, OriginalIsChosen, ChosenTx
<1>2. LadderInv /\ ChosenHolds /\ [Next]_vars => (LadderInv /\ ChosenHolds)'
  BY LadderStep, ChosenStep
<1>3. ChosenHolds => OriginalIsChosen
  BY DEF ChosenHolds
<1> QED BY <1>1, <1>2, <1>3, PTL DEF Spec, SteadySpec

-----------------------------------------------------------------------------
(* The agreement: the row tells the cadence of the Temporal schedule and a *)
(* next run of that cadence, for any number of overlapping runs and of     *)
(* administrators, any ladder and every fault.                             *)

(* What the agreement rests on:                                            *)
(*  - a transaction about to update the schedule has a cadence for it, and *)
(*    a registration has created the schedule it commits the row of;       *)
(*  - one registration at most is open, of a project without a job;        *)
(*  - of two changes that are under way each one is known to be contested; *)
(*  - one that is not finds its cadence in the schedule;                   *)
(*  - who is about to commit holds the row, and the next run it has read   *)
(*    is of the schedule's cadence, unless that was changed meanwhile.     *)
TxShape ==
  \A x \in Actors :
    /\ tx[x].op = "none" => tx[x].cron = NoCron /\ tx[x].pc = "idle"
    /\ tx[x].op = "register" => /\ tx[x].cron = DefaultCron /\ tx[x].pc = "commit"
                                /\ schedule.state # "absent"
    /\ tx[x].pc = "temporal" => tx[x].cron # NoCron
ChangesMeet ==
  \A x, y \in Actors : x # y /\ Rescheduling(x) /\ Rescheduling(y) => x \in contested
SoleChange ==
  \A x \in Actors : Rescheduling(x) /\ x \notin contested => schedule.cron = tx[x].cron
SoleRegister ==
  \A x \in Actors : tx[x].op = "register" =>
    ~JobExists /\ \A y \in Actors : tx[y].op = "register" => y = x
AboutToCommit(x) == tx[x].pc = "commit" /\ tx[x].op # "register"
OtherChange(x) == \E y \in Actors : y # x /\ Rescheduling(y)
NextRead(x) ==
  /\ lock = x
  /\ tx[x].cron # NoCron /\ x \notin contested => tx[x].next = schedule.cron
  /\ tx[x].cron = NoCron /\ tx[x].next # NoCron => tx[x].next = schedule.cron \/ drift \/ OtherChange(x)
NextIsRead == \A x \in Actors : AboutToCommit(x) => NextRead(x)

Agreement == TxShape /\ SoleRegister /\ ChangesMeet /\ SoleChange /\ NextIsRead /\ CadenceAgrees
AgreementInv == LadderInv /\ Agreement

LEMMA AgreementInit == Init \/ Registered => AgreementInv
<1> SUFFICES ASSUME Init \/ Registered PROVE AgreementInv
  OBVIOUS
<1>1. LadderInv
  BY LadderInit
<1>2. \A x \in Actors : tx[x] = NoTx
  BY DEF Init, Registered, NothingOpen
<1>3. \A x \in Actors : tx[x].op = "none" /\ tx[x].pc = "idle" /\ tx[x].cron = NoCron
  BY <1>2 DEF NoTx, Tx
<1>4. JobExists => job.cron = schedule.cron /\ job.nextRun = schedule.cron
  BY DEF Init, Registered, NoJob, NewJob, NewSchedule, JobExists
<1>5. TxShape /\ SoleRegister /\ NextIsRead
  BY <1>3 DEF TxShape, SoleRegister, NextIsRead, AboutToCommit
<1> QED BY <1>1, <1>3, <1>4, <1>5
        DEF AgreementInv, Agreement, ChangesMeet, SoleChange, CadenceAgrees, Rescheduling

(* A step that leaves the transactions, the cadences and the histories     *)
(* alone.                                                                  *)
LEMMA AgreementFrame ==
  ASSUME Agreement, UNCHANGED <<tx, lock, contested, drift>>,
         job'.cron = job.cron, job'.nextRun = job.nextRun, schedule'.cron = schedule.cron,
         schedule'.state = "absent" => schedule.state = "absent"
  PROVE  Agreement'
<1>1. (TxShape /\ SoleRegister)'
  BY DEF Agreement, TxShape, SoleRegister, JobExists
<1>2. (ChangesMeet /\ SoleChange /\ CadenceAgrees)'
  BY DEF Agreement, ChangesMeet, SoleChange, CadenceAgrees, Rescheduling, JobExists
<1>3. NextIsRead'
  BY DEF Agreement, NextIsRead, NextRead, AboutToCommit, OtherChange, Rescheduling
<1> QED BY <1>1, <1>2, <1>3 DEF Agreement

(* A transaction opens: it has not called Temporal yet.                    *)
LEMMA OpensKeeps ==
  ASSUME AgreementInv, NEW x \in Actors, NEW t, Begin(x, t),
         tx[x].op = "none", t.op \notin {"none", "register"},
         t.pc # "commit", t.pc = "temporal" \/ t.cron = NoCron,
         t.pc = "temporal" => t.cron # NoCron,
         UNCHANGED <<job, lock, contested, drift>>, schedule'.cron = schedule.cron,
         schedule'.state = "absent" => schedule.state = "absent"
  PROVE  Agreement'
<1> USE DEF AgreementInv, Agreement
<1>1. \A y \in Actors : tx'[y] = IF y = x THEN t ELSE tx[y]
  BY BeginIs DEF LadderInv
<1>2. \A y \in Actors : Rescheduling(y)' <=> Rescheduling(y)
  BY <1>1 DEF Rescheduling, TxShape
<1>3. \A y \in Actors : Rescheduling(y) => tx'[y] = tx[y]
  BY <1>1 DEF Rescheduling, TxShape
<1>4. TxShape' /\ SoleRegister'
  BY <1>1 DEF TxShape, SoleRegister, JobExists
<1>5. ChangesMeet' /\ SoleChange' /\ CadenceAgrees'
  BY <1>2, <1>3 DEF ChangesMeet, SoleChange, CadenceAgrees, JobExists
<1>6. \A y \in Actors : AboutToCommit(y)' => AboutToCommit(y) /\ tx'[y] = tx[y] /\ (OtherChange(y) => OtherChange(y)')
  BY <1>1, <1>2 DEF AboutToCommit, OtherChange
<1>7. NextIsRead'
  BY <1>6 DEF NextIsRead, NextRead
<1> QED BY <1>4, <1>5, <1>7

(* What the end of a transaction leaves open.                              *)
LEMMA EndsLeaves ==
  ASSUME AgreementInv, NEW x \in Actors, Ends(x)
  PROVE  /\ \A y \in Actors : y # x => tx'[y] = tx[y]
         /\ tx'[x] = NoTx /\ ~Rescheduling(x)'
         /\ \A y \in Actors : y # x => (Rescheduling(y)' <=> Rescheduling(y))
         /\ contested' = contested \ {x}
<1>1. Begin(x, NoTx)
  BY DEF Ends, Begin
<1>2. \A y \in Actors : tx'[y] = IF y = x THEN NoTx ELSE tx[y]
  BY <1>1, BeginIs DEF AgreementInv, LadderInv
<1>3. NoTx.cron = NoCron
  BY DEF NoTx, Tx
<1> QED BY <1>2, <1>3 DEF Ends, Rescheduling

LEMMA EndsKeeps ==
  ASSUME AgreementInv, NEW x \in Actors, Ends(x), schedule' = schedule
  PROVE  TxShape' /\ ChangesMeet' /\ SoleChange'
<1>1. NoTx.op = "none" /\ NoTx.cron = NoCron /\ NoTx.pc = "idle"
  BY DEF NoTx, Tx
<1>2. TxShape'
  BY <1>1, EndsLeaves DEF AgreementInv, Agreement, TxShape
<1>3. ChangesMeet' /\ SoleChange'
  BY EndsLeaves DEF AgreementInv, Agreement, ChangesMeet, SoleChange
<1> QED BY <1>2, <1>3

(* The cadence that a commit leaves in the row is the transaction's, or    *)
(* the row's if the transaction sets none.                                 *)
LEMMA CommittedCron ==
  ASSUME AgreementInv, NEW x \in Actors, CommitRow(x)
  PROVE  job'.cron = IF tx[x].cron # NoCron THEN tx[x].cron ELSE job.cron
<1> DEFINE t == tx[x]
<1> DEFINE row == WithCadence(job, t)
<1>0. t \in Transaction /\ job \in JobRow
  BY DEF AgreementInv, LadderInv, TypeOK
<1>1. /\ row.cron = IF t.cron # NoCron THEN t.cron ELSE job.cron
      /\ row \in JobRow
  BY <1>0 DEF WithCadence, JobRow, Transaction
<1>2. job' = RowAfter(t)
  BY DEF CommitRow
<1>3. CASE t.op = "register"
  <2>1. job' = NewJob
    BY <1>2, <1>3 DEF RowAfter
  <2>2. t.cron = DefaultCron /\ DefaultCron # NoCron
    BY <1>3, CadenceAssumption DEF AgreementInv, Agreement, TxShape, Cron
  <2> QED BY <2>1, <2>2 DEF NewJob
<1>4. CASE t.op # "register"
  <2> HIDE DEF row
  <2>1. \/ job' = [row EXCEPT !.status = "PAUSED"] \/ job' = [row EXCEPT !.status = "ACTIVE"]
        \/ job' = row \/ job' = SlowedDown(row, t) \/ job' = Restored(row)
    BY <1>0, <1>2, <1>4 DEF RowAfter, row, Transaction
  <2>2. job'.cron = row.cron
    BY <1>1, <2>1 DEF JobRow, SlowedDown, Restored
  <2> QED BY <1>1, <2>2
<1> QED BY <1>3, <1>4

(* And the next run is the one the transaction has read, if it has.        *)
LEMMA CommittedNext ==
  ASSUME AgreementInv, NEW x \in Actors, CommitRow(x)
  PROVE  job'.nextRun = CASE tx[x].op = "register" -> DefaultCron
                          [] tx[x].op # "register" /\ tx[x].next # NoCron -> tx[x].next
                          [] OTHER -> job.nextRun
<1> DEFINE t == tx[x]
<1> DEFINE row == WithCadence(job, t)
<1>0. t \in Transaction /\ job \in JobRow
  BY DEF AgreementInv, LadderInv, TypeOK
<1>1. /\ row.nextRun = IF t.next # NoCron THEN t.next ELSE job.nextRun
      /\ row \in JobRow
  BY <1>0 DEF WithCadence, JobRow, Transaction
<1>2. job' = RowAfter(t)
  BY DEF CommitRow
<1>3. CASE t.op = "register"
  BY <1>2, <1>3 DEF RowAfter, NewJob
<1>4. CASE t.op # "register"
  <2> HIDE DEF row
  <2>1. \/ job' = [row EXCEPT !.status = "PAUSED"] \/ job' = [row EXCEPT !.status = "ACTIVE"]
        \/ job' = row \/ job' = SlowedDown(row, t) \/ job' = Restored(row)
    BY <1>0, <1>2, <1>4 DEF RowAfter, row, Transaction
  <2>2. job'.nextRun = row.nextRun
    BY <1>1, <2>1 DEF JobRow, SlowedDown, Restored
  <2> QED BY <1>1, <1>4, <2>2
<1> QED BY <1>3, <1>4

(* One registration at most is open after a commit: the project has a job  *)
(* after that of a registration, and while one is open no other operation  *)
(* is.                                                                     *)
LEMMA CommitKeepsRegister ==
  ASSUME AgreementInv, NEW x \in Actors, CommitRow(x)
  PROVE  SoleRegister'
<1> USE DEF AgreementInv, Agreement
<1>1. \A y \in Actors : tx'[y].op = "register" => y # x /\ tx[y].op = "register"
  BY EndsLeaves DEF CommitRow, NoTx, Tx
<1>2. ASSUME NEW y \in Actors, tx'[y].op = "register"
      PROVE  ~JobExists' /\ \A z \in Actors : tx'[z].op = "register" => z = y
  <2>1. y # x /\ tx[y].op = "register" /\ ~JobExists
    BY <1>1, <1>2 DEF SoleRegister
  <2>2. tx[x].op # "register"
    BY <2>1 DEF SoleRegister
  <2>3. tx[x].op = "none"
    BY <2>1, <2>2 DEF LadderInv, TxHasJob
  <2> QED BY <2>3 DEF TxShape, CommitRow
<1> QED BY <1>2 DEF SoleRegister

(* Whoever else is about to commit would hold the row as well.             *)
LEMMA CommitKeepsNext ==
  ASSUME AgreementInv, NEW x \in Actors, CommitRow(x), schedule' = schedule
  PROVE  NextIsRead'
<1> USE DEF AgreementInv, Agreement
<1> SUFFICES ASSUME NEW y \in Actors, AboutToCommit(y)' PROVE FALSE
  BY DEF NextIsRead
<1>1. y # x /\ tx'[y] = tx[y] /\ AboutToCommit(y)
  BY EndsLeaves DEF CommitRow, AboutToCommit, NoTx, Tx
<1>2. tx[x].op = "register"
  BY <1>1 DEF NextIsRead, NextRead, AboutToCommit, CommitRow
<1>3. ~JobExists
  BY <1>2 DEF SoleRegister
<1>4. tx[y].op = "none"
  BY <1>1, <1>3 DEF LadderInv, TxHasJob, AboutToCommit
<1> QED BY <1>1, <1>4 DEF TxShape, AboutToCommit

(* A commit: the sole change leaves its cadence in both, a contested one   *)
(* says so, and one that sets no cadence changes nothing.                  *)
LEMMA CommitAgrees ==
  ASSUME AgreementInv, NEW x \in Actors, CommitRow(x), schedule' = schedule
  PROVE  Agreement'
<1> USE DEF AgreementInv, Agreement
<1>1. TxShape' /\ SoleRegister' /\ ChangesMeet' /\ SoleChange' /\ NextIsRead'
  BY EndsKeeps, CommitKeepsRegister, CommitKeepsNext DEF CommitRow
<1>2. /\ \A y \in Actors : y # x => (Rescheduling(y)' <=> Rescheduling(y))
  BY EndsLeaves DEF CommitRow
<1>3. /\ drift' <=> x \in contested \/ (drift /\ ~Rescheduling(x))
      /\ tx[x].pc = "commit"
  BY DEF CommitRow
<1>4. CASE x \in contested
  <2>1. drift'
    BY <1>3, <1>4
  <2> QED BY <1>1, <2>1 DEF CadenceAgrees
<1>5. CASE Rescheduling(x) /\ x \notin contested
  <2>1. schedule.cron = tx[x].cron /\ tx[x].cron # NoCron
    BY <1>5 DEF SoleChange, Rescheduling
  <2>2. job'.nextRun = schedule.cron
    <3>1. CASE tx[x].op = "register"
      BY <2>1, <3>1, CommittedNext DEF TxShape
    <3>2. CASE tx[x].op # "register"
      <4>1. tx[x].next = schedule.cron
        BY <1>3, <1>5, <2>1, <3>2 DEF NextIsRead, NextRead, AboutToCommit
      <4> QED BY <2>1, <3>2, <4>1, CommittedNext
    <3> QED BY <3>1, <3>2
  <2> QED BY <1>1, <2>1, <2>2, CommittedCron DEF CadenceAgrees
<1>6. CASE ~Rescheduling(x) /\ x \notin contested
  <2>1. tx[x].cron = NoCron
    BY <1>3, <1>6 DEF Rescheduling
  <2>2. job'.cron = job.cron
    BY <2>1, CommittedCron
  <2>3. drift' <=> drift
    BY <1>3, <1>6
  <2>4. tx[x].op # "register"
    BY <2>1, CadenceAssumption DEF TxShape, Cron
  <2>5. job'.nextRun \in {job.nextRun, schedule.cron} \/ drift \/ OtherChange(x)
    BY <1>3, <2>1, <2>4, CommittedNext DEF NextIsRead, NextRead, AboutToCommit
  <2>6. CadenceAgrees'
    <3> SUFFICES ASSUME JobExists', ~drift', \A y \in Actors : ~Rescheduling(y)'
                 PROVE  job'.cron = schedule'.cron /\ job'.nextRun = schedule'.cron
      BY DEF CadenceAgrees
    <3>1. \A y \in Actors : ~Rescheduling(y)
      BY <1>2, <1>6
    <3>2. JobExists /\ ~drift /\ ~OtherChange(x)
      BY <2>2, <2>3, <3>1 DEF JobExists, OtherChange
    <3> QED BY <2>2, <2>5, <3>1, <3>2 DEF CadenceAgrees
  <2> QED BY <1>1, <2>6
<1> QED BY <1>4, <1>5, <1>6

(* A rollback of a change is a change cut short.                           *)
LEMMA RollbackAgrees ==
  ASSUME AgreementInv, NEW x \in Actors, RollbackRow(x), schedule' = schedule
  PROVE  Agreement'
<1> USE DEF AgreementInv, Agreement
<1>1. TxShape' /\ ChangesMeet' /\ SoleChange'
  BY EndsKeeps DEF RollbackRow
<1>0. \A y \in Actors : tx'[y].op # "none" => y # x /\ tx'[y] = tx[y]
  BY EndsLeaves DEF RollbackRow, NoTx, Tx
<1>2. \A y \in Actors : y # x => (Rescheduling(y)' <=> Rescheduling(y))
  BY EndsLeaves DEF RollbackRow
<1>3. drift' = (drift \/ Rescheduling(x)) /\ job' = job
  BY DEF RollbackRow
<1>4. CadenceAgrees'
  BY <1>2, <1>3 DEF CadenceAgrees, JobExists
<1>5. SoleRegister'
  BY <1>0, <1>3 DEF SoleRegister, JobExists
<1>6. NextIsRead'
  <2> SUFFICES ASSUME NEW y \in Actors, AboutToCommit(y)' PROVE NextRead(y)'
    BY DEF NextIsRead
  <2>1. y # x /\ tx'[y] = tx[y] /\ AboutToCommit(y)
    BY EndsLeaves DEF RollbackRow, AboutToCommit, NoTx, Tx
  <2>2. lock = y /\ NextRead(y)
    BY <2>1 DEF NextIsRead, NextRead
  <2>3. lock' = y /\ (y \in contested' <=> y \in contested)
    BY <2>1, <2>2, EndsLeaves DEF RollbackRow, Ends
  <2>4. OtherChange(y) => OtherChange(y)' \/ drift'
    BY <1>2, <1>3 DEF OtherChange
  <2> QED BY <1>3, <2>1, <2>2, <2>3, <2>4 DEF NextRead
<1> QED BY <1>1, <1>4, <1>5, <1>6

(* A transaction writes its row: only its pc and nextRunAt change.         *)
LEMMA WriteRowAgrees ==
  ASSUME AgreementInv, NEW x \in Actors, WriteRow(x)
  PROVE  Agreement'
<1> USE DEF AgreementInv, Agreement
<1> DEFINE next == IF tx[x].cron # NoCron \/ tx[x].op \in {"resume", "start"}
                   THEN schedule.cron ELSE NoCron
<1> DEFINE t == [tx[x] EXCEPT !.pc = "commit", !.next = next]
<1>0. tx[x] \in Transaction /\ tx[x].pc = "row"
  BY DEF LadderInv, TypeOK, WriteRow
<1>1. t.op = tx[x].op /\ t.cron = tx[x].cron /\ t.pc = "commit"
  BY <1>0 DEF Transaction
<1>9. t.next = IF tx[x].cron # NoCron \/ tx[x].op \in {"resume", "start"} THEN schedule.cron ELSE NoCron
  BY <1>0 DEF Transaction
<1>2. Begin(x, t)
  BY DEF WriteRow
<1> HIDE DEF t
<1>3. \A y \in Actors : tx'[y] = IF y = x THEN t ELSE tx[y]
  BY <1>2, BeginIs DEF LadderInv
<1>4. \A y \in Actors : (Rescheduling(y)' <=> Rescheduling(y)) /\ tx'[y].cron = tx[y].cron
  BY <1>0, <1>1, <1>3 DEF Rescheduling
<1>5. UNCHANGED <<job, schedule, contested, drift>>
  BY DEF WriteRow, history
<1>6. TxShape' /\ SoleRegister'
  BY <1>0, <1>1, <1>3, <1>5 DEF TxShape, SoleRegister, JobExists
<1>7. ChangesMeet' /\ SoleChange' /\ CadenceAgrees'
  BY <1>4, <1>5 DEF ChangesMeet, SoleChange, CadenceAgrees, JobExists
<1>8. NextIsRead'
  <2> SUFFICES ASSUME NEW y \in Actors, AboutToCommit(y)' PROVE NextRead(y)'
    BY DEF NextIsRead
  <2>1. lock = None /\ lock' = x /\ None \notin Actors
    BY CadenceAssumption DEF WriteRow, Actors
  <2>2. y = x
    BY <1>3, <2>1 DEF NextIsRead, NextRead, AboutToCommit
  <2>3. tx'[x].next \in {schedule.cron, NoCron} /\ (tx'[x].cron # NoCron => tx'[x].next = schedule.cron)
    BY <1>0, <1>1, <1>3, <1>9
  <2> QED BY <1>5, <2>1, <2>2, <2>3 DEF NextRead
<1> QED BY <1>6, <1>7, <1>8

(* A change reaches Temporal: from here on it is under way, and whatever   *)
(* was under way is contested.                                             *)
LEMMA UpdateScheduleAgrees ==
  ASSUME AgreementInv, NEW x \in Actors, UpdateSchedule(x)
  PROVE  Agreement'
<1> USE DEF AgreementInv, Agreement
<1> DEFINE t == [tx[x] EXCEPT !.pc = "row"]
<1> DEFINE met == {y \in Actors \ {x} : Rescheduling(y)}
<1>0. tx[x] \in Transaction /\ tx[x].pc = "temporal" /\ schedule \in Schedule
  BY DEF LadderInv, TypeOK, UpdateSchedule
<1>1. t.op = tx[x].op /\ t.cron = tx[x].cron /\ t.pc = "row" /\ t.cron # NoCron
  BY <1>0 DEF Transaction, TxShape
<1>2. Begin(x, t)
  BY DEF UpdateSchedule
<1> HIDE DEF t
<1>3. \A y \in Actors : tx'[y] = IF y = x THEN t ELSE tx[y]
  BY <1>2, BeginIs DEF LadderInv
<1>4. schedule'.cron = t.cron /\ schedule'.state = schedule.state
  BY <1>0, <1>1 DEF UpdateSchedule, Schedule
<1>5. contested' = IF met = {} THEN contested ELSE contested \cup met \cup {x}
  BY DEF UpdateSchedule
<1>6. /\ Rescheduling(x)'
      /\ \A y \in Actors : y # x => (Rescheduling(y)' <=> Rescheduling(y))
  BY <1>1, <1>3 DEF Rescheduling
<1>7. \A y \in Actors : y # x /\ Rescheduling(y) => x \in contested' /\ y \in contested'
  BY <1>5
<1>8. contested \subseteq contested'
  BY <1>5
<1> HIDE DEF met
<1>9. TxShape' /\ SoleRegister'
  BY <1>0, <1>1, <1>3, <1>4 DEF TxShape, SoleRegister, JobExists, UpdateSchedule
<1>10. ChangesMeet'
  BY <1>6, <1>7, <1>8 DEF ChangesMeet
<1>11. SoleChange'
  BY <1>3, <1>4, <1>6, <1>7 DEF SoleChange
<1>12. CadenceAgrees'
  BY <1>6 DEF CadenceAgrees
<1>13. NextIsRead'
  <2> SUFFICES ASSUME NEW y \in Actors, AboutToCommit(y)' PROVE NextRead(y)'
    BY DEF NextIsRead
  <2>1. y # x /\ tx'[y] = tx[y] /\ AboutToCommit(y)
    BY <1>1, <1>3 DEF AboutToCommit
  <2>2. lock' = y
    BY <2>1 DEF NextIsRead, NextRead, UpdateSchedule
  <2>3. OtherChange(y)'
    BY <1>6, <2>1 DEF OtherChange
  <2>4. tx[y].cron # NoCron => y \in contested'
    BY <1>7, <2>1 DEF AboutToCommit, Rescheduling
  <2> QED BY <2>1, <2>2, <2>3, <2>4 DEF NextRead
<1> QED BY <1>9, <1>10, <1>11, <1>12, <1>13

(* A registration finds no transaction open: there is neither a job nor a  *)
(* schedule.                                                               *)
LEMMA RegisterAgrees ==
  ASSUME AgreementInv, NEW a \in Admins, NEW r \in Runs, RegisterJiraProject(a, r)
  PROVE  Agreement'
<1> USE DEF AgreementInv, Agreement
<1> DEFINE t == Tx("register", "commit", DefaultCron)
<1>1. t.op = "register" /\ t.pc = "commit" /\ t.cron = DefaultCron
  BY DEF Tx
<1>2. Begin(a, t)
  BY DEF RegisterJiraProject
<1> HIDE DEF t
<1>3. \A y \in Actors : tx'[y] = IF y = a THEN t ELSE tx[y]
  BY <1>2, BeginIs DEF LadderInv
<1>4. \A y \in Actors : ~Rescheduling(y)
  BY DEF RegisterJiraProject, TxShape, LadderInv, TxHasJob, Rescheduling
<1>5. \A y \in Actors : Rescheduling(y)' => y = a
  BY <1>3, <1>4 DEF Rescheduling
<1>6. /\ schedule'.cron = DefaultCron /\ schedule'.state = "running"
      /\ ~JobExists' /\ DefaultCron # NoCron
  BY CadenceAssumption DEF RegisterJiraProject, NewSchedule, JobExists, Cron
<1>7. TxShape'
  BY <1>1, <1>3, <1>6 DEF TxShape
<1>8. ChangesMeet' /\ SoleChange' /\ CadenceAgrees'
  BY <1>1, <1>3, <1>5, <1>6 DEF ChangesMeet, SoleChange, CadenceAgrees
<1>9. SoleRegister'
  <2>1. \A y \in Actors : tx[y].op # "register"
    BY DEF RegisterJiraProject, TxShape
  <2> QED BY <1>3, <1>6, <2>1 DEF SoleRegister
<1>10. NextIsRead'
  <2> SUFFICES ASSUME NEW y \in Actors, AboutToCommit(y)' PROVE FALSE
    BY DEF NextIsRead
  <2>1. y # a /\ AboutToCommit(y)
    BY <1>1, <1>3 DEF AboutToCommit
  <2>2. tx[y].op = "none"
    BY <2>1 DEF AboutToCommit, RegisterJiraProject, LadderInv, TxHasJob
  <2> QED BY <2>1, <2>2 DEF TxShape, AboutToCommit
<1> QED BY <1>7, <1>8, <1>9, <1>10
-----------------------------------------------------------------------------
(* Every step keeps the agreement, action by action.                       *)

LEMMA RunStepAgrees ==
  ASSUME AgreementInv, NEW r \in Runs, RunStep(r)
  PROVE  Agreement'
<1> USE DEF AgreementInv
<1>0. /\ job \in JobRow
      /\ \A s : [job EXCEPT !.status = s].cron = job.cron /\ [job EXCEPT !.status = s].nextRun = job.nextRun
  BY DEF LadderInv, TypeOK, JobRow
<1>1. ASSUME NEW n \in 0..MaxPages, Prepare(r, n) PROVE Agreement'
  BY <1>0, <1>1, AgreementFrame DEF Prepare, PrepareWrites, history
<1>2. CASE PrepareFails(r)
  BY <1>0, <1>2, AgreementFrame DEF PrepareFails, PrepareWrites, history
<1>3. CASE SyncIssuesBatch(r)
  BY <1>3, AgreementFrame DEF SyncIssuesBatch, history
<1>4. CASE RecordSyncFailure(r)
  <2> DEFINE original == Original(job)
  <2> DEFINE level == NextRung(original, job.level)
  <2> DEFINE cron == Rung(original, level)
  <2> DEFINE F(pc, c) == [op |-> "failure", pc |-> pc, cron |-> c, level |-> level,
                          was |-> job.level, orig |-> original, next |-> NoCron]
  <2>1. JobExists
    BY <1>4 DEF RecordSyncFailure, AtStep, LadderInv, RunHasJob
  <2>2. original \in Cron /\ job.level \in Nat
    BY <1>0, <2>1 DEF Original, Cron, NoCron, JobRow, JobExists
  <2>3. level \in Nat /\ level <= TopRung(original)
    BY <2>2, NextRungIsRung DEF Cron
  <2>4. cron # NoCron
    BY <2>2, <2>3, RungIsCron DEF Cron
  <2> HIDE DEF cron
  <2>5. Begin(r, F("temporal", cron)) \/ Begin(r, F("row", NoCron))
    BY <1>4 DEF RecordSyncFailure, cron, Begin
  <2> HIDE DEF level, original
  <2>6. \A pc, c : F(pc, c).op = "failure" /\ F(pc, c).pc = pc /\ F(pc, c).cron = c
    OBVIOUS
  <2>7. /\ tx[r].op = "none" /\ UNCHANGED <<job, lock, contested, drift, schedule>>
    BY <1>4 DEF RecordSyncFailure, AtStep, history
  <2> HIDE DEF F
  <2>8. CASE Begin(r, F("temporal", cron))
    BY <2>4, <2>6, <2>7, <2>8, OpensKeeps
  <2>9. CASE Begin(r, F("row", NoCron))
    BY <2>6, <2>7, <2>9, OpensKeeps
  <2> QED BY <2>5, <2>8, <2>9
<1>5. CASE FailureCommit(r) \/ SuccessCommit(r)
  BY <1>5, CommitAgrees DEF FailureCommit, SuccessCommit
<1>6. CASE FailureRollback(r) \/ SuccessRollback(r)
  BY <1>6, RollbackAgrees DEF FailureRollback, SuccessRollback
<1>7. CASE RecordSyncSuccess(r)
  <2>1. CASE NothingToRestore(job)
    BY <1>7, <2>1, AgreementFrame DEF RecordSyncSuccess, history
  <2>2. CASE ~NothingToRestore(job)
    <3>1. job.orig # NoCron
      BY <1>0, <2>2 DEF NothingToRestore, LadderInv, BackoffBookkeeping, JobRow
    <3>2. \A pc, c : Tx("success", pc, c).op = "success" /\ Tx("success", pc, c).pc = pc
                     /\ Tx("success", pc, c).cron = c
      BY DEF Tx
    <3>3. tx[r].op = "none" /\ UNCHANGED <<job, lock, contested, drift, schedule>>
      BY <1>7 DEF RecordSyncSuccess, history
    <3>4. Begin(r, Tx("success", "temporal", job.orig)) \/ Begin(r, Tx("success", "row", NoCron))
      BY <1>7, <2>2 DEF RecordSyncSuccess, Begin
    <3>5. CASE Begin(r, Tx("success", "temporal", job.orig))
      BY <3>1, <3>2, <3>3, <3>5, OpensKeeps
    <3>6. CASE Begin(r, Tx("success", "row", NoCron))
      BY <3>2, <3>3, <3>6, OpensKeeps
    <3> QED BY <3>4, <3>5, <3>6
  <2> QED BY <2>1, <2>2
<1>8. CASE FinalizeProjectSync(r) \/ FailProjectSync(r)
  BY <1>0, <1>8, AgreementFrame DEF FinalizeProjectSync, FailProjectSync, history
<1>9. CASE RequestRefreshes(r)
  BY <1>9, AgreementFrame DEF RequestRefreshes, history
<1> QED BY <1>1, <1>2, <1>3, <1>4, <1>5, <1>6, <1>7, <1>8, <1>9 DEF RunStep

LEMMA AdminStepAgrees ==
  ASSUME AgreementInv, NEW a \in Admins, AdminStep(a)
  PROVE  Agreement'
<1> USE DEF AgreementInv
<1>0. \A op, pc, c : Tx(op, pc, c).op = op /\ Tx(op, pc, c).pc = pc /\ Tx(op, pc, c).cron = c
  BY DEF Tx
<1>1. ASSUME NEW r \in Runs, RegisterJiraProject(a, r) PROVE Agreement'
  BY <1>1, RegisterAgrees
<1>2. ASSUME NEW r \in Runs, TriggerProjectSync(a, r) PROVE Agreement'
  BY <1>2, AgreementFrame DEF TriggerProjectSync, history
<1>3. ASSUME NEW r \in Runs, WriteRowAndTrigger(a, r) PROVE Agreement'
  BY <1>3, WriteRowAgrees DEF WriteRowAndTrigger
<1>4. ASSUME NEW op \in {"pause", "resume", "start"}, SetPaused(a, op) PROVE Agreement'
  <2>1. schedule'.cron = schedule.cron /\ schedule'.state # "absent"
    BY <1>4 DEF SetPaused, LadderInv, TypeOK, Schedule
  <2>2. Begin(a, Tx(op, "row", NoCron)) /\ tx[a].op = "none" /\ UNCHANGED <<job, lock, contested, drift>>
    BY <1>4 DEF SetPaused, history
  <2> QED BY <1>0, <2>1, <2>2, OpensKeeps
<1>5. ASSUME NEW c \in AdminCrons, RescheduleProjectSync(a, c) PROVE Agreement'
  <2>1. c # NoCron
    BY CadenceAssumption DEF Cron
  <2>2. /\ Begin(a, Tx("reschedule", "temporal", c)) /\ tx[a].op = "none"
        /\ UNCHANGED <<job, lock, contested, drift, schedule>>
    BY <1>5 DEF RescheduleProjectSync
  <2> QED BY <1>0, <2>1, <2>2, OpensKeeps
<1>6. CASE AdminCommit(a)
  BY <1>6, CommitAgrees DEF AdminCommit
<1>7. CASE AdminRollback(a)
  BY <1>7, RollbackAgrees DEF AdminRollback
<1> QED BY <1>1, <1>2, <1>3, <1>4, <1>5, <1>6, <1>7
        DEF AdminStep, PauseProjectSync, ResumeProjectSync, StartProjectSync

LEMMA AgreementStep == AgreementInv /\ [Next]_vars => AgreementInv'
<1> SUFFICES ASSUME AgreementInv, [Next]_vars PROVE AgreementInv'
  OBVIOUS
<1>1. LadderInv'
  BY LadderStep DEF AgreementInv
<1>2. ASSUME NEW r \in Runs, ScheduledStart(r) PROVE Agreement'
  BY <1>2, AgreementFrame DEF ScheduledStart, history, AgreementInv
<1>3. ASSUME NEW x \in Actors, TxStep(x) PROVE Agreement'
  BY <1>3, UpdateScheduleAgrees, WriteRowAgrees DEF TxStep, WriteRowOnly
<1>4. ASSUME JiraBreaks \/ JiraRecovers PROVE Agreement'
  BY <1>4, AgreementFrame DEF JiraBreaks, JiraRecovers, history, AgreementInv
<1>5. ASSUME UNCHANGED vars PROVE Agreement'
  BY <1>5, AgreementFrame DEF vars, AgreementInv
<1>6. Agreement'
  BY <1>2, <1>3, <1>4, <1>5, RunStepAgrees, AdminStepAgrees DEF Next
<1> QED BY <1>1, <1>6 DEF AgreementInv
-----------------------------------------------------------------------------
(* The row tells the schedule's cadence and a next run of it whenever no   *)
(* change of it is under way, unless the last one was cut short by a       *)
(* rollback or contested by another one (rescheduleProjectSync,            *)
(* recordSyncFailure, recordSyncSuccess, updateNextRunFromSchedule and     *)
(* initializeProjectSync).                                                 *)
THEOREM RowAndScheduleAgree == Spec => []CadenceAgrees
<1>1. Init => AgreementInv
  BY AgreementInit
<1>2. AgreementInv => CadenceAgrees
  BY DEF AgreementInv, Agreement
<1> QED BY <1>1, <1>2, AgreementStep, PTL DEF Spec

-----------------------------------------------------------------------------
(* The refinement: SyncCadence implements Backoff for a project whose runs *)
(* do not overlap and whose cadence nobody changes, for any ladder, any    *)
(* number of administrators who pause, resume, start and trigger, and      *)
(* every fault.                                                            *)

(* What makes one step of Backoff of a transaction's several: while it is  *)
(* open nobody else moves the job on the ladder, so that what it read is   *)
(* still so when it commits.                                               *)
OwnJob ==
  /\ JobExists
  /\ job.cron = Rung(DefaultCron, job.level)
  /\ job.orig \in {NoCron, DefaultCron}

SlowsDown(t) ==
  LET level == NextRung(DefaultCron, job.level)
      cron == Rung(DefaultCron, level)
  IN t.orig = DefaultCron /\ t.level = level /\ (t.cron = cron \/ (t.cron = NoCron /\ job.cron = cron))
Restores(t) ==
  job.level > 0 /\ (t.cron = DefaultCron \/ (t.cron = NoCron /\ job.cron = DefaultCron))

Fits(x, t) ==
  /\ t.op \in {"none", "pause", "resume", "start", "failure", "success"}
  /\ t.op = "none" => t.pc = "idle"
  /\ t.op \in {"failure", "success"} => x \in Runs
  /\ t.op \notin {"failure", "success"} => t.cron = NoCron
  /\ t.op = "failure" => SlowsDown(t)
  /\ t.op = "success" => Restores(t)

Fresh == OwnJob /\ \A x \in Actors : Fits(x, tx[x])
FreshInv == AgreementInv /\ Fresh

(* A step keeps Fresh and is one of Backoff, or none.                      *)
Follows == Fresh' /\ [Telemetry!Next]_<<job.cron, job.level, job.orig>>

LEMMA SameLadder ==
  ASSUME NEW original, NEW level
  PROVE  /\ Telemetry!NextRung(original, level) = NextRung(original, level)
         /\ Telemetry!Rung(original, level) = Rung(original, level)
BY DEF Telemetry!NextRung, Telemetry!Rung, Telemetry!TopRung, Telemetry!SkipsUpTo,
       NextRung, Rung, TopRung, SkipsUpTo

LEMMA FreshInit == Registered => FreshInv /\ Telemetry!Init
<1> SUFFICES ASSUME Registered PROVE Fresh /\ Telemetry!Init
  BY AgreementInit DEF FreshInv
<1>1. job.cron = DefaultCron /\ job.level = 0 /\ job.orig = NoCron
  BY DEF Registered, NewJob
<1>2. \A x \in Actors : tx[x].op = "none" /\ tx[x].pc = "idle" /\ tx[x].cron = NoCron
  BY DEF Registered, NothingOpen, NoTx, Tx
<1>3. OwnJob
  BY <1>1, CadenceAssumption DEF OwnJob, JobExists, Rung, Cron
<1>4. Telemetry!Init
  BY <1>1 DEF Telemetry!Init, Telemetry!NoCron, NoCron
<1> QED BY <1>2, <1>3, <1>4 DEF Fresh, Fits

(* A step that does not move the job on the ladder.                        *)
LEMMA Stutters ==
  ASSUME Fresh, job'.cron = job.cron, job'.level = job.level, job'.orig = job.orig,
         \A y \in Actors : tx'[y] = tx[y] \/ Fits(y, tx'[y])
  PROVE  Follows
<1>1. OwnJob'
  BY DEF Fresh, OwnJob, JobExists
<1>2. \A y \in Actors : Fits(y, tx'[y])
  BY DEF Fresh
<1>3. \A y \in Actors : Fits(y, tx[y])'
  BY <1>2 DEF Fits, SlowsDown, Restores
<1> QED BY <1>1, <1>3 DEF Follows, Fresh

LEMMA OpensFollow ==
  ASSUME FreshInv, NEW x \in Actors, NEW t, Begin(x, t), Fits(x, t), job' = job
  PROVE  Follows
<1>1. \A y \in Actors : tx'[y] = IF y = x THEN t ELSE tx[y]
  BY BeginIs DEF FreshInv, AgreementInv, LadderInv
<1> QED BY <1>1, Stutters DEF FreshInv

LEMMA NoTxFits == \A x : Fits(x, NoTx)
BY DEF Fits, NoTx, Tx

LEMMA RollbackFollows ==
  ASSUME FreshInv, NEW x \in Actors, RollbackRow(x)
  PROVE  Follows
<1>1. Begin(x, NoTx) /\ job' = job
  BY DEF RollbackRow, Ends, Begin
<1> QED BY <1>1, NoTxFits, OpensFollow

(* A transaction writes its row or updates the schedule: its data stays.   *)
LEMMA AdvanceFollows ==
  ASSUME FreshInv, NEW x \in Actors, NEW t, Begin(x, t), job' = job,
         tx[x].op # "none",
         t.op = tx[x].op, t.cron = tx[x].cron, t.level = tx[x].level, t.orig = tx[x].orig
  PROVE  Follows
<1>1. Fits(x, t)
  BY DEF FreshInv, Fresh, Fits, SlowsDown, Restores
<1> QED BY <1>1, OpensFollow

LEMMA WriteRowFollows ==
  ASSUME FreshInv, NEW x \in Actors, WriteRow(x)
  PROVE  Follows
<1> DEFINE next == IF tx[x].cron # NoCron \/ tx[x].op \in {"resume", "start"}
                   THEN schedule.cron ELSE NoCron
<1> DEFINE t == [tx[x] EXCEPT !.pc = "commit", !.next = next]
<1>1. tx[x] \in Transaction
  BY DEF FreshInv, AgreementInv, LadderInv, TypeOK
<1>2. t.op = tx[x].op /\ t.cron = tx[x].cron /\ t.level = tx[x].level /\ t.orig = tx[x].orig
  BY <1>1 DEF Transaction
<1>3. Begin(x, t) /\ job' = job
  BY DEF WriteRow
<1>4. tx[x].op # "none"
  BY DEF WriteRow, FreshInv, Fresh, Fits
<1> HIDE DEF t
<1> QED BY <1>2, <1>3, <1>4, AdvanceFollows

LEMMA UpdateScheduleFollows ==
  ASSUME FreshInv, NEW x \in Actors, UpdateSchedule(x)
  PROVE  Follows
<1> DEFINE t == [tx[x] EXCEPT !.pc = "row"]
<1>1. tx[x] \in Transaction
  BY DEF FreshInv, AgreementInv, LadderInv, TypeOK
<1>2. t.op = tx[x].op /\ t.cron = tx[x].cron /\ t.level = tx[x].level /\ t.orig = tx[x].orig
  BY <1>1 DEF Transaction
<1>3. Begin(x, t) /\ job' = job
  BY DEF UpdateSchedule
<1>4. tx[x].op # "none"
  BY DEF UpdateSchedule, FreshInv, Fresh, Fits
<1> HIDE DEF t
<1> QED BY <1>2, <1>3, <1>4, AdvanceFollows

(* What a commit writes of the ladder.                                     *)
LEMMA CommittedLadder ==
  ASSUME FreshInv, NEW x \in Actors, CommitRow(x)
  PROVE  /\ tx[x].op \in {"pause", "resume", "start"} =>
              job'.level = job.level /\ job'.orig = job.orig
         /\ tx[x].op = "failure" => job'.level = tx[x].level /\ job'.orig = tx[x].orig
         /\ tx[x].op = "success" => job'.level = 0 /\ job'.orig = NoCron
<1> DEFINE row == WithCadence(job, tx[x])
<1>0. tx[x] \in Transaction /\ job \in JobRow
  BY DEF FreshInv, AgreementInv, LadderInv, TypeOK
<1>1. row \in JobRow /\ row.level = job.level /\ row.orig = job.orig
  BY <1>0 DEF WithCadence, JobRow, Transaction
<1>2. job' = RowAfter(tx[x])
  BY DEF CommitRow
<1> HIDE DEF row
<1>3. CASE tx[x].op \in {"pause", "resume", "start"}
  BY <1>1, <1>2, <1>3 DEF RowAfter, row, JobRow
<1>4. CASE tx[x].op = "failure"
  BY <1>1, <1>2, <1>4 DEF RowAfter, row, JobRow, SlowedDown
<1>5. CASE tx[x].op = "success"
  BY <1>1, <1>2, <1>5 DEF RowAfter, row, JobRow, Restored
<1> QED BY <1>3, <1>4, <1>5

(* The other transactions of a project whose runs do not overlap are those *)
(* of administrators, who read nothing of the ladder.                      *)
LEMMA OthersFit ==
  ASSUME FreshInv, \A r, s \in Runs : r = s, NEW x \in Runs, Ends(x)
  PROVE  \A y \in Actors : Fits(y, tx[y])'
<1>1. Begin(x, NoTx)
  BY DEF Ends, Begin
<1>2. \A y \in Actors : tx'[y] = IF y = x THEN NoTx ELSE tx[y]
  BY <1>1, BeginIs DEF FreshInv, AgreementInv, LadderInv
<1>3. NoTx.op = "none" /\ NoTx.pc = "idle" /\ NoTx.cron = NoCron
  BY DEF NoTx, Tx
<1> QED BY <1>2, <1>3 DEF FreshInv, Fresh, Fits

LEMMA FailureFollows ==
  ASSUME FreshInv, \A r, s \in Runs : r = s, NEW x \in Runs, CommitRow(x), tx[x].op = "failure"
  PROVE  Follows
<1> DEFINE level == NextRung(DefaultCron, job.level)
<1>1. job'.level = level /\ job'.orig = DefaultCron
  BY CommittedLadder DEF FreshInv, Fresh, Fits, SlowsDown
<1>2. DefaultCron \in Cron /\ job.level \in Nat
  BY CadenceAssumption DEF FreshInv, AgreementInv, LadderInv, TypeOK, JobRow
<1>3. level \in Nat /\ level <= TopRung(DefaultCron)
  BY <1>2, NextRungIsRung DEF Cron
<1>4. Rung(DefaultCron, level) # NoCron
  BY <1>2, <1>3, RungIsCron DEF Cron
<1>5. job'.cron = Rung(DefaultCron, level)
  BY <1>4, CommittedCron DEF FreshInv, Fresh, Fits, SlowsDown
<1> HIDE DEF level
<1>6. OwnJob'
  BY <1>1, <1>4, <1>5 DEF OwnJob, JobExists
<1>7. Telemetry!SlowDown
  BY <1>1, <1>5, SameLadder DEF Telemetry!SlowDown, level
<1> QED BY <1>6, <1>7, OthersFit DEF Follows, Fresh, CommitRow, Telemetry!Next

LEMMA SuccessFollows ==
  ASSUME FreshInv, \A r, s \in Runs : r = s, NEW x \in Runs, CommitRow(x), tx[x].op = "success"
  PROVE  Follows
<1>1. job'.level = 0 /\ job'.orig = NoCron /\ job.level > 0
  BY CommittedLadder DEF FreshInv, Fresh, Fits, Restores
<1>2. DefaultCron # NoCron
  BY CadenceAssumption DEF Cron
<1>3. job'.cron = DefaultCron
  BY <1>2, CommittedCron DEF FreshInv, Fresh, Fits, Restores
<1>4. OwnJob'
  BY <1>1, <1>2, <1>3 DEF OwnJob, JobExists, Rung
<1>5. Telemetry!Restore
  BY <1>1, <1>3 DEF Telemetry!Restore, Telemetry!NoCron, NoCron
<1> QED BY <1>4, <1>5, OthersFit DEF Follows, Fresh, CommitRow, Telemetry!Next

LEMMA AdminCommitFollows ==
  ASSUME FreshInv, NEW a \in Admins, CommitRow(a)
  PROVE  Follows
<1>1. tx[a].op \in {"pause", "resume", "start"} /\ tx[a].cron = NoCron
  BY CadenceAssumption DEF CommitRow, FreshInv, Fresh, Fits
<1>2. job'.level = job.level /\ job'.orig = job.orig
  BY <1>1, CommittedLadder
<1>3. job'.cron = job.cron
  BY <1>1, CommittedCron DEF FreshInv
<1>4. Begin(a, NoTx)
  BY DEF CommitRow, Ends, Begin
<1>5. \A y \in Actors : tx'[y] = IF y = a THEN NoTx ELSE tx[y]
  BY <1>4, BeginIs DEF FreshInv, AgreementInv, LadderInv
<1> QED BY <1>2, <1>3, <1>5, NoTxFits, Stutters DEF FreshInv
-----------------------------------------------------------------------------
LEMMA RunStepFollows ==
  ASSUME FreshInv, \A r, s \in Runs : r = s, NEW r \in Runs, RunStep(r)
  PROVE  Follows
<1>0. job \in JobRow /\ \A s : /\ [job EXCEPT !.status = s].cron = job.cron
                               /\ [job EXCEPT !.status = s].level = job.level
                               /\ [job EXCEPT !.status = s].orig = job.orig
  BY DEF FreshInv, AgreementInv, LadderInv, TypeOK, JobRow
<1>00. Fresh
  BY DEF FreshInv
<1>1. ASSUME NEW n \in 0..MaxPages, Prepare(r, n) PROVE Follows
  BY <1>0, <1>00, <1>1, Stutters DEF Prepare, PrepareWrites
<1>2. CASE PrepareFails(r)
  BY <1>0, <1>00, <1>2, Stutters DEF PrepareFails, PrepareWrites
<1>3. CASE SyncIssuesBatch(r)
  BY <1>00, <1>3, Stutters DEF SyncIssuesBatch
<1>4. CASE RecordSyncFailure(r)
  <2> DEFINE original == Original(job)
  <2> DEFINE level == NextRung(original, job.level)
  <2> DEFINE cron == Rung(original, level)
  <2> DEFINE F(pc, c) == [op |-> "failure", pc |-> pc, cron |-> c, level |-> level,
                          was |-> job.level, orig |-> original, next |-> NoCron]
  <2>1. original = DefaultCron
    <3>1. CASE job.level = 0
      <4>1. job.orig = NoCron
        BY <1>0, <3>1 DEF FreshInv, AgreementInv, LadderInv, BackoffBookkeeping, JobRow
      <4> QED BY <1>00, <3>1, <4>1 DEF Fresh, OwnJob, Original, Rung
    <3>2. CASE job.level # 0
      <4>1. job.orig # NoCron
        BY <1>0, <3>2 DEF FreshInv, AgreementInv, LadderInv, BackoffBookkeeping, JobRow
      <4> QED BY <1>00, <4>1 DEF Fresh, OwnJob, Original
    <3> QED BY <3>1, <3>2
  <2>2. IF cron # job.cron THEN Begin(r, F("temporal", cron)) ELSE Begin(r, F("row", NoCron))
    BY <1>4 DEF RecordSyncFailure, Begin
  <2>3. \A pc, c : /\ F(pc, c).op = "failure" /\ F(pc, c).cron = c
                   /\ F(pc, c).level = level /\ F(pc, c).orig = original
    OBVIOUS
  <2>4. level = NextRung(DefaultCron, job.level) /\ cron = Rung(DefaultCron, level)
    BY <2>1
  <2>5. job' = job
    BY <1>4 DEF RecordSyncFailure
  <2> HIDE DEF F, cron, level, original
  <2>6. /\ Fits(r, F("temporal", cron))
        /\ cron = job.cron => Fits(r, F("row", NoCron))
    BY <2>1, <2>3, <2>4 DEF Fits, SlowsDown
  <2> QED BY <2>2, <2>5, <2>6, OpensFollow
<1>5. CASE FailureCommit(r)
  BY <1>5, FailureFollows DEF FailureCommit
<1>6. CASE FailureRollback(r) \/ SuccessRollback(r)
  BY <1>6, RollbackFollows DEF FailureRollback, SuccessRollback
<1>7. CASE RecordSyncSuccess(r)
  <2>1. CASE NothingToRestore(job)
    BY <1>00, <1>7, <2>1, Stutters DEF RecordSyncSuccess
  <2>2. CASE ~NothingToRestore(job)
    <3>1. job.level > 0 /\ job.orig = DefaultCron
      BY <1>0, <1>00, <2>2 DEF NothingToRestore, Fresh, OwnJob, FreshInv, AgreementInv, LadderInv,
         BackoffBookkeeping, JobRow
    <3>2. \A pc, c : Tx("success", pc, c).op = "success" /\ Tx("success", pc, c).cron = c
      BY DEF Tx
    <3>3. /\ Fits(r, Tx("success", "temporal", job.orig))
          /\ job.orig = job.cron => Fits(r, Tx("success", "row", NoCron))
      BY <3>1, <3>2 DEF Fits, Restores
    <3>4. /\ job' = job
          /\ \/ Begin(r, Tx("success", "temporal", job.orig))
             \/ job.orig = job.cron /\ Begin(r, Tx("success", "row", NoCron))
      BY <1>7, <2>2 DEF RecordSyncSuccess, Begin
    <3> QED BY <3>3, <3>4, OpensFollow
  <2> QED BY <2>1, <2>2
<1>8. CASE SuccessCommit(r)
  BY <1>8, SuccessFollows DEF SuccessCommit
<1>9. CASE FinalizeProjectSync(r) \/ FailProjectSync(r)
  BY <1>0, <1>00, <1>9, Stutters DEF FinalizeProjectSync, FailProjectSync
<1>10. CASE RequestRefreshes(r)
  BY <1>00, <1>10, Stutters DEF RequestRefreshes
<1> QED BY <1>1, <1>2, <1>3, <1>4, <1>5, <1>6, <1>7, <1>8, <1>9, <1>10 DEF RunStep

LEMMA AdminStepFollows ==
  ASSUME FreshInv, AdminCrons = {}, NEW a \in Admins, AdminStep(a)
  PROVE  Follows
<1>0. Fresh
  BY DEF FreshInv
<1>1. ASSUME NEW r \in Runs, RegisterJiraProject(a, r) PROVE Follows
  BY <1>0, <1>1 DEF RegisterJiraProject, Fresh, OwnJob
<1>2. ASSUME NEW r \in Runs, TriggerProjectSync(a, r) PROVE Follows
  BY <1>0, <1>2, Stutters DEF TriggerProjectSync
<1>3. ASSUME NEW r \in Runs, WriteRowAndTrigger(a, r) PROVE Follows
  BY <1>3, WriteRowFollows DEF WriteRowAndTrigger
<1>4. ASSUME NEW op \in {"pause", "resume", "start"}, SetPaused(a, op) PROVE Follows
  <2>1. Fits(a, Tx(op, "row", NoCron))
    BY DEF Fits, Tx
  <2> QED BY <1>4, <2>1, OpensFollow DEF SetPaused
<1>5. CASE AdminCommit(a)
  BY <1>5, AdminCommitFollows DEF AdminCommit
<1>6. CASE AdminRollback(a)
  BY <1>6, RollbackFollows DEF AdminRollback
<1> QED BY <1>1, <1>2, <1>3, <1>4, <1>5, <1>6
        DEF AdminStep, PauseProjectSync, ResumeProjectSync, StartProjectSync

LEMMA NextFollows ==
  ASSUME FreshInv, \A r, s \in Runs : r = s, AdminCrons = {}, [Next]_vars
  PROVE  FreshInv' /\ Follows
<1>0. Fresh
  BY DEF FreshInv
<1>1. ASSUME NEW r \in Runs, ScheduledStart(r) PROVE Follows
  BY <1>0, <1>1, Stutters DEF ScheduledStart
<1>2. ASSUME NEW x \in Actors, TxStep(x) PROVE Follows
  BY <1>2, UpdateScheduleFollows, WriteRowFollows DEF TxStep, WriteRowOnly
<1>3. ASSUME JiraBreaks \/ JiraRecovers \/ UNCHANGED vars PROVE Follows
  BY <1>0, <1>3, Stutters DEF JiraBreaks, JiraRecovers, vars
<1>4. Follows
  BY <1>1, <1>2, <1>3, RunStepFollows, AdminStepFollows DEF Next
<1> QED BY <1>4, AgreementStep DEF FreshInv, Follows
-----------------------------------------------------------------------------
(* Of a project that is registered, whose runs do not overlap and whose    *)
(* cadence nobody changes, recordSyncFailure and recordSyncSuccess climb   *)
(* the ladder of the configured cadence and come back to it in one step    *)
(* each, whatever fails on the way.                                        *)
THEOREM BackoffImplemented ==
  ASSUME \A r, s \in Runs : r = s, AdminCrons = {}
  PROVE  SteadySpec => ImplementsBackoff
<1>1. Registered => FreshInv /\ Telemetry!Init
  BY FreshInit
<1>2. FreshInv /\ [Next]_vars => FreshInv' /\ [Telemetry!Next]_<<job.cron, job.level, job.orig>>
  BY NextFollows DEF Follows
<1> QED BY <1>1, <1>2, PTL DEF SteadySpec, ImplementsBackoff, Telemetry!Spec

-----------------------------------------------------------------------------
(* What a success puts back.  For the project of the refinement, while     *)
(* neither Temporal nor the mailer rolls a change of the cadence back, no  *)
(* change meets another one, and a run about to write its success has left *)
(* the ladder.                                                             *)
Quiet(r) == run[r].pc \in {"close", "closeSkip"} => tx[r].op = "none" /\ job.level = 0
RestoreHolds == ~drift /\ contested = {} /\ \A r \in Runs : Quiet(r)

LEMMA StaysQuiet ==
  ASSUME RestoreHolds, UNCHANGED <<drift, contested>>, job'.level = job.level,
         \A r \in Runs : Quiet(r)' \/ (tx'[r] = tx[r] /\ run'[r].pc = run[r].pc)
  PROVE  RestoreHolds'
BY DEF RestoreHolds, Quiet

LEMMA CommitsCalmly ==
  ASSUME TypeOK, RestoreHolds, NEW x \in Actors, CommitRow(x)
  PROVE  UNCHANGED <<drift, contested>>
<1>1. drift = FALSE BY DEF TypeOK, RestoreHolds
<1>2. contested' = contested BY DEF RestoreHolds, CommitRow, Ends
<1>3. drift' = FALSE BY <1>1 DEF RestoreHolds, CommitRow
<1> QED BY <1>1, <1>2, <1>3

(* Where one run is open at a time, only its change of the cadence is.     *)
LEMMA NothingMeets ==
  ASSUME OneRun, FreshInv, NEW x \in Actors, UpdateSchedule(x)
  PROVE  x \in Runs /\ contested' = contested
<1>1. \A y \in Actors : tx[y].cron # NoCron => y \in Runs
  <2>1. \A y \in Actors : tx[y].op \in {"failure", "success"} => y \in Runs
    BY DEF FreshInv, Fresh, Fits
  <2> QED BY <2>1 DEF FreshInv, Fresh, Fits
<1>2. x \in Runs
  BY <1>1 DEF UpdateSchedule, FreshInv, AgreementInv, Agreement, TxShape
<1>3. \A y \in Actors \ {x} : ~Rescheduling(y)
  BY <1>1, <1>2 DEF OneRun, Rescheduling
<1>4. {y \in Actors \ {x} : Rescheduling(y)} = {}
  BY <1>3
<1> QED BY <1>2, <1>4 DEF UpdateSchedule

(* A transaction that is going on belongs to a run that is not quiet yet.  *)
LEMMA GoesOnQuietly ==
  ASSUME OneRun, FreshInv, RestoreHolds, NEW x \in Actors, UpdateSchedule(x) \/ WriteRow(x),
         \A r \in Runs : run'[r].pc = run[r].pc \/ run'[r].pc = "prepare"
  PROVE  RestoreHolds'
<1>0. TypeOK BY DEF FreshInv, AgreementInv, LadderInv
<1>1. /\ \A y \in Actors : tx'[y].op = tx[y].op /\ (y # x => tx'[y] = tx[y])
      /\ job' = job
  BY <1>0, StepsOn
<1>2. UNCHANGED <<drift, contested>>
  BY NothingMeets DEF UpdateSchedule, WriteRow, history
<1>3. ASSUME NEW r \in Runs PROVE Quiet(r)'
  <2>1. Quiet(r) BY DEF RestoreHolds
  <2> QED BY <1>1, <2>1 DEF Quiet
<1> QED BY <1>1, <1>2, <1>3, StaysQuiet

LEMMA RunStepRestores ==
  ASSUME OneRun, Faults \cap {"temporal", "email"} = {}, FreshInv, RestoreHolds, NEW r \in Runs, RunStep(r)
  PROVE  RestoreHolds'
<1>0. TypeOK /\ job \in JobRow /\ run[r] \in Execution /\ tx[r] \in Transaction
  BY DEF FreshInv, AgreementInv, LadderInv, TypeOK
<1>1. \A s \in Runs : s = r
  BY DEF OneRun
<1>2. NoTx.op = "none"
  BY TxIs DEF NoTx
<1>3. Quiet(r) /\ contested = {} /\ ~drift
  BY DEF RestoreHolds
<1>4. ASSUME UNCHANGED <<drift, contested>>, run'[r].pc \notin {"close", "closeSkip"}
      PROVE  RestoreHolds'
  BY <1>1, <1>3, <1>4 DEF RestoreHolds, Quiet
<1>5. ASSUME NEW n \in 0..MaxPages, Prepare(r, n) PROVE RestoreHolds'
  <2> DEFINE e == [pc |-> IF n = 0 THEN "skip" ELSE "batch", attempt |-> 0, left |-> n, by |-> run[r].by]
  <2>1. run' = [run EXCEPT ![r] = e] /\ UNCHANGED <<drift, contested>> BY <1>5 DEF Prepare, history
  <2>2. e.pc \in {"skip", "batch"} OBVIOUS
  <2> HIDE DEF e
  <2>3. run'[r].pc \in {"skip", "batch"} BY <1>0, <2>1, <2>2, OtherRuns
  <2> QED BY <1>4, <2>1, <2>3
<1>6. CASE PrepareFails(r)
  <2>1. run[r].pc = "prepare" /\ Retry(r, "none") /\ UNCHANGED <<drift, contested>>
    BY <1>6 DEF PrepareFails, AtStep, history
  <2>2. run'[r].pc \in {"prepare", "idle"} BY <1>0, <2>1, MovesTo
  <2> QED BY <1>4, <2>1, <2>2
<1>7. CASE SyncIssuesBatch(r)
  <2>1. run'[r].pc \in {"batch", "finalize"}
    <3>1. CASE run[r].left > 1
      <4>1. run \in [Runs -> Execution] BY <1>0 DEF TypeOK
      <4> QED BY <1>0, <1>7, <3>1, <4>1 DEF SyncIssuesBatch, AtStep, Execution
    <3>2. CASE ~(run[r].left > 1) BY <1>0, <1>7, <3>2, MovesTo DEF SyncIssuesBatch
    <3> QED BY <3>1, <3>2
  <2> QED BY <1>4, <1>7, <2>1 DEF SyncIssuesBatch, history
<1>8. CASE RecordSyncFailure(r)
  BY <1>4, <1>8 DEF RecordSyncFailure, AtStep, history
<1>9. CASE FailureCommit(r)
  <2>1. run[r].pc \notin {"close", "closeSkip"} BY <1>3, <1>9 DEF FailureCommit, Quiet
  <2>2. run'[r].pc \notin {"close", "closeSkip"}
    BY <1>0, <1>9, <2>1, MovesTo DEF FailureCommit
  <2>3. UNCHANGED <<drift, contested>>
    BY <1>0, <1>9, CommitsCalmly DEF FailureCommit
  <2> QED BY <1>4, <2>2, <2>3
<1>10. ~FailureRollback(r) /\ ~SuccessRollback(r)
  BY DEF FailureRollback, SuccessRollback
<1>11. CASE RecordSyncSuccess(r)
  <2>1. UNCHANGED <<drift, contested>> /\ job' = job BY <1>11 DEF RecordSyncSuccess, history
  <2>2. CASE NothingToRestore(job)
    <3>1. job.level = 0 /\ tx' = tx /\ tx[r].op = "none" BY <1>11, <2>2 DEF RecordSyncSuccess, NothingToRestore
    <3> QED BY <1>1, <1>3, <2>1, <3>1 DEF RestoreHolds, Quiet
  <2>3. CASE ~NothingToRestore(job)
    <3>1. run' = run /\ run[r].pc \in {"finalize", "skip"} BY <1>11, <2>3 DEF RecordSyncSuccess
    <3> QED BY <1>4, <2>1, <3>1
  <2> QED BY <2>2, <2>3
<1>12. CASE SuccessCommit(r)
  <2>1. job'.level = 0
    BY <1>12, CommittedLadder DEF SuccessCommit
  <2>2. tx'[r].op = "none"
    BY <1>0, <1>2, <1>12, EndsIs DEF SuccessCommit, CommitRow
  <2>3. UNCHANGED <<drift, contested>>
    BY <1>0, <1>12, CommitsCalmly DEF SuccessCommit
  <2> QED BY <1>1, <1>3, <2>1, <2>2, <2>3 DEF RestoreHolds, Quiet
<1>13. CASE FinalizeProjectSync(r) \/ FailProjectSync(r)
  <2>1. run'[r].pc \in {"refresh", "idle"} /\ UNCHANGED <<drift, contested>>
    BY <1>0, <1>13, MovesTo DEF FinalizeProjectSync, FailProjectSync, history
  <2> QED BY <1>4, <2>1
<1>14. CASE RequestRefreshes(r)
  <2>1. run'[r].pc \in {"idle", "fail"} /\ UNCHANGED <<drift, contested>>
    BY <1>0, <1>14, MovesTo DEF RequestRefreshes, history
  <2> QED BY <1>4, <2>1
<1> QED BY <1>5, <1>6, <1>7, <1>8, <1>9, <1>10, <1>11, <1>12, <1>13, <1>14 DEF RunStep

LEMMA AdminStepRestores ==
  ASSUME OneRun, AdminCrons = {}, Faults \cap {"temporal", "email"} = {}, FreshInv, RestoreHolds,
         NEW a \in Admins, AdminStep(a)
  PROVE  RestoreHolds'
<1>0. TypeOK /\ job \in JobRow /\ \A r \in Runs : r # a
  BY CadenceAssumption DEF FreshInv, AgreementInv, LadderInv, TypeOK
<1>1. ASSUME NEW r \in Runs, run[r].pc = "idle", run' = Opened(r, "admin")
      PROVE  \A s \in Runs : run'[s].pc = run[s].pc \/ run'[s].pc = "prepare"
  BY <1>0, <1>1 DEF Opened, Closed, TypeOK
<1>2. ASSUME NEW r \in Runs, RegisterJiraProject(a, r) PROVE RestoreHolds'
  BY <1>2 DEF RegisterJiraProject, FreshInv, Fresh, OwnJob
<1>3. ASSUME NEW r \in Runs, TriggerProjectSync(a, r) PROVE RestoreHolds'
  <2>1. \A s \in Runs : run'[s].pc = run[s].pc \/ run'[s].pc = "prepare"
    BY <1>1, <1>3 DEF TriggerProjectSync
  <2>2. \A s \in Runs : Quiet(s)' \/ (tx'[s] = tx[s] /\ run'[s].pc = run[s].pc)
    BY <1>3, <2>1 DEF TriggerProjectSync, Quiet
  <2> QED BY <1>3, <2>2, StaysQuiet DEF TriggerProjectSync, history
<1>4. ASSUME NEW r \in Runs, WriteRowAndTrigger(a, r) PROVE RestoreHolds'
  BY <1>1, <1>4, GoesOnQuietly DEF WriteRowAndTrigger
<1>5. ASSUME NEW op \in {"pause", "resume", "start"}, SetPaused(a, op) PROVE RestoreHolds'
  <2>1. \A s \in Runs : tx'[s] = tx[s] BY <1>0, <1>5, BeginIs DEF SetPaused
  <2> QED BY <1>5, <2>1, StaysQuiet DEF SetPaused, history
<1>6. CASE AdminCommit(a)
  <2>1. \A s \in Runs : tx'[s] = tx[s] BY <1>0, <1>6, EndsIs DEF AdminCommit, CommitRow
  <2>2. tx[a].op \in {"pause", "resume", "start"}
    BY <1>0, <1>6 DEF AdminCommit, CommitRow, FreshInv, Fresh, Fits
  <2>3. job'.level = job.level BY <1>6, <2>2, CommittedLadder DEF AdminCommit
  <2>4. UNCHANGED <<drift, contested>>
    BY <1>0, <1>6, CommitsCalmly DEF AdminCommit
  <2> QED BY <1>6, <2>1, <2>3, <2>4, StaysQuiet DEF AdminCommit
<1>7. ~AdminRollback(a)
  BY DEF AdminRollback
<1> QED BY <1>2, <1>3, <1>4, <1>5, <1>6, <1>7
        DEF AdminStep, PauseProjectSync, ResumeProjectSync, StartProjectSync

LEMMA RestoreStep ==
  ASSUME OneRun, AdminCrons = {}, Faults \cap {"temporal", "email"} = {}, FreshInv, RestoreHolds, [Next]_vars
  PROVE  RestoreHolds'
<1>0. TypeOK BY DEF FreshInv, AgreementInv, LadderInv
<1>1. ASSUME NEW r \in Runs, ScheduledStart(r) PROVE RestoreHolds'
  <2>1. \A s \in Runs : run'[s].pc = run[s].pc \/ run'[s].pc = "prepare"
    BY <1>0, <1>1 DEF ScheduledStart, Opened, Closed, TypeOK
  <2>2. \A s \in Runs : Quiet(s)' \/ (tx'[s] = tx[s] /\ run'[s].pc = run[s].pc)
    BY <1>1, <2>1 DEF ScheduledStart, Quiet
  <2> QED BY <1>1, <2>2, StaysQuiet DEF ScheduledStart, history
<1>2. ASSUME NEW x \in Actors, TxStep(x) PROVE RestoreHolds'
  BY <1>2, GoesOnQuietly DEF TxStep, WriteRowOnly, UpdateSchedule
<1>3. CASE UNCHANGED <<job, run, tx, drift, contested>>
  BY <1>3, StaysQuiet
<1> QED BY <1>1, <1>2, <1>3, RunStepRestores, AdminStepRestores
        DEF Next, JiraBreaks, JiraRecovers, vars, history

(* SuccessRestores, for a project whose runs do not overlap, whose cadence *)
(* nobody changes, and while Temporal and the mailer answer: whatever the  *)
(* ladder, the outages of Jira and the secrets store, and however many     *)
(* administrators pause, resume, start and trigger, a run that is recorded *)
(* as a success leaves Temporal at a cadence somebody configured           *)
(* (recordSyncSuccess, finalizeProjectSync).                               *)
THEOREM SuccessesRestore ==
  ASSUME OneRun, AdminCrons = {}, Faults \cap {"temporal", "email"} = {}
  PROVE  SteadySpec => SuccessRestores
<1>1. Registered => FreshInv /\ RestoreHolds
  <2>1. Registered => RestoreHolds
    BY DEF Registered, NothingOpen, RestoreHolds, Quiet, Closed
  <2> QED BY <2>1, FreshInit
<1>2. FreshInv /\ RestoreHolds /\ [Next]_vars => (FreshInv /\ RestoreHolds)'
  BY NextFollows, RestoreStep DEF OneRun
<1>3. FreshInv /\ RestoreHolds /\ OriginalIsChosen
        => [\A r \in Runs :
             (run[r].pc \in {"close", "closeSkip"} /\ run'[r].pc # run[r].pc
                /\ \A x \in Actors : tx[x].op = "none")
               => schedule.cron \in chosen]_vars
  <2> SUFFICES ASSUME FreshInv, RestoreHolds, OriginalIsChosen, NEW r \in Runs,
                      run[r].pc \in {"close", "closeSkip"}, \A x \in Actors : tx[x].op = "none"
               PROVE  schedule.cron \in chosen
    OBVIOUS
  <2>1. job.level = 0 /\ JobExists
    BY DEF RestoreHolds, Quiet, FreshInv, Fresh, OwnJob
  <2>2. \A x \in Actors : ~Rescheduling(x)
    BY DEF Rescheduling, FreshInv, AgreementInv, Agreement, TxShape
  <2>3. job.cron = schedule.cron
    BY <2>1, <2>2 DEF FreshInv, AgreementInv, Agreement, CadenceAgrees, RestoreHolds
  <2> QED BY <2>1, <2>3 DEF OriginalIsChosen
<1>4. SteadySpec => []OriginalIsChosen
  BY OriginalsAreChosen
<1> QED BY <1>1, <1>2, <1>3, <1>4, PTL DEF SteadySpec, SuccessRestores

=============================================================================
