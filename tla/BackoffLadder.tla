---------------------------- MODULE BackoffLadder ----------------------------
(***************************************************************************)
(* The ladder of cadences of apps/api/src/services/telemetry/              *)
(* syncTelemetryService.ts: the cron of the project first, then every      *)
(* entry of BACKOFF_CRON_STEPS that is not that cron.                      *)
(*                                                                         *)
(* A cron expression is represented by its period in minutes; expressions  *)
(* of one period are identified.  0 is the null of backoffOriginalCron.    *)
(***************************************************************************)
EXTENDS Integers, Sequences

CONSTANT Steps  \* BACKOFF_CRON_STEPS, the periods of the slower cadences

(* The list in the source has no duplicates, no empty expression and more  *)
(* than one entry: a ladder has a rung besides the original cadence.       *)
ASSUME StepsAssumption ==
  /\ Steps \in Seq(Nat \ {0}) /\ Len(Steps) >= 2
  /\ \A i, j \in 1..Len(Steps) : Steps[i] = Steps[j] => i = j

NoCron == 0
Cron == Nat \ {NoCron}

(* buildBackoffCronSequence: every step that the sequence does not include *)
(* yet is pushed on it.                                                    *)
CronSequence(original) ==
  LET sequence[k \in 0..Len(Steps)] ==
        IF k = 0 THEN <<original>>
        ELSE IF \E i \in DOMAIN sequence[k - 1] : sequence[k - 1][i] = Steps[k]
             THEN sequence[k - 1]
             ELSE Append(sequence[k - 1], Steps[k])
  IN sequence[Len(Steps)]

(* The position of a cron among the steps is skipped when it is one.       *)
SkipsUpTo(original, level) == \E k \in 1..level : k <= Len(Steps) /\ Steps[k] = original

(* cronSequence.length - 1 *)
TopRung(original) ==
  IF SkipsUpTo(original, Len(Steps)) THEN Len(Steps) - 1 ELSE Len(Steps)

(* cronSequence[level], for a level of the ladder.                         *)
RungWithDuplicate(original, level) ==  \* mutant: the includes test is dropped
  IF level = 0 THEN original ELSE Steps[level]
Rung(original, level) ==
  IF level = 0 THEN original
  ELSE IF SkipsUpTo(original, level) THEN Steps[level + 1] ELSE Steps[level]

(* Math.min(job.backoffLevel + 1, cronSequence.length - 1)                 *)
NextRung(original, level) ==
  IF level + 1 <= TopRung(original) THEN level + 1 ELSE TopRung(original)
=============================================================================
