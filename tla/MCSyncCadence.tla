---------------------------- MODULE MCSyncCadence ----------------------------
(* Instances of SyncCadence for TLC.                                       *)
EXTENDS SyncCadence, TLC

(* BACKOFF_CRON_STEPS as the source has it, and its first entries.         *)
FullSteps == <<30, 60, 180, 360, 720>>
ThreeSteps == <<30, 60, 180>>
ShortSteps == <<30, 60>>

RunSymmetry == Permutations(Runs)
=============================================================================
