------------------------------- MODULE Backoff -------------------------------
(***************************************************************************)
(* What the telemetry promises of a job, each of its operations in one     *)
(* step: a failure takes the cadence one rung further on the ladder of the *)
(* configured cadence, or leaves it on the top, and a success puts the     *)
(* configured cadence back.                                                *)
(***************************************************************************)
EXTENDS BackoffLadder

CONSTANT Configured
VARIABLES cron, level, original

Init == cron = Configured /\ level = 0 /\ original = NoCron

SlowDown ==
  /\ original' = Configured
  /\ level' = NextRung(Configured, level)
  /\ cron' = Rung(Configured, level')

Restore ==
  /\ level > 0
  /\ cron' = Configured /\ level' = 0 /\ original' = NoCron

Next == SlowDown \/ Restore

Spec == Init /\ [][Next]_<<cron, level, original>>
=============================================================================
