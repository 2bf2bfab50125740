SPECIFICATION SteadySpec
CONSTANTS
  Steps <- ShortSteps
  Runs = {r1, r2}
  Admins = {a1}
  DefaultCron = 15
  AdminCrons = {}
  MaxAttempts = 1
  MaxPages = 1
  MaxOutages = 1
  Faults = {"email"}
  None = None
SYMMETRY RunSymmetry
INVARIANTS BackoffBookkeeping CadenceAgrees EndedRunsAreRecorded PausedIsPaused
