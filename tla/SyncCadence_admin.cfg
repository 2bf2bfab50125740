SPECIFICATION Spec
CONSTANTS
  Steps <- ThreeSteps
  Runs = {r1}
  Admins = {a1}
  DefaultCron = 15
  AdminCrons = {60}
  MaxAttempts = 2
  MaxPages = 1
  MaxOutages = 2
  Faults = {"temporal", "email", "secrets"}
  None = None
INVARIANTS TypeOK LadderIsTheSequence OriginalIsChosen
