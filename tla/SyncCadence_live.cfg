SPECIFICATION FairSpec
CONSTANTS
  Steps <- FullSteps
  Runs = {r1}
  Admins = {}
  DefaultCron = 60
  AdminCrons = {}
  MaxAttempts = 3
  MaxPages = 2
  MaxOutages = 2
  Faults = {}
  None = None
PROPERTIES SuccessRestores RunsEnd CadenceRestored ImplementsBackoff
