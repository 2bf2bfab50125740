SPECIFICATION FairSpec
CONSTANTS
  Projects = {p1}
  Executions = {w1, w2}
  Admins = {a1}
  Limit = 1
  MaxIterations = 2
  MaxAttempts = 2
  ActivityTimeout = 2
  LockTime = 1
  MinFrequency = 3
  DefaultFrequency = 3
  Asked = {1}
  NotAsked = NotAsked
  MaxAge = 2
  MaxUpsets = 1
INVARIANTS TypeOK LockProtects
PROPERTIES RunsAreSpaced DueProjectsRun
