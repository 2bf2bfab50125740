SPECIFICATION Spec
CONSTANTS
  a1 = a1
  a2 = a2
  i1 = i1
  i2 = i2
  None = None
  Issues = {i1, i2}
  Accounts = {a1, a2}
  InitialPeople <- People
  InitialTracked = {a1}
  PossibleChanges <- Joins
  Wishes <- Asked
  Choices <- Chosen
  MaxRuns = 2
  PageSize = 1
  Minute = 2
  Day = 2
  Ahead <- West
  MaxTries = 2
  MaxAttempts = 2
  MaxTime = 3
  MaxFaults = 2
  MaxTriggers = 1
CHECK_DEADLOCK FALSE
INVARIANT NothingMissed
PROPERTY ChangesArrive
