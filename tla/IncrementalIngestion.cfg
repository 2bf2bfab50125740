SPECIFICATION FairSpec
CONSTANTS
  Keys = {k1, k2, k3}
  Tables <- AllTables
  DayLength = 1
  MaxCount = 1
  Target = 1
  MaxParts = 3
  MaxTime = 2
  MaxFaults = 1
INVARIANTS NothingSkipped HistoryIsKept
PROPERTY ChangesArrive
CHECK_DEADLOCK FALSE
