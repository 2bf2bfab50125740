SPECIFICATION Spec
CONSTANTS
  NoOne = NoOne
  Names <- TwoNames
  InitialRows <- TwoTeammates
  MovesTo <- Moves
  MaxAssigned = 30
  MaxToday = 6
  MaxWins = 3
  MaxCalls = 6
  MaxTold = 3
  MaxSpotlights = 1
  MaxBars = 2
  MaxComments = 50
  LocalAhead = 1
  MaxTime = 16
  MaxRuns = 2
  MaxChanges = 2
CHECK_DEADLOCK FALSE
INVARIANTS EveryoneOnce ProjectAddsUp ReusedTextIsTodays ReportsAgree FocusIsComplete PeriodsAddUp 
