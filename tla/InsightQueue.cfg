SPECIFICATION FairSpec
CONSTANTS
  Issues = {i1}
  NoIssue = NoIssue
  Workers = {w1, w2}
  Viewers = {v1}
  Limit = 1
  MaxIterations = 2
  MaxAttempts = 2
  MaxVersion = 2
  MaxUpsets = 2
  SkillMayFail = TRUE
INVARIANTS TypeOK HashHitIsCurrent
PROPERTY QueueDrains
