SPECIFICATION FairSpec
CONSTANTS
  ProjectSnapshots = {p1}
  UserSnapshots = {u1}
  NoSnapshot = NoSnapshot
  Personas = {manager, ic}
  Manager = manager
  Workers = {w1}
  Admins = {a1}
  Limit = 1
  MaxIterations = 2
  MaxAttempts = 2
  MaxRequests = 1
  MaxUpsets = 1
PROPERTIES VariantsAreKept RequestsServed
