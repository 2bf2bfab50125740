SPECIFICATION Spec
CONSTANTS
  p = p
  q = q
  a = a
  b = b
  seed = seed
  i = i
  j = j
  u = u
  w = w
  Me = me
  Seed = seed
  None = None
  Projects = {p, q}
  Accounts = {a, b}
  Admins = {seed, me}
  Handled = {a}
  MaxPicks = 4
  UserRoles = {"ADMIN", "USER"}
  Assignable <- MayBeAssigned
  Tracked <- TrackedAtFirst
  MaxCalls = 3
  MaxChoices = 3
  Budgets <- Requests
  Selections = {u, w}
  Issues = {i, j}
  First = i
  NoIssue = none
  MaxClicks = 4
CHECK_DEADLOCK FALSE
INVARIANTS AdminRemains ImportTells NotesAreTheirOwn ShownIsSelected
