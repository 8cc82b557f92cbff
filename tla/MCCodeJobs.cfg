SPECIFICATION Spec
CONSTANTS
  r1 = r1
  r2 = r2
  r3 = r3
  c1 = c1
  c2 = c2
  e1 = e1
  e2 = e2
  Requests = {r1, r2, r3}
  ClientIds = {c1, c2}
  Entries = {e1, e2}
  Base <- Alike
  MaxVersion = 2
  MaxAttempts = 2
  None = None
SYMMETRY Symmetry
INVARIANTS
  VersionsContiguous
  OncePerClientId
  JobKeepsItsBundle
  NoOrphanJob
  AttemptsWithinBudget
PROPERTIES
  CancelHolds
CHECK_DEADLOCK FALSE
