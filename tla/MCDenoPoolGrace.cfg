SPECIFICATION Spec
CONSTANTS
  PoolSize = 1
  Jobs = {j1, j2}
  None = None
INVARIANTS
  GraceCoversActiveJobs
CHECK_DEADLOCK FALSE
