SPECIFICATION FairSpec
CONSTANTS
  j1 = j1
  j2 = j2
  j3 = j3
  q1 = q1
  k1 = k1
  k2 = k2
  Jobs = {j1, j2, j3}
  Queries = {q1}
  JobOf <- Asks
  KeyOf <- Keys
  Reuse = TRUE
  Stray = Stray
  Opaque = Opaque
  MaxPosts = 1
  None = None
INVARIANTS
  NeverBusy
  OneJobInSandbox
  ResultIsForCurrent
  ResponseMeetsItsQuery
PROPERTIES
  QueriesEndWithTheirJob
  EveryJobSettles
CHECK_DEADLOCK FALSE
