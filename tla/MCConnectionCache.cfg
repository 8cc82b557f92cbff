SPECIFICATION Spec
CONSTANTS
  q1 = q1
  q2 = q2
  q3 = q3
  u1 = u1
  u2 = u2
  Queries = {q1, q2, q3}
  Updates = {u1, u2}
  MaxVersion = 2
  None = None
SYMMETRY Symmetry
INVARIANTS
  StaleOnlyByRace
  PoolsStayClosable
  MapHasLivePools
  QueriesGetAnOpenRuntime
CHECK_DEADLOCK FALSE
