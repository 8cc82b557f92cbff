SPECIFICATION Spec
CONSTANTS
  q1 = q1
  q2 = q2
  q3 = q3
  q4 = q4
  a = a
  b = b
  x = x
  y = y
  Requests = {q1, q2, q3, q4}
  Ids = {a}
  IdOf <- OneJob
  HashOf <- OddHash
  MaxCrashes = 2
  None = None
SYMMETRY SameRequests
INVARIANTS
  NoZombieRecord
  CreatorRunsAlone
  AnswersItsOwnRequest
  ToldIsStored
  StatusMatchesResult
PROPERTIES
  FinalStays
CHECK_DEADLOCK FALSE
