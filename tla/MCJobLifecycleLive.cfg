SPECIFICATION FairSpec
CONSTANTS
  q1 = q1
  q2 = q2
  q3 = q3
  q4 = q4
  a = a
  b = b
  x = x
  y = y
  Requests = {q1, q2, q3}
  Ids = {a, b}
  IdOf <- TwoJobs
  HashOf <- OneHash
  MaxCrashes = 2
  None = None
PROPERTIES
  EveryRecordSettles
CHECK_DEADLOCK FALSE
