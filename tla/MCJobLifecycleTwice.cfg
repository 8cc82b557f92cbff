SPECIFICATION Spec
CONSTANTS
  q1 = q1
  q2 = q2
  q3 = q3
  q4 = q4
  a = a
  b = b
  x = x
  y = y
  Requests = {q1, q2, q3}
  Ids = {a}
  IdOf <- OneJob
  HashOf <- OneHash
  MaxCrashes = 1
  None = None
INVARIANTS
  OneExecutionPerJob
CHECK_DEADLOCK FALSE
