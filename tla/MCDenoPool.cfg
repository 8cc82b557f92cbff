SPECIFICATION Spec
CONSTANTS
  PoolSize = 2
  Jobs = {j1, j2, j3}
  None = None
SYMMETRY JobSymmetry
INVARIANTS
  RunnerAccounted
  WorkConserving
  JobsAccounted
  ReservationExclusive
  ChildInStep
  ResultIsOwn
PROPERTIES
  FirstComeFirstStarted
  KeepsContract
CHECK_DEADLOCK FALSE
