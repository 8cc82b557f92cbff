SPECIFICATION FairSpec
CONSTANTS
  PoolSize = 2
  Jobs = {j1, j2}
  None = None
PROPERTIES
  OnlyDroppedCallsHang
  ClosedLeavesNoChild
CHECK_DEADLOCK FALSE
