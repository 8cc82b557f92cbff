SPECIFICATION Spec
CONSTANTS
  Calls = {o1, o2, o3, o4}
  Keys = {k1, k2}
  Codes = {c1, c2}
  MaxCache = 1
  None = None
SYMMETRY Symmetry
INVARIANTS
  CacheBounded
  LoadReturnsStored
CHECK_DEADLOCK FALSE
