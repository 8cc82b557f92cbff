SPECIFICATION Spec
CONSTANTS
  Calls = {o1, o2, o3}
  Keys = {k1, k2}
  Codes = {c1, c2}
  MaxCache = 1
  None = None
SYMMETRY Symmetry
INVARIANTS
  VersionsKeepTheirCode
CHECK_DEADLOCK FALSE
