SPECIFICATION MCSpec
CONSTANTS
  Wrappers = {w1}
  Plain = {v1, v2}
  Promises = {1, 2}
  Engines = {"jsc"}
  None = None
  MaxDepth = 1
  MaxOwned = 1
  MaxAliases = 6
  MaxRegistrations = 1
  MaxFocus = 1
  Adapters = {}
  Redefinable = {}
SYMMETRY PlainSymmetry
CHECK_DEADLOCK FALSE
INVARIANTS ErrorsOwned
