SPECIFICATION MCSpec
CONSTANTS
  Wrappers = {w1}
  Plain = {v1, v2}
  Promises = {1}
  Engines = {"boa", "jsc", "mock"}
  None = None
  MaxDepth = 2
  MaxOwned = 1
  MaxAliases = 6
  MaxRegistrations = 1
  MaxFocus = 2
  Adapters = {"boa", "jsc"}
  Redefinable <- MCRedefinable
SYMMETRY PlainSymmetry
CHECK_DEADLOCK FALSE
INVARIANTS HandlesTrue RootsBalanced TeardownClean AsInterface
PROPERTIES SameObject
