SPECIFICATION Spec
CONSTANTS
  Name = {a, b}
  a = a
  b = b
  Header <- Headers
  MaxCols = 2
  MaxRows = 1
  MaxRounds = 2
  MaxSets = 2
  RetryMax = 1
  Reader = {r1}
  nullptr = nullptr
  nan = nan
  garbage = garbage
  nothing = nothing
INVARIANT
  AllIsCached
CHECK_DEADLOCK FALSE
