SPECIFICATION Spec
CONSTANTS
  N = 3
  MaxLeaves = 0
PROPERTY IsDAGReturns
CHECK_DEADLOCK FALSE
