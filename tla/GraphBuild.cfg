SPECIFICATION Spec
CONSTANTS
  N = 3
  MaxLeaves = 1
INVARIANTS
  TypeOK
  AnswerCorrect
  TaskIsRunnable
PROPERTIES
  WalkReturns
  WalkIsQuadratic
CHECK_DEADLOCK FALSE
