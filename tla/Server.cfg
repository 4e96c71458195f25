SPECIFICATION Spec
CONSTANTS
  Request = {r1, r2}
  Refused = {r2}
  m_loopTime = 2
  MaxRound = 1
INVARIANTS
  TypeInv
  AcknowledgedIsKept
  ExitIsClean
PROPERTIES
  RoundsDoNotOverlap
  GraphIsRun
  InterruptEnds
CHECK_DEADLOCK FALSE
