SPECIFICATION Spec
CONSTANTS
  Request = {r1}
  Refused = {r1}
  m_loopTime = 2
  MaxRound = 1
INVARIANT RefusedIsHarmless
CHECK_DEADLOCK FALSE
