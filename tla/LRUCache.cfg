SPECIFICATION Spec
CONSTANTS
  Key = {k1, k2, k3, k4}
  V = {v1, v2}
  nullptr = nullptr
  m_maxSize = 3
INVARIANTS
  Consistent
  PointerLasts
PROPERTY IsLRU
CHECK_DEADLOCK FALSE
