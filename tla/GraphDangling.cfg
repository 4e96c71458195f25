SPECIFICATION Spec
CONSTANTS
  d1 = d1
  d2 = d2
  combine = combine
  filter1 = filter1
  filter2 = filter2
  nullptr = nullptr
  m_dataFromDevice = m_dataFromDevice
  Leaf = {d1, d2}
  Operator = {filter1, filter2}
  NextNode <- ChainNext
  Arity <- ChainArity
  Stale = {}
  Cached = TRUE
  Failing = {d2}
CHECK_DEADLOCK FALSE
INVARIANT ReferencesAreValid
