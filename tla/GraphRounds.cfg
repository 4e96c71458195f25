SPECIFICATION Spec
CONSTANTS
  d1 = d1
  d2 = d2
  combine = combine
  filter1 = filter1
  filter2 = filter2
  nullptr = nullptr
  m_dataFromDevice = m_dataFromDevice
  Leaf = {d1, d2}
  Operator = {filter1, filter2, combine}
  NextNode <- ParallelNext
  Arity <- ParallelArity
  Stale = {d1, filter1}
  Cached = TRUE
  Failing = {d1, filter2, combine}
CHECK_DEADLOCK FALSE
INVARIANTS
  TypeInv
  InputsAreThisRounds
  LostOnlyByCollision
  CleanRoundIsFresh
  RacesNeedParallelNodes
  StructMatchesResult
  SinkIsLast
PROPERTIES
  UBHasCause
  FollowsDag
  RoundAdvances
  RoundEnds
