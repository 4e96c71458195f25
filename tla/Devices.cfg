SPECIFICATION Spec
CONSTANTS
  Request = {r1, r2, r3}
  Script = {s1}
  Asked = {0, 1}
  nullptr = nullptr
INVARIANTS
  TypeOK
  AnswerNamesDevice
  IndicesAreDense
PROPERTY ScriptGetsDevice
CHECK_DEADLOCK FALSE
