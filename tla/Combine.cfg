SPECIFICATION Spec
CONSTANTS
  Name <- MCName
  Inputs <- MCInputs
  PrimaryKeys <- MCPrimaryKeys
  Null = Null
  nullptr = nullptr
INVARIANTS
  TypeOK
  RowsAreOfOneKey
  ErrorKeepsOutput
  OverflowHasCause
  JoinWhenJoinable
CHECK_DEADLOCK FALSE
