SPECIFICATION Spec
CONSTANTS
  Name <- MCName
  Inputs <- MCInputs
  PrimaryKeys <- MCPrimaryKeys
  Null = Null
  nullptr = nullptr
INVARIANT OtherDataIsAdded
CHECK_DEADLOCK FALSE
