CONSTANTS
  ArgChoices <- MCArgsInput
  SchemaChoices <- MCSchemasTop
  DataChoices <- MCDataTop
SPECIFICATION Spec
INVARIANT HexAsSpecified
CHECK_DEADLOCK FALSE
