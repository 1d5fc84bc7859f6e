CONSTANTS
  ArgChoices <- MCArgsInput
  SchemaChoices <- MCSchemasTop
  DataChoices <- MCDataTop
SPECIFICATION Spec
INVARIANT IntegersAsSpecified
CHECK_DEADLOCK FALSE
