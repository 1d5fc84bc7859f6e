CONSTANTS
  ArgChoices <- MCArgs
  SchemaChoices <- MCSchemas
  DataChoices <- MCData
SPECIFICATION Spec
PROPERTY
  ValidatorRefinement
CHECK_DEADLOCK FALSE
