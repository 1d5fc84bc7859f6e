\* Violation: a status-flag bit above 7 compiles.
CONSTANTS
  ModeDeclChoices <- MCModeDecls
  FlagDeclChoices <- MCFlagDeclsWide
  InstrChoices <- MCInstrs
  MaxInstrs = 2
  Probes <- MCProbes
SPECIFICATION Spec
\* A header that does not compile ends the build: that state has no successor.
CHECK_DEADLOCK FALSE
INVARIANT FlagBitsInStatusByte
