\* Violation: a flag listed twice in flags_affected is returned twice.
CONSTANTS
  ModeDeclChoices <- MCModeDecls
  FlagDeclChoices <- MCFlagDecls
  InstrChoices <- MCInstrsRepeatedFlag
  MaxInstrs = 2
  Probes <- MCProbes
SPECIFICATION Spec
\* A header that does not compile ends the build: that state has no successor.
CHECK_DEADLOCK FALSE
INVARIANT FlagsAffectedIsSet
