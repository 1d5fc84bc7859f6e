\* isa.h generation, compilation and IsaInfo lookups.
CONSTANTS
  ModeDeclChoices <- MCModeDecls
  FlagDeclChoices <- MCFlagDecls
  InstrChoices <- MCInstrs
  MaxInstrs = 2
  Probes <- MCProbes
SPECIFICATION Spec
\* A header that does not compile ends the build: that state has no successor.
CHECK_DEADLOCK FALSE
INVARIANT
  TypeOK
PROPERTY
  IsaRefinement
