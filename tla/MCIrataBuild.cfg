\* isa.h and the microcode built together; microcode opcodes looked up in the ISA.
CONSTANTS
  NoSuffixValue = NoSuffixValue
  NoSuffix <- NoSuffixValue
  ModeDeclChoices <- MCModeDecls
  FlagDeclChoices <- MCFlagDecls
  InstrChoices <- MCInstrs
  IsaMaxInstrs = 2
  Mnemonics <- MCMnemonics
  Modes <- MCModes
  Controls <- MCControls
  Topology <- MCTopology
  Flags <- MCFlags
  NameChoices <- BindingsNames
  StepChoices <- BindingsSteps
  WhenChoices <- Unguarded
  MaxFetch = 1
  McMaxInstrs = 2
  MaxVariants = 1
  MaxStages = 1
  MaxSteps = 1
SPECIFICATION Spec
\* A header or a microcode source that fails to compile, and a finished build, have no successor.
CHECK_DEADLOCK FALSE
INVARIANT
  MicrocodeOpcodeRoundTrip
PROPERTY
  BuildRefinement
