\* One instruction with rich bodies: order and numbering of stages and steps, guards.
CONSTANTS
  NoSuffixValue = NoSuffixValue
  NoSuffix <- NoSuffixValue
  Mnemonics <- MCMnemonics
  Modes <- MCModes
  IsaOpcodes <- MCIsaOpcodes
  Controls <- MCControls
  Topology <- MCTopology
  Flags <- MCFlags
  NameChoices <- BodiesNames
  StepChoices <- BodiesSteps
  WhenChoices <- ZGuards
  MaxFetch = 1
  MaxInstrs = 1
  MaxVariants = 2
  MaxStages = 2
  MaxSteps = 2
SPECIFICATION Spec
\* The build is a single pass that exits: its final states have no successor.
CHECK_DEADLOCK FALSE
INVARIANT TypeOK
PROPERTY
  BuildRefinement
