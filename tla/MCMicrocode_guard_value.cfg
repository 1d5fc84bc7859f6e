\* Violation: a quoted "false" guard value builds a condition that requires true.
CONSTANTS
  NoSuffixValue = NoSuffixValue
  NoSuffix <- NoSuffixValue
  Mnemonics <- MCMnemonics
  Modes <- MCModes
  IsaOpcodes <- MCIsaOpcodes
  Controls <- MCControls
  Topology <- MCTopology
  Flags <- MCFlags
  NameChoices <- BindingsNames
  StepChoices <- BindingsSteps
  WhenChoices <- QuotedGuards
  MaxFetch = 1
  MaxInstrs = 2
  MaxVariants = 1
  MaxStages = 1
  MaxSteps = 1
SPECIFICATION Spec
\* The build is a single pass that exits: its final states have no successor.
CHECK_DEADLOCK FALSE
INVARIANT GuardValuesAreBooleans
