SPECIFICATION Spec
CONSTANTS
  Words <- MCWords
  Dotted <- MCDotted
  Hex <- MCHex
  Atoms <- MCAtoms
  Base <- MCBase
  Typed <- PortName
  MaxSteps = 2
INVARIANT OciArgIsRead
CHECK_DEADLOCK FALSE
