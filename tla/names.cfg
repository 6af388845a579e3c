SPECIFICATION Spec
CONSTANTS
  Words <- MCWords
  Dotted <- MCDotted
  Hex <- MCHex
  Atoms <- MCAtoms
  Base <- MCBase
  Typed <- ManyNames
  MaxSteps = 2
INVARIANTS TypeOK PrintedIsReadBack DumpsAreListed ListedWereAsked EachInItsDir ArgvArrives
CHECK_DEADLOCK FALSE
