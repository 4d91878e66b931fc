\* Every graph over at most 4 registers and 0..4 colours; with hints in and out
\* of range over at most 3 registers.
SPECIFICATION FairSpec
CONSTANTS
  MaxRegs = 4
  MaxColors = 4
  MaxHinted = 3
  HintColors = {0, 1, 2, 3}
  NoColor = 99
  Unknown = Unknown
VIEW LiveState
INVARIANTS
  ProperColoring
  GraphRestored
  LoopInv
  DismantlableNeverSpills
  FeasibleHintsHonoured
PROPERTIES
  ImplementsColoring
  AllocateReturns
