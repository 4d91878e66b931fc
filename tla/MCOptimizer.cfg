SPECIFICATION Spec
CONSTANTS
  Byte = 2
  Vars <- MCVars
  Consts <- MCConsts
  Literals <- MCLiterals
  Casts <- MCCasts
  Ops1 <- MCOps1
  Ops2 <- MCOps2
  OpsN <- MCOpsN
  AssignOps <- MCAssignOps
  MaxNodes = 4
  MaxPasses = 2
  Hows <- MCHows
  Samples <- MCSamples
INVARIANTS
  MeaningKept
  FaultsKept
  ConstantsFold
  ConstantsReadBack
CHECK_DEADLOCK FALSE
