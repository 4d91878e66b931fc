\* Two nodes of the author's, in a buffer that may or may not hold them.
SPECIFICATION Spec
CONSTANTS
  MaxItems = 22
  Capacity = 11
  FirstId = 4096
  DirectIds = 4097
  MaxLabels = 2
  MaxMade = 2
  Signatures <- MCSignatures
  FuncName <- MCFuncName
  ConstWords <- MCConstWords
INVARIANTS
  TreesAreKept
  ParserFindsNodes
  ComparesTrees
  PureMeansNoEffects
  AccessorsAnswer
