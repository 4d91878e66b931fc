CONSTANTS
  Width32 = 3
  Width64 = 4
  Statements <- MCStatements
  Openers <- MCOpeners
  Followers <- MCFollowers
  MaxStatements = 3
  Variables = 10
  Params = 2
  Results <- MCResults
  KindOf <- MCKindOf
  Samples <- MCSamples
SPECIFICATION Spec
INVARIANTS CodeMeansIr OneMemoryOperand
CHECK_DEADLOCK FALSE
