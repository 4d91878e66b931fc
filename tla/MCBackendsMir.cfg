CONSTANTS
  Width32 = 3
  Width64 = 4
  Statements <- MCStatements
  Openers <- MCOpeners
  Followers <- MCFollowers
  MaxStatements = 1
  Variables = 10
  Params = 2
  Results <- MCResults
  KindOf <- MCKindOf
  Samples <- MCSamples
SPECIFICATION Spec
INVARIANTS ConvertsOp2
CHECK_DEADLOCK FALSE
