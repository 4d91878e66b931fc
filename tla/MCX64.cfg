CONSTANTS
  Statements <- MCStatements
  Followers <- MCFollowers
  MaxStatements = 3
SPECIFICATION Spec
INVARIANTS BytesDecodeBack
CHECK_DEADLOCK FALSE
