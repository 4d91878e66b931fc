\* Every code of at most 5 nodes with labels 0 and 1, and each code of the
\* corpus, rebuilt for short codes.
SPECIFICATION FirstOrAgainSpec
CONSTANTS
  ResultN = 2
  MaxNodes = 5
  MaxLabel = 1
  Codes <- AllCodes
INVARIANTS
  BlocksPartition
  LinksFit
  EdgesAreJumps
  FailsOnMissingLabel
  GraphIsBuilt
