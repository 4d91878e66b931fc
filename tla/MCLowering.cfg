\* Every program of the corpus.  A program that returned stops.
SPECIFICATION FairSpec
CONSTANTS
  ResultN = 2
  Bodies <- Programs
INVARIANTS
  SameEffects
  MisplacedReported
PROPERTIES
  CodeKeepsUp
CHECK_DEADLOCK FALSE
