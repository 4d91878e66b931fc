SPECIFICATION Spec
CONSTANTS
  ResultN = 2
  Bodies <- ContinueBodies
INVARIANTS
  SameEffects
CHECK_DEADLOCK FALSE
