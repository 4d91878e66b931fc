\* Two declared types, each declared with any type of the list.
SPECIFICATION Spec
CONSTANTS
  Named = {A, B}
  Basic = {int}
  Literal <- Literals
  Depth = 2
  ArrayLen = 2
  NoType = NoType
SYMMETRY Symmetry
INVARIANTS
  AcceptsValid
  RejectsInvalid
  FactsAgree
  StrongFirst
CHECK_DEADLOCK FALSE
