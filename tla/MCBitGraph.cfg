\* g_ and g2_ of reg::Allocator, one edited and one a copy of it, of at most 3
\* nodes: rows of 3 bits in words of 4.
SPECIFICATION Spec
CONSTANTS
  Ids = {g, g2}
  Edited = {g}
  MaxNodes = 3
  W = 4
  SizeMod = 9
VIEW GraphState
INVARIANTS
  CountersAgree
  LookupsAgree
PROPERTIES
  ImplementsGraph
