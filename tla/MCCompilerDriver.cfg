\* Two functions, bodies of every kind, memory exhausted anywhere.
SPECIFICATION Spec
CONSTANTS
  f = f
  g = g
  plain = plain
  unsupported = unsupported
  unplaced = unplaced
  NoBody = NoBody
  NoCode = NoCode
  NoFunc = NoFunc
  Bodies = {plain, NoBody, unsupported, unplaced}
  Misplaced = {NoBody}
  Unsupported = {unsupported}
  Unplaced = {unplaced}
  BodiesOf <- GivenBodies
  MaxVars <- VarBounds
  Funcs = {f, g}
  Exhausting = {"NOARCH", "MIR", "X64", "registers"}
INVARIANTS
  DriverInv
  CodeIsOfOneBody
  PortableVarsKept
  SilentMeansCompiled
  OwnFaultsReported
PROPERTIES
  FreshCallsAreExact
