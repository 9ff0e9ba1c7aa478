CONSTANTS
  Files = {"f"}
  Channels = {"1", "2"}
  Variables = {x, y}
  Unsuitable = unsuitable
  FileArgs <- MCFileArgs
  Aliases <- MCAliases
  Moves = TRUE
  MaxFcbs = 2
SPECIFICATION Spec
INVARIANTS
  EndClosesAll
  NoneDangles
PROPERTY TextKept
CHECK_DEADLOCK FALSE
SYMMETRY Alike
