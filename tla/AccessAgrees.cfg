CONSTANTS
  Files = {"f"}
  Channels = {"1", "2"}
  Variables = {x, y}
  Unsuitable = unsuitable
  FileArgs <- MCFewArgs
  Aliases <- MCAliases
  Moves = FALSE
  MaxFcbs = 2
SPECIFICATION Spec
INVARIANT AccessAgrees
CHECK_DEADLOCK FALSE
