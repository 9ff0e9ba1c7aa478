SPECIFICATION Spec
CONSTANTS
  W = 2
  Cells <- MCCells
  Roots <- MCOneRoot
  GbcNm = 6
  Kind <- MCKind
  GbSed = 2
  Bottom = 14
  FirstName = 22
  MaxName = 30
  Grants = {2, 4}
  Static = 10
  Chunks = {2}
  ESts = 4
  AlfSf = 2
  RsMem = 2
  Shapes <- MCAllShapes
INVARIANTS
  TypeOK
  StaticBelowDynamic
  WithinMemory
  HeapIsBlocks
  OverflowOnlyWhenFull
  Compacted
  ChainsWellFormed
PROPERTIES
  CallEnds
CHECK_DEADLOCK FALSE
