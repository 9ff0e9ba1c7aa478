SPECIFICATION EFSpec
CONSTANTS
  Names = {f, g, size}
  Protected = {size}
  Blocks = {b1, b2, b3}
  Nodes = {k1, k2}
  Libs = {lib1, lib2}
  Sigs <- MCSigs
  Undefined = Undefined
  Internal = Internal
  None = None
  MaxUse = 3
INVARIANTS LoadedWhenCalled UseCounts NodesAccounted ArgumentCopies
SYMMETRY MCSymmetry
