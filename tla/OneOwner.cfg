SPECIFICATION Spec
CONSTANTS
  Threads = {a, b, c}
  Blocks = {x, y}
  Layouts <- MCLayouts
  SlabBytes = 4
  Base = 1
  MaxDepth = 2
  NONE = NONE
SYMMETRY Symmetry
INVARIANT OneOwner
