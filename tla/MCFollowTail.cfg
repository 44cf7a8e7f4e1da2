SPECIFICATION FollowFair
CONSTANTS
  ItemsPerValue = 1
  Modes = {"file", "pipe", "stdin"}
  Inodes = {i1, i2}
  NIL = NIL
  Texts <- MCTexts
  MaxBytes = 5
  MaxEvents = 2
  Chunk = 2
  HeldCap = 2
  Governed = TRUE
INVARIANTS
  ShownIsWholeRun
  SeenIsFile
  DrainIsWhole
  HeldIsBounded
PROPERTY
  CatchesUp
CHECK_DEADLOCK FALSE
