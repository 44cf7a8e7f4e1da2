SPECIFICATION FollowSpec
CONSTANTS
  ItemsPerValue = 1
  Modes = {"pipe", "stdin"}
  Inodes = {i1, i2}
  NIL = NIL
  Texts <- MCTexts
  MaxBytes = 7
  MaxEvents = 2
  Chunk = 4
  HeldCap = 2
  Governed = FALSE
INVARIANT
  MalformedIsTold
CHECK_DEADLOCK FALSE
