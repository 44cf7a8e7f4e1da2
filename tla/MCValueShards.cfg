SPECIFICATION Spec
CONSTANTS
  Inputs <- MCInputs
  FirstTarget = 1
  Target = 3
  Probe = 6
INVARIANTS
  ShardsTile
  DeclineIsFirst
  NothingDropped
  LaneReadsSerial
CHECK_DEADLOCK FALSE
