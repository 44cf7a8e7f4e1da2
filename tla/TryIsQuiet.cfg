SPECIFICATION Spec
CONSTANTS
  Filters <- Handled
  Inputs <- MCInputs
INVARIANT TryIsQuiet
CHECK_DEADLOCK FALSE
