SPECIFICATION Spec
CONSTANTS
  Filters <- MCFilters
  Inputs <- MCInputs
INVARIANTS
  AnswersTheFilter
  StackIsSound
  RegionsClose
CHECK_DEADLOCK FALSE
