SPECIFICATION Spec
CONSTANTS
  Grants = {g, h}
  Parent = Parent
  NONE = NONE
  Envelope <- MCEnvelope
  MemoryLimit = 11
  LedgerBytes = 1
  Sizes = {1, 2}
  ForeignSizes = {1, 3}
  MaxLive = 1
SYMMETRY Symmetry
CONSTRAINT ForeignBound
INVARIANTS
  LedgersSound
  CoveredByHold
  QuietIsExact
  ParentExact
  CeilingBindsAll
