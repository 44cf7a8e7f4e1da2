SPECIFICATION FairSpec
CONSTANTS
  NONE = NONE
  FAILED = FAILED
  Profiles = {"strict", "recovering"}
  ItemsPerValue = 4
  Streams <- MCStreams
  MaxPiece = 4
  MaxRetained = 6
  Rooms = {1, 6}
  BatchEntries = 2
  BatchBytes = 4
  DiagnosticCap = 2
INVARIANTS
  TypeOK
  FeedIsRoute
  WindowExact
PROPERTY
  EndIsReached
