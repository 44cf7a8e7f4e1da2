SPECIFICATION FairRelaySpec
CONSTANTS
  Cap = 4
  Permits = 2
  Outcomes <- MCOutcomes
  NONE = NONE
  Units <- MCUnits
  CanEnd <- MCCanEnd
  InputBytes <- MCInputBytes
  ResultBytes <- MCResultBytes
  GrantBytes = 4
  OutputBytes = 2
  MaxInput = 8
  MaxResults = 8
  Headroom = 10
  OwnBytes <- MCOwnBytes
  MaxOrdinal = 5
  Kinds <- MCKinds
  Sources <- MCSources
  SerialBytes <- MCSerialBytes
  SerialStops <- MCSerialStops
  Tails = {"exhausted", "malformed"}
INVARIANTS
  LaneLeavesNothing
PROPERTIES
  ImplementsSerialStream
  RequestEnds
CHECK_DEADLOCK FALSE
