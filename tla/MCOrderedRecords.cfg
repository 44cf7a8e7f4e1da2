SPECIFICATION FairSpec
CONSTANTS
  Cap = 3
  Permits = 2
  Outcomes <- MCOutcomes
  NONE = NONE
  Units <- MCUnits
  CanEnd <- MCCanEnd
  InputBytes <- MCInputBytes
  ResultBytes <- MCResultBytes
  GrantBytes = 4
  OutputBytes = 2
  MaxInput = 4
  MaxResults = 6
  Headroom = 12
  OwnBytes <- MCOwnBytes
  MaxOrdinal = 4
INVARIANTS
  InFlightExact
  LedgerExact
  PermitsExact
  NoContractError
  NoLostWakeup
PROPERTIES
  NothingAfterStop
  CallsReturn
