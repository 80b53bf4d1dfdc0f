CONSTANTS
  Total = 4
  PageSizes <- MCPageSizes
  RowCaps <- MCRowCaps
  VectorSize = 2
  MaxCursors = 5

SPECIFICATION FairSpec

CHECK_DEADLOCK FALSE

INVARIANTS
  TypeOK
  EmittedIsPrefix
  EndMeansComplete
  FetchIsBounded

PROPERTIES
  ScanReturns
