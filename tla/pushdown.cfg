CONSTANTS
  NanosPerSecond = 3
  Times <- MCTimes
  Upper <- MCUpper
  LogSeverity <- MCLogSeverity
  Null = Null
  RowCaps <- MCRowCaps
  Filters <- MCFilters
  MaxFilters = 2

SPECIFICATION Spec

INVARIANTS
  TypeOK
  NoMatchIsLost
