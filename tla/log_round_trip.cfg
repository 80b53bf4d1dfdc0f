CONSTANTS
  NanosPerSecond = 8
  NanosPerMilli = 4
  NanosPerMicro = 2
  MinNanos <- MCMinNanos
  MaxNanos = 16
  Now = 7
  Project = "p"
  NotText = NotText
  SnakeCase <- MCSnakeCase
  Rows <- MCRows
  Entries <- MCEntries
  MaxLogId = 9
  MaxCopies = 4

SPECIFICATION Spec

CHECK_DEADLOCK FALSE

INVARIANTS
  RowReadsBack
  CopiesSettle
