CONSTANTS
  t1 = t1
  t2 = t2
  A = A
  B = B
  C = C
  Thread <- MCThread
  Chunks <- MCChunks
  Null = Null
  Invalid = Invalid
  NoThread = NoThread
  MaxBatch = 2

SPECIFICATION FairSpec

CHECK_DEADLOCK FALSE

INVARIANTS
  TypeOK
  RequestIsAcceptable
  SeriesInOrder
  InvalidRowWritesNothing

PROPERTIES
  ChunkEnds
  KeepsRowWriter
