CONSTANTS
  t1 = t1
  t2 = t2
  Thread <- MCThread
  Chunks <- MCChunks
  Null = Null
  NoThread = NoThread
  MaxBatch = 2
  MaxBytes = 3

SPECIFICATION FairSpec

CHECK_DEADLOCK FALSE

INVARIANTS
  TypeOK
  BatchWithinLimits
  StoredIsPrefix

PROPERTIES
  ChunkEnds
  KeepsRowWriter
