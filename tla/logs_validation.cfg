CONSTANTS
  t1 = t1
  t2 = t2
  Thread <- MCThread
  Chunks <- MCChunks
  Null = Null
  NoThread = NoThread
  MaxBatch = 2
  MaxBytes = 3

SPECIFICATION Spec

CHECK_DEADLOCK FALSE

INVARIANT
  RefusedRowWritesNothing
