\* Three overlapping reads, one of them abortable, a store that may throw.
SPECIFICATION Spec
CONSTANTS
  r1 = r1
  r2 = r2
  r3 = r3
  None = None
  Reads = {r1, r2, r3}
  Signalled = {r1}
  Ranges <- Overlapping
  Chunks = {0, 1, 2}
  ChunkSize = 2
  FileSize = 3
  MemoryMaxBytes = 2
  NetworkFails = FALSE
  StoreFails = TRUE
CHECK_DEADLOCK FALSE
INVARIANTS ExactBytes NeverFetchedTwice MemoryAccounted StoreNeverFailsRead
PROPERTIES EveryReadSettles
