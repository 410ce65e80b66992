SPECIFICATION FairSpec
CONSTANTS
  p1 = p1
  p2 = p2
  None = None
  Procs = {p1, p2}
  LastKey = 3
  Keys <- MCKeys
  HeapSizes = {5, 7}
  BlocksPerKey = 2
  Planned = 2
  ChunksEach = 4
  MaxChunks = 3
  MinKeys = 1
  Memory = 2
  Overhead = 0
  DirSpread = 2
  Runs = 2
INVARIANTS
  NothingMissed
  MemoryBound
  SeekFinds
PROPERTIES
  NeverWrittenAgain
  CopiedOnce
  EveryoneReads
CHECK_DEADLOCK FALSE
