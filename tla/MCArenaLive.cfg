\* Fair scheduling: two threads, one arena, a reset; one thread also sums the space in use.
CONSTANTS
  t1 = t1
  t2 = t2
  a1 = a1
  a2 = a2
  b1 = b1
  b2 = b2
  b3 = b3
  i1 = i1
  NULL = NULL
  Threads = {t1, t2}
  Arenas = {a1}
  HeapBlocks = {b1, b2}
  InitialBlock <- NoInitialBlock
  InitialBlockSize = 4
  HeaderSize = 1
  StartBlockSize = 3
  MaxBlockSize = 6
  MinCleanupElements = 1
  MaxCleanupElements = 2
  ChunkHeaderSize = 1
  CleanupNodeSize = 1
  Sizes = {2}
  Observers = {t2}
  MaxLifecycle = 2
  MaxRegistered = 3
SPECIFICATION FairSpec
CHECK_DEADLOCK FALSE
PROPERTIES EveryCallReturns SpaceUsedInRange
INVARIANTS SpaceIsSum TypeOK
