\* Two arenas, one with an initial block, pass two heap blocks to each other.
CONSTANTS
  t1 = t1
  t2 = t2
  a1 = a1
  a2 = a2
  b1 = b1
  b2 = b2
  b3 = b3
  i1 = i1
  NULL = NULL
  Threads = {t1, t2}
  Arenas = {a1, a2}
  HeapBlocks = {b1, b2}
  InitialBlock <- FirstHasInitialBlock
  InitialBlockSize = 4
  HeaderSize = 1
  StartBlockSize = 3
  MaxBlockSize = 6
  MinCleanupElements = 1
  MaxCleanupElements = 2
  ChunkHeaderSize = 1
  CleanupNodeSize = 1
  Sizes = {2}
  Observers = {}
  MaxLifecycle = 3
  MaxRegistered = 0
SPECIFICATION Spec
CHECK_DEADLOCK FALSE
SYMMETRY Symmetry
INVARIANTS CacheValid NoBlockLost
