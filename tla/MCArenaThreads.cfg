\* Two threads allocate from one arena of three heap blocks, and reset it once.
CONSTANTS
  t1 = t1
  t2 = t2
  a1 = a1
  a2 = a2
  b1 = b1
  b2 = b2
  b3 = b3
  i1 = i1
  NULL = NULL
  Threads = {t1, t2}
  Arenas = {a1}
  HeapBlocks = {b1, b2, b3}
  InitialBlock <- NoInitialBlock
  InitialBlockSize = 4
  HeaderSize = 1
  StartBlockSize = 3
  MaxBlockSize = 4
  MinCleanupElements = 2
  MaxCleanupElements = 3
  ChunkHeaderSize = 1
  CleanupNodeSize = 1
  Sizes = {2, 4}
  Observers = {}
  MaxLifecycle = 2
  MaxRegistered = 2
SPECIFICATION Spec
CHECK_DEADLOCK FALSE
SYMMETRY Symmetry
INVARIANTS AllocationFits ExclusiveBlock CleanupsKept
