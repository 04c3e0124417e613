SPECIFICATION Spec
CONSTANTS
  Threads = {t1, t2}
  ListKeys = {1, 2, 3}
  kMaxHeight = 2
  MaxInserts = 3
  TableKeys = {1, 2, 3, 4}
  Hash <- MCHash
  BUCKET_MAX = 3
  BUCKET_PER_MUTEX = 2
  kBlockSize = 12
  align = 4
  BlockSize = 7
  NodeSize = 1
  Sizes = {3, 6}
  MaxBlocks = 3
  Words = {0, 1, 2}
  MaxSets = 4
  MaxWrites = 3
  NotFound = NotFound
  Ok = Ok
  OutOfMemory = OutOfMemory
  Nothing = Nothing
INVARIANTS SkipListIsSearchable TableCallsAreAtomic AllocationsApart
INVARIANTS TracerUndoesWhatMayBeLost IndexFindsTheLast HashesTakeInTheInput
SYMMETRY Symmetry
