SPECIFICATION FairSpec
CONSTANTS
  PAGE_SZ = 5
  PAGES_PER_BLK = 2
  NHEAP = 2
  MaxLines = 3
  SIZE_MOD = 16
  BYTE = 3
  Lens <- SmallLens
  DeadLens <- NoTuple
  PhantomLens <- PruneHint
  MaxInserts = 1
INVARIANTS TypeOK InOrderOnce ScanComplete PagesWellFormed EmptyPagesLast
PROPERTIES ScanEnds
\* The scan is over.
CHECK_DEADLOCK FALSE
