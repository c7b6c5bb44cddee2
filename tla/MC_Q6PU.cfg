SPECIFICATION Spec
CONSTANTS
  NUM_PU = 2
  PAGES = 2
  PAGE_SZ = 8
  WORD_SZ = 4
  IN_DEPTH = 2
  Layout <- TwoColumns
  Columns <- Needed
  PageCounts <- EmptyHalfFull
  STREAM_DEPTH = 2
INVARIANTS TypeOK RowsAligned PageUsedUp
PROPERTIES BlockFinishes
\* The kernel stops at the end of its block; BlockFinishes rules out any other end.
CHECK_DEADLOCK FALSE
