SPECIFICATION Spec
CONSTANTS
  NCOMPUTES = 1
  BLK_PAGES = 2
  RELSEG_SIZE = 4
  INT_PAGES = 8
  MaxPages = 13
  MaxCalls = 2
  Faults <- ReadEnqueueFaults
INVARIANTS TypeOK ReadOwnsSlot NoPageTwice EveryPageOnce
PROPERTIES QueryReturns
\* Two queries are asked.
CHECK_DEADLOCK FALSE
