SPECIFICATION Spec
CONSTANTS
  NCOMPUTES = 1
  BLK_PAGES = 2
  RELSEG_SIZE = 4
  INT_PAGES = 8
  MaxPages = 4
  MaxCalls = 1
  Faults <- ReadFaults
INVARIANTS ReadErrorReported
\* One query is asked.
CHECK_DEADLOCK FALSE
