SPECIFICATION Spec
CONSTANTS
  NCOMPUTES = 2
  MaxBlk = 9
  MaxCalls = 1
  Faults <- EnqueueFaults
INVARIANTS TypeOK RingBooks FillOwnsSlot SourceStable EachBlockOnce ResultComplete
\* The user may stop asking queries.
CHECK_DEADLOCK FALSE
