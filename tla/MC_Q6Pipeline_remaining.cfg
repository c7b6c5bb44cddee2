SPECIFICATION Spec
CONSTANTS
  NCOMPUTES = 1
  MaxBlk = 2
  MaxCalls = 1
  Faults <- EnqueueFaults
INVARIANTS RemainingEnquesComplete
\* The user may stop asking queries.
CHECK_DEADLOCK FALSE
