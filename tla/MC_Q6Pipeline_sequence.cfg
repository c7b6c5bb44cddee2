SPECIFICATION FairSpec
CONSTANTS
  NCOMPUTES = 1
  MaxBlk = 3
  MaxCalls = 2
  Faults <- LeftoverFaults
INVARIANTS QuietAfterSuccess FillOwnsSlot
PROPERTIES ImplementsQuery QueryReturns
\* The user may stop asking queries.
CHECK_DEADLOCK FALSE
