SPECIFICATION Spec
CONSTANTS
  Kernels <- TwoKernels
  Boards <- TwoBoards
  NBUF = 2
  MaxBlocks = 1
  MaxCalls = 3
INVARIANTS HandlesLive LoadedAsAsked HandlesReleased
\* The user may stop calling.
CHECK_DEADLOCK FALSE
