SPECIFICATION Spec
CONSTANTS
  TotalBlocks = 4
CHECK_DEADLOCK FALSE
INVARIANTS KernelReadsItsBlock
