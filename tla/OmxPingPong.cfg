SPECIFICATION Spec
CONSTANTS
  TotalBlocks = 5
INVARIANTS KernelReadsItsTransfer ResultOfItsKernel OnlyLastTwoLate
PROPERTIES AllArrive
\* The program ends; AllArrive rules out any other end.
CHECK_DEADLOCK FALSE
