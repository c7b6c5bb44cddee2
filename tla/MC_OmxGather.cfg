SPECIFICATION Spec
CONSTANTS
  Rows = 32
  BankRows = 16
  MAX_STREAM = 8
  Work = 8
  DEPTH = 1
  CommandLines <- AllLines
  Lookups <- OneBlock
INVARIANTS TypeOK GatherIsIndirection NothingLeft
PROPERTIES ProgramEnds
\* The program ends; ProgramEnds rules out any other end.
CHECK_DEADLOCK FALSE
