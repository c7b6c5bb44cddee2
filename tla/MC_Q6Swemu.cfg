SPECIFICATION Spec
CONSTANTS
  PAGE_SZ = 312
  Blocks <- TwoPages
  Hints <- SomeHints
INVARIANTS TypeOK InStep ResultIsQuery6
PROPERTIES StrayHasCause
\* The block is done.
CHECK_DEADLOCK FALSE
