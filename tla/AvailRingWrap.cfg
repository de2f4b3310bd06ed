CONSTANTS
  IdxWidth = 3
  QSize = 2
  MaxWrites = 5
  Reading = "wrap"
SPECIFICATION Spec
INVARIANT TypeOK
PROPERTY LoopTerminates
CHECK_DEADLOCK FALSE
