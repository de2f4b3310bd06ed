CONSTANTS
  IdxWidth = 3
  QSize = 2
  MaxWrites = 5
  Reading = "bounded"
SPECIFICATION Spec
PROPERTY LoopTerminates
CHECK_DEADLOCK FALSE
