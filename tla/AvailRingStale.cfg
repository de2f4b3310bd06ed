CONSTANTS
  IdxWidth = 3
  QSize = 2
  MaxWrites = 5
  Reading = "wrap"
SPECIFICATION Spec
PROPERTY NoChainWhileBehind
CHECK_DEADLOCK FALSE
