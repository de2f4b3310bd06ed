CONSTANTS
  Entries = 2
  AddrLow = {0, 1, 4096}
  AddrHigh = {0, 65536}
  FlagInputs = {0, 1}
SPECIFICATION Spec
INVARIANT NoPanic
CHECK_DEADLOCK FALSE
