CONSTANTS
  IdxWidth = 3
  EventValues = {0, 1, 2, 3, 4, 5, 6, 7}
  StartValues = {0}
  MaxBatch = 8
SPECIFICATION Spec
INVARIANT NotifiesWhenEventPlaced
