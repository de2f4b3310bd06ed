CONSTANTS
  IdxWidth = 4
  EventValues = {0, 1, 2, 3, 4, 5, 6, 7, 8, 9, 10, 11, 12, 13, 14, 15}
  StartValues = {0, 1, 2, 3, 4, 5, 6, 7, 8, 9, 10, 11, 12, 13, 14, 15}
  MaxBatch = 15
SPECIFICATION Spec
INVARIANT TypeOK
INVARIANT NotifiesWhenEventPlaced
