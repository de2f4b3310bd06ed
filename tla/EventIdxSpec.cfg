CONSTANTS
  IdxWidth = 16
  EventValues = {5}
  StartValues <- MC_StartValues
  MaxBatch = 1
SPECIFICATION Spec
INVARIANT NotifiesAsSpecified
