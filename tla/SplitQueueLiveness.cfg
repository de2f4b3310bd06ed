CONSTANTS
  QSize <- MC_QSize
  IdxWidth <- MC_IdxWidth
  MaxDefers <- MC_MaxDefers
SPECIFICATION Spec
PROPERTY EveryBufferReturned
