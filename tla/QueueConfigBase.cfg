CONSTANTS
  IdxWidth = 3
  MaxSize = 4
  HalfBits = 4
  MemBase = 32
  MemSize = 128
  SizeInputs <- MC_SizeInputs
  LowInputs <- MC_LowInputs
  HighInputs <- MC_HighInputs
SPECIFICATION Spec
INVARIANT ValidatedRoundInMemory
