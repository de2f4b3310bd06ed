CONSTANTS
  QSize <- MC_QSize
  IdxWidth <- MC_IdxWidth
  MaxDefers <- MC_MaxDefers
SPECIFICATION Spec
INVARIANT TypeOK
INVARIANT HeadsConserved
INVARIANT NoLostWakeup
INVARIANT NoLostInterrupt
PROPERTY ImplementsVirtqueue
