CONSTANTS
  Threads = {rx, tx}
  RxThread = rx
  None = None
  Num = 1
  IdxMod = 2
SPECIFICATION FairSpec
PROPERTIES
  TxStopEnds
