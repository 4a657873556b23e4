CONSTANTS
  Threads = {rx, tx}
  RxThread = rx
  None = None
  Num = 2
  IdxMod = 4
SPECIFICATION FairSpec
INVARIANTS
  OneOwner
  NoLostWakeup
  NoUnmappedAccess
PROPERTIES
  ImplementsRing
  AvailServed
  RxStopEnds
