\* Two addresses, two endpoint slots, three connections after one another.
CONSTANTS
  Remotes = {r1, r2}
  None = None
  NumSlots = 2
  MaxConns = 3
  TxBufs = 1
  RxBufs = 1
  MaxMsgs = 1
SPECIFICATION Spec
SYMMETRY RemoteSymmetry
INVARIANTS
  EptsAgree
  NoCrossDelivery
  ResetClean
  NoSilentClose
