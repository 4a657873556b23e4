CONSTANTS
  Apps = {a1, a2}
  Ports = {p1, p2}
  Chans = {c1, c2, c3, c4}
  Paths = {n1}
  None = None
  NumBufs = 1
  MaxHandles = 2
  FlagSets <- AnyFlags
  WaitForPort = TRUE
  EarlyCalls = TRUE
SYMMETRY Symm
SPECIFICATION Spec
INVARIANTS
  RefsMatch
  DestroyAsserts
  EndsAgree
  NoLeak
  NoMissedPort
  SyncConnectResolves
PROPERTIES
  ForwardOnly
CHECK_DEADLOCK FALSE
