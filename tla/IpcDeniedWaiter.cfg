CONSTANTS
  Apps = {a1, a2}
  Ports = {p1}
  Chans = {c1, c2}
  Paths = {n1}
  None = None
  NumBufs = 1
  MaxHandles = 2
  FlagSets <- AnyFlags
  WaitForPort = TRUE
  EarlyCalls = FALSE
SPECIFICATION Spec
INVARIANTS
  WaiterIsListed
CHECK_DEADLOCK FALSE
