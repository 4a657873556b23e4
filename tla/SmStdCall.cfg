CONSTANTS
  Cpus = {c1, c2}
  Callers = {w1, w2}
  None = None
  Requests = {1, 4}
  NeedVersion = 2
  TRUSTY_API_VERSION_CURRENT = 3
  MaxFiqs = 1
SPECIFICATION FairSpec
INVARIANTS
  OwnResult
  RightKind
  ActiveInside
  NoProtocolError
  OneVersion
PROPERTIES
  CallEnds
