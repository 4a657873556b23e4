CONSTANTS
  Clients = {c1, c2}
  None = None
  NumBufs = 1
  MaxReqs = 2
SPECIFICATION FairSpec
INVARIANTS
  NoHandleLeak
PROPERTIES
  RequestAnswered
  PendingServed
