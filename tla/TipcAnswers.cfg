\* One slot: the second of two connections may find the table full.
CONSTANTS
  Remotes = {r1, r2}
  None = None
  NumSlots = 1
  MaxConns = 2
  TxBufs = 1
  RxBufs = 1
  MaxMsgs = 1
SPECIFICATION FairSpec
PROPERTIES
  ConnAnswered
  HangupReported
