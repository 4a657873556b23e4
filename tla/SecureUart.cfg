CONSTANTS
  Timeout = 2
  MaxBytes = 3
  MaxInits = 2
  HeapTails <- MCHeapTails
SPECIFICATION FairSpec
INVARIANTS
  FlushedStaysOut
PROPERTIES
  ReplyNotCut
  ExchangeEnds
