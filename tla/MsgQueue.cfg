CONSTANTS
  NumItems = 3
  ItemSize = 2
  Payloads <- MCPayloads
SPECIFICATION FairSpec
INVARIANTS
  ListsMatchStates
  BlockedMeansFull
  WaiterWillBeWoken
PROPERTIES
  ImplementsFifo
  WaiterProgress
CHECK_DEADLOCK FALSE
