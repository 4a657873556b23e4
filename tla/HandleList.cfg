CONSTANTS
  Handles = {h1, h2}
  None = None
SPECIFICATION FairSpec
INVARIANTS
  EventLives
  NoLostWakeup
PROPERTIES
  EveryHandleServed
  ResetEnds
