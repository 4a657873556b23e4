CONSTANTS
  Timeout = 1
  MaxBytes = 1
  MaxInits = 1
  HeapTails <- MCHeapTails
SPECIFICATION FairSpec
PROPERTIES
  CameraGetsCommand
