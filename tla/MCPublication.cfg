CONSTANTS
  MaxFrames = 2
  MaxPanics = 1
  Sites <- SmallSites
SPECIFICATION FairSpec
INVARIANTS
  RecordInv
  RunNeverWaitsOnSlot
  StampedFramesAreStored
PROPERTIES
  ShutdownCompletes
CHECK_DEADLOCK FALSE
