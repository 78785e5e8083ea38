CONSTANTS
  MaxFrames = 3
  MaxCrashes = 3
SPECIFICATION Spec
INVARIANTS
  NoAckedFrameIsLost
CHECK_DEADLOCK FALSE
