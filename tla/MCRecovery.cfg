CONSTANTS
  MaxFrames = 4
  MaxCrashes = 3
SPECIFICATION Spec
INVARIANTS
  CheckpointNeverAtLosableOffset
  AckedFramesSurvive
  MinerFoldsAckedFrames
CHECK_DEADLOCK FALSE
