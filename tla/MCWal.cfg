CONSTANTS
  Sizes = {1, 3}
  SegmentSize = 4
  Budget = 2
  MaxFrames = 4
  MaxSegments = 3
  MaxCrashes = 2
SPECIFICATION Spec
INVARIANTS
  SegmentInv
  CoveredFramesAreReplayable
  RecoveryRefusesOnlyBrokenRoots
PROPERTIES
  BudgetIsRefilledByDischarge
CHECK_DEADLOCK FALSE
