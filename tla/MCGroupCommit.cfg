CONSTANTS
  r1 = r1
  r2 = r2
  r3 = r3
  Request <- Requests
SPECIFICATION FairSpec
INVARIANTS
  HandoffInv
  AckImpliesDurable
  NoStrandedWaiter
PROPERTIES
  EveryAppendIsAnswered
CHECK_DEADLOCK FALSE
