\* The votes are bounded by MaxTerm, so a replica that has cast them all is at rest.
SPECIFICATION VoteLiveSpec
CONSTANTS
  Groups <- ThreeGroups
  MaxTerm = 2
  SlotsPerSector = 2
  RewriteSectors = 2
  MaxCrashes = 2
INVARIANTS
  VoteInv
  VotesAreKept
PROPERTIES
  SavesAreAnswered
CHECK_DEADLOCK FALSE
