\* The writes are bounded by MaxWrites, so a log that has taken them all is at rest.
SPECIFICATION Spec
CONSTANTS
  Groups <- TwoGroups
  MaxTerm = 2
  SlotsPerSector = 1
  RewriteSectors = 2
  MaxCrashes = 2
  Mine = 1
  MaxIndex = 2
  MaxWrites = 3
INVARIANTS
  IndexInv
  VotesFollowTheLog
  VotersHaveTheirLog
PROPERTIES
  ImplementsDurableLog
CHECK_DEADLOCK FALSE
