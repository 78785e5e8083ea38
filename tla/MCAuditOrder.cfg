SPECIFICATION FairSpec
CONSTANTS
  MaxLines = 2
  MaxTakes = 3
INVARIANTS
  LedgerInv
  AuditBeforeRecord
PROPERTIES
  EveryTakeSettles
CHECK_DEADLOCK FALSE
