SPECIFICATION ReclaimSpec
CONSTANTS
  a = a
  b = b
  Tenant = {a, b}
  Sites <- SmallSites
SYMMETRY TenantSymmetry
INVARIANTS
  PassInv
  GoneIsAccounted
  ReclaimedIsGone
  RefusalMeansLoss
PROPERTIES
  UnlinksOnlyUnneeded
