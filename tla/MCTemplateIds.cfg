SPECIFICATION Spec
CONSTANTS
  r1 = r1
  r2 = r2
  Receiver = {r1, r2}
  Sites <- SmallSites
SYMMETRY ReceiverSymmetry
INVARIANTS
  ReserveInv
  OneTemplatePerId
  MarkerCoversUsable
CHECK_DEADLOCK FALSE
