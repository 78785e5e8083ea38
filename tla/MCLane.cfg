SPECIFICATION LaneLive
CONSTANTS
  i1 = i1
  i2 = i2
  i3 = i3
  w1 = w1
  w2 = w2
  Item = {i1, i2, i3}
  NoItem = NoItem
  Worker = {w1, w2}
  Capacity = 1
  MaxPanics = 2
INVARIANTS
  LaneInv
  DropSettlesAll
PROPERTIES
  CallsComplete
CHECK_DEADLOCK FALSE
