SPECIFICATION QuerySpec
CONSTANTS
  Name = {f1, f2, f3}
  Compactor = {c1, c2}
  Sites <- SmallSites
SYMMETRY Symmetry
INVARIANTS
  FilesInv
  RowsOnce
  ErasedStayGone
  QueryInv
