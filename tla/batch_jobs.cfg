SPECIFICATION FairSpec
CONSTANTS
  Item = {i1, i2, i3}
  NoParent = NoParent
  Elsewhere = Elsewhere
  MaxBatches = 3
  MaxSize = 2
  MaxFaults = 1
CHECK_DEADLOCK FALSE
INVARIANT BatchJobsInv
PROPERTY OneTrueReport EveryImportIsReported EveryBatchEnds
