CONSTANTS
  Sizes = {1, 2}
  SegmentBytes = 2
  MaxBatch = 3
  MaxRecords = 5
SPECIFICATION Spec
INVARIANTS
  TypeOK
  CountersMatchFiles
  CursorsSafe
  DirectorySafe
  BatchSynced
  LoopsTelescope
PROPERTIES
  DropCountsLoss
  CollectFreesOnlyConfirmed
  ImplementsDurableQueue
