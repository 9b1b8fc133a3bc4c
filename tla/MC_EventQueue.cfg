CONSTANTS
  Config <- SmallConfig
  Sizes <- MixedSizes
  MaxBatch = 3
  MaxRecords <- FewRecords
  MaxRefused = 1
SPECIFICATION Spec
INVARIANTS
  TypeOK
  LogsConsistent
  WithinLimit
  ImportantFirst
PROPERTIES
  ImportantLast
  RefusesOnlyOversized
  ImplementsDurableQueues
