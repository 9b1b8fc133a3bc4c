CONSTANTS
  Config <- ShrinkingConfig
  Sizes <- UnitSizes
  MaxBatch = 1
  MaxRecords <- FourRecords
  MaxRefused = 1
SPECIFICATION Spec
PROPERTY RefusesOnlyOversized
