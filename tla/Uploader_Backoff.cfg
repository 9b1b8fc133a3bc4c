CONSTANTS
  Senders <- TwoSenders
  Capacity = 1
  BatchMax = 1
  Undecodable <- OldRecord
  MaxEvents = 2
  MaxRestarts = 0
SPECIFICATION Spec
INVARIANT DurabilityIndependentOfUpload
CHECK_DEADLOCK FALSE
