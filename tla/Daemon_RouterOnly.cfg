CONSTANTS
  eth = eth
  wan = wan
  Captures <- Local
  Remotes <- Remote
  Scenarios <- RouterOnly
  Capacity = 1
SPECIFICATION Spec
INVARIANTS
  CaptureFailureHasCause
CHECK_DEADLOCK FALSE
