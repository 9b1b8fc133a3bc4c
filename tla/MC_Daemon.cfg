CONSTANTS
  eth = eth
  wan = wan
  Captures <- Local
  Remotes <- Remote
  Scenarios <- Several
  Capacity = 1
SPECIFICATION FairSpec
INVARIANTS
  TypeOK
  EndHandsOver
PROPERTIES
  StopsWithoutTimeout
  FailureEndsProcess
CHECK_DEADLOCK FALSE
