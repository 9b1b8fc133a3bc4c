CONSTANTS
  eth = eth
  wan = wan
  Captures <- Local
  Remotes <- Remote
  Scenarios <- Several
  Capacity = 1
SPECIFICATION Spec
INVARIANTS
  AdminStopsLast
CHECK_DEADLOCK FALSE
