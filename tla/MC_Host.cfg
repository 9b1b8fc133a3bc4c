CONSTANTS
  Width = 3
  MaxBits = 2
  AllowedPorts <- MCAllowedPorts
  BadCommunities <- MCBadCommunities
  TokenTicks = 2
  Remembered = 3
  Casts <- MCCasts
SPECIFICATION Spec
INVARIANTS
  ProbesConsented
  ProbesPaced
  FilesSurvive
CHECK_DEADLOCK FALSE
