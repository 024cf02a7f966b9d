SPECIFICATION Spec
CONSTANTS
  Installs = {i1, i2}
  Pids = {p1, p2}
  MaxFaults = 2
  MaxCrashes = 2
  None = none
INVARIANTS
  RuntimeKept
PROPERTIES
  OnlyRelease
CHECK_DEADLOCK FALSE
