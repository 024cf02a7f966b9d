SPECIFICATION FairSpec
CONSTANTS
  Passwords = {p1, p2}
  MaxFaults = 2
  None = none
CHECK_DEADLOCK FALSE
INVARIANTS
  UpToDate
  
PROPERTIES
  Recovers
