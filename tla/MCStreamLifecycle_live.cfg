SPECIFICATION FairSpec
CONSTANTS
  Viewers = {v1}
  Idlers = {i1}
  Restarters = {}
  Deleters = {}
  Closer = closer
  Loops = {l1}
  OneShot = oneshot
  None = none
  KeepWarm = FALSE
CHECK_DEADLOCK FALSE
PROPERTIES
  StopsReturn
  ViewersAnswered
  IdleTeardown
