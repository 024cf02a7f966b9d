SPECIFICATION Spec
CONSTANTS
  Viewers = {v1}
  Idlers = {}
  Restarters = {r1}
  Deleters = {d1}
  Closer = closer
  Loops = {l1, l2}
  OneShot = oneshot
  None = none
  KeepWarm = TRUE
SYMMETRY Symmetry
CHECK_DEADLOCK FALSE
INVARIANTS
  TrackedProducer
  RequestServed
  StopQuiesces
  
  FlagsBacked
