SPECIFICATION Spec
CONSTANTS
  Viewers = {v1, v2}
  Idlers = {i1}
  Restarters = {}
  Deleters = {}
  Closer = closer
  Loops = {l1, l2}
  OneShot = oneshot
  None = none
  KeepWarm = FALSE
SYMMETRY Symmetry
CHECK_DEADLOCK FALSE
INVARIANTS
  ViewerHasProducer
