SPECIFICATION FairSpec
CONSTANTS
  Handlers = {h1, h2, h3}
  Starters = {s1, s2}
  Stalled = {h3}
  None = none
CHECK_DEADLOCK FALSE
INVARIANTS
  ViewersKnown
  DepartureReported
  StoppedIsEmpty
PROPERTIES
  SlowViewerCloses
  HandlersGathered
