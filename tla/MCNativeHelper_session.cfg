SPECIFICATION FairNativeSpec
CONSTANTS
  Builds = {"stream", "snapshot", "probe"}
  Room = 1
  NoWrite = nowrite
CHECK_DEADLOCK FALSE
INVARIANTS
  CleanShutdown
PROPERTIES
  OrphanEnds
  WritesEnd
  StopEnds
