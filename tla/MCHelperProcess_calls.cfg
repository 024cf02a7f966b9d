SPECIFICATION FairSpec
CONSTANTS
  Runs = {r1}
  Streams = {s1}
  Stoppers = {t1}
  Procs = {p1, p2}
  MaxCancel = 2
  CleanupCancels = TRUE
  None = none
CHECK_DEADLOCK FALSE
INVARIANTS
  AllReapedTrue
  SecretsScrubbed
PROPERTIES
  OneChild
  CallsEnd
