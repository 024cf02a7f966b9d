SPECIFICATION FairSpec
CONSTANTS
  Packages = {k1, k2}
  Presses = {p1}
  Restore = restore
  Probes = {f1}
  Captures = {s1}
  Deletions = {d1}
  RetainApplication = FALSE
  MaxCalls = 2
  None = none
INVARIANTS
  OfferIsBacked
  GateHolds
  StatusSettles
  NothingReturns
PROPERTIES
  LockIsReleased
