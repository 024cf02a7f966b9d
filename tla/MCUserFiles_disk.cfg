SPECIFICATION FilesSpec
CONSTANTS
  Preparations = {t1, t2}
  Packages = {k1, k2}
  Stores = {s1}
  Deletions = {d1}
  MaxRestarts = 1
  MaxStores = 2
  MaxActive = 2
  NoPackage = none
INVARIANTS
  Restorable
PROPERTIES
  StagingKept
CHECK_DEADLOCK FALSE
SYMMETRY Symmetry
