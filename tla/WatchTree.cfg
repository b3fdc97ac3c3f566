\* A child with up to two descendants; two of the three are too many.
SPECIFICATION FairSpec
CONSTANTS
  Proc = {root, k1, k2}
  Root = root
  System = system
  Limit = 1
  Retries = 2
  Faults = TRUE
INVARIANTS
  NobodyLeft
  FinishedInside
PROPERTIES
  HogsAreKilled
  WatchEnds
CHECK_DEADLOCK FALSE
