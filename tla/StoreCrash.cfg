\* Every interleaving, fault and crash of three callers.
SPECIFICATION FairSpec
CONSTANTS
  p1 = p1
  p2 = p2
  t1 = t1
  t2 = t2
  t3 = t3
  Process = {p1, p2}
  Thread = {t1, t2, t3}
  Home <- MCHome
  NoThread = none
  Faults = TRUE
  MaxCalls = 1
  MaxBoot = 3
INVARIANTS
  NeverTorn
PROPERTIES
  ImplementsAtomicLedger
  EveryCallEnds
CHECK_DEADLOCK FALSE
