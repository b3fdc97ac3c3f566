\* Library clients only, enforcing and advisory side by side.
SPECIFICATION Spec
CONSTANTS
  bytes = bytes
  slots = slots
  Axis = {bytes, slots}
  Pid = {p1, p2, p3}
  Wrapper = {}
  Mode = {"advisory", "enforce"}
  Request <- MCRequest
  Cap <- MCCap
  GrantId = {g1, g2}
  Unreadable = {}
  Faults = TRUE
  Top = 8
  MaxStart = 2
  MaxBoot = 2
INVARIANTS
  BudgetRespected
  ExactAccounting
  AdvisoryNeverSpends
PROPERTY
  NoForeignDischarge
SYMMETRY MCSymmetry
CHECK_DEADLOCK FALSE
