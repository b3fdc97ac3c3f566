\* A transfer that meets one I/O error.
SPECIFICATION Spec
CONSTANTS
  bytes = bytes
  slots = slots
  Axis = {bytes, slots}
  Pid = {w1, c1, c2}
  Wrapper = {w1}
  Mode = {"enforce"}
  Request <- MCRequest
  Cap <- MCCapOne
  GrantId = {g1, g2}
  Unreadable = {}
  Faults = TRUE
  Top = 8
  MaxStart = 2
  MaxBoot = 2
INVARIANT
  WaitedForIsCharged
CHECK_DEADLOCK FALSE
