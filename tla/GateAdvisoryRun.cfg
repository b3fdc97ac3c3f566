\* `omega-hostgate run` under an advisory configuration.
SPECIFICATION Spec
CONSTANTS
  bytes = bytes
  slots = slots
  Axis = {bytes, slots}
  Pid = {w1, c1, c2}
  Wrapper = {w1}
  Mode = {"advisory"}
  Request <- MCRequest
  Cap <- MCCapOne
  GrantId = {g1, g2}
  Unreadable = {}
  Faults = FALSE
  Top = 8
  MaxStart = 2
  MaxBoot = 2
INVARIANT
  AdvisoryNeverSpends
CHECK_DEADLOCK FALSE
