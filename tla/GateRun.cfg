\* `omega-hostgate run` beside library clients, every process enforcing.
SPECIFICATION FairSpec
CONSTANTS
  bytes = bytes
  slots = slots
  Axis = {bytes, slots}
  Pid = {w1, c1, c2}
  Wrapper = {w1}
  Mode = {"enforce"}
  Request <- MCRequest
  Cap <- MCCapOne
  GrantId = {g1, g2}
  Unreadable = {w1}
  Faults = TRUE
  Top = 8
  MaxStart = 2
  MaxBoot = 2
INVARIANTS
  TypeOK
  ChildKeepsCharge
  NoRecordFromAnotherBoot
PROPERTIES
  DeadAreReclaimed
CHECK_DEADLOCK FALSE
