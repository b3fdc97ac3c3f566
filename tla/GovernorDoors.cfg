\* Three handlers at every door, on three kinds of machine.
SPECIFICATION Spec
CONSTANTS
  device = device
  Job = {j1, j2, j3}
  Request <- MCRequest
  Topology <- MCTopology
  Mib = 2
  MaxQubits = 4
  MaxConcurrency = 2
  Machine = 10
  Load = {0, 5}
  Blind = TRUE
  Gated = TRUE
INVARIANTS
  TypeOK
  PermitsExact
  ResidentCovered
  CeilingObeyed
PROPERTY
  NeverBusyAlone
SYMMETRY MCSymmetry
