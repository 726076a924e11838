SPECIFICATION HubSpec
CONSTANTS
  j1 = j1
  j2 = j2
  j3 = j3
  c1 = c1
  c2 = c2
  k1 = k1
  k2 = k2
  k3 = k3
  HubJobs = {j1, j2, j3}
  Callers = {c1, c2}
  Conns = {k1, k2}
  MaxPending = 2
  Lossy = FALSE
  HubMaxTime = 1
  MaxEvictions = 1
  MaxFailures = 1
SYMMETRY HubSymmetry
CHECK_DEADLOCK FALSE
INVARIANTS  PromisedIsArmed OneConnection
PROPERTIES LeavesMarked
