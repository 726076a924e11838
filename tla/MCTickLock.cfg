SPECIFICATION FairSpec
CONSTANTS
  p1 = p1
  p2 = p2
  p3 = p3
  Procs = {p1, p2, p3}
  Absent = Absent
  Torn = Torn
  TornWrites = TRUE
  MaxCrashes = 2
  MaxHangs = 1
INVARIANTS ClaimGuardsTakeover
PROPERTIES LockNeverWedges
