SPECIFICATION WatchFairSpec
CONSTANTS
  Stale = 2
  Grace = 3
  Threshold = 2
  MaxFaults = 1
  Status = {"healthy", "down"}
CHECK_DEADLOCK FALSE
  
PROPERTIES GateIsSpared WedgedIsRestarted
