SPECIFICATION Spec
CONSTANTS
  MaxSelfFixes = 1
  FalseFailures = TRUE
  MaxCommits = 4
  MaxCrashes = 1
CHECK_DEADLOCK FALSE
INVARIANTS OnlyGreenLeaves GreenTillCrash
