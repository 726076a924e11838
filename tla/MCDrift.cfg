SPECIFICATION DriftFairSpec
CONSTANTS
  TrackedIssues = {epic, sub}
  epic = epic
  sub = sub
  Epic = epic
  MaxPolls = 2
  MaxDriftCrashes = 1
INVARIANTS OneAlertPerDrift
PROPERTIES Settles
