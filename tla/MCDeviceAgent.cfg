SPECIFICATION Spec
CONSTANTS
  stop = stop
  other = other
  Jobs = {stop, other}
  PauseJobs = {stop}
  BadJobs = {other}
  Life = 1
  Retention = 1
  Window = 2
  Behind = 2
  SpoolLimit = 1
  MaxTime = 3
  MaxEvents = 1
  MaxReports = 1
  MaxFaults = 1
  MaxCrashes = 1
CHECK_DEADLOCK FALSE
INVARIANTS RunsAtMostOnce
PROPERTIES AnsweredNeverRuns EventsAreKept
