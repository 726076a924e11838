SPECIFICATION Spec
CONSTANTS
  person = person
  tick = tick
  web = web
  api = api
  hub = hub
  Goers = {person, tick}
  Repos = {web, api}
  Umbrella = hub
  Reported = TRUE
  MaxIssues = 2
  MaxCrashes = 1
SYMMETRY GoSymmetry
CHECK_DEADLOCK FALSE
INVARIANTS  DoneIsTrue
