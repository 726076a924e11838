SPECIFICATION Spec
CONSTANTS
  NSessions = 2
  Controller = c
  Remotes = {r1}
  Limit = 2
  SlowSetup = FALSE
  MaxMishaps = 1
  c = c
  r1 = r1
  r2 = r2
CHECK_DEADLOCK FALSE
 
PROPERTIES WorkIsKept SetupIsSpared
