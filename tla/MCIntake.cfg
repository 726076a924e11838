SPECIFICATION FairSpec
CONSTANTS
  a = a
  b = b
  h1 = h1
  h2 = h2
  NMsgs = 3
  Docs = {a, b}
  DocOf <- Links
  Gates <- Readings
  Handlers = {h1, h2}
  NewestFirst = FALSE
  MaxCrashes = 1
  MaxFailures = 1
  MaxRepeats = 1
CHECK_DEADLOCK FALSE
INVARIANTS NeverTwice 
PROPERTIES CursorForward 
