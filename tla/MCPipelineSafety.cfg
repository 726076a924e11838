SPECIFICATION FairSpec
CONSTANTS
  NLegs = 2
  MaxPmRounds = 1
  MaxRetries = 1
  MaxReclaims = 1
  MaxPauses = 1
  MaxCrashes = 3
  BlankAnswers = FALSE
  Level = 4
CHECK_DEADLOCK FALSE
INVARIANTS TreesAreSound RetriesAreSound
PROPERTIES RefinesDelivery MovesAreAllowed  RestsAndIsHeard
