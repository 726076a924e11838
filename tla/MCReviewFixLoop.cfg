SPECIFICATION Spec
CONSTANTS
  MaxRounds = 3
  MaxRoundsPerTick = 2
  MaxFixFailures = 2
  MaxRepairs = 1
  ReEmitRetries = 1
  MaxAnswers = 2
  MaxCrashes = 1
CHECK_DEADLOCK FALSE
INVARIANTS AnswersLand LoopEnds CallsBounded
PROPERTIES RefinesRounds
