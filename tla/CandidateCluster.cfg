SPECIFICATION FairSpec
CONSTANTS
  Attempts <- MCOneAttempt
  LastRank = 1
  MaxPolls = 1
  MaxMishaps = 2
CHECK_DEADLOCK FALSE
INVARIANT
  StopRecordsAreTrue
PROPERTIES
  LaunchResolves
  DeadRankTakesGroupDown
