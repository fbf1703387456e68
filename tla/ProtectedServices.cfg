CONSTANTS
  s1 = s1
  s2 = s2
  s3 = s3
  None = None
  Hosts <- MCHosts
  FlashHosts <- MCFlashHosts
  Head = s1
  LastRotation = 1
  MaxProbes = 1
  MaxAccidents = 2
  RetrySpan = 1
  ColdLimit = 3
  MinObservation = 1
SPECIFICATION ServicesFairSpec
CHECK_DEADLOCK FALSE
INVARIANT
  PassedIsClean
PROPERTY
  ServicesComeBack
