CONSTANTS
  Nil = Nil
  Variants <- MCVariants
  Windows <- MCWindows
  LastLayer = 4
  Chunks = 2
  MaxQueue = 1
  MaxRuns = 2
  MaxMishaps = 1
SPECIFICATION CampaignFairSpec
CHECK_DEADLOCK FALSE
INVARIANTS
  EvidenceIsItsWindow
  ScoresBelongToTheirControl
  HandedOverServesIdentity
PROPERTY
  UndisturbedCompletes
