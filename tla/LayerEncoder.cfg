SPECIFICATION LiveSpec
CONSTANTS
  b1 = b1
  b2 = b2
  NoFile = NoFile
  Experts <- MCExperts
  Builds <- MCBuilds
  Good <- MCGood
  MaxStarts = 4
  MaxSyncs = 2
INVARIANTS
  AcceptedIsOneBuild
  KillCostsOneExpert
PROPERTY
  SealsEventually
