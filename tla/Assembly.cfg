SPECIFICATION FairSpec
CONSTANTS
  config = config  shard = shard  e1 = e1  e2 = e2  e3 = e3  meta = meta
  Auxiliary <- MCAuxiliary
  Carried <- MCCarried
  Experts <- MCExperts
  Selected <- MCSelected
  Generated = meta
  MaxMishaps = 3
CHECK_DEADLOCK FALSE
INVARIANTS
  SealedIsVerified
  MixedIsTheSelection
PROPERTIES
  SealedNeverWritten
  ResumesToSeal
