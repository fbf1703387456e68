SPECIFICATION FairSpec
CONSTANTS
  weight = weight
  meta = meta
  LastRepo = 2
  Weights <- MCWeights
  Metadata <- MCMetadata
  MaxBatch = 1
  MaxFailures = 2
  MaxMishaps = 2
CHECK_DEADLOCK FALSE
INVARIANTS
  OutcomeIsRecorded
  RestoredIsSealed
PROPERTIES
  MarkerIsVerified
  ResumesToCompletion
