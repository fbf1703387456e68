SPECIFICATION K275FairSpec
CONSTANTS
  LastLayer = 2
  Nodes <- MCOneNode
  None = None
  GiveUp = 3
  MaxAttempts = 4
  MaxFaults = 2
CHECK_DEADLOCK FALSE
INVARIANT
  WorkersHoldLeases
PROPERTY
  RunCompletesUnlessStuck
