CONSTANTS
  None = None
  Experts = {0, 1}
  K2 = {1}
  Layers <- MCLayers
  BaseLayers = 78
  MaxKills = 1
  Projections <- MCProjections
  Order <- MCOrder
  MayMiss <- MCMayMiss
  Rows = {1}
  Positions = {0, 1, 2, 3}
  InterleaveSize = 1
SPECIFICATION FairSpec
CHECK_DEADLOCK FALSE
INVARIANTS
  EachChannelOnce
  AttendsSelectedOnce
PROPERTY
  WholeIsAccepted
