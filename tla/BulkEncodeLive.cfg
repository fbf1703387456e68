SPECIFICATION LiveSpec
CONSTANTS
  None = None
  Layers <- MCLayers
  Nodes <- MCNodes
  MaxAttempts = 3
  MaxFaults = 1
INVARIANT
  EncodesHaveLeases
PROPERTY
  EveryLayerCompletes
