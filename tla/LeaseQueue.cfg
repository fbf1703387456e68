SPECIFICATION Spec
CONSTANTS
  n1 = n1
  n2 = n2
  c1 = c1
  c2 = c2
  None = None
  NoFile = NoFile
  Layers <- MCLayers
  Nodes <- MCNodes
  PreferredNode <- MCPreferredNode
  Coordinators <- MCCoordinators
  MaxLeases = 3
INVARIANTS
  OnePlace
  NoDuplicateLease
  CompletedByItsLease
PROPERTIES
  CompletedIsFinal
  ImplementsLayerLease
