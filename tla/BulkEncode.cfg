SPECIFICATION Spec
CONSTANTS
  None = None
  Layers <- MCOneLayer
  Nodes <- MCNodes
  MaxAttempts = 4
  MaxFaults = 3
INVARIANT
  CompletedIsPublished
PROPERTIES
  PassingResultStands
  PublicationIsFinal
