SPECIFICATION Spec
CONSTANTS
  l1 = l1
  l2 = l2
  None = None
  Shared = Shared
  Stores <- MCStores
  Experts <- MCExperts
  Modes <- MCModes
  Limits <- MCLimits
  BlockSlots = 2
  MaxFailures = 1
SYMMETRY MCSymmetry
INVARIANTS
  KernelReadsItsExperts
  ServesItsExperts
  SelectedStayResident
  RaisesOnlyAfterFailure
  FailureCostsOneSlot
