SPECIFICATION Spec
CONSTANTS
  Slot = {s1, s2}
  MaxGeneration = 2
  ByteBudget = 2
SYMMETRY SlotSymmetry
INVARIANTS
  OperationsMirrored
  OpenIsHeard
  DrainingHasOutput
PROPERTIES
  TeardownOnly
