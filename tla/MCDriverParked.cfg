SPECIFICATION Spec
CONSTANTS
  Slot = {s1, s2}
  MaxGeneration = 1
  ByteBudget = 1
  SqCapacity = 1
  BufferCount = 1
  Events = {}
SYMMETRY SlotSymmetry
INVARIANTS
  ParkedStreamsResume
