SPECIFICATION Spec
CONSTANTS
  Slot = {s1}
  MaxGeneration = 1
  ByteBudget = 1
  SqCapacity = 1
  BufferCount = 1
  Events = {"accept_ends"}
INVARIANTS
  ListenerKeepsAccepting
