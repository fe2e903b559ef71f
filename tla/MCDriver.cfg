SPECIFICATION FairSpec
CONSTANTS
  Slot = {s1, s2}
  MaxGeneration = 1
  ByteBudget = 1
  SqCapacity = 1
  BufferCount = 1
  Events = {"eof", "receive_fails", "output"}
INVARIANTS
  PendingCoversWork
  OneOperationPerToken
PROPERTIES
  ClosingEnds
  OutputIsSent
  PermitRearms
