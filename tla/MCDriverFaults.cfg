SPECIFICATION FairSpec
CONSTANTS
  Slot = {s1}
  MaxGeneration = 2
  ByteBudget = 2
  SqCapacity = 1
  BufferCount = 1
  Events = {"eof", "receive_ends", "receive_fails", "send_fails", "accept_ends", "accept_fails", "admission_fails", "protocol_error", "output", "shutdown"}
INVARIANTS
  QueuesAreFresh
  ShutdownIsQuiet
PROPERTIES
  Connections
  ShutdownEnds
  OutputIsSent
