SPECIFICATION FairSpec
CONSTANTS
  BytesEach = 4
  FdsEach = 2
  Conn = {c1}
  Buffer = {r1}
  Block = {b1}
  BufferSize = 3
  BlockSize = 3
  InlineSize = 2
  HeaderSize = 2
  FdBudget = 1
  ControlCapacity = 1
  Size = {1, 2, 3, 4}
  Rights = {0, 1}
  MaxBytes <- Traffic
  MaxFds <- Files
  None = None
  Junk = Junk
CHECK_DEADLOCK FALSE
INVARIANTS
  PeerIsUnderstood
  BuffersReturnedOnce
  BlocksOwnedOnce
  DescriptorsOwnedOnce
PROPERTIES
  Delivered
  MessagesArrive
