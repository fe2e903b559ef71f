SPECIFICATION Spec
CONSTANTS
  busy = busy
  quiet = quiet
  Queue <- Connections
  Block = {b1, b2, b3, b4}
  BlockSize = 2
  BlockCount = 1
  ByteBudget = 5
  DescriptorBudget = 2
  Fd = {f1, f2}
  MaxBytes <- Traffic
SYMMETRY TxSymmetry
INVARIANTS
  BytesInOrder
  FlightIsStable
  BlocksOwnedOnce
  DescriptorsOwnedOnce
  DescriptorsLeadBytes
