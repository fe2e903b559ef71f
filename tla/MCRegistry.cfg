SPECIFICATION FairSpec
CONSTANTS
  SlotCount = 2
  Registry = {r1}
  NameCount = 2
  TableCapacity = 1
  Visible <- MostVisible
  Room = 1
  MaxSyncs = 1
  MaxEpoch = 3
  Reader = {1}
INVARIANTS
  RemovedWhileOffered
  ToldIsBindable
PROPERTIES
  InOrder
  PassServesAll
  ReadersAreServed
