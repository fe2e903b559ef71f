SPECIFICATION FairSpec
CONSTANTS
  MaxClientIds = 2
  MaxServerIds = 2
  Quota = 4
  LateEvents = TRUE
  MaxObjects = 6
  MaxQueued = 2
INVARIANTS
  NobodyIsBlamed
CHECK_DEADLOCK FALSE
