SPECIFICATION FairSpec
CONSTANTS
  MaxClientIds = 2
  MaxServerIds = 2
  Quota = 4
  LateEvents = FALSE
  MaxObjects = 6
  MaxQueued = 2
INVARIANTS
  RequestsMeetTheirObject
  EventsMeetTheirObject
  FreeIdsAreForgotten
PROPERTIES
  RoundtripSettles
CHECK_DEADLOCK FALSE
