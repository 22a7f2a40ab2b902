SPECIFICATION FairSpec
CONSTANTS
  None = None
  Streams = {s1, s2}
  VqNum = 2
  MaxEvents = 2
INVARIANTS
  EventBufsOwnedOnce
  PoolConserved
  NoEventBufLost
  EventsInOrder
CHECK_DEADLOCK FALSE
PROPERTIES
  EventsHandled
