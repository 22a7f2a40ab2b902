SPECIFICATION LiveSpec
CONSTANTS
  b1 = b1
  b2 = b2
  m1 = m1
  q1 = q1
  qm1 = qm1
  q2 = q2
  qm2 = qm2
  s1 = s1
  s2 = s2
  Bufs = {b1, m1}
  Queues = {q1, qm1}
  QueueOf <- OneQueueOf
  Streams = {s1}
  OwnerOf <- OneOwnerOf
  MetaOf <- OneMetaOf
  Ids = {i1, i2}
  MaxQueued = 2
  MaxErrors = 1
  None = None
CHECK_DEADLOCK FALSE
INVARIANTS
  ListSound
  UserOwnsReturned
PROPERTIES
  OwnershipKept
  StopEnds
