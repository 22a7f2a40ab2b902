SPECIFICATION Spec
CONSTANTS
  b1 = b1
  b2 = b2
  m1 = m1
  q1 = q1
  qm1 = qm1
  q2 = q2
  qm2 = qm2
  s1 = s1
  s2 = s2
  Bufs = {b1, b2}
  Queues = {q1, qm1, q2, qm2}
  QueueOf <- TwoQueueOf
  Streams = {s1, s2}
  OwnerOf <- TwoOwnerOf
  MetaOf <- TwoMetaOf
  Ids = {i1, i2}
  MaxQueued = 3
  MaxErrors = 0
  None = None
SYMMETRY TwoSymmetry
INVARIANTS
  
  GivenBackOnce
CHECK_DEADLOCK FALSE
