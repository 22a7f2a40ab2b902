SPECIFICATION FairSpec
CONSTANTS
  c1 = c1
  c2 = c2
  g = g
  h = h
  q = q
  None = None
  Callers = {c1, c2}
  Slots = {s1, s2}
  Keys = {g, h, q}
  SyncKeys = {g, h}
  CallerKeys <- ExclusiveKeys
  VqNum = 2
  MaxSent = 1
PROPERTIES
  CallReturns
CHECK_DEADLOCK FALSE
