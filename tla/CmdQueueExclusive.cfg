SPECIFICATION RunningSpec
CONSTANTS
  c1 = c1
  c2 = c2
  g = g
  h = h
  q = q
  None = None
  Callers = {c1, c2}
  Slots = {s1, s2, s3}
  Keys = {g, h, q}
  SyncKeys = {g, h}
  CallerKeys <- ExclusiveKeys
  VqNum = 2
  MaxSent = 3
SYMMETRY SlotSymmetry
INVARIANTS
  NoVqBufShortage
  SendsOwnCommand
  AnswerIsOwn
PROPERTIES
  NoWriteAfterReturn
CHECK_DEADLOCK FALSE
