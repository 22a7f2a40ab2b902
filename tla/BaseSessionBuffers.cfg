SPECIFICATION Spec
CONSTANTS
  s1 = s1
  s2 = s2
  b1 = b1
  b2 = b2
  f1 = f1
  f2 = f2
  Streams = {s1}
  Bufs = {b1, b2}
  StreamOf <- BothStreamOf
  QueueOf <- BothQueueOf
  Devs = {"dec", "enc", "cam"}
  Fmts = {f1}
  Kinds = {"s_fmt", "stop"}
  EventKinds = {"error"}
  None = None
  MaxOwed = 1
  MaxOpens = 1
  MaxCalls = 1
  MaxEvents = 1
CHECK_DEADLOCK FALSE
INVARIANTS IdsExact  ActiveOwed DrainAnswered
