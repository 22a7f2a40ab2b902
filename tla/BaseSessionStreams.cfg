SPECIFICATION Spec
SYMMETRY Symmetry
CONSTANTS
  s1 = s1
  s2 = s2
  b1 = b1
  b2 = b2
  f1 = f1
  f2 = f2
  Streams = {s1, s2}
  Bufs = {}
  StreamOf <- BothStreamOf
  QueueOf <- BothQueueOf
  Devs = {"dec", "enc", "cam"}
  Fmts = {f1, f2}
  Kinds = {"s_fmt", "s_parm", "s_selection", "start", "stop"}
  EventKinds = {"error", "resolution"}
  None = None
  MaxOwed = 1
  MaxOpens = 2
  MaxCalls = 2
  MaxEvents = 1
CHECK_DEADLOCK FALSE
INVARIANTS NoStaleUse InfoAgrees OneCamera
