SPECIFICATION Spec
CONSTANTS
  s1 = s1
  s2 = s2
  Streams = {s1, s2}
  c1 = c1
  Codecs = {c1}
  Kinds = {"set", "s_fmt", "s_ctrl", "unsubscribe"}
  EventKinds = {"error", "eos"}
  None = None
  MaxOpens = 2
  MaxCalls = 1
  MaxEvents = 1
SYMMETRY Symmetry
CHECK_DEADLOCK FALSE
INVARIANTS
  StreamsExact
  ErrorsExact
  LeftBehind
  
PROPERTIES
  ErrorSticks
