SPECIFICATION Spec
CONSTANTS
  b1 = b1
  b2 = b2
  m1 = m1
  Bufs = {b1, b2, m1}
  TypeOf <- MCTypeOf
  Ids = {i1, i2, i3}
  MaxEntries = 2
  MaxErased = 1
  MaxQueued = 4
  None = None
SYMMETRY Symmetry
INVARIANTS
  IdsOwnedOnce
  NothingLeaks
  CacheBounded
  EntryHeld
  
CHECK_DEADLOCK FALSE
