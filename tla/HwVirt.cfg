SPECIFICATION Spec
CONSTANTS
  DeviceIds <- MCDeviceIds
  MaxOpens = 2
  MaxEvents = 2
CHECK_DEADLOCK FALSE
INVARIANTS
  AllReturned
  Accounted
  SsrInOrder
PROPERTIES
  WaitEnds
