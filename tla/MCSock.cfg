SPECIFICATION SockFairSpec
CONSTANTS
  Capacity = 2
  SendErrors = {"transient", "permanent"}
  MaxArrivals = 4
INVARIANT SockTypeOK
INVARIANT WholeIsWhole
PROPERTY HandsOver
PROPERTY AllHandled
CHECK_DEADLOCK FALSE
