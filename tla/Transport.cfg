SPECIFICATION FairSpec
CONSTANTS
  a = a
  b = b
  c3 = c3
  Callers <- MCCallers
  NoOne = NoOne
  MaxIdle = 2
  Scheme = "https"
  MaxCalls = 3
INVARIANTS
  TransportInv
  SlotsBounded
  ExclusiveExchange
PROPERTIES
  OneWPConn
  RoundTripReturns
CHECK_DEADLOCK FALSE
