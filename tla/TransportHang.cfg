SPECIFICATION FairSpec
CONSTANTS
  a = a
  b = b
  c3 = c3
  Callers <- OneTooMany
  NoOne = NoOne
  MaxIdle = 2
  Scheme = "http"
  MaxCalls = 1
PROPERTY
  SlotComes
CHECK_DEADLOCK FALSE
