SPECIFICATION Spec
CONSTANTS
  c1 = c1
  c2 = c2
  c3 = c3
  c4 = c4
  Calls <- MCCalls
  NoOne = NoOne
  Modulus = 8
  MaxBenignErrors = 1
INVARIANTS
  PingInv
  AnsweredUnlessEarly
CHECK_DEADLOCK FALSE
