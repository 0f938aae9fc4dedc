SPECIFICATION Spec
CONSTANTS
  p1 = p1
  p2 = p2
  p3 = p3
  Pushers <- MCPushers
  NoOne = NoOne
  Modulus = 8
  MaxStreamID = 5
  MaxCalls = 4
  MaxSent = 1
INVARIANTS
  PushInv
  PushesInOrder
  PanicsExplained
PROPERTY
  ClosedPushesSilent
SYMMETRY
  MCSymmetry
CHECK_DEADLOCK FALSE
