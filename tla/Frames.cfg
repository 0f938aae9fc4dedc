SPECIFICATION FairSpec
CONSTANTS
  Kinds <- AllKinds
  Sizes <- MCSizes
  LengthLimit = 8
  MaxFrames = 2
INVARIANTS
  TypeOK
  FramesArriveWhole
  StopsExplained
PROPERTY
  FramesAllArrive
CHECK_DEADLOCK FALSE
