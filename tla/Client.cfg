SPECIFICATION FairSpec
CONSTANTS
  Requests <- TwoRequests
  Pushes <- TwoPushes
  HasPushReceiver = TRUE
  MaxBenignErrors = 1
  MaxGot = 3
INVARIANTS
  
  NothingAfterFinal
  FinishedOnce
PROPERTIES
  SilentAfterClose
  PushesInOrder
  AnsweredRunReturns
CHECK_DEADLOCK FALSE
