SPECIFICATION FairSpec
CONSTANTS
  h1 = h1
  h2 = h2
  Reader = Reader
  Sender = Sender
  NoOne = NoOne
  Apps <- MCApps
  NumPriorities = 2
  StreamPriority <- MCServerPriority
  IsServer = TRUE
INVARIANTS
  ConnInv
  OvertakenOnce
  PendingFramesSent
PROPERTIES
  QuietCloseCompletes
  HighPriorityServed
CHECK_DEADLOCK FALSE
