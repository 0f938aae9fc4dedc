SPECIFICATION FairSpec
CONSTANTS
  h1 = h1
  h2 = h2
  Reader = Reader
  Sender = Sender
  NoOne = NoOne
  Apps <- MCApps
  NumPriorities = 2
  StreamPriority <- MCServerPriority
  IsServer = TRUE
PROPERTY
  CloseCompletes
CHECK_DEADLOCK FALSE
