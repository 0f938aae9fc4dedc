SPECIFICATION FairSpec
CONSTANTS
  h1 = h1
  h2 = h2
  Reader = Reader
  Sender = Sender
  NoOne = NoOne
  Apps <- MCApps
  NumPriorities = 2
  StreamPriority <- MCClientPriority
  IsServer = FALSE
INVARIANTS
  OneTeardown
  CheckedSendsSafe
PROPERTIES
  NoSendAfterStop
  FollowsLifecycle
  MutexReleased
CHECK_DEADLOCK FALSE
