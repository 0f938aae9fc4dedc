SPECIFICATION Spec
CONSTANTS
  Requests <- OneRequest
  Pushes <- TwoPushes
  HasPushReceiver = FALSE
  MaxBenignErrors = 1
  MaxGot = 2
PROPERTY
  ResponseReceived
CHECK_DEADLOCK FALSE
