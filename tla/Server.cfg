SPECIFICATION FairSpec
CONSTANTS
  Requests <- MCRequests
  MaxBenignErrors = 1
  MaxSent = 2
  Writers <- MCWriters
INVARIANTS
  
  ResponseGrammar
  FinishCloses
PROPERTIES
  RequestsInOrder
  ClosedStreamsSilent
  RequestsAnswered
CHECK_DEADLOCK FALSE
