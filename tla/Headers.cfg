SPECIFICATION Spec
CONSTANTS
  HeaderMaps <- MCHeaderMaps
  HopByHop <- MCHopByHop
  Base = 4
  Window = 48
  FirstRun = 40
  Bounds = 5
  MaxBlocks = 4
INVARIANTS
  TypeOK
  HeadersArrive
  StopsExplained
CHECK_DEADLOCK FALSE
