CONSTANTS
  Orders <- MCOrders
  SideOf <- MCSideOf
  PostChunk = 1
  CancelChunk = 1
  PageSize = 1
  MaxFaults = 2
  MaxCalls = 3
SPECIFICATION FairSpec
\* The machine stops when all orders were placed and the bounds are used up.
CHECK_DEADLOCK FALSE
INVARIANTS
  OkCoversTheSide
  WakeNamesLatest
  CountersCoverWire
PROPERTIES
  ImplementsOrderTracking
  ListingEnds
