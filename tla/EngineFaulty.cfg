CONSTANTS
  a1 = a1
  a2 = a2
  a3 = a3
  Leg <- TwoLegs
  EventOf <- MCEventOf
  Unlimited = 9
  MaxLegs = 1
  MinQty = 1
  MaxCalls = 1
  MaxGas = 8000
  Wallets <- TwoWallets
  Jobs <- TwoJobs
  Rebuilds = 1
  BusyMax = 1
  Timely = FALSE
  MayLose = TRUE
  MayDrop = TRUE
  MaxTrades = 1
  MaySell = TRUE
  DirectOps = TRUE
SPECIFICATION FairSpec
INVARIANTS
  EachChunkOnceInOrder
  QuotaEndsCycle
PROPERTY
  CycleEnds
