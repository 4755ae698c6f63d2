CONSTANTS
  a1 = a1
  a2 = a2
  a3 = a3
  Leg <- ThreeLegs
  EventOf <- MCEventOf
  Unlimited = 9
  MaxLegs = 2
  MinQty = 1
  MaxCalls = 1
  MaxGas = 8000
  Wallets <- ThreeWallets
  Jobs <- ThreeJobs
  Rebuilds = 2
  BusyMax = 1
  Timely = TRUE
  MayLose = TRUE
  MayDrop = FALSE
  MaxTrades = 0
  MaySell = FALSE
  DirectOps = FALSE
SPECIFICATION Spec
INVARIANT
  SalvageLeavesNothing
