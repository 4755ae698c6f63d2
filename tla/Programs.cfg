CONSTANTS
  a1 = a1
  a2 = a2
  a3 = a3
  b1 = b1
  b2 = b2
  c1 = c1
  Leg <- MCLeg
  EventOf <- MCEventOf
  Unlimited = 9
  MaxLegs = 2
  MinQty = 2
  MaxCalls = 2
  MaxGas = 1200
  Program = {"quickstart", "approvals", "sweep"}
  Tokens <- MCTokens
  Batch = 2
  Depths = {49999, 51234}
  Ticks = {25, 1000}
  MaxOrder = 60000
  Budgets = {0, 47777}
  MaxRefusals = 1
  Targets = 2
  MaxForeign = 1
  MaxErrors = 1
  MaxRuns = 2
  JobOf <- MCJobOf
  NegRiskEvents = {"a", "b"}
  SweepWallets <- MCWallets
  MinShares = {0, 2}
  MaxFills = 1
  MaxMisses = 1
SPECIFICATION Spec
\* Each program ends.
CHECK_DEADLOCK FALSE
INVARIANTS
  SessionVerifies
  ApprovalsGranted
  SweepSettles
