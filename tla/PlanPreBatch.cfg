CONSTANTS
  a1 = a1
  a2 = a2
  a3 = a3
  a4 = a4
  b1 = b1
  Leg <- MCLeg
  EventOf <- MCEventOf
  Unlimited = 9
  MaxLegs = 2
  MinQty = 2
  MaxCalls = 2
  MaxGas = 1200
  Snapshots <- MCSnapshots
  JobLists <- MCJobLists
SPECIFICATION PlanSpec
\* The machine stops when the plan has been executed.
CHECK_DEADLOCK FALSE
INVARIANT
  ValidAgainstSnapshot
