CONSTANTS
  ay = ay
  an = an
  by = by
  cx = cx
  dy = dy
  Row <- MCRow
  CondOf <- MCCondOf
  SideOf <- MCSideOf
  NegRisk <- MCNeg
  Listings <- Whole
  Holdings <- Uneven
  PageLimit = 2
  MaxOffset = 2
  Caps = {0}
  MinShares = 0
  BatchSize = 2
  Retries = 1
  BusyMax = 1
  MayLose = FALSE
  Shared = FALSE
  MayFail = FALSE
SPECIFICATION Spec
INVARIANT
  StopsOnlyWhenDone
