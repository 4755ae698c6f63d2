CONSTANTS
  ay = ay
  an = an
  by = by
  cx = cx
  dy = dy
  Row <- MCRow
  CondOf <- MCCondOf
  SideOf <- MCSideOf
  NegRisk <- MCNeg
  Listings <- Mixed
  Holdings <- UnevenOrSpent
  PageLimit = 2
  MaxOffset = 2
  Caps = {0, 4}
  MinShares = 2
  BatchSize = 2
  Retries = 1
  BusyMax = 1
  MayLose = TRUE
  Shared = TRUE
  MayFail = TRUE
SPECIFICATION FairSpec
INVARIANTS
  RowsAreDistinct
  HitCapIsHonest
  CapIsTotal
  FreshBatchesRun
  ClaimedArePaid
  DrainedMeansPaid
PROPERTY
  RedeemReturns
