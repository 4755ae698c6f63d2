SPECIFICATION Spec
CONSTANTS
  Fans <- MCFans
  PongTimeout = 3
  Reconnect = 1
  Prices = {1}
  Sizes = {0, 1}
  Trades = {t1, t2, t3}
  Cap = 1
INVARIANTS BookConverges CreditedApart NothingMissed AlwaysCovered HalfOpenDetected
SYMMETRY Symmetry
