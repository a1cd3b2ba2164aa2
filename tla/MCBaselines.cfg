CONSTANTS
  SPY = SPY
  X = X
  Y = Y
  Spy = SPY
  Symbol = {SPY, X, Y}
  Sorted <- MCSorted
  OrderSet <- MCOrders
  MaxLength = 3
  MaxOrders = 3
  References = {4, 40001, 149990}
  NoReference = NoReference
  StartingCash = 5000
  MaxDecisions = 2
  Tapes <- MCTapes
  Closes <- MCCloses
  Drawn = {1, 2499, 5000}
SPECIFICATION BaselineSpec
INVARIANTS BuysAffordable NlvIsLiquidation
CHECK_DEADLOCK FALSE
