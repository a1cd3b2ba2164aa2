CONSTANTS
  A = A
  B = B
  Foreign = Foreign
  Symbol = {A, B}
  OrderSet <- TradingOrders
  MaxLength = 3
  MaxOrders = 2
  References = {5, 149990}
  NoReference = NoReference
  StartingCash = 4
  MaxDecisions = 2
SPECIFICATION Spec
INVARIANTS TypeOK OutcomeExplained BuysWithinNotional BasisWithinPrices
CHECK_DEADLOCK FALSE
