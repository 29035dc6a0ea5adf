SPECIFICATION Spec
CONSTANTS
  Quantity = 1
  MaxReads = 2
  MaxFaults = 1
  MaxWire = 1
  Backlog = TRUE
  PolymarketMoves = FALSE
INVARIANT CleanReadIsWhole
