SPECIFICATION FairSpec
CONSTANTS
  Quantity = 1
  MaxReads = 2
  MaxFaults = 1
  MaxWire = 1
  Backlog = TRUE
  PolymarketMoves = TRUE
INVARIANT TypeOK
INVARIANT LoneReadIsWhole
INVARIANT AuthorizedSeesRead
PROPERTY PauseHasCause
PROPERTY GapEnds
