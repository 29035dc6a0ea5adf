SPECIFICATION Spec
CONSTANTS
  Quantity = 1
  Limit = 1
  MaxBid = 1
  MaxChanges = 1
  MaxOwned = 2
\* The market, the operator and IBKR may have used up their changes.
CHECK_DEADLOCK FALSE
PROPERTY EntryGatesHold
