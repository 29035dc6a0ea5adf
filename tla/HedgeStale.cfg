SPECIFICATION Spec
CONSTANTS
  Due = 2
  MaxAttempts = 1
  Trades = {t1, t2}
  TradeStatuses = {"MATCHED"}
  MaxFaults = 0
  Lagging = FALSE
  Contradictions = FALSE
SYMMETRY TradeSymmetry
\* Every order, trade and fault of the bounds may be used up.
CHECK_DEADLOCK FALSE
PROPERTY StaleAnswerNeverReopens
