SPECIFICATION Spec
CONSTANTS
  Due = 1
  MaxAttempts = 2
  Trades = {t1, t2}
  TradeStatuses = {"MATCHED", "CONFIRMED", "FAILED"}
  MaxFaults = 0
  Lagging = TRUE
  Contradictions = TRUE
SYMMETRY TradeSymmetry
\* Every order, trade and fault of the bounds may be used up.
CHECK_DEADLOCK FALSE
INVARIANT AccountingCurrent
INVARIANT LateFillsReopen
PROPERTY IntentFitsLedger
PROPERTY SettlementNeverRegresses
