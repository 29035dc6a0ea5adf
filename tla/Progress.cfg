SPECIFICATION ProgressSpec
CONSTANTS
  MaxBatches = 1
  Qty = 2
  MaxFaults = 2
  CancelledOpenOrders = TRUE
  Due = 1
  MaxAttempts = 2
  Trades = {t1}
  HedgeFaults = 2
\* A batch may be over, and every order, trade and fault used up.
CHECK_DEADLOCK FALSE
INVARIANT UnhedgedFillIsActive
PROPERTY SentBatchesComplete
PROPERTY EveryOrderResolves
