SPECIFICATION Spec
CONSTANTS
  Due = 2
  MaxAttempts = 2
  Trades = {t1, t2}
  TradeStatuses = {"MATCHED", "CONFIRMED", "FAILED"}
  MaxFaults = 1
  Lagging = FALSE
  Contradictions = FALSE
SYMMETRY TradeSymmetry
\* Every order, trade and fault of the bounds may be used up.
CHECK_DEADLOCK FALSE
INVARIANT TypeOK
INVARIANT NoOverHedge
INVARIANT OneOrderCanTrade
INVARIANT ReleasedOnlyWhenFinal
INVARIANT HedgedIsSettled
PROPERTY ImplementsObligation
