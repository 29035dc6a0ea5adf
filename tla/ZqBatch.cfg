SPECIFICATION Spec
CONSTANT MaxBatches = 2
CONSTANT Qty = 2
CONSTANT MaxFaults = 2
CONSTANT CancelledOpenOrders = FALSE
INVARIANT TypeOK
INVARIANT CompleteIsSettled
PROPERTY EntryOnlyWhenSettled
PROPERTY TerminalStatusStays
PROPERTY ImplementsTrading
