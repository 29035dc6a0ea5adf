SPECIFICATION Spec
CONSTANT MaxBatches = 1
CONSTANT Qty = 1
CONSTANT MaxFaults = 1
CONSTANT CancelledOpenOrders = FALSE
INVARIANT AbandonedStaysComplete
