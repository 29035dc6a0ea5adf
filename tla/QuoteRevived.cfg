SPECIFICATION Spec
CONSTANT MaxRequests = 2
CONSTANT MaxTicks = 3
CONSTANT MaxFaults = 1
\* Every request, tick and fault of the bounds may be used up.
CHECK_DEADLOCK FALSE
INVARIANT ActiveIsCurrentGeneration
