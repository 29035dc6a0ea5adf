SPECIFICATION Spec
CONSTANTS
  MaxFaults = 2
\* The clock stops at the end of the day.
CHECK_DEADLOCK FALSE
INVARIANT EarlierOutageStays
