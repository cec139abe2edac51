SPECIFICATION HttpSpec
CHECK_DEADLOCK FALSE
CONSTANTS
  Bodies = {0, 1, 2}
  MaxRequests = 3
INVARIANT
  PaidBodyIntact
