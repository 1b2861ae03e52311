SPECIFICATION ServerSpec
CONSTANTS
  Calls = {q1, q2}
  Requests <- MCRequests
  Environments <- MCEnvironments
  Limit = 1
  Window = 2
  MaxTime = 3
CHECK_DEADLOCK FALSE
INVARIANTS LimitHolds
PROPERTIES EveryRequestAnswered
