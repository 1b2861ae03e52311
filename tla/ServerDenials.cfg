SPECIFICATION ServerSpec
CONSTANTS
  Calls = {q1, q2}
  Requests <- MCCommands
  Environments <- MCEnvironments
  Limit = 1
  Window = 2
  MaxTime = 3
CHECK_DEADLOCK FALSE
INVARIANTS DenialsAreAudited
