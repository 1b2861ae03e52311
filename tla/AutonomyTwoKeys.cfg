SPECIFICATION Spec
CONSTANTS
  plan1 = plan1
  plan2 = plan2
  call1 = call1
  call2 = call2
  None = None
  Plans = {plan1, plan2}
  Calls = {call1, call2}
  Amount <- MCAmount
  Mandates <- Supervised
  Retries = {"submit", "approve"}
  Uncertain = FALSE
  Expiries = {2}
  MaxTime = 2
  DayLength = 2
  Capital = 3
  MaxVersion = 1
SYMMETRY MCSymmetry
CHECK_DEADLOCK FALSE
INVARIANTS ActsAtMostOnce
