SPECIFICATION Spec
CONSTANTS
  plan1 = plan1
  plan2 = plan2
  call1 = call1
  call2 = call2
  None = None
  Plans = {plan1, plan2}
  Calls = {call1, call2}
  Amount <- MCAmount
  Mandates <- Both
  Retries = {"submit", "approve"}
  Uncertain = TRUE
  Expiries = {1, 2}
  MaxTime = 2
  DayLength = 1
  Capital = 3
  MaxVersion = 2
SYMMETRY MCSymmetry
CHECK_DEADLOCK FALSE
INVARIANTS CapitalReserved RecordsAgree
PROPERTIES ApprovalsCovered SupersededPlansRest
