SPECIFICATION Spec
CONSTANTS
  pay1 = pay1
  pay2 = pay2
  op1 = op1
  op2 = op2
  run1 = run1
  run2 = run2
  Amount <- MCAmount
  Payments = {pay1, pay2}
  Actions = {"fund"}
  Events = {"fund"}
  OpIds = {op1, op2}
  Executors = {run1, run2}
  Limits = {1, 2}
  MaxVersion = 2
  MaxDay = 2
SYMMETRY Symmetry
CHECK_DEADLOCK FALSE
INVARIANTS BroadcastAtMostOnce DailyFundingBounded
PROPERTIES BroadcastUnderOwnPolicy
