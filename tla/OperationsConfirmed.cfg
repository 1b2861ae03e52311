SPECIFICATION Spec
CONSTANTS
  pay1 = pay1
  pay2 = pay2
  op1 = op1
  op2 = op2
  run1 = run1
  run2 = run2
  Amount <- MCAmount
  Payments = {pay1}
  Actions = {"fund"}
  Events = {"fund", "accept", "submit", "release", "dispute", "refund"}
  OpIds = {op1, op2}
  Executors = {run1}
  Limits = {1}
  MaxVersion = 1
  MaxDay = 1
SYMMETRY OpSymmetry
CHECK_DEADLOCK FALSE
PROPERTIES ConfirmedStaysConfirmed
