SPECIFICATION Spec
CONSTANTS
  call = call
  pay1 = pay1
  pay2 = pay2
  unknown = unknown
  Amount <- MCAmount
  Payments = {pay1}
  Known = {pay1}
  HumanBought = {}
  Commitments = {"own"}
  Confirmers = {call}
  BatchSize = 2
  MaxLog = 4
CHECK_DEADLOCK FALSE
INVARIANTS BatchAlwaysReplays
