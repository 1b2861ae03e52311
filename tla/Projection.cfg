SPECIFICATION FairSpec
CONSTANTS
  call = call
  pay1 = pay1
  pay2 = pay2
  unknown = unknown
  Amount <- MCAmount
  Payments = {pay1, pay2, unknown}
  Known = {pay1, pay2}
  HumanBought = {pay2}
  Commitments = {"own", "other"}
  Confirmers = {call}
  BatchSize = 2
  MaxLog = 4
CHECK_DEADLOCK FALSE
INVARIANTS RestsOnFinality BooksMatchState SettlementBackedByResult
PROPERTIES NothingLost EveryReceiptIndexed
