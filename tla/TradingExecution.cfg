SPECIFICATION Spec
CONSTANTS
  Quotes = {q1, q2}
  Keys = {k1, k2}
  Offers <- MCOffers
  Decisions <- MCDecisions
  Assessments = {"ELIGIBLE"}
  Earned = 5
  Deposit = 2
  Price = 1
  Movements = {}
  LotId <- MCLotId
  MaxBlock = 2
  MaxSessions = 2
  MaxEligibility = 1
SYMMETRY MCSymmetry
INVARIANTS BroadcastOnce ApprovedUnderItsPolicy OneAnswerPerKey
CHECK_DEADLOCK FALSE
