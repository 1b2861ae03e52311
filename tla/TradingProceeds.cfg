SPECIFICATION Spec
CONSTANTS
  Quotes = {q1, q2}
  Keys = {k1, k2}
  Offers <- MCOffers
  Decisions <- OneDecision
  Assessments = {"ELIGIBLE"}
  Earned = 5
  Deposit = 2
  Price = 1
  Movements <- Payouts
  LotId <- MCLotId
  MaxBlock = 2
  MaxSessions = 1
  MaxEligibility = 1
SYMMETRY MCSymmetry
INVARIANT TransfersAddNoCapital
CHECK_DEADLOCK FALSE
