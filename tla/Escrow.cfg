SPECIFICATION FairSpec
CONSTANTS
  buyer = buyer
  provider = provider
  zero = zero
  escrow = escrow
  hash1 = hash1
  nohash = nohash
  resolver = resolver
  Wallets = {buyer, provider}
  ZeroAddress = zero
  EscrowAddress = escrow
  NoHash = nohash
  Resolvers = {resolver}
  MaxUint64 = 9
  Hashes = {hash1}
  Terms <- MCTerms
  Policies <- SessionPolicies
  MaxPayment = 2
  DayLength = 2
  MaxTime = 5
  Fees = {0, 1}
  InitialFunds = 3
  MaxDonation = 1
CHECK_DEADLOCK FALSE
INVARIANTS Solvent EntitlementsExact
PROPERTIES SessionWithinLimit ReviewPeriodGranted UndisputedIsFinal ImplementsLifecycle EveryPaymentSettles
