SPECIFICATION Spec
CONSTANTS
  Companies = {co1, co2}
  Passkeys = {p1, p2, p3}
  SignIns = {s1}
  Calls = {x1, x2}
  MaxChallenges = 6
  None = None
INVARIANTS WalletMatchesRoot ChallengeUsedOnce RecoveryAuthorised
SYMMETRY Symmetry
