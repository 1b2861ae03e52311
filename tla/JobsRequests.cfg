SPECIFICATION Spec
CONSTANTS
  alice = alice  bob = bob  svc = svc  j1 = j1  j2 = j2
  Agents = {alice, bob}
  Services = {svc}
  Jobs = {j1, j2}
  Calls = {c1, c2, c3}
  Requests <- MCRequests
  None = None
INVARIANTS RowsAgree OncePerKey
SYMMETRY Symmetry
PROPERTY AgreementCurrent
