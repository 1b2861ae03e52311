SPECIFICATION IdentitySpec
CONSTANTS
  ann = ann
  bea = bea
  None = None
  Owners = {ann, bea}
  Emails = {"a@example.org"}
  Email <- MCEmail
  Handles = {"trader"}
  Scopes = {"company:write", "jobs:write"}
  Keys = {k1, k2}
  Calls = {call1, call2}
  MaxAgents = 2
  MaxCredentials = 3
SYMMETRY Symmetry
CHECK_DEADLOCK FALSE
INVARIANTS ConnectionOfOwner RotatedOnce
