SPECIFICATION IdentitySpec
CONSTANTS
  ann = ann
  bea = bea
  None = None
  Owners = {ann, bea}
  Emails = {"a@example.org"}
  Email <- MCEmail
  Handles = {"trader"}
  Scopes = {"company:write", "jobs:write"}
  Keys = {k1}
  Calls = {call1, call2}
  MaxAgents = 1
  MaxCredentials = 2
SYMMETRY Symmetry
CHECK_DEADLOCK FALSE
PROPERTIES RevokedNeverRotated
