SPECIFICATION DeploymentSpec
CONSTANTS
  Runs = {r1, r2, r3, r4}
  Codes = {h1, h2}
INVARIANTS EveryDeploymentRecorded NoBlindRedeployment
SYMMETRY Symmetry
CHECK_DEADLOCK FALSE
