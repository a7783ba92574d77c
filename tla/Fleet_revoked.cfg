SPECIFICATION FleetSpec
CONSTANTS
  RunnerIds = {1}
  CredentialIds = {1, 2}
  Calls = {h1, h2}
  NoRunner = 0
INVARIANTS
  RevokedClaimsNothing
CHECK_DEADLOCK FALSE
