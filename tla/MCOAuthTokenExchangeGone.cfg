\* Does the cleanup of a tombstoned family leave no grant behind?
SPECIFICATION PauseSpec
CONSTANTS
  Held = {}
  r1 = r1
  Code = Code
  None = None
  Request = {r1}
  Credential <- MCCredential
  GrantExpiry = 3
  FamilyTTL = 3
  InflightTTL = 1
  SupersedeTTL = 4
  RetryDelays = {1}
  MaxNow = 3
CHECK_DEADLOCK FALSE
INVARIANT RevokedGrantIsGone
