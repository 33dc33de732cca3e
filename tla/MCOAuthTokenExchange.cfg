\* Three exchanges, chained or replaying one another, and one held back, of one grant.
SPECIFICATION PauseSpec
CONSTANTS
  Held = {h1}
  r1 = r1
  r2 = r2
  r3 = r3
  Code = Code
  None = None
  Request = {r1, r2, r3}
  Credential <- MCCredential
  GrantExpiry = 3
  FamilyTTL = 3
  InflightTTL = 1
  SupersedeTTL = 4
  RetryDelays = {1}
  MaxNow = 3
SYMMETRY ExchangeSymmetry
CHECK_DEADLOCK FALSE
INVARIANTS
  SingleUse
  ReplayRevokes
  RevokedKeyIsDisabled
  PauseHidesNoReplay
