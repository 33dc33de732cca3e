\* Three exchanges of one grant, nobody held back, and a clock that runs past the
\* grant's expiry while the family of a grant without one is still stored.
SPECIFICATION PauseSpec
CONSTANTS
  Held = {}
  r1 = r1
  r2 = r2
  r3 = r3
  Code = Code
  None = None
  Request = {r1, r2, r3}
  Credential <- MCCredential
  GrantExpiry = 2
  FamilyTTL = 3
  InflightTTL = 1
  SupersedeTTL = 4
  RetryDelays = {1}
  MaxNow = 4
SYMMETRY ExchangeSymmetry
CHECK_DEADLOCK FALSE
PROPERTY ImplementsTokenChain
