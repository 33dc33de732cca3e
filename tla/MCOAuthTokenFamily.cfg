\* The family's Durable Object alone, with callers that send anything.
SPECIFICATION FairFamilySpec
CONSTANTS
  r1 = r1
  r2 = r2
  code = code
  t1 = t1
  t2 = t2
  None = None
  Request = {r1, r2}
  Credential = {code, t1, t2}
  GrantExpiry = 4
  FamilyTTL = 4
  InflightTTL = 1
  SupersedeTTL = 5
  RetryDelays = {1, 2}
  MaxNow = 6
INVARIANT CleanupHasAlarm
PROPERTIES
  RevokedUntilExpiry
  CleanupCompletes
