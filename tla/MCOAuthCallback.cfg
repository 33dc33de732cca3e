SPECIFICATION Spec
CONSTANTS
  h1 = h1
  h2 = h2
  g0 = g0
  None = None
  Callback = {h1, h2}
  PriorGrant = {g0}
  Grant <- MCGrant
  StateTTL = 3
  LeaseTTL = 1
  ArmMinRemaining = 1
  MaxAttempts = 2
  ReconcileHorizon = 2
  MaxReplaced = 2
  RetryDelays = {1}
  MaxNow = 6
SYMMETRY CallbackSymmetry
CHECK_DEADLOCK FALSE
INVARIANTS
  OneLiveCredential
  NoUntrackedCredential
  CodeIsUsable
  PriorGrantsWaitForCommit
PROPERTIES
  OutboxKeepsUnacknowledged
  ImplementsOneShot
