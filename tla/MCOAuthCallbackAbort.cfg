\* #221 M1: does the release of an aborted commit save the prior grant?
SPECIFICATION Spec
CONSTANTS
  h1 = h1
  g0 = g0
  None = None
  Callback = {h1}
  PriorGrant = {g0}
  Grant <- MCGrant
  StateTTL = 3
  LeaseTTL = 1
  ArmMinRemaining = 1
  MaxAttempts = 2
  ReconcileHorizon = 2
  MaxReplaced = 2
  RetryDelays = {1}
  MaxNow = 5
CHECK_DEADLOCK FALSE
INVARIANT PriorGrantSurvivesAbort
