\* The Durable Object alone, with callers that send anything.
SPECIFICATION FairStoreSpec
CONSTANTS
  h1 = h1
  h2 = h2
  h3 = h3
  h4 = h4
  g0 = g0
  None = None
  Callback = {h1, h2, h3, h4}
  Grant = {g0}
  StateTTL = 5
  LeaseTTL = 1
  ArmMinRemaining = 1
  MaxAttempts = 3
  ReconcileHorizon = 3
  RetryDelays = {1, 2}
  MaxNow = 10
CHECK_DEADLOCK FALSE
INVARIANTS
  StoredRecordIsReadable
  ArmedLeaseIsAlone
  WorkHasAlarm
PROPERTIES
  CommitIsFinal
  StateIsCleared
