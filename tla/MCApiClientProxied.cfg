SPECIFICATION Spec
CONSTANTS
  Call = {c1}
  CallerKey = {k1}
  FreshKey = {f1, f2}
  NoKey = NoKey
  BlankKey = BlankKey
  MaxRetries = 2
  DefaultDelay = 1
  DefaultBudget = 4
  BudgetOption = NoBudget
  NoBudget = NoBudget
  MaxTimer = 6
  MaxSafe = 9
  Seconds = {2, 7, 10}
  Proxied = TRUE
  EarlyLimited = {c1}
INVARIANT ServerWaitIsHonored
CHECK_DEADLOCK FALSE
