SPECIFICATION LiveSpec
CONSTANTS
  Call = {c1, c2}
  CallerKey = {k1}
  FreshKey = {f1, f2}
  NoKey = NoKey
  BlankKey = BlankKey
  MaxRetries = 2
  DefaultDelay = 1
  DefaultBudget = 2
  BudgetOption = 8
  NoBudget = NoBudget
  MaxTimer = 2
  MaxSafe = 7
  Seconds = {1, 8}
  Proxied = FALSE
  EarlyLimited = {c1}
INVARIANTS IntentExecutesOnce ServerWaitIsHonored OutcomeIsHonest
PROPERTIES EveryCallEnds ImplementsOneCall
CHECK_DEADLOCK FALSE
