SPECIFICATION Spec
CONSTANTS
  i1 = i1
  i2 = i2
  q1 = q1
  e1 = e1
  c1 = c1
  c2 = c2
  c3 = c3
  a1 = a1
  a2 = a2
  a3 = a3
  Invoice = {i1, i2}
  Quote = {q1}
  Expense = {e1}
  Client = {c1, c2, c3}
  Activity = {a1, a2, a3}
  Owner <- MCOwner
  Starts <- MCStarts
  Papers <- MCPapers
  Unknown = Unknown
  PageLimit = 2
  ActivityLimit = 1
  MaxActivityClients = 1
  MaxChanges = 1
INVARIANTS CompleteBriefMissesNothing TotalsAreNotCoerced DiscountIsShared
CHECK_DEADLOCK FALSE
