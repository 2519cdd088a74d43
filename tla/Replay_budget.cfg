SPECIFICATION Spec
CONSTANTS
  Calls = {c1, c2, c3}
  Concurrency = 2
  MaxAttempts = 2
  Capped = TRUE
  MaxCost = 3
  Estimate = 1
  Prices = {1, 2}
  LatePrices = {2}
  Overrun = 1
  InterruptAfter = 0
  MaxInvocations = 2
SYMMETRY Symmetry
INVARIANTS
  TypeOK
  SpendBounded
  ReservedMatchesHolding
  CleanReturnCovers
  SpentMatchesTable
  BillBounded
CHECK_DEADLOCK FALSE
