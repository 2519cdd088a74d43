SPECIFICATION GracefulSpec
CONSTANTS
  Calls = {c1, c2, c3}
  Concurrency = 2
  MaxAttempts = 2
  Capped = FALSE
  MaxCost = 0
  Estimate = 1
  Prices = {1}
  LatePrices = {0}
  Overrun = 0
  InterruptAfter = 2
  MaxInvocations = 3
SYMMETRY Symmetry
INVARIANTS
  NoDuplicateSpend
CHECK_DEADLOCK FALSE
