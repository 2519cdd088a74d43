SPECIFICATION FairSpec
CONSTANTS
  Calls = {c1, c2, c3}
  Concurrency = 2
  MaxAttempts = 2
  Capped = TRUE
  MaxCost = 2
  Estimate = 1
  Prices = {1}
  LatePrices = {0}
  Overrun = 0
  InterruptAfter = 2
  MaxInvocations = 2
INVARIANTS
  FatalNeverReturns
PROPERTIES
  BankedFinal
  HaltStopsReserving
  CheckpointKept
  InvocationEnds
CHECK_DEADLOCK FALSE
