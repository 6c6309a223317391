SPECIFICATION Spec
CONSTANTS
  p1 = p1
  p2 = p2
  f1 = f1
  f2 = f2
  Poller <- One
  Fetcher <- User
  Quotas <- SomeQuotas
  Actuals <- SomeActuals
  Legacy = FALSE
  Sweeps = TRUE
  ChannelFails = FALSE
  MaxFaults = 0
  MaxCrashes = 0
  MaxQueries = 2
INVARIANT RefundedOnce
CHECK_DEADLOCK FALSE
