SPECIFICATION Spec
CONSTANTS
  p1 = p1
  p2 = p2
  f1 = f1
  f2 = f2
  Poller <- Two
  Fetcher <- None
  Quotas <- SomeQuotas
  Actuals <- SomeActuals
  Legacy = FALSE
  Sweeps = TRUE
  ChannelFails = FALSE
  MaxFaults = 2
  MaxCrashes = 2
  MaxQueries = 0
INVARIANTS
  TypeOK
  FailureIsRefunded
  SuccessIsPaid
  MarkerIsRight
PROPERTIES
  FinalStands
  ChargedOnce
CHECK_DEADLOCK FALSE
