SPECIFICATION FairSpec
CONSTANTS
  p1 = p1
  p2 = p2
  f1 = f1
  f2 = f2
  Poller <- Two
  Fetcher <- TwoUsers
  Quotas <- OneQuota
  Actuals <- SomeActuals
  Legacy = FALSE
  Sweeps = TRUE
  ChannelFails = TRUE
  MaxFaults = 0
  MaxCrashes = 0
  MaxQueries = 2
INVARIANT NeverOvercharged
PROPERTY EveryTaskEnds
CHECK_DEADLOCK FALSE
