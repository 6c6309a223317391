SPECIFICATION FairSpec
CONSTANTS
  n1 = n1
  n2 = n2
  t1 = t1
  t2 = t2
  Runner <- Two
  Task <- Tasks
  Legacy <- None
  Immortal <- Survivor
  TTL = 1
  SlowClaims = FALSE
  MaxFaults = 1
INVARIANT RunningIsLeased
PROPERTY EveryTaskEnds
