SPECIFICATION FairSpec
CONSTANTS
  r1 = r1
  r2 = r2
  Request <- First
  Estimates = {1, 2, 3}
  Actuals = {0, 3}
  Preference <- EachFirst
  Playground <- None
  ForcePreConsume <- None
  Realtime <- None
  UnlimitedToken = FALSE
  HasSubscription = TRUE
  AllowOverflow = FALSE
  AmountTotal = 2
  WalletInit = 0
  TokenInit = 4
  TrustQuota = 0
  FeeQuota = 1
  RetryTimes = 1
  Groups = 2
  CrossGroupRetry = TRUE
  MaxFaults = 3
  MaxTorn = 1
  MaxTurns = 0
CHECK_DEADLOCK FALSE
PROPERTY EveryRequestEnds
