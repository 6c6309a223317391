SPECIFICATION Spec
CONSTANTS
  r1 = r1
  r2 = r2
  Request <- Both
  Estimates = {0, 2}
  Actuals = {1, 3}
  Preference <- EachFirst
  Playground <- Second
  ForcePreConsume <- None
  Realtime <- First
  UnlimitedToken = FALSE
  HasSubscription = TRUE
  AllowOverflow = TRUE
  AmountTotal = 3
  WalletInit = 2
  TokenInit = 3
  TrustQuota = 0
  FeeQuota = 0
  RetryTimes = 1
  Groups = 2
  CrossGroupRetry = TRUE
  MaxFaults = 1
  MaxTorn = 0
  MaxTurns = 1
CHECK_DEADLOCK FALSE
INVARIANT SubscriptionReconciles
PROPERTIES KeepsPromise EveryStepCounts
