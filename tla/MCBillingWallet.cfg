SPECIFICATION Spec
CONSTANTS
  r1 = r1
  r2 = r2
  Request <- Both
  Estimates = {0, 1, 2}
  Actuals = {0, 3}
  Preference <- WalletOnly
  Playground <- None
  ForcePreConsume <- Second
  Realtime <- None
  UnlimitedToken = FALSE
  HasSubscription = FALSE
  AllowOverflow = FALSE
  AmountTotal = 0
  WalletInit = 3
  TokenInit = 3
  TrustQuota = 2
  FeeQuota = 3
  RetryTimes = 1
  Groups = 1
  CrossGroupRetry = FALSE
  MaxFaults = 1
  MaxTorn = 0
  MaxTurns = 0
CHECK_DEADLOCK FALSE
INVARIANTS TypeOK NoOverRefund SettledAtCost
INVARIANTS FailureCostsNothing WalletDebtExplained TokenDebtExplained
PROPERTY ClosedIsFinal
