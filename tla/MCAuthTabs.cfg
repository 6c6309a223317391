SPECIFICATION FairSpec
CONSTANTS
  Tabs = {t1, t2}
  MaxSessions = 2
  MaxUpsets = 1
INVARIANTS
  TypeOK
  CookieStaysUsable
PROPERTIES
  SwitchOnlyByLogin
  NotForcedOut
  RefreshSettles
  StaleShowsEnd
