SPECIFICATION Spec
CONSTANTS
  n1 = n1
  n2 = n2
  t1 = t1
  t2 = t2
  Runner <- Two
  Task <- Tasks
  Legacy <- OldRow
  Immortal <- None
  TTL = 1
  SlowClaims = TRUE
  MaxFaults = 1
SYMMETRY Symmetry
CHECK_DEADLOCK FALSE
INVARIANTS TypeOK LeaseIsExclusive ExecutedOnce
PROPERTY VerdictIsFinal
