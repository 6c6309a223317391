SPECIFICATION Spec
CONSTANTS
  Proc = {p1, p2}
  TTL = 2
  MaxTime = 4
  MaxVersion = 2
  MaxFaults = 1
INVARIANTS
  TypeOK
  NoResurrection
  StaleIsBounded
SYMMETRY Symmetry
