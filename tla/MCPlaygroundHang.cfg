\* One request, and a user who only waits.
SPECIFICATION FairSpec
CONSTANTS
  MaxGen = 2
  MaxChunks = 1
  MaxStored = 2
  MaxChanges = 0
PROPERTIES
  RequestsEnd
CHECK_DEADLOCK FALSE
