\* The playground: up to three generations, answers of two chunks, and one editor
\* or deletion; the bounds stop the behaviour, not the program.
SPECIFICATION Spec
CONSTANTS
  MaxGen = 3
  MaxChunks = 2
  MaxStored = 3
  MaxChanges = 1
INVARIANTS
  TypeOK
  AnswerIsFaithful
  DoneIsWhole
  PendingIsLive
  SavedIsShown
PROPERTIES
  FinalStands
CHECK_DEADLOCK FALSE
