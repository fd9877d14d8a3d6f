SPECIFICATION Spec
CONSTANTS
  Working = {"editor", "keys", "complete", "rules", "commands"}
  INBUFSIZE = 10
  MaxKeys = 3
  MAXMACROLEVELS = 2
  MaxMade = 3
  MaxOps = 2
  MaxTurns = 3
  MaxChanges = 2
INVARIANTS
  Completes
  FirstRule
  OffersWhatIsThere
PROPERTIES
  UndoWorks
  LineKept
  KeysDo
CHECK_DEADLOCK FALSE
