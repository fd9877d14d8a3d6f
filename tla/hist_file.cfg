SPECIFICATION FairSpec
CONSTANTS
  Shells = {sh1, sh2}
  Cookies = {c1, c2}
  MaxTries = 2
  Lines = {l1, l2}
  MaxSaves = 2
INVARIANTS
  MutualExclusion
  NoStaleLock
PROPERTIES
  SavedStays
  EverySaveEnds
CHECK_DEADLOCK FALSE
