SPECIFICATION Spec
SYMMETRY Symmetry
CONSTANTS
  x = x
  y = y
  z = z
  Words = {x, y}
  HashOf <- MCHashOf
  MinTableLog = 4
  MaxTableLog = 7
  Modes = {"", "erase", "all", "prev"}
  Lengths = {2, 3}
  MaxHist = 4
  MaxEvents = 4
  MaxTime = 2
  MaxDummies = 0
  Loads = {"merge"}
INVARIANTS
  EventsInOrder
PROPERTIES
  RecentKept
  MergedOnce
