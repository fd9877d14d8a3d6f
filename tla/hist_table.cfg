SPECIFICATION Spec
SYMMETRY Symmetry
CONSTANTS
  x = x
  y = y
  z = z
  Words = {x, y, z}
  HashOf <- MCHashOf
  MinTableLog = 4
  MaxTableLog = 7
  Modes = {"", "erase", "all"}
  Lengths = {1, 3}
  MaxHist = 4
  MaxEvents = 4
  MaxTime = 1
  MaxDummies = 1
  Loads = {"load"}
INVARIANTS
  TableMatchesList
PROPERTIES
  NoNewDuplicates
