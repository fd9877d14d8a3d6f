SPECIFICATION Spec
CONSTANTS
  Working = {"interp", "script", "exp", "watch", "checks"}
  MaxLevel = 2
  MaxLines = 2
  MaxIntr = 2
  MaxDirs = 4
  MaxJobs = 1
  MaxSteps = 3
  MaxFiles = 2
  MaxClock = 7
  MaxEvents = 2
  MaxWatch = 2
  MaxChecks = 4
  W = 4
  Bracketed = {6, 8}
INVARIANTS
  ErrorsUnwind
  OutputGoes
  RunsAsNested
  LikeC
PROPERTIES
  ToldChanges
CHECK_DEADLOCK FALSE
