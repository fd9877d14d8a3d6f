SPECIFICATION Spec
SYMMETRY PidSymmetry
CONSTANTS
  a = a
  b = b
  MaxProcs = 2
  Pids = {a, b}
  BIGINDEX = 1
  Notify = TRUE
  MaxPipe = 2
  Exits = {"PNEXITED", "PSIGNALED", "PINTERRUPTED"}
  HookAt = {"fork"}
  FgFinished = FALSE
  ForkFails = TRUE
  ForkIO = TRUE
  LongLines = TRUE
  Recycle = TRUE
  NotifyBuiltin = TRUE
  OutsideSignals = TRUE
INVARIANTS
  RunningExists
  WaitsForForeground
CHECK_DEADLOCK FALSE
