SPECIFICATION Spec
SYMMETRY PidSymmetry
CONSTANTS
  a = a
  b = b
  c = c
  MaxProcs = 3
  Pids = {a, b, c}
  BIGINDEX = 1
  Notify = TRUE
  MaxPipe = 3
  Exits = {"PNEXITED"}
  HookAt = {}
  FgFinished = FALSE
  ForkFails = FALSE
  ForkIO = FALSE
  LongLines = FALSE
  Recycle = TRUE
  NotifyBuiltin = FALSE
  OutsideSignals = FALSE
INVARIANTS
  NeverFlushedTwice
