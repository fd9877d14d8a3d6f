SPECIFICATION Spec
SYMMETRY PidSymmetry
CONSTANTS
  a = a
  b = b
  c = c
  MaxProcs = 3
  Pids = {a, b, c}
  BIGINDEX = 2
  Notify = FALSE
  MaxPipe = 2
  Exits = {"PNEXITED"}
  HookAt = {}
  FgFinished = FALSE
  ForkFails = FALSE
  ForkIO = FALSE
  LongLines = TRUE
  Recycle = TRUE
  NotifyBuiltin = FALSE
  OutsideSignals = FALSE
INVARIANTS
  TypeOK
  NeverHung
  CurrentPrevious
  NeverForgotten
