SPECIFICATION FairSpec
CONSTANTS
  a = a
  b = b
  MaxProcs = 2
  Pids = {a, b}
  BIGINDEX = 1
  Notify = FALSE
  MaxPipe = 2
  Exits = {"PNEXITED"}
  HookAt = {}
  FgFinished = FALSE
  ForkFails = FALSE
  ForkIO = FALSE
  LongLines = TRUE
  Recycle = TRUE
  NotifyBuiltin = FALSE
  OutsideSignals = FALSE
PROPERTIES
  WaitReturns
  EventuallyFlushed
