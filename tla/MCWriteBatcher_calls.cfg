SPECIFICATION PartSpec
CONSTANTS
  f1 = f1
  Keys <- TwoKeys
  Calls <- FourCalls
  Flushers <- OneFlusher
  MaxBatchSize = 2
  MaxBufferSize = 2
  Coalesce = TRUE
  HandlerMayFail = TRUE
  ClearWhen = "idle"
  None = None  Seed = Seed  Background = Background
INVARIANT PromiseAccounting
INVARIANT LastWriteWins
PROPERTY FlushBarrier
PROPERTY CallsAnswered
\* The callers are finite: when they are done, nothing is left to do.
CHECK_DEADLOCK FALSE
